---------------------------- MODULE EthereumChain ----------------------------
(* What the value Scouts read: a chain that grows while they read it, seen    *)
(* through several RPC endpoints, each with its own head.  A block's state    *)
(* stays what it was when the block was mined (no reorganisation).            *)
EXTENDS Integers, Sequences, FiniteSetsExt

CONSTANTS
  Endpoints,   \* the comma-separated list of RPC URLs
  MaxBlocks    \* bound on the length of the chain

VARIABLES
  blocks,      \* the state of the protocol at each block
  head         \* the last block each endpoint knows

chainVars == <<blocks, head>>

ChainInit(states) ==
  /\ blocks \in {<<s>> : s \in states}
  /\ head = [e \in Endpoints |-> 1]

Mine(s) ==
  /\ Len(blocks) < MaxBlocks
  /\ blocks' = Append(blocks, s)
  /\ UNCHANGED head

Sync(e) ==
  /\ head[e] < Len(blocks)
  /\ head' = [head EXCEPT ![e] = @ + 1]
  /\ UNCHANGED blocks

\* _rpc tries the endpoints in order and goes on to the next after a
\* transport error or a retryable status: any endpoint may be the one that
\* answers, and perhaps none does.
LatestAnswers == {head[e] : e \in Endpoints}

\* An eth_call names the block of the scan.  An endpoint that does not know
\* it yet answers with an RPC error, which _rpc raises without trying the
\* next one.
CallLatest(block) == {blocks[head[e]] : e \in Endpoints}
CallAt(block) == {blocks[block] : e \in {f \in Endpoints : head[f] >= block}}

\* The getters of the contracts return at most count entries from start on.
Page(list, start, count) ==
  SubSeq(list, start + 1, Min({start + count, Len(list)}))
==============================================================================
