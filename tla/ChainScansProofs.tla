--------------------------- MODULE ChainScansProofs ---------------------------
(* What a value Scout lists was open at the block its report names, and a     *)
(* Liquity Scout lists all of it once: for any protocol states, branches,     *)
(* batch sizes, limits and endpoints, and however the chain moves.            *)
(*                                                                            *)
(* The invariant follows a scan.  Every call but the gas price answered for   *)
(* the scan's block, so the pages read so far are the beginning of the list   *)
(* at that block, what is still to be estimated is open there, and what was   *)
(* found is the rest of what is open, each once.  Blocks are never rewritten, *)
(* so what a report says stays true.                                          *)
EXTENDS ChainScans, SequenceTheorems, FiniteSetTheorems, TLAPS

------------------------------------------------------------------------------
(* Pages of a list, and lists of what was found.                              *)

\* A list read from its beginning, but perhaps not to its end.
Begins(part, list) ==
  /\ Len(part) <= Len(list)
  /\ \A i \in 1 .. Len(part) : part[i] = list[i]

\* A sequence of records that names each member of S once and nothing else.
ListsOnce(found, field, S) ==
  /\ found \in Seq(Range(found))
  /\ \A k \in DOMAIN found : found[k][field] \in S
  /\ \A name \in S : \E k \in DOMAIN found : found[k][field] = name
  /\ \A k, l \in DOMAIN found : found[k][field] = found[l][field] => k = l

\* The page a paging Scout asks for after part, and the count it names.
IsNextPage(page, count, part, list, batch, limit) ==
  /\ count = Min({batch, limit - Len(part)})
  /\ page = Page(list, Len(part), count)

\* Where the paging ends.
PagingEnd(list, limit) == Min({limit, Len(list)})

LEMMA MinOfTwo ==
  ASSUME NEW a \in Int, NEW b \in Int
  PROVE  /\ Min({a, b}) \in Int /\ Min({a, b}) <= a /\ Min({a, b}) <= b
         /\ Min({a, b}) = a \/ Min({a, b}) = b
<1>1. \E x \in {a, b} : \A y \in {a, b} : x <= y
  <2>1. a <= b \/ b <= a
    OBVIOUS
  <2> QED BY <2>1
<1>2. Min({a, b}) \in {a, b} /\ \A y \in {a, b} : Min({a, b}) <= y
  BY <1>1 DEF Min
<1> QED BY <1>2

LEMMA PartOfList ==
  ASSUME NEW S, NEW list \in Seq(S), NEW start \in Nat, NEW last \in Nat,
         start <= last, last <= Len(list)
  PROVE  /\ SubSeq(list, start + 1, last) \in Seq(S)
         /\ Len(SubSeq(list, start + 1, last)) = last - start
         /\ \A i \in 1 .. last - start :
              SubSeq(list, start + 1, last)[i] = list[start + i]
<1> DEFINE part == SubSeq(list, start + 1, last)
<1>1. part = [i \in 1 .. (last - start) |-> list[i + start]]
  OBVIOUS
<1>2. part \in Seq(S) /\ Len(part) = last - start
  OBVIOUS
<1> HIDE DEF part
<1>3. \A i \in 1 .. last - start : part[i] = list[start + i]
  BY <1>1
<1> QED BY <1>2, <1>3 DEF part

\* The next page goes on where the last one ended; the paging stops at the end
\* of the list or at the limit, whichever comes first.
LEMMA PageGoesOn ==
  ASSUME NEW S, NEW list \in Seq(S), NEW part \in Seq(S), Begins(part, list),
         NEW batch \in Nat \ {0}, NEW limit \in Nat, Len(part) < limit,
         NEW count, NEW page, IsNextPage(page, count, part, list, batch, limit)
  PROVE  /\ part \o page \in Seq(S) /\ Begins(part \o page, list)
         /\ Len(page) < count \/ Len(part \o page) >= limit =>
              Len(part \o page) = PagingEnd(list, limit)
         /\ ~(Len(page) < count \/ Len(part \o page) >= limit) =>
              Len(part \o page) < limit
<1>1. /\ count \in Nat /\ count <= limit - Len(part) /\ count >= 1
      /\ Len(part) \in Nat /\ Len(list) \in Nat /\ Len(part) <= Len(list)
  <2>1. batch \in Int /\ limit - Len(part) \in Int /\ limit - Len(part) >= 1
    OBVIOUS
  <2>2. /\ count \in Int /\ count <= batch /\ count <= limit - Len(part)
        /\ count = batch \/ count = limit - Len(part)
    BY <2>1, MinOfTwo DEF IsNextPage
  <2>3. Len(part) \in Nat /\ Len(list) \in Nat /\ Len(part) <= Len(list)
    BY DEF Begins
  <2> QED BY <2>1, <2>2, <2>3
<1> DEFINE start == Len(part)
           last == Min({start + count, Len(list)})
<1>2. /\ last \in Nat /\ start <= last /\ last <= Len(list)
      /\ last <= start + count
      /\ last = start + count \/ last = Len(list)
  <2>1. start + count \in Int /\ Len(list) \in Int
    BY <1>1
  <2>2. /\ last \in Int /\ last <= start + count /\ last <= Len(list)
        /\ last = start + count \/ last = Len(list)
    BY <2>1, MinOfTwo
  <2> HIDE DEF last
  <2> QED BY <1>1, <2>2
<1>3. page = SubSeq(list, start + 1, last)
  BY DEF IsNextPage, Page
<1> HIDE DEF last
<1>4. /\ page \in Seq(S) /\ Len(page) = last - start /\ Len(page) \in Nat
      /\ Len(part) + Len(page) = last
      /\ \A i \in 1 .. Len(page) : page[i] = list[Len(part) + i]
  <2>1. start \in Nat
    BY <1>1
  <2> HIDE DEF start
  <2> DEFINE next == SubSeq(list, start + 1, last)
  <2>4. /\ next \in Seq(S) /\ Len(next) = last - start
        /\ \A i \in 1 .. last - start : next[i] = list[start + i]
    BY <1>2, <2>1, PartOfList
  <2> HIDE DEF next
  <2>5. page = next
    BY <1>3 DEF next
  <2>2. /\ page \in Seq(S) /\ Len(page) = last - start
        /\ \A i \in 1 .. last - start : page[i] = list[start + i]
    BY <2>4, <2>5
  <2>3. Len(page) \in Nat /\ start + Len(page) = last
    BY <1>2, <2>1, <2>2
  <2> QED BY <2>2, <2>3 DEF start
<1>5. part \o page \in Seq(S) /\ Len(part \o page) = Len(part) + Len(page)
  <2>1. part \in Seq(S) /\ page \in Seq(S)
    BY <1>4
  <2> QED BY <2>1, ConcatProperties
<1>6. Begins(part \o page, list)
  <2>1. ASSUME NEW i \in 1 .. Len(part \o page)
        PROVE  (part \o page)[i] = list[i]
    <3>1. CASE i <= Len(part)
      BY <1>1, <1>4, <1>5, <3>1 DEF Begins
    <3>2. CASE i > Len(part)
      <4>1. /\ i - Len(part) \in 1 .. Len(page)
            /\ Len(part) + (i - Len(part)) = i
        BY <1>1, <1>4, <1>5, <3>2
      <4>2. (part \o page)[i] = page[i - Len(part)]
        BY <1>1, <1>4, <1>5, <3>2
      <4> QED BY <1>4, <4>1, <4>2
    <3> QED BY <1>1, <3>1, <3>2
  <2> QED BY <1>2, <1>4, <1>5, <2>1 DEF Begins
<1>7. /\ Min({limit, Len(list)}) <= limit /\ Min({limit, Len(list)}) <= Len(list)
      /\ Min({limit, Len(list)}) = limit \/ Min({limit, Len(list)}) = Len(list)
      /\ Min({limit, Len(list)}) \in Int
  <2>1. limit \in Int /\ Len(list) \in Int
    BY <1>1
  <2> QED BY <2>1, MinOfTwo
<1> DEFINE all == part \o page
           end == Min({limit, Len(list)})
<1>8. /\ all \in Seq(S) /\ Begins(all, list) /\ Len(all) = Len(part) + Len(page)
      /\ end <= limit /\ end <= Len(list)
      /\ end = limit \/ end = Len(list)
  BY <1>5, <1>6, <1>7
<1> HIDE DEF all, end
<1>9. /\ Len(page) < count \/ Len(all) >= limit => Len(all) = end
      /\ ~(Len(page) < count \/ Len(all) >= limit) => Len(all) < limit
  <2>1. /\ Len(all) \in Nat /\ Len(all) <= limit /\ Len(all) <= Len(list)
        /\ Len(page) < count => Len(all) = Len(list)
    BY <1>1, <1>2, <1>4, <1>8
  <2>2. CASE Len(page) < count
    <3>1. Len(all) = Len(list)
      BY <2>1, <2>2
    <3> QED BY <1>8, <2>1, <2>2, <3>1
  <2>3. CASE Len(all) >= limit
    <3>1. Len(all) = limit /\ limit <= Len(list)
      BY <1>1, <2>1, <2>3
    <3>2. end = limit /\ Len(all) = end
      <4>1. CASE end = limit
        BY <3>1, <4>1
      <4>2. CASE end = Len(list)
        <5>1. limit <= end /\ end <= limit /\ end \in Nat
          BY <1>1, <1>8, <3>1, <4>2
        <5> QED BY <3>1, <5>1
      <4> QED BY <1>8, <4>1, <4>2
    <3> QED BY <2>1, <3>1, <3>2
  <2> QED BY <2>1, <2>2, <2>3
<1> QED BY <1>8, <1>9 DEF all, end, PagingEnd

LEMMA NothingListed ==
  ASSUME NEW field PROVE ListsOnce(<< >>, field, {})
BY DEF ListsOnce

LEMMA ListsOneMore ==
  ASSUME NEW found, NEW field, NEW S, ListsOnce(found, field, S), NEW x,
         x[field] \notin S
  PROVE  ListsOnce(Append(found, x), field, S \cup {x[field]})
<1> DEFINE longer == Append(found, x)
<1>1. found \in Seq(Range(found) \cup {x}) /\ Len(found) \in Nat
      /\ DOMAIN found = 1 .. Len(found)
  BY SeqMonotonic DEF ListsOnce
<1>2. /\ longer \in Seq(Range(found) \cup {x}) /\ Len(longer) = Len(found) + 1
      /\ DOMAIN longer = 1 .. Len(found) + 1
      /\ \A k \in DOMAIN found : longer[k] = found[k]
      /\ longer[Len(found) + 1] = x
  BY <1>1, AppendProperties
<1> HIDE DEF longer
<1>3. longer \in Seq(Range(longer))
  BY <1>2, SeqOfRange
<1>4. \A k \in DOMAIN longer : \/ k \in DOMAIN found
                               \/ k = Len(found) + 1 /\ longer[k] = x
  BY <1>1, <1>2
<1>5. \A k \in DOMAIN longer : longer[k][field] \in S \cup {x[field]}
  BY <1>2, <1>4 DEF ListsOnce
<1>6. \A name \in S \cup {x[field]} : \E k \in DOMAIN longer : longer[k][field] = name
  <2>1. Len(found) + 1 \in DOMAIN longer /\ DOMAIN found \subseteq DOMAIN longer
    BY <1>1, <1>2
  <2> QED BY <1>2, <2>1 DEF ListsOnce
<1>7. \A k, l \in DOMAIN longer : longer[k][field] = longer[l][field] => k = l
  BY <1>2, <1>4 DEF ListsOnce
<1>8. ListsOnce(longer, field, S \cup {x[field]})
  BY <1>3, <1>5, <1>6, <1>7 DEF ListsOnce
<1> QED BY <1>8 DEF longer

\* Sorting only changes the order.
LEMMA ListsOnceSorted ==
  ASSUME NEW found, NEW field, NEW S, ListsOnce(found, field, S),
         NEW p \in Bijection(DOMAIN found, DOMAIN found)
  PROVE  ListsOnce([i \in DOMAIN found |-> found[p[i]]], field, S)
<1> DEFINE sorted == [i \in DOMAIN found |-> found[p[i]]]
<1>1. /\ p \in [DOMAIN found -> DOMAIN found]
      /\ \A a, b \in DOMAIN found : p[a] = p[b] => a = b
      /\ \A t \in DOMAIN found : \E s \in DOMAIN found : p[s] = t
  BY DEF Bijection, Injection, Surjection, IsInjective
<1>2. DOMAIN sorted = DOMAIN found /\ \A i \in DOMAIN found : sorted[i] = found[p[i]]
  OBVIOUS
<1>3. sorted \in Seq(Range(found))
  <2>1. DOMAIN found = 1 .. Len(found) /\ Len(found) \in Nat
    BY DEF ListsOnce
  <2>2. \A i \in DOMAIN found : found[p[i]] \in Range(found)
    BY <1>1 DEF Range
  <2> QED BY <2>1, <2>2
<1> HIDE DEF sorted
<1>4. sorted \in Seq(Range(sorted))
  BY <1>3, SeqOfRange
<1>5. ListsOnce(sorted, field, S)
  <2>1. \A k \in DOMAIN sorted : sorted[k][field] \in S
    BY <1>1, <1>2 DEF ListsOnce
  <2>2. ASSUME NEW name \in S
        PROVE  \E k \in DOMAIN sorted : sorted[k][field] = name
    <3>1. PICK l \in DOMAIN found : found[l][field] = name
      BY DEF ListsOnce
    <3>2. PICK k \in DOMAIN found : p[k] = l
      BY <1>1
    <3> QED BY <1>2, <3>1, <3>2
  <2>3. ASSUME NEW k \in DOMAIN sorted, NEW l \in DOMAIN sorted,
               sorted[k][field] = sorted[l][field]
        PROVE  k = l
    <3>1. p[k] \in DOMAIN found /\ p[l] \in DOMAIN found
          /\ found[p[k]][field] = found[p[l]][field]
      BY <1>1, <1>2, <2>3
    <3>2. p[k] = p[l]
      BY <3>1 DEF ListsOnce
    <3> QED BY <1>1, <1>2, <3>2
  <2> QED BY <1>4, <2>1, <2>2, <2>3 DEF ListsOnce
<1> QED BY <1>5 DEF sorted

LEMMA ListedCounted ==
  ASSUME NEW found, NEW field, NEW S, ListsOnce(found, field, S)
  PROVE  /\ {found[k][field] : k \in DOMAIN found} = S
         /\ Cardinality(S) = Len(found)
<1> DEFINE name == [k \in 1 .. Len(found) |-> found[k][field]]
<1>1. DOMAIN found = 1 .. Len(found) /\ Len(found) \in Nat
  BY DEF ListsOnce
<1>2. name \in Bijection(1 .. Len(found), S)
  <2>1. /\ name \in [1 .. Len(found) -> S]
        /\ \A a, b \in 1 .. Len(found) : name[a] = name[b] => a = b
        /\ \A t \in S : \E k \in 1 .. Len(found) : name[k] = t
    BY <1>1 DEF ListsOnce
  <2> HIDE DEF name
  <2> QED BY <2>1 DEF Bijection, Injection, Surjection, IsInjective
<1>3. ExistsBijection(1 .. Len(found), S)
  BY <1>2 DEF ExistsBijection
<1>4. /\ IsFiniteSet(1 .. Len(found))
      /\ Cardinality(1 .. Len(found)) = Len(found)
  <2> DEFINE n == Len(found)
  <2>1. 1 \in Int /\ n \in Int /\ n >= 0
    BY <1>1
  <2> HIDE DEF n
  <2>2. IsFiniteSet(1 .. n) /\ Cardinality(1 .. n) = IF 1 > n THEN 0 ELSE n - 1 + 1
    BY <2>1, FS_Interval
  <2>3. Cardinality(1 .. n) = n
    BY <2>1, <2>2
  <2> QED BY <2>2, <2>3 DEF n
<1>5. Cardinality(S) = Len(found)
  BY <1>3, <1>4, FS_Bijection
<1> QED BY <1>1, <1>5 DEF ListsOnce
------------------------------------------------------------------------------
(* The chain.                                                                 *)

ChainInv ==
  /\ scout \in DOMAIN StatesOf
  /\ blocks \in Seq(StatesOf[scout])
  /\ head \in [Endpoints -> 1 .. Len(blocks)]

\* A block, once mined, stays what it is.
ChainGrows ==
  /\ Len(blocks) \in Nat /\ Len(blocks') \in Nat /\ Len(blocks) <= Len(blocks')
  /\ \A b \in 1 .. Len(blocks) : blocks'[b] = blocks[b]

LEMMA ChainInvInit == Init => ChainInv
<1> SUFFICES ASSUME Init PROVE ChainInv
  OBVIOUS
<1>1. PICK s \in StatesOf[scout] : blocks = <<s>>
  BY DEF Init, ChainInit
<1>2. blocks \in Seq(StatesOf[scout]) /\ Len(blocks) = 1
  BY <1>1
<1> QED BY <1>2 DEF Init, ChainInit, ChainInv

LEMMA ChainInvStep ==
  ASSUME ChainInv, [Next]_<<scout, chainVars, ScoutVars>>
  PROVE  ChainInv' /\ ChainGrows
<1>0. Len(blocks) \in Nat
  BY DEF ChainInv
<1>1. CASE UNCHANGED <<scout, chainVars>>
  BY <1>0, <1>1 DEF ChainInv, ChainGrows, chainVars
<1>2. CASE ChainMoves
  <2>1. scout' = scout
    BY <1>2 DEF ChainMoves
  <2>2. ASSUME NEW s \in StatesOf[scout], Mine(s) PROVE ChainInv' /\ ChainGrows
    <3>1. /\ blocks' \in Seq(StatesOf[scout]) /\ Len(blocks') = Len(blocks) + 1
          /\ \A b \in 1 .. Len(blocks) : blocks'[b] = blocks[b]
      BY <1>0, <2>2 DEF ChainInv, Mine
    <3>2. head' \in [Endpoints -> 1 .. Len(blocks')]
      BY <1>0, <2>2, <3>1 DEF ChainInv, Mine
    <3> QED BY <1>0, <2>1, <3>1, <3>2 DEF ChainInv, ChainGrows
  <2>3. ASSUME NEW e \in Endpoints, Sync(e) PROVE ChainInv' /\ ChainGrows
    <3>1. blocks' = blocks /\ head' \in [Endpoints -> 1 .. Len(blocks)]
      BY <1>0, <2>3 DEF ChainInv, Sync
    <3> QED BY <1>0, <2>1, <3>1 DEF ChainInv, ChainGrows
  <2> QED BY <1>2, <2>2, <2>3 DEF ChainMoves
<1> QED BY <1>1, <1>2 DEF Next, ScanV1, ScanV2, ScanGravita

LEMMA LatestIsBlock ==
  ASSUME ChainInv, NEW b \in LatestAnswers PROVE b \in 1 .. Len(blocks)
BY DEF ChainInv, LatestAnswers

LEMMA BlockAnswers ==
  ASSUME NEW b, NEW s \in CallAt(b) PROVE s = blocks[b]
BY DEF CallAt

LEMMA BlockIsState ==
  ASSUME ChainInv, NEW b \in 1 .. Len(blocks) PROVE blocks[b] \in StatesOf[scout]
BY DEF ChainInv

------------------------------------------------------------------------------
(* Liquity v1.                                                                *)

V1Scan == blocks[v1block]

\* The Troves of a block a scan may read, and those of them that are open.
V1Near(s) == 1 .. PagingEnd(s.troves, V1MaxTroves)
V1Open(s) == {j \in V1Near(s) : V1TrueIcr(s, s.troves[j]) < V1Mcr}
V1Owners(s, places) == {s.troves[j].owner : j \in places}

V1Types ==
  /\ v1pc \in {"idle", "gasPrice", "price", "lEth", "lDebt", "troves", "estimate"}
  /\ v1pc # "idle" => v1block \in 1 .. Len(blocks)
  /\ v1read \in [gasPrice : Nat, price : Nat, lEth : Nat, lDebt : Nat]
  /\ v1troves \in Seq(V1Trove)

\* Values read stay those of the block once their call is over.
V1ReadsAgree ==
  /\ v1pc \in {"lEth", "lDebt", "troves", "estimate"} => v1read.price = V1Scan.price
  /\ v1pc \in {"lDebt", "troves", "estimate"} => v1read.lEth = V1Scan.lEth
  /\ v1pc \in {"troves", "estimate"} => v1read.lDebt = V1Scan.lDebt

V1PagesAgree ==
  /\ v1pc \in {"troves", "estimate"} => Begins(v1troves, V1Scan.troves)
  /\ v1pc = "troves" => Len(v1troves) < V1MaxTroves
  /\ v1pc = "estimate" => 1 .. Len(v1troves) = V1Near(V1Scan)
  /\ v1pc \notin {"troves", "estimate"} => v1troves = << >>

V1Progress ==
  /\ v1pc = "estimate" =>
       /\ v1todo \subseteq V1Open(V1Scan)
       /\ ListsOnce(v1found, "owner", V1Owners(V1Scan, V1Open(V1Scan) \ v1todo))
  /\ v1pc # "estimate" => v1todo = {} /\ v1found = << >>

\* The list of a report, in terms of the block it names.
V1Exact(report) ==
  report.status = "ok" =>
    /\ report.block \in 1 .. Len(blocks)
    /\ ListsOnce(report.opportunities, "owner",
                 V1Owners(blocks[report.block], V1Open(blocks[report.block])))

V1Inv == V1Types /\ V1ReadsAgree /\ V1PagesAgree /\ V1Progress /\ V1Exact(v1report)

LEMMA V1InvInit == V1Init => V1Inv
<1> SUFFICES ASSUME V1Init PROVE V1Inv
  OBVIOUS
<1>1. V1Types /\ V1ReadsAgree
  BY DEF V1Init, V1Types, V1ReadsAgree, NothingReadV1
<1>2. V1PagesAgree /\ V1Progress
  BY DEF V1Init, V1PagesAgree, V1Progress
<1>3. V1Exact(v1report)
  BY DEF V1Init, V1Exact, NoReportV1
<1> QED BY <1>1, <1>2, <1>3 DEF V1Inv

\* Whatever the chain does, a scan that makes no step keeps what it knows.
LEMMA V1Undisturbed ==
  ASSUME V1Inv, ChainGrows, UNCHANGED v1vars PROVE V1Inv'
<1>1. v1pc # "idle" => V1Scan' = V1Scan
  BY DEF V1Inv, V1Types, V1Scan, ChainGrows, v1vars
<1>2. V1Types'
  BY DEF V1Inv, V1Types, ChainGrows, v1vars
<1>3. V1ReadsAgree'
  BY <1>1 DEF V1Inv, V1ReadsAgree, v1vars
<1>4. V1PagesAgree'
  BY <1>1 DEF V1Inv, V1PagesAgree, v1vars, V1Near
<1>5. V1Progress'
  BY <1>1 DEF V1Inv, V1Progress, v1vars, V1Near, V1Open, V1Owners, V1TrueIcr, Gain
<1>6. V1Exact(v1report)'
  <2>1. CASE v1report.status = "ok"
    <3>1. /\ v1report' = v1report /\ v1report.block \in 1 .. Len(blocks)
          /\ v1report.block \in 1 .. Len(blocks')
          /\ blocks'[v1report.block] = blocks[v1report.block]
      BY <2>1 DEF V1Inv, V1Exact, ChainGrows, v1vars
    <3> QED BY <3>1 DEF V1Inv, V1Exact
  <2> QED BY <2>1 DEF V1Exact, v1vars
<1> QED BY <1>2, <1>3, <1>4, <1>5, <1>6 DEF V1Inv

LEMMA V1BlockIsState ==
  ASSUME ChainInv, scout = "v1", NEW b \in 1 .. Len(blocks)
  PROVE  /\ blocks[b] \in V1State
         /\ \A i, j \in DOMAIN blocks[b].troves :
              blocks[b].troves[i].owner = blocks[b].troves[j].owner => i = j
<1>1. blocks[b] \in V1States
  BY BlockIsState DEF StatesOf
<1> QED BY <1>1, V1StatesAssumption

\* With the values of the block at hand the scan's ratio is the contract's.
LEMMA IcrAgrees ==
  ASSUME NEW s, NEW t, v1read.price = s.price, v1read.lEth = s.lEth,
         v1read.lDebt = s.lDebt
  PROVE  EffectiveIcr(t) = V1TrueIcr(s, t)
BY DEF EffectiveIcr, EffectiveColl, EffectiveDebt, V1TrueIcr

LEMMA V1BlockNumberKeepsInv ==
  ASSUME ChainInv, V1Inv, V1BlockNumber, UNCHANGED chainVars PROVE V1Inv'
<1>1. v1block' \in 1 .. Len(blocks)
  BY LatestIsBlock DEF V1BlockNumber
<1>2. /\ v1pc = "idle" /\ v1pc' = "gasPrice" /\ v1report'.status # "ok"
      /\ UNCHANGED <<blocks, head, v1read, v1troves, v1todo, v1found>>
  BY DEF V1BlockNumber, chainVars, NoReportV1
<1>3. V1Types' /\ V1ReadsAgree'
  BY <1>1, <1>2 DEF V1Inv, V1Types, V1ReadsAgree
<1>4. V1PagesAgree' /\ V1Progress'
  BY <1>2 DEF V1Inv, V1PagesAgree, V1Progress
<1>5. V1Exact(v1report)'
  BY <1>2 DEF V1Exact
<1> QED BY <1>3, <1>4, <1>5 DEF V1Inv

\* A call that reads a scalar changes nothing else the invariant speaks of.
LEMMA V1ScalarRead ==
  ASSUME V1Inv, V1Scan.troves \in Seq(V1Trove),
         UNCHANGED <<blocks, v1block, v1troves, v1todo, v1found, v1report>>,
         v1pc \in {"gasPrice", "price", "lEth", "lDebt"},
         v1pc' \in {"price", "lEth", "lDebt", "troves"}
  PROVE  V1PagesAgree' /\ V1Progress' /\ V1Exact(v1report)'
<1>1. V1PagesAgree'
  <2>1. v1troves' = << >>
    BY DEF V1Inv, V1PagesAgree
  <2>2. Begins(v1troves', V1Scan'.troves)
    BY <2>1 DEF Begins, V1Scan
  <2> QED BY <2>1, <2>2, V1LimitsAssumption DEF V1PagesAgree
<1>2. V1Progress'
  BY DEF V1Inv, V1Progress
<1>3. V1Exact(v1report)'
  BY DEF V1Inv, V1Exact, V1Owners, V1Open, V1Near, V1TrueIcr, Gain
<1> QED BY <1>1, <1>2, <1>3

LEMMA V1GasPriceKeepsInv ==
  ASSUME ChainInv, scout = "v1", V1Inv, V1GasPrice, UNCHANGED chainVars
  PROVE  V1Inv'
<1>1. PICK b \in LatestAnswers :
        v1read' = [v1read EXCEPT !.gasPrice = blocks[b].gasPrice]
  BY DEF V1GasPrice
<1>2. blocks[b].gasPrice \in Nat
  BY LatestIsBlock, V1BlockIsState DEF V1State
<1>3. v1pc' = "price" /\ v1pc = "gasPrice"
      /\ UNCHANGED <<blocks, head, v1block, v1troves, v1todo, v1found, v1report>>
  BY DEF V1GasPrice, chainVars
<1>4. V1Types' /\ V1ReadsAgree'
  BY <1>1, <1>2, <1>3 DEF V1Inv, V1Types, V1ReadsAgree
<1>5. V1PagesAgree' /\ V1Progress' /\ V1Exact(v1report)'
  <2>1. V1Scan.troves \in Seq(V1Trove)
    BY <1>3, V1BlockIsState DEF V1Inv, V1Types, V1Scan, V1State
  <2> QED BY <1>3, <2>1, V1ScalarRead
<1> QED BY <1>4, <1>5 DEF V1Inv

LEMMA V1ScalarKeepsInv ==
  ASSUME ChainInv, scout = "v1", V1Inv, V1Price \/ V1LEth \/ V1LDebt,
         UNCHANGED chainVars
  PROVE  V1Inv'
<1> DEFINE quiet == UNCHANGED <<blocks, head, v1block, v1troves, v1todo,
                                v1found, v1report>>
<1>1. /\ V1Price => /\ v1read' = [v1read EXCEPT !.price = V1Scan.price]
                    /\ v1pc = "price" /\ v1pc' = "lEth" /\ quiet
      /\ V1LEth => /\ v1read' = [v1read EXCEPT !.lEth = V1Scan.lEth]
                   /\ v1pc = "lEth" /\ v1pc' = "lDebt" /\ quiet
      /\ V1LDebt => /\ v1read' = [v1read EXCEPT !.lDebt = V1Scan.lDebt]
                    /\ v1pc = "lDebt" /\ v1pc' = "troves" /\ quiet
  BY BlockAnswers DEF V1Price, V1LEth, V1LDebt, V1Scalar, chainVars, V1Scan
<1>2. /\ V1Scan.price \in Nat /\ V1Scan.lEth \in Nat /\ V1Scan.lDebt \in Nat
      /\ V1Scan.troves \in Seq(V1Trove)
  BY <1>1, V1BlockIsState DEF V1Inv, V1Types, V1Scan, V1State
<1>3. quiet /\ V1Scan' = V1Scan
  BY <1>1 DEF V1Scan
<1>4. V1PagesAgree' /\ V1Progress' /\ V1Exact(v1report)'
  BY <1>1, <1>2, V1ScalarRead
<1>5. V1Types'
  BY <1>1, <1>2 DEF V1Inv, V1Types
<1>6. V1ReadsAgree'
  BY <1>1, <1>3 DEF V1Inv, V1Types, V1ReadsAgree
<1> QED BY <1>4, <1>5, <1>6 DEF V1Inv

LEMMA V1TrovesKeepsInv ==
  ASSUME ChainInv, scout = "v1", V1Inv, V1Troves, UNCHANGED chainVars
  PROVE  V1Inv'
<1> DEFINE count == Min({V1BatchSize, V1MaxTroves - Len(v1troves)})
           list == V1Scan.troves
           page == Page(list, Len(v1troves), count)
           all == v1troves \o page
           over == Len(page) < count \/ Len(all) >= V1MaxTroves
<1>1. /\ v1pc = "troves" /\ v1troves' = all
      /\ UNCHANGED <<blocks, head, v1block, v1read, v1found, v1report>>
      /\ over => /\ v1pc' = "estimate"
                 /\ v1todo' = {i \in DOMAIN all : EffectiveIcr(all[i]) < V1Mcr}
      /\ ~over => UNCHANGED <<v1pc, v1todo>>
  BY BlockAnswers DEF V1Troves, V1Offset, V1Scan, chainVars
<1>2. list \in Seq(V1Trove)
  BY <1>1, V1BlockIsState DEF V1Inv, V1Types, V1Scan, V1State
<1>3. v1troves \in Seq(V1Trove) /\ Begins(v1troves, list) /\ Len(v1troves) < V1MaxTroves
  BY <1>1 DEF V1Inv, V1Types, V1PagesAgree
<1>4. /\ all \in Seq(V1Trove) /\ Begins(all, list)
      /\ over => Len(all) = PagingEnd(list, V1MaxTroves)
      /\ ~over => Len(all) < V1MaxTroves
  <2>1. IsNextPage(page, count, v1troves, list, V1BatchSize, V1MaxTroves)
    BY DEF IsNextPage
  <2>2. V1BatchSize \in Nat \ {0} /\ V1MaxTroves \in Nat
    BY V1LimitsAssumption
  <2> HIDE DEF count, page, list
  <2> QED BY <1>2, <1>3, <2>1, <2>2, PageGoesOn
<1>5. v1read.price = V1Scan.price /\ v1read.lEth = V1Scan.lEth
      /\ v1read.lDebt = V1Scan.lDebt /\ V1Scan' = V1Scan
  BY <1>1 DEF V1Inv, V1ReadsAgree, V1Scan
<1>6. over => 1 .. Len(all) = V1Near(V1Scan)
  BY <1>4 DEF V1Near
<1> HIDE DEF page, all, over, count
<1>7. V1Types' /\ V1ReadsAgree'
  BY <1>1, <1>4, <1>5 DEF V1Inv, V1Types, V1ReadsAgree
<1>8. V1PagesAgree'
  <2>1. V1Near(V1Scan)' = V1Near(V1Scan)
    BY <1>5 DEF V1Near
  <2>2. CASE over
    BY <1>1, <1>4, <1>5, <1>6, <2>1, <2>2 DEF V1PagesAgree
  <2>3. CASE ~over
    BY <1>1, <1>4, <1>5, <2>3 DEF V1PagesAgree
  <2> QED BY <2>2, <2>3
<1>9. V1Progress'
  <2>1. v1todo = {} /\ v1found = << >>
    BY <1>1 DEF V1Inv, V1Progress
  <2>2. CASE ~over
    BY <1>1, <2>1, <2>2 DEF V1Progress
  <2>3. CASE over
    <3>1. DOMAIN all = V1Near(V1Scan)
      BY <1>4, <1>6, <2>3
    <3>2. \A i \in DOMAIN all : /\ all[i] = V1Scan.troves[i]
                                /\ EffectiveIcr(all[i]) = V1TrueIcr(V1Scan, all[i])
      BY <1>4, <1>5, IcrAgrees DEF Begins
    <3>3. v1todo' = V1Open(V1Scan)
      BY <1>1, <2>3, <3>1, <3>2 DEF V1Open
    <3>4. V1Open(V1Scan)' = V1Open(V1Scan) /\ V1Owners(V1Scan, {})' = {}
      BY <1>5 DEF V1Open, V1Near, V1Owners, V1TrueIcr, Gain
    <3>5. V1Owners(V1Scan, V1Open(V1Scan) \ v1todo)' = {}
      BY <3>3, <3>4 DEF V1Owners
    <3>6. ListsOnce(v1found', "owner", {})
      BY <1>1, <2>1, NothingListed
    <3>7. v1pc' = "estimate" /\ v1todo' \subseteq V1Open(V1Scan)'
      BY <1>1, <2>3, <3>3, <3>4
    <3> QED BY <3>5, <3>6, <3>7 DEF V1Progress
  <2> QED BY <2>2, <2>3
<1>10. V1Exact(v1report)'
  BY <1>1 DEF V1Inv, V1Exact, V1Owners, V1Open, V1Near, V1TrueIcr, Gain
<1> QED BY <1>7, <1>8, <1>9, <1>10 DEF V1Inv

LEMMA V1EstimateKeepsInv ==
  ASSUME ChainInv, scout = "v1", V1Inv, V1Estimate, UNCHANGED chainVars
  PROVE  V1Inv'
<1>1. PICK i \in v1todo :
        /\ \E gas \in V1GasEstimates(v1troves[i].owner) :
             v1found' = Append(v1found, V1Opportunity(v1troves[i], gas))
        /\ v1todo' = v1todo \ {i}
  BY DEF V1Estimate
<1>2. PICK gas \in V1GasEstimates(v1troves[i].owner) :
        v1found' = Append(v1found, V1Opportunity(v1troves[i], gas))
  BY <1>1
<1>3. /\ v1pc = "estimate" /\ V1Scan' = V1Scan
      /\ UNCHANGED <<blocks, head, v1pc, v1block, v1read, v1troves, v1report>>
  BY DEF V1Estimate, chainVars, V1Scan
<1> DEFINE x == V1Opportunity(v1troves[i], gas)
           open == V1Open(V1Scan)
           done == V1Owners(V1Scan, open \ v1todo)
<1>4. /\ v1todo \subseteq open /\ ListsOnce(v1found, "owner", done)
      /\ open \subseteq DOMAIN v1troves /\ DOMAIN v1troves = 1 .. Len(v1troves)
      /\ Begins(v1troves, V1Scan.troves)
  BY <1>3 DEF V1Inv, V1Types, V1Progress, V1PagesAgree, V1Open
<1>5. /\ V1Scan.troves \in Seq(V1Trove)
      /\ \A j, k \in DOMAIN V1Scan.troves :
           V1Scan.troves[j].owner = V1Scan.troves[k].owner => j = k
  BY <1>3, V1BlockIsState DEF V1Inv, V1Types, V1Scan, V1State
<1>6. open \subseteq DOMAIN V1Scan.troves
  BY <1>4, <1>5 DEF Begins
<1>7. x["owner"] = V1Scan.troves[i].owner
  BY <1>1, <1>4 DEF V1Opportunity, Begins
<1>8. x["owner"] \notin done
  BY <1>1, <1>4, <1>5, <1>6, <1>7 DEF V1Owners
<1>9. V1Owners(V1Scan, open \ (v1todo \ {i})) = done \cup {x["owner"]}
  BY <1>1, <1>4, <1>5, <1>6, <1>7 DEF V1Owners
<1>10. v1found' = Append(v1found, x)
  BY <1>2
<1>11. V1Open(V1Scan)' = open
  BY <1>3 DEF V1Open, V1Near, V1TrueIcr, Gain
<1> HIDE DEF x, open, done
<1>12. ListsOnce(v1found', "owner", V1Owners(V1Scan, open \ (v1todo \ {i})))
  <2>1. ListsOnce(Append(v1found, x), "owner", done \cup {x["owner"]})
    BY <1>4, <1>8, ListsOneMore
  <2> QED BY <1>10, <1>9, <2>1
<1>13. V1Owners(V1Scan, V1Open(V1Scan) \ v1todo)'
       = V1Owners(V1Scan, open \ (v1todo \ {i}))
  BY <1>1, <1>3, <1>11 DEF V1Owners
<1>14. V1Progress'
  BY <1>1, <1>3, <1>4, <1>11, <1>12, <1>13 DEF V1Progress
<1>15. V1Types' /\ V1ReadsAgree' /\ V1PagesAgree'
  BY <1>3 DEF V1Inv, V1Types, V1ReadsAgree, V1PagesAgree, V1Near
<1>16. V1Exact(v1report)'
  BY <1>3 DEF V1Inv, V1Exact, V1Owners, V1Open, V1Near, V1TrueIcr, Gain
<1> QED BY <1>14, <1>15, <1>16 DEF V1Inv

\* The end of a scan, with an exact report or none.
LEMMA V1EndKeepsInv ==
  ASSUME V1Inv, NEW report, V1End(report), UNCHANGED chainVars, V1Exact(report)
  PROVE  V1Inv'
<1>1. V1Types' /\ V1ReadsAgree' /\ V1PagesAgree' /\ V1Progress'
  BY DEF V1End, V1Types, V1ReadsAgree, V1PagesAgree, V1Progress, NothingReadV1
<1>2. V1Exact(v1report)'
  BY DEF V1End, V1Exact, chainVars, V1Owners, V1Open, V1Near, V1TrueIcr, Gain
<1> QED BY <1>1, <1>2 DEF V1Inv

LEMMA V1FailKeepsInv ==
  ASSUME V1Inv, V1Fail, UNCHANGED chainVars PROVE V1Inv'
<1> DEFINE failed == [NoReportV1 EXCEPT !.status = "failed"]
<1>1. V1Exact(failed) /\ V1End(failed)
  BY DEF V1Fail, NoReportV1, V1Exact
<1> QED BY <1>1, V1EndKeepsInv

LEMMA V1FinishKeepsInv ==
  ASSUME V1Inv, V1Finish, UNCHANGED chainVars PROVE V1Inv'
<1>1. PICK p \in Bijection(DOMAIN v1found, DOMAIN v1found) :
        V1End([status |-> "ok", block |-> v1block,
               opportunities |-> [i \in DOMAIN v1found |-> v1found[p[i]]]])
  BY DEF V1Finish
<1> DEFINE sorted == [i \in DOMAIN v1found |-> v1found[p[i]]]
           report == [status |-> "ok", block |-> v1block, opportunities |-> sorted]
<1>2. v1pc = "estimate" /\ v1todo = {} /\ v1block \in 1 .. Len(blocks)
  BY DEF V1Finish, V1Inv, V1Types
<1>3. ListsOnce(v1found, "owner", V1Owners(V1Scan, V1Open(V1Scan)))
  <2>1. V1Open(V1Scan) \ v1todo = V1Open(V1Scan)
    BY <1>2
  <2> QED BY <1>2, <2>1 DEF V1Inv, V1Progress
<1>4. ListsOnce(sorted, "owner", V1Owners(V1Scan, V1Open(V1Scan)))
  BY <1>3, ListsOnceSorted
<1> HIDE DEF sorted
<1>5. V1Exact(report)
  BY <1>2, <1>4 DEF V1Exact, V1Scan
<1>6. V1End(report)
  BY <1>1 DEF sorted
<1> HIDE DEF report
<1> QED BY <1>5, <1>6, V1EndKeepsInv

LEMMA V1InvStep ==
  ASSUME ChainInv, scout = "v1", V1Inv, V1Next, UNCHANGED chainVars PROVE V1Inv'
BY V1BlockNumberKeepsInv, V1GasPriceKeepsInv, V1ScalarKeepsInv, V1TrovesKeepsInv,
   V1EstimateKeepsInv, V1FinishKeepsInv, V1FailKeepsInv DEF V1Next

LEMMA V1ReportHolds ==
  ASSUME ChainInv, V1Inv, v1report.status = "ok" => scout = "v1"
  PROVE  V1RecordsAreTrue /\ V1NothingMissed
<1> SUFFICES ASSUME v1report.status = "ok" PROVE V1RecordsAreTrue /\ V1NothingMissed
  BY DEF V1RecordsAreTrue, V1NothingMissed
<1> DEFINE s == blocks[v1report.block]
           end == PagingEnd(s.troves, V1MaxTroves)
           near == [s EXCEPT !.troves = SubSeq(@, 1, end)]
<1>1. v1report.block \in 1 .. Len(blocks)
      /\ ListsOnce(v1report.opportunities, "owner", V1Owners(s, V1Open(s)))
  BY DEF V1Inv, V1Exact
<1>2. s \in V1State
  BY <1>1, V1BlockIsState
<1>3. /\ V1Listed = V1Owners(s, V1Open(s))
      /\ Cardinality(V1Listed) = Len(v1report.opportunities)
  <2> DEFINE ops == v1report.opportunities
             names == V1Owners(s, V1Open(s))
  <2>1. ListsOnce(ops, "owner", names)
    BY <1>1
  <2> HIDE DEF ops, names
  <2>2. /\ {ops[k]["owner"] : k \in DOMAIN ops} = names
        /\ Cardinality(names) = Len(ops)
    BY <2>1, ListedCounted
  <2>3. V1Listed = {ops[k]["owner"] : k \in DOMAIN ops}
    BY DEF V1Listed, ops
  <2> QED BY <2>2, <2>3 DEF ops, names
<1>4. end \in Nat /\ end <= Len(s.troves) /\ V1Near(s) = 1 .. end
  <2>1. Len(s.troves) \in Nat /\ V1MaxTroves \in Nat
    BY <1>2, V1LimitsAssumption DEF V1State
  <2>2. /\ end \in Int /\ end <= Len(s.troves)
        /\ end = V1MaxTroves \/ end = Len(s.troves)
    <3> DEFINE n == Len(s.troves)
    <3>1. n \in Int /\ V1MaxTroves \in Int
      BY <2>1
    <3> HIDE DEF n
    <3>2. /\ Min({V1MaxTroves, n}) \in Int /\ Min({V1MaxTroves, n}) <= n
          /\ Min({V1MaxTroves, n}) = V1MaxTroves \/ Min({V1MaxTroves, n}) = n
      BY <3>1, MinOfTwo
    <3> QED BY <3>2 DEF n, PagingEnd
  <2>3. V1Near(s) = 1 .. end
    BY DEF V1Near
  <2> HIDE DEF end
  <2> QED BY <2>1, <2>2, <2>3
<1> HIDE DEF end
<1>5. /\ near.price = s.price /\ near.lEth = s.lEth /\ near.lDebt = s.lDebt
      /\ DOMAIN near.troves = 1 .. end
      /\ \A i \in 1 .. end : near.troves[i] = s.troves[i]
  BY <1>2, <1>4 DEF V1State
<1> HIDE DEF near
<1>6. V1Endangered(near) = V1Owners(s, V1Open(s))
  <2>1. \A t : V1TrueIcr(near, t) = V1TrueIcr(s, t)
    BY <1>5 DEF V1TrueIcr
  <2> QED BY <1>4, <1>5, <2>1 DEF V1Endangered, V1Owners, V1Open
<1>7. V1NothingMissed
  BY <1>3, <1>6 DEF V1NothingMissed, near, end, PagingEnd
<1>8. V1Open(s) \subseteq DOMAIN s.troves
  BY <1>2, <1>4 DEF V1State, V1Open
<1>9. V1RecordsAreTrue
  BY <1>3, <1>8 DEF V1RecordsAreTrue, V1Endangered, V1Owners, V1Open
<1> QED BY <1>7, <1>9

------------------------------------------------------------------------------
(* Liquity v2.                                                                *)

V2Scan == blocks[v2block]

\* The Troves of branch n, those of them that are open and may be read, and
\* what a report calls them.
V2ListOf(s, n) == s.troves[Branches[n].symbol]
V2Near(s, n) == 1 .. PagingEnd(V2ListOf(s, n), V2MaxTroves)
V2Open(s, n) ==
  {i \in V2Near(s, n) : V2IsLiquidatable(V2ListOf(s, n)[i],
                          s.price[Branches[n].symbol], Branches[n].mcr)}
V2Ids(s, n, places) == {<<n, V2ListOf(s, n)[i].id>> : i \in places}
V2Before(s, n) == UNION {V2Endangered(s, m) : m \in 1 .. n - 1}

V2Types ==
  /\ v2pc \in {"idle", "gasPrice", "price", "troves", "estimate"}
  /\ v2pc # "idle" => v2block \in 1 .. Len(blocks)
  /\ v2branch \in DOMAIN Branches
  /\ v2pc \in {"idle", "gasPrice"} => v2branch = 1
  /\ v2troves \in Seq(V2Trove)

V2PagesAgree ==
  /\ v2pc \in {"troves", "estimate"} =>
       /\ v2price = V2Scan.price[Branch.symbol]
       /\ Begins(v2troves, V2ListOf(V2Scan, v2branch))
  /\ v2pc = "troves" => Len(v2troves) < V2MaxTroves
  /\ v2pc = "estimate" => 1 .. Len(v2troves) = V2Near(V2Scan, v2branch)
  /\ v2pc \notin {"troves", "estimate"} => v2troves = << >>

\* The branches before this one are done, and of this one all but v2todo.
V2Progress ==
  /\ v2pc \in {"idle", "gasPrice"} => v2found = << >>
  /\ v2pc \in {"price", "troves"} =>
       ListsOnce(v2found, "id", V2Before(V2Scan, v2branch))
  /\ v2pc = "estimate" =>
       /\ v2todo \subseteq V2Open(V2Scan, v2branch)
       /\ ListsOnce(v2found, "id",
            V2Before(V2Scan, v2branch)
              \cup V2Ids(V2Scan, v2branch, V2Open(V2Scan, v2branch) \ v2todo))
  /\ v2pc # "estimate" => v2todo = {}

V2Exact(report) ==
  report.status = "ok" =>
    /\ report.block \in 1 .. Len(blocks)
    /\ ListsOnce(report.opportunities, "id", V2AllEndangered(blocks[report.block]))

V2Inv == V2Types /\ V2PagesAgree /\ V2Progress /\ V2Exact(v2report)

LEMMA BranchesAreListed ==
  /\ 1 \in DOMAIN Branches /\ Len(Branches) \in Nat
  /\ DOMAIN Branches = 1 .. Len(Branches)
  /\ \A n \in DOMAIN Branches : Branches[n].symbol \in Symbols
BY BranchesAssumption DEF Symbols

LEMMA V2EndangeredIsOpen ==
  ASSUME NEW s, NEW n PROVE V2Endangered(s, n) = V2Ids(s, n, V2Open(s, n))
BY Zenon DEF V2Endangered, V2Ids, V2Open, V2Near, V2ListOf, PagingEnd

LEMMA BranchesSoFar ==
  ASSUME NEW s, NEW n \in DOMAIN Branches
  PROVE  /\ V2Before(s, 1) = {}
         /\ V2Before(s, n + 1) = V2Before(s, n) \cup V2Endangered(s, n)
         /\ V2Before(s, Len(Branches) + 1) = V2AllEndangered(s)
<1>1. n \in Nat \ {0} /\ Len(Branches) \in Nat
      /\ DOMAIN Branches = 1 .. Len(Branches)
  BY BranchesAreListed
<1>2. /\ 1 .. 1 - 1 = {} /\ 1 .. (n + 1) - 1 = (1 .. n - 1) \cup {n}
      /\ 1 .. (Len(Branches) + 1) - 1 = DOMAIN Branches
  BY <1>1
<1>3. V2Before(s, 1) = {}
  BY <1>2 DEF V2Before
<1>4. V2Before(s, n + 1) = V2Before(s, n) \cup V2Endangered(s, n)
  BY <1>2 DEF V2Before
<1>5. V2Before(s, Len(Branches) + 1) = V2AllEndangered(s)
  BY <1>2 DEF V2Before, V2AllEndangered
<1> QED BY <1>3, <1>4, <1>5

LEMMA V2InvInit == V2Init => V2Inv
<1> SUFFICES ASSUME V2Init PROVE V2Inv
  OBVIOUS
<1>1. V2Types
  BY BranchesAreListed DEF V2Init, V2Types
<1>2. V2PagesAgree /\ V2Progress
  BY DEF V2Init, V2PagesAgree, V2Progress
<1>3. V2Exact(v2report)
  BY DEF V2Init, V2Exact, NoReportV2
<1> QED BY <1>1, <1>2, <1>3 DEF V2Inv

LEMMA V2Undisturbed ==
  ASSUME V2Inv, ChainGrows, UNCHANGED v2vars PROVE V2Inv'
<1>1. v2pc # "idle" => V2Scan' = V2Scan
  BY DEF V2Inv, V2Types, V2Scan, ChainGrows, v2vars
<1>2. V2Types'
  BY DEF V2Inv, V2Types, ChainGrows, v2vars
<1>3. V2PagesAgree'
  BY <1>1 DEF V2Inv, V2PagesAgree, Branch, v2vars
<1>4. V2Progress'
  BY <1>1 DEF V2Inv, V2Progress, v2vars
<1>5. V2Exact(v2report)'
  <2>1. CASE v2report.status = "ok"
    <3>1. /\ v2report' = v2report /\ v2report.block \in 1 .. Len(blocks)
          /\ v2report.block \in 1 .. Len(blocks')
          /\ blocks'[v2report.block] = blocks[v2report.block]
      BY <2>1 DEF V2Inv, V2Exact, ChainGrows, v2vars
    <3> QED BY <3>1 DEF V2Inv, V2Exact
  <2> QED BY <2>1 DEF V2Exact, v2vars
<1> QED BY <1>2, <1>3, <1>4, <1>5 DEF V2Inv

LEMMA V2BlockIsState ==
  ASSUME ChainInv, scout = "v2", NEW b \in 1 .. Len(blocks), NEW n \in DOMAIN Branches
  PROVE  /\ V2ListOf(blocks[b], n) \in Seq(V2Trove)
         /\ \A i, j \in DOMAIN V2ListOf(blocks[b], n) :
              V2ListOf(blocks[b], n)[i].id = V2ListOf(blocks[b], n)[j].id => i = j
<1>1. blocks[b] \in V2States /\ Branches[n].symbol \in Symbols
  BY BlockIsState, BranchesAreListed DEF StatesOf
<1> QED BY <1>1, V2StatesAssumption DEF V2State, V2ListOf

LEMMA V2BlockNumberKeepsInv ==
  ASSUME ChainInv, V2Inv, V2BlockNumber, UNCHANGED chainVars PROVE V2Inv'
<1>1. v2block' \in 1 .. Len(blocks)
  BY LatestIsBlock DEF V2BlockNumber
<1>2. /\ v2pc = "idle" /\ v2pc' = "gasPrice" /\ v2report'.status # "ok"
      /\ UNCHANGED <<blocks, head, v2branch, v2price, v2troves, v2todo, v2found>>
  BY DEF V2BlockNumber, chainVars, NoReportV2
<1>3. V2Types' /\ V2PagesAgree' /\ V2Progress'
  BY <1>1, <1>2 DEF V2Inv, V2Types, V2PagesAgree, V2Progress
<1>4. V2Exact(v2report)'
  BY <1>2 DEF V2Exact
<1> QED BY <1>3, <1>4 DEF V2Inv

LEMMA V2GasPriceKeepsInv ==
  ASSUME ChainInv, V2Inv, V2GasPrice, UNCHANGED chainVars PROVE V2Inv'
<1>1. /\ v2pc = "gasPrice" /\ v2pc' = "price"
      /\ UNCHANGED <<blocks, head, v2block, v2branch, v2price, v2troves, v2todo,
                     v2found, v2report>>
  BY DEF V2GasPrice, chainVars
<1>2. V2Types' /\ V2PagesAgree'
  BY <1>1 DEF V2Inv, V2Types, V2PagesAgree
<1>3. V2Progress'
  <2>1. v2branch = 1 /\ v2found = << >> /\ v2todo = {}
    BY <1>1 DEF V2Inv, V2Types, V2Progress
  <2>2. V2Before(V2Scan, v2branch)' = {}
    BY <1>1, <2>1, BranchesSoFar, BranchesAreListed
  <2>3. ListsOnce(v2found', "id", {})
    BY <1>1, <2>1, NothingListed
  <2> QED BY <1>1, <2>1, <2>2, <2>3 DEF V2Progress
<1>4. V2Exact(v2report)'
  BY <1>1 DEF V2Inv, V2Exact
<1> QED BY <1>2, <1>3, <1>4 DEF V2Inv

LEMMA V2PriceKeepsInv ==
  ASSUME ChainInv, scout = "v2", V2Inv, V2Price, UNCHANGED chainVars PROVE V2Inv'
<1>1. /\ v2pc = "price" /\ v2pc' = "troves"
      /\ v2price' = V2Scan.price[Branch.symbol]
      /\ UNCHANGED <<blocks, head, v2block, v2branch, v2troves, v2todo, v2found,
                     v2report>>
  BY BlockAnswers DEF V2Price, V2Scan, chainVars
<1>2. V2Types' /\ V2Progress'
  BY <1>1 DEF V2Inv, V2Types, V2Progress, V2Scan
<1>3. V2PagesAgree'
  <2>1. v2troves' = << >> /\ 0 < V2MaxTroves
    BY <1>1, V2LimitsAssumption DEF V2Inv, V2PagesAgree
  <2>2. V2ListOf(V2Scan, v2branch) \in Seq(V2Trove)
    BY <1>1, V2BlockIsState DEF V2Inv, V2Types, V2Scan
  <2>3. Begins(v2troves', V2ListOf(V2Scan, v2branch))
    BY <2>1, <2>2 DEF Begins
  <2> QED BY <1>1, <2>1, <2>3 DEF V2PagesAgree, V2Scan, Branch
<1>4. V2Exact(v2report)'
  BY <1>1 DEF V2Inv, V2Exact
<1> QED BY <1>2, <1>3, <1>4 DEF V2Inv

LEMMA V2TrovesKeepsInv ==
  ASSUME ChainInv, scout = "v2", V2Inv, V2Troves, UNCHANGED chainVars
  PROVE  V2Inv'
<1> DEFINE count == Min({V2BatchSize, V2MaxTroves - Len(v2troves)})
           list == V2ListOf(V2Scan, v2branch)
           page == Page(list, Len(v2troves), count)
           all == v2troves \o page
           over == Len(page) < count \/ Len(all) >= V2MaxTroves
<1>1. /\ v2pc = "troves" /\ v2troves' = all
      /\ UNCHANGED <<blocks, head, v2block, v2branch, v2price, v2found, v2report>>
      /\ over => /\ v2pc' = "estimate"
                 /\ v2todo' = {i \in DOMAIN all :
                                V2IsLiquidatable(all[i], v2price, Branch.mcr)}
      /\ ~over => UNCHANGED <<v2pc, v2todo>>
  BY BlockAnswers DEF V2Troves, V2StartIndex, V2Scan, V2ListOf, Branch, chainVars
<1>2. list \in Seq(V2Trove)
  BY <1>1, V2BlockIsState DEF V2Inv, V2Types, V2Scan
<1>3. v2troves \in Seq(V2Trove) /\ Begins(v2troves, list) /\ Len(v2troves) < V2MaxTroves
      /\ v2price = V2Scan.price[Branch.symbol]
  BY <1>1 DEF V2Inv, V2Types, V2PagesAgree
<1>4. /\ all \in Seq(V2Trove) /\ Begins(all, list)
      /\ over => Len(all) = PagingEnd(list, V2MaxTroves)
      /\ ~over => Len(all) < V2MaxTroves
  <2>1. IsNextPage(page, count, v2troves, list, V2BatchSize, V2MaxTroves)
    BY DEF IsNextPage
  <2>2. V2BatchSize \in Nat \ {0} /\ V2MaxTroves \in Nat
    BY V2LimitsAssumption
  <2> HIDE DEF count, page, list
  <2> QED BY <1>2, <1>3, <2>1, <2>2, PageGoesOn
<1>5. V2Scan' = V2Scan /\ Branch' = Branch
  BY <1>1 DEF V2Scan, Branch
<1>6. over => 1 .. Len(all) = V2Near(V2Scan, v2branch)
  BY <1>4 DEF V2Near
<1> HIDE DEF page, all, over, count
<1>7. V2Types'
  BY <1>1, <1>4, <1>5 DEF V2Inv, V2Types
<1>8. V2PagesAgree'
  <2>1. V2ListOf(V2Scan, v2branch)' = list
        /\ V2Near(V2Scan, v2branch)' = V2Near(V2Scan, v2branch)
        /\ (v2price = V2Scan.price[Branch.symbol])'
    BY <1>1, <1>3, <1>5
  <2> HIDE DEF list
  <2>2. CASE over
    BY <1>1, <1>4, <1>6, <2>1, <2>2 DEF V2PagesAgree
  <2>3. CASE ~over
    BY <1>1, <1>4, <2>1, <2>3 DEF V2PagesAgree
  <2> QED BY <2>2, <2>3
<1>9. V2Progress'
  <2>1. v2todo = {} /\ ListsOnce(v2found, "id", V2Before(V2Scan, v2branch))
    BY <1>1 DEF V2Inv, V2Progress
  <2>2. CASE ~over
    BY <1>1, <1>5, <2>1, <2>2 DEF V2Progress
  <2>3. CASE over
    <3>1. DOMAIN all = V2Near(V2Scan, v2branch)
      BY <1>4, <1>6, <2>3
    <3>2. \A i \in DOMAIN all : all[i] = V2ListOf(V2Scan, v2branch)[i]
      BY <1>4 DEF Begins
    <3>3. v2todo' = V2Open(V2Scan, v2branch)
      BY <1>1, <1>3, <2>3, <3>1, <3>2 DEF V2Open, Branch
    <3>4. V2Open(V2Scan, v2branch)' = V2Open(V2Scan, v2branch)
          /\ V2Before(V2Scan, v2branch)' = V2Before(V2Scan, v2branch)
      BY <1>1, <1>5
    <3>5. V2Ids(V2Scan, v2branch, V2Open(V2Scan, v2branch) \ v2todo)' = {}
      BY <3>3, <3>4 DEF V2Ids
    <3>6. (V2Before(V2Scan, v2branch)
            \cup V2Ids(V2Scan, v2branch, V2Open(V2Scan, v2branch) \ v2todo))'
          = V2Before(V2Scan, v2branch)
      BY <3>4, <3>5
    <3>7. v2pc' = "estimate" /\ v2todo' \subseteq V2Open(V2Scan, v2branch)'
          /\ v2found' = v2found
      BY <1>1, <2>3, <3>3, <3>4
    <3> QED BY <2>1, <3>6, <3>7 DEF V2Progress
  <2> QED BY <2>2, <2>3
<1>10. V2Exact(v2report)'
  BY <1>1 DEF V2Inv, V2Exact
<1> QED BY <1>7, <1>8, <1>9, <1>10 DEF V2Inv

LEMMA V2EstimateKeepsInv ==
  ASSUME ChainInv, scout = "v2", V2Inv, V2Estimate, UNCHANGED chainVars
  PROVE  V2Inv'
<1>1. PICK i \in v2todo :
        /\ \E gas \in V2GasEstimates(v2troves[i].id) :
             v2found' = Append(v2found, V2Opportunity(v2troves[i], gas))
        /\ v2todo' = v2todo \ {i}
  BY DEF V2Estimate
<1>2. PICK gas \in V2GasEstimates(v2troves[i].id) :
        v2found' = Append(v2found, V2Opportunity(v2troves[i], gas))
  BY <1>1
<1>3. /\ v2pc = "estimate" /\ V2Scan' = V2Scan
      /\ UNCHANGED <<blocks, head, v2pc, v2block, v2branch, v2price, v2troves,
                     v2report>>
  BY DEF V2Estimate, chainVars, V2Scan
<1> DEFINE x == V2Opportunity(v2troves[i], gas)
           list == V2ListOf(V2Scan, v2branch)
           open == V2Open(V2Scan, v2branch)
           before == V2Before(V2Scan, v2branch)
           done == before \cup V2Ids(V2Scan, v2branch, open \ v2todo)
<1>4. /\ v2todo \subseteq open /\ ListsOnce(v2found, "id", done)
      /\ open \subseteq DOMAIN v2troves /\ DOMAIN v2troves = 1 .. Len(v2troves)
      /\ Begins(v2troves, list)
  BY <1>3 DEF V2Inv, V2Types, V2Progress, V2PagesAgree, V2Open
<1>5. /\ list \in Seq(V2Trove)
      /\ \A j, k \in DOMAIN list : list[j].id = list[k].id => j = k
  BY <1>3, V2BlockIsState DEF V2Inv, V2Types, V2Scan
<1>6. open \subseteq DOMAIN list
  BY <1>4, <1>5 DEF Begins
<1>7. x["id"] = <<v2branch, list[i].id>>
  BY <1>1, <1>4 DEF V2Opportunity, Begins
<1>8. x["id"] \notin before
  <2>1. v2branch \in Nat
    BY BranchesAreListed DEF V2Inv, V2Types
  <2>2. ASSUME NEW m \in 1 .. v2branch - 1 PROVE x["id"] \notin V2Endangered(V2Scan, m)
    <3>1. m # v2branch
      BY <2>1
    <3>2. V2Endangered(V2Scan, m) = V2Ids(V2Scan, m, V2Open(V2Scan, m))
      BY V2EndangeredIsOpen
    <3> HIDE DEF x
    <3> QED BY <1>7, <3>1, <3>2 DEF V2Ids
  <2> HIDE DEF x
  <2> QED BY <2>2 DEF V2Before
<1>9. x["id"] \notin V2Ids(V2Scan, v2branch, open \ v2todo)
  <2> SUFFICES ASSUME NEW j \in open \ v2todo, x["id"] = <<v2branch, list[j].id>>
               PROVE  FALSE
    BY DEF V2Ids
  <2>1. list[j].id = list[i].id
    BY <1>7
  <2> HIDE DEF list, open, x
  <2> QED BY <1>1, <1>4, <1>5, <1>6, <2>1
<1>10. V2Ids(V2Scan, v2branch, open \ (v2todo \ {i}))
       = V2Ids(V2Scan, v2branch, open \ v2todo) \cup {x["id"]}
  <2>1. open \ (v2todo \ {i}) = (open \ v2todo) \cup {i}
    BY <1>1, <1>4
  <2> QED BY <1>7, <2>1 DEF V2Ids
<1>11. v2found' = Append(v2found, x)
  BY <1>2
<1>12. V2Open(V2Scan, v2branch)' = open /\ V2Before(V2Scan, v2branch)' = before
       /\ V2Ids(V2Scan, v2branch, V2Open(V2Scan, v2branch) \ v2todo)'
          = V2Ids(V2Scan, v2branch, open \ (v2todo \ {i}))
  BY <1>1, <1>3
<1> HIDE DEF x, open, before
<1>13. ListsOnce(v2found', "id",
         (V2Before(V2Scan, v2branch)
           \cup V2Ids(V2Scan, v2branch, V2Open(V2Scan, v2branch) \ v2todo))')
  <2>1. x["id"] \notin done
    BY <1>8, <1>9
  <2>2. done \cup {x["id"]}
        = before \cup V2Ids(V2Scan, v2branch, open \ (v2todo \ {i}))
    BY <1>10
  <2> HIDE DEF done
  <2>3. ListsOnce(Append(v2found, x), "id", done \cup {x["id"]})
    BY <1>4, <2>1, ListsOneMore
  <2> QED BY <1>11, <1>12, <2>2, <2>3
<1>14. V2Progress'
  BY <1>1, <1>3, <1>4, <1>12, <1>13 DEF V2Progress
<1>15. V2Types' /\ V2PagesAgree'
  BY <1>3 DEF V2Inv, V2Types, V2PagesAgree, Branch
<1>16. V2Exact(v2report)'
  BY <1>3 DEF V2Inv, V2Exact
<1> QED BY <1>14, <1>15, <1>16 DEF V2Inv

\* When nothing of a branch is left to estimate, the branch is done.
LEMMA V2BranchDone ==
  ASSUME V2Inv, v2pc = "estimate", v2todo = {}
  PROVE  ListsOnce(v2found, "id", V2Before(V2Scan, v2branch + 1))
<1>1. V2Open(V2Scan, v2branch) \ v2todo = V2Open(V2Scan, v2branch)
  OBVIOUS
<1>2. v2branch \in DOMAIN Branches
  BY DEF V2Inv, V2Types
<1>3. V2Before(V2Scan, v2branch + 1)
      = V2Before(V2Scan, v2branch)
          \cup V2Ids(V2Scan, v2branch, V2Open(V2Scan, v2branch) \ v2todo)
  BY <1>1, <1>2, BranchesSoFar, V2EndangeredIsOpen
<1> QED BY <1>3 DEF V2Inv, V2Progress

LEMMA V2NextBranchKeepsInv ==
  ASSUME V2Inv, V2NextBranch, UNCHANGED chainVars PROVE V2Inv'
<1>1. /\ v2pc = "estimate" /\ v2todo = {} /\ v2pc' = "price"
      /\ v2branch < Len(Branches) /\ v2branch' = v2branch + 1 /\ v2troves' = << >>
      /\ UNCHANGED <<blocks, head, v2block, v2todo, v2found, v2report>>
  BY DEF V2NextBranch, chainVars
<1>2. v2branch' \in DOMAIN Branches
  BY <1>1, BranchesAreListed DEF V2Inv, V2Types
<1>3. V2Types' /\ V2PagesAgree'
  BY <1>1, <1>2 DEF V2Inv, V2Types, V2PagesAgree
<1>4. V2Progress'
  <2>1. V2Before(V2Scan, v2branch)' = V2Before(V2Scan, v2branch + 1)
    BY <1>1 DEF V2Scan
  <2> QED BY <1>1, <2>1, V2BranchDone DEF V2Progress
<1>5. V2Exact(v2report)'
  BY <1>1 DEF V2Inv, V2Exact
<1> QED BY <1>3, <1>4, <1>5 DEF V2Inv

LEMMA V2EndKeepsInv ==
  ASSUME V2Inv, NEW report, V2End(report), UNCHANGED chainVars, V2Exact(report)
  PROVE  V2Inv'
<1>1. V2Types' /\ V2PagesAgree' /\ V2Progress'
  BY BranchesAreListed DEF V2End, V2Types, V2PagesAgree, V2Progress
<1>2. V2Exact(v2report)'
  BY DEF V2End, V2Exact, chainVars
<1> QED BY <1>1, <1>2 DEF V2Inv

LEMMA V2FailKeepsInv ==
  ASSUME V2Inv, V2Fail, UNCHANGED chainVars PROVE V2Inv'
<1> DEFINE failed == [NoReportV2 EXCEPT !.status = "failed"]
<1>1. V2Exact(failed) /\ V2End(failed)
  BY DEF V2Fail, NoReportV2, V2Exact
<1> QED BY <1>1, V2EndKeepsInv

LEMMA V2FinishKeepsInv ==
  ASSUME V2Inv, V2Finish, UNCHANGED chainVars PROVE V2Inv'
<1>1. PICK p \in Bijection(DOMAIN v2found, DOMAIN v2found) :
        V2End([status |-> "ok", block |-> v2block,
               opportunities |-> [i \in DOMAIN v2found |-> v2found[p[i]]]])
  BY DEF V2Finish
<1> DEFINE sorted == [i \in DOMAIN v2found |-> v2found[p[i]]]
           report == [status |-> "ok", block |-> v2block, opportunities |-> sorted]
<1>2. v2pc = "estimate" /\ v2todo = {} /\ v2block \in 1 .. Len(blocks)
      /\ v2branch = Len(Branches) /\ v2branch \in DOMAIN Branches
  BY DEF V2Finish, V2Inv, V2Types
<1>3. ListsOnce(v2found, "id", V2AllEndangered(V2Scan))
  <2>1. V2Before(V2Scan, v2branch + 1) = V2AllEndangered(V2Scan)
    BY <1>2, BranchesSoFar
  <2> QED BY <1>2, <2>1, V2BranchDone
<1>4. ListsOnce(sorted, "id", V2AllEndangered(V2Scan))
  BY <1>3, ListsOnceSorted
<1> HIDE DEF sorted
<1>5. V2Exact(report)
  BY <1>2, <1>4 DEF V2Exact, V2Scan
<1>6. V2End(report)
  BY <1>1 DEF sorted
<1> HIDE DEF report
<1> QED BY <1>5, <1>6, V2EndKeepsInv

LEMMA V2InvStep ==
  ASSUME ChainInv, scout = "v2", V2Inv, V2Next, UNCHANGED chainVars PROVE V2Inv'
BY V2BlockNumberKeepsInv, V2GasPriceKeepsInv, V2PriceKeepsInv, V2TrovesKeepsInv,
   V2EstimateKeepsInv, V2NextBranchKeepsInv, V2FinishKeepsInv, V2FailKeepsInv
   DEF V2Next

LEMMA V2ReportHolds ==
  ASSUME V2Inv PROVE V2RecordsAreTrue /\ V2NothingMissed
<1> SUFFICES ASSUME v2report.status = "ok" PROVE V2RecordsAreTrue /\ V2NothingMissed
  BY DEF V2RecordsAreTrue, V2NothingMissed
<1> DEFINE ops == v2report.opportunities
           ids == V2AllEndangered(blocks[v2report.block])
<1>1. ListsOnce(ops, "id", ids)
  BY DEF V2Inv, V2Exact
<1> HIDE DEF ops, ids
<1>2. {ops[k]["id"] : k \in DOMAIN ops} = ids /\ Cardinality(ids) = Len(ops)
  BY <1>1, ListedCounted
<1>3. V2Listed = {ops[k]["id"] : k \in DOMAIN ops}
  BY DEF V2Listed, ops
<1> QED BY <1>2, <1>3 DEF V2RecordsAreTrue, V2NothingMissed, ops, ids

------------------------------------------------------------------------------
(* Gravita.                                                                   *)

GScan == blocks[gblock]

\* The calls of the scan of one collateral, in their order.
GWalk == {"last", "vessel", "estimate", "prev"}

GTypes ==
  /\ gpc \in {"idle", "gasPrice", "assets", "config", "price"} \cup GWalk
  /\ gpc # "idle" => gblock \in 1 .. Len(blocks)
  /\ gpc \in {"config", "price"} \cup GWalk => gassets \in Seq(DOMAIN GScan.vessels)

\* The configuration at hand is the one of an active collateral at the block,
\* and the Vessel to be estimated is open with it.
GReadsAgree ==
  /\ gpc \in {"price"} \cup GWalk => gassets # << >> /\ GScan.active[Asset]
  /\ gpc = "price" => gconfig = [mcr |-> GScan.mcr[Asset], price |-> 0]
  /\ gpc \in GWalk =>
       gconfig = [mcr |-> GScan.mcr[Asset], price |-> GScan.price[Asset]]
  /\ gpc = "estimate" => <<Asset, gcurrent>> \in GEndangered(GScan)

GFoundIsOpen ==
  /\ gfound \in Seq(Range(gfound))
  /\ gpc \in {"idle", "gasPrice", "assets"} => gfound = << >>
  /\ gpc # "idle" => \A k \in DOMAIN gfound : gfound[k].id \in GEndangered(GScan)

GTrue(report) ==
  report.status = "ok" =>
    /\ report.block \in 1 .. Len(blocks)
    /\ \A k \in DOMAIN report.opportunities :
         report.opportunities[k].id \in GEndangered(blocks[report.block])

GInv == GTypes /\ GReadsAgree /\ GFoundIsOpen /\ GTrue(greport)

LEMMA GInvInit == GInit => GInv
<1> SUFFICES ASSUME GInit PROVE GInv
  OBVIOUS
<1>1. GTypes /\ GReadsAgree
  BY DEF GInit, GTypes, GReadsAgree, GWalk
<1>2. GFoundIsOpen
  BY DEF GInit, GFoundIsOpen
<1>3. GTrue(greport)
  BY DEF GInit, GTrue, NoReportG
<1> QED BY <1>1, <1>2, <1>3 DEF GInv

LEMMA GUndisturbed ==
  ASSUME GInv, ChainGrows, UNCHANGED gvars PROVE GInv'
<1>1. gpc # "idle" => GScan' = GScan
  BY DEF GInv, GTypes, GScan, ChainGrows, gvars
<1>2. GTypes'
  BY <1>1 DEF GInv, GTypes, GWalk, ChainGrows, gvars
<1>3. GReadsAgree'
  BY <1>1 DEF GInv, GReadsAgree, GWalk, Asset, gvars
<1>4. GFoundIsOpen'
  BY <1>1 DEF GInv, GFoundIsOpen, gvars
<1>5. GTrue(greport)'
  <2>1. CASE greport.status = "ok"
    <3>1. /\ greport' = greport /\ greport.block \in 1 .. Len(blocks)
          /\ greport.block \in 1 .. Len(blocks')
          /\ blocks'[greport.block] = blocks[greport.block]
      BY <2>1 DEF GInv, GTrue, ChainGrows, gvars
    <3> QED BY <3>1 DEF GInv, GTrue
  <2> QED BY <2>1 DEF GTrue, gvars
<1> QED BY <1>2, <1>3, <1>4, <1>5 DEF GInv

LEMMA GBlockIsState ==
  ASSUME ChainInv, scout = "gravita", NEW b \in 1 .. Len(blocks)
  PROVE  /\ blocks[b].assets \in Seq(DOMAIN blocks[b].vessels)
         /\ blocks[b].active \in [DOMAIN blocks[b].vessels -> BOOLEAN]
<1>1. blocks[b] \in GStates
  BY BlockIsState DEF StatesOf
<1> QED BY <1>1, GStatesAssumption

\* A call of the scan of a collateral changes no report and no record found.
LEMMA GFoundKept ==
  ASSUME GInv, UNCHANGED <<blocks, gblock, gfound, greport>>, gpc # "idle",
         gpc' \notin {"idle", "gasPrice", "assets"}
  PROVE  GFoundIsOpen' /\ GTrue(greport)' /\ GScan' = GScan
<1>1. GScan' = GScan
  BY DEF GScan
<1>2. GFoundIsOpen'
  BY <1>1 DEF GInv, GFoundIsOpen
<1>3. GTrue(greport)'
  BY DEF GInv, GTrue
<1> QED BY <1>1, <1>2, <1>3

LEMMA GBlockNumberKeepsInv ==
  ASSUME ChainInv, GInv, GBlockNumber, UNCHANGED chainVars PROVE GInv'
<1>1. gblock' \in 1 .. Len(blocks)
  BY LatestIsBlock DEF GBlockNumber
<1>2. /\ gpc = "idle" /\ gpc' = "gasPrice" /\ greport'.status # "ok"
      /\ UNCHANGED <<blocks, head, gfound>>
  BY DEF GBlockNumber, chainVars, NoReportG
<1>3. GTypes' /\ GReadsAgree'
  BY <1>1, <1>2 DEF GTypes, GReadsAgree, GWalk
<1>4. GFoundIsOpen' /\ GTrue(greport)'
  BY <1>2 DEF GInv, GFoundIsOpen, GTrue
<1> QED BY <1>3, <1>4 DEF GInv

LEMMA GGasPriceKeepsInv ==
  ASSUME GInv, GGasPrice, UNCHANGED chainVars PROVE GInv'
<1>1. /\ gpc = "gasPrice" /\ gpc' = "assets"
      /\ UNCHANGED <<blocks, head, gblock, gfound, greport>>
  BY DEF GGasPrice, chainVars
<1>2. GTypes' /\ GReadsAgree'
  BY <1>1 DEF GInv, GTypes, GReadsAgree, GWalk
<1>3. GFoundIsOpen' /\ GTrue(greport)'
  BY <1>1 DEF GInv, GFoundIsOpen, GTrue
<1> QED BY <1>2, <1>3 DEF GInv

LEMMA GAssetsKeepsInv ==
  ASSUME ChainInv, scout = "gravita", GInv, GAssets, UNCHANGED chainVars PROVE GInv'
<1>1. /\ gpc = "assets" /\ gpc' = "config" /\ gassets' = GScan.assets
      /\ UNCHANGED <<blocks, head, gblock, gfound, greport>>
  BY BlockAnswers DEF GAssets, GScan, chainVars
<1>2. GScan.assets \in Seq(DOMAIN GScan.vessels) /\ gblock \in 1 .. Len(blocks)
  BY <1>1, GBlockIsState DEF GInv, GTypes, GScan
<1>3. GFoundIsOpen' /\ GTrue(greport)' /\ GScan' = GScan
  BY <1>1, GFoundKept
<1>4. GTypes' /\ GReadsAgree'
  BY <1>1, <1>2, <1>3 DEF GTypes, GReadsAgree, GWalk
<1> QED BY <1>3, <1>4 DEF GInv

\* Going on with the next collateral.
LEMMA AssetDoneKeepsInv ==
  ASSUME GInv, NEW status, AssetDone(status), gpc \in {"config", "price"} \cup GWalk,
         gassets # << >>, UNCHANGED <<blocks, gblock, gfound, greport>>
  PROVE  GInv'
<1>1. gpc' = "config" /\ gassets' = Tail(gassets)
  BY DEF AssetDone
<1>2. GFoundIsOpen' /\ GTrue(greport)' /\ GScan' = GScan
  BY <1>1, GFoundKept DEF GWalk
<1>3. gassets' \in Seq(DOMAIN GScan.vessels) /\ gblock \in 1 .. Len(blocks)
  BY <1>1 DEF GInv, GTypes, GWalk
<1>4. GTypes' /\ GReadsAgree'
  BY <1>1, <1>2, <1>3 DEF GTypes, GReadsAgree, GWalk
<1> QED BY <1>2, <1>4 DEF GInv

LEMMA GConfigKeepsInv ==
  ASSUME ChainInv, scout = "gravita", GInv, GConfig, UNCHANGED chainVars PROVE GInv'
<1>1. /\ gpc = "config" /\ gassets # << >>
      /\ UNCHANGED <<blocks, gblock, gfound, greport>>
  BY DEF GConfig, chainVars
<1>2. \/ /\ GScan.active[Asset] /\ gconfig' = [NoConfig EXCEPT !.mcr = GScan.mcr[Asset]]
         /\ gpc' = "price" /\ gassets' = gassets
      \/ AssetDone("inactive")
  BY BlockAnswers DEF GConfig, GScan
<1>3. CASE AssetDone("inactive")
  BY <1>1, <1>3, AssetDoneKeepsInv
<1>4. CASE /\ GScan.active[Asset]
           /\ gconfig' = [NoConfig EXCEPT !.mcr = GScan.mcr[Asset]]
           /\ gpc' = "price" /\ gassets' = gassets
  <2>1. GFoundIsOpen' /\ GTrue(greport)' /\ GScan' = GScan
    BY <1>1, <1>4, GFoundKept
  <2>2. GTypes'
    BY <1>1, <1>4, <2>1 DEF GInv, GTypes, GWalk
  <2>3. gconfig' = [mcr |-> GScan.mcr[Asset], price |-> 0]
    BY <1>4 DEF NoConfig
  <2>4. GReadsAgree'
    BY <1>1, <1>4, <2>1, <2>3 DEF GReadsAgree, GWalk, Asset
  <2> QED BY <2>1, <2>2, <2>4 DEF GInv
<1> QED BY <1>2, <1>3, <1>4

LEMMA GPriceKeepsInv ==
  ASSUME GInv, GPrice, UNCHANGED chainVars PROVE GInv'
<1>1. /\ gpc = "price" /\ gpc' = "last"
      /\ gconfig' = [gconfig EXCEPT !.price = GScan.price[Asset]]
      /\ UNCHANGED <<blocks, gblock, gassets, gfound, greport>>
  BY BlockAnswers DEF GPrice, GScan, chainVars
<1>2. GFoundIsOpen' /\ GTrue(greport)' /\ GScan' = GScan
  BY <1>1, GFoundKept
<1>3. GTypes'
  BY <1>1, <1>2 DEF GInv, GTypes, GWalk
<1>4. gconfig' = [mcr |-> GScan.mcr[Asset], price |-> GScan.price[Asset]]
  BY <1>1 DEF GInv, GReadsAgree
<1>5. GReadsAgree'
  BY <1>1, <1>2, <1>4 DEF GInv, GReadsAgree, GWalk, Asset
<1> QED BY <1>2, <1>3, <1>5 DEF GInv

LEMMA GOracleUnavailableKeepsInv ==
  ASSUME GInv, GOracleUnavailable, UNCHANGED chainVars PROVE GInv'
BY AssetDoneKeepsInv
   DEF GOracleUnavailable, GInv, GReadsAgree, GWalk, chainVars

LEMMA GListEndsKeepsInv ==
  ASSUME GInv, GListEnds, UNCHANGED chainVars PROVE GInv'
BY AssetDoneKeepsInv DEF GListEnds, GInv, GReadsAgree, GWalk, chainVars

\* Steps along the list read nothing of the collateral.
LEMMA GStepAlongKeepsInv ==
  ASSUME GInv, GLast \/ GPrev, UNCHANGED chainVars PROVE GInv'
<1>1. /\ gpc \in GWalk /\ gpc' = "vessel"
      /\ UNCHANGED <<blocks, gblock, gassets, gconfig, gfound, greport>>
  BY DEF GLast, GPrev, GWalk, chainVars
<1>2. GFoundIsOpen' /\ GTrue(greport)' /\ GScan' = GScan
  BY <1>1, GFoundKept DEF GWalk
<1>3. GTypes' /\ GReadsAgree'
  BY <1>1, <1>2 DEF GInv, GTypes, GReadsAgree, GWalk, Asset
<1> QED BY <1>2, <1>3 DEF GInv

\* The contract computes the ratio from the price the Scout read at the block.
LEMMA GVesselKeepsInv ==
  ASSUME GInv, GVessel, UNCHANGED chainVars PROVE GInv'
<1>1. /\ gpc = "vessel" /\ gassets # << >>
      /\ UNCHANGED <<blocks, gblock, gfound, greport>>
  BY DEF GVessel, GInv, GReadsAgree, GWalk, chainVars
<1>2. \/ /\ \E v \in Vessels(GScan, Asset) :
              v.borrower = gcurrent /\ Icr(v, gconfig.price) < gconfig.mcr
         /\ gpc' = "estimate" /\ UNCHANGED <<gassets, gconfig, gcurrent>>
      \/ AssetDone("ok")
  BY BlockAnswers DEF GVessel, GScan
<1>3. CASE AssetDone("ok")
  BY <1>1, <1>3, AssetDoneKeepsInv DEF GWalk
<1>4. CASE /\ \E v \in Vessels(GScan, Asset) :
                v.borrower = gcurrent /\ Icr(v, gconfig.price) < gconfig.mcr
           /\ gpc' = "estimate" /\ UNCHANGED <<gassets, gconfig, gcurrent>>
  <2>1. GFoundIsOpen' /\ GTrue(greport)' /\ GScan' = GScan
    BY <1>1, <1>4, GFoundKept
  <2>2. GTypes'
    BY <1>1, <1>4, <2>1 DEF GInv, GTypes, GWalk
  <2>3. /\ GScan.active[Asset] /\ Asset \in DOMAIN GScan.vessels
        /\ gconfig.mcr = GScan.mcr[Asset] /\ gconfig.price = GScan.price[Asset]
    BY <1>1 DEF GInv, GTypes, GReadsAgree, GWalk, Asset
  <2>4. PICK v \in Vessels(GScan, Asset) :
          v.borrower = gcurrent /\ Icr(v, gconfig.price) < gconfig.mcr
    BY <1>4
  <2>5. <<Asset, gcurrent>> \in GEndangered(GScan)
    BY <2>3, <2>4 DEF GEndangered
  <2>6. GReadsAgree'
    BY <1>1, <1>4, <2>1, <2>5 DEF GInv, GReadsAgree, GWalk, Asset
  <2> QED BY <2>1, <2>2, <2>6 DEF GInv
<1> QED BY <1>2, <1>3, <1>4

LEMMA GEstimateKeepsInv ==
  ASSUME GInv, GEstimate, UNCHANGED chainVars PROVE GInv'
<1>1. /\ gpc = "estimate" /\ gpc' = "prev" /\ GScan' = GScan
      /\ UNCHANGED <<blocks, gblock, gassets, gconfig, greport>>
  BY DEF GEstimate, GScan, chainVars
<1>2. GTypes' /\ GReadsAgree'
  BY <1>1 DEF GInv, GTypes, GReadsAgree, GWalk, Asset
<1>3. GTrue(greport)'
  BY <1>1 DEF GInv, GTrue
<1>4. GFoundIsOpen'
  <2>1. CASE UNCHANGED gfound
    BY <1>1, <2>1 DEF GInv, GFoundIsOpen
  <2>2. CASE gfound' = Append(gfound, GOpportunity)
    <3> DEFINE x == GOpportunity
    <3>1. x.id \in GEndangered(GScan)
      BY <1>1 DEF GOpportunity, GInv, GReadsAgree
    <3> HIDE DEF x
    <3>2. gfound \in Seq(Range(gfound))
      BY DEF GInv, GFoundIsOpen
    <3>3. /\ Append(gfound, x) \in Seq(Range(gfound) \cup {x})
          /\ \A k \in DOMAIN Append(gfound, x) :
               \/ Append(gfound, x)[k] = x
               \/ k \in DOMAIN gfound /\ Append(gfound, x)[k] = gfound[k]
      BY <3>2, AppendProperties
    <3>4. gfound' = Append(gfound, x)
      BY <2>2 DEF x
    <3>5. gfound' \in Seq(Range(gfound'))
      BY <3>3, <3>4, SeqOfRange
    <3> QED BY <1>1, <3>1, <3>3, <3>4, <3>5 DEF GInv, GFoundIsOpen
  <2> QED BY <2>1, <2>2 DEF GEstimate
<1> QED BY <1>2, <1>3, <1>4 DEF GInv

LEMMA GEndKeepsInv ==
  ASSUME GInv, NEW report, GEnd(report), UNCHANGED chainVars, GTrue(report)
  PROVE  GInv'
<1>1. GTypes' /\ GReadsAgree' /\ GFoundIsOpen'
  BY DEF GEnd, GTypes, GReadsAgree, GFoundIsOpen, GWalk
<1>2. GTrue(greport)'
  BY DEF GEnd, GTrue, chainVars
<1> QED BY <1>1, <1>2 DEF GInv

LEMMA GFailKeepsInv ==
  ASSUME GInv, GFail, UNCHANGED chainVars PROVE GInv'
<1> DEFINE failed == [NoReportG EXCEPT !.status = "failed"]
<1>1. GTrue(failed) /\ GEnd(failed)
  BY DEF GFail, NoReportG, GTrue
<1> QED BY <1>1, GEndKeepsInv

LEMMA GFinishKeepsInv ==
  ASSUME GInv, GFinish, UNCHANGED chainVars PROVE GInv'
<1>1. PICK p \in Bijection(DOMAIN gfound, DOMAIN gfound) :
        GEnd([status |-> "ok", block |-> gblock, stats |-> gstats,
              opportunities |-> [i \in DOMAIN gfound |-> gfound[p[i]]]])
  BY DEF GFinish
<1> DEFINE report == [status |-> "ok", block |-> gblock, stats |-> gstats,
                      opportunities |-> [i \in DOMAIN gfound |-> gfound[p[i]]]]
<1>2. p \in [DOMAIN gfound -> DOMAIN gfound]
  BY DEF Bijection, Injection
<1>3. \A i \in DOMAIN gfound : gfound[p[i]].id \in GEndangered(GScan)
  BY <1>2 DEF GFinish, GInv, GFoundIsOpen
<1>4. gblock \in 1 .. Len(blocks)
  BY DEF GFinish, GInv, GTypes
<1>5. GTrue(report)
  BY <1>3, <1>4 DEF GTrue, GScan
<1>6. GEnd(report)
  BY <1>1
<1> HIDE DEF report
<1> QED BY <1>5, <1>6, GEndKeepsInv

LEMMA GInvStep ==
  ASSUME ChainInv, scout = "gravita", GInv, GNext, UNCHANGED chainVars PROVE GInv'
BY GBlockNumberKeepsInv, GGasPriceKeepsInv, GAssetsKeepsInv, GConfigKeepsInv,
   GPriceKeepsInv, GOracleUnavailableKeepsInv, GStepAlongKeepsInv,
   GVesselKeepsInv, GListEndsKeepsInv, GEstimateKeepsInv, GFinishKeepsInv,
   GFailKeepsInv DEF GNext

------------------------------------------------------------------------------
(* The three Scouts.                                                          *)

\* Of the Scouts that do not run there is no report.
Inv ==
  /\ ChainInv /\ V1Inv /\ V2Inv /\ GInv
  /\ scout # "v1" => v1report.status # "ok"

LEMMA InvInit == Init => Inv
BY ChainInvInit, V1InvInit, V2InvInit, GInvInit DEF Init, V1Init, NoReportV1, Inv

LEMMA InvStep ==
  ASSUME Inv, [Next]_<<scout, chainVars, ScoutVars>> PROVE Inv'
<1>1. ChainInv' /\ ChainGrows
  BY ChainInvStep DEF Inv
<1>2. CASE UNCHANGED <<scout, chainVars, ScoutVars>> \/ ChainMoves
  <2>1. UNCHANGED <<scout, v1vars, v2vars, gvars>>
    BY <1>2 DEF ChainMoves, ScoutVars
  <2> QED BY <1>1, <2>1, V1Undisturbed, V2Undisturbed, GUndisturbed
          DEF Inv, v1vars
<1>3. CASE ScanV1
  <2>1. scout = "v1" /\ V1Next /\ UNCHANGED <<scout, chainVars, v2vars, gvars>>
    BY <1>3 DEF ScanV1
  <2> QED BY <1>1, <2>1, V1InvStep, V2Undisturbed, GUndisturbed DEF Inv
<1>4. CASE ScanV2
  <2>1. scout = "v2" /\ V2Next /\ UNCHANGED <<scout, chainVars, v1vars, gvars>>
    BY <1>4 DEF ScanV2
  <2> QED BY <1>1, <2>1, V1Undisturbed, V2InvStep, GUndisturbed DEF Inv, v1vars
<1>5. CASE ScanGravita
  <2>1. scout = "gravita" /\ GNext /\ UNCHANGED <<scout, chainVars, v1vars, v2vars>>
    BY <1>5 DEF ScanGravita
  <2> QED BY <1>1, <2>1, V1Undisturbed, V2Undisturbed, GInvStep DEF Inv, v1vars
<1> QED BY <1>2, <1>3, <1>4, <1>5 DEF Next

\* Whatever the chain and the endpoints did during a scan, everything its
\* report lists was open at the one block the report names
\* (liquity_v1.py:401, liquity_v2.py:405, gravita.py:545).
THEOREM ReportsAreTrue == Spec => []RecordsAreTrue
<1>1. Inv => RecordsAreTrue
  <2>1. Inv => V1RecordsAreTrue
    BY V1ReportHolds DEF Inv
  <2>2. Inv => V2RecordsAreTrue
    BY V2ReportHolds DEF Inv
  <2>3. Inv => GRecordsAreTrue
    BY DEF Inv, GInv, GTrue, GRecordsAreTrue, GListed
  <2> QED BY <2>1, <2>2, <2>3 DEF RecordsAreTrue
<1> QED BY <1>1, InvInit, InvStep, PTL DEF Spec

\* A Liquity scan that succeeds lists every open Trove within its limit once,
\* for every batch size and limit (liquity_v1.py:242, liquity_v2.py:266).
THEOREM PagingIsExact == Spec => []NothingMissed
<1>1. Inv => NothingMissed
  BY V1ReportHolds, V2ReportHolds DEF Inv, NothingMissed
<1> QED BY <1>1, InvInit, InvStep, PTL DEF Spec
==============================================================================
