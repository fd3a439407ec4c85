--------------------------- MODULE OpportunityProofs --------------------------
(* The snapshot ledger and the review of what a source offers.                *)
(*                                                                            *)
(* Overlapping and dying commands damage the snapshot ledger no further than  *)
(* by a line for each death, and without overlap no snapshot is in it twice,  *)
(* for every source, any offers and any number of processes; and what the     *)
(* analysis reads off it is a lower bound of what happened.                   *)
(* While nothing has gone wrong at most one command is under way, and the     *)
(* snapshots it loaded are those of the file until it has written.            *)
(*                                                                            *)
(* Deduplication never drops the strongest review of what it merges, for      *)
(* every batch of every set of records, in every order, and the listing shows *)
(* each group of a batch once.  Groups grow and only trade their review for a *)
(* stronger one, so a group that stands for a record goes on standing for it. *)
EXTENDS SnapshotLedger, Review, FiniteSums, SequenceTheorems, TLAPS

Lines == {Torn} \cup {Snapshot(t, o) : t \in Nat, o \in Offers \cup {NoOffer}}

Commands ==
  [pc : {"idle", "asking", "loading", "writing"}, now : Nat,
   seen : {<< >>} \cup {<<line>> : line \in Lines \ {Torn}},
   known : SUBSET Lines]

LedgerTypes ==
  /\ offer \in Offers \cup {NoOffer}
  /\ ledger \in Seq(Lines)
  /\ clock \in Nat
  /\ writer \in [Writers -> Commands]
  /\ ledgerCrashes \in Nat

\* A line without its newline is as good as lost: the next one joins it.
TornIn(lines) == {i \in DOMAIN lines : lines[i] = Torn}
TornLines == TornIn(ledger)
Hanging == ~terminated /\ Len(ledger) \notin TornLines

NoRepeats ==
  \A i, j \in DOMAIN ledger : i # j /\ ledger[i] # Torn => ledger[i] # ledger[j]

LinesOf == {ledger[i] : i \in DOMAIN ledger}

LedgerInv ==
  /\ LedgerTypes
  /\ Cardinality(TornLines) + (IF Hanging THEN 1 ELSE 0) <= ledgerCrashes
  /\ ~overlapped =>
       /\ NoRepeats
       /\ \A p, q \in Busy : p = q
       /\ \A p \in Writers : writer[p].pc = "writing" => writer[p].known = LinesOf

LEMMA SnapshotIsNotTorn ==
  ASSUME NEW t, NEW o PROVE Snapshot(t, o) # Torn
<1>1. "at" \in DOMAIN Snapshot(t, o)
  BY DEF Snapshot
<1>2. "at" \notin DOMAIN Torn
  BY DEF Torn
<1> QED BY <1>1, <1>2

LEMMA IdleIsCommand == Idle \in Commands /\ Idle.pc = "idle"
BY DEF Idle, Commands

LEMMA LedgerInvInit == LedgerInit => LedgerInv
<1> SUFFICES ASSUME LedgerInit PROVE LedgerInv
  OBVIOUS
<1>1. LedgerTypes
  BY IdleIsCommand DEF LedgerInit, LedgerTypes
<1>2. TornLines = {} /\ ~Hanging /\ NoRepeats
  BY DEF LedgerInit, TornLines, TornIn, Hanging, NoRepeats
<1>3. Cardinality(TornLines) = 0 /\ ledgerCrashes = 0
  BY <1>2, FS_EmptySet DEF LedgerInit
<1>4. Busy = {}
  BY IdleIsCommand DEF LedgerInit, Busy
<1>5. \A p \in Writers : writer[p].pc # "writing"
  BY IdleIsCommand DEF LedgerInit
<1> QED BY <1>1, <1>2, <1>3, <1>4, <1>5 DEF LedgerInv

\* A line added to a file that ends in a newline is the last one; else it
\* joins the last one.
LEMMA WithLineAppends ==
  ASSUME NEW line \in Lines, ledger \in Seq(Lines)
  PROVE  /\ WithLine(line) \in Seq(Lines)
         /\ terminated => WithLine(line) = Append(ledger, line)
         /\ ~terminated =>
              /\ DOMAIN WithLine(line) = DOMAIN ledger
              /\ Len(WithLine(line)) = Len(ledger)
              /\ \A i \in DOMAIN ledger :
                   WithLine(line)[i] = IF i = Len(ledger) THEN Torn ELSE ledger[i]
<1>1. CASE terminated
  BY <1>1 DEF WithLine
<1>2. CASE ~terminated
  <2> DEFINE joined == [ledger EXCEPT ![Len(ledger)] = Torn]
  <2>1. Torn \in Lines
    BY DEF Lines
  <2> HIDE DEF Lines
  <2>2. /\ DOMAIN joined = 1 .. Len(ledger) /\ Len(ledger) \in Nat
        /\ \A i \in 1 .. Len(ledger) :
             joined[i] = IF i = Len(ledger) THEN Torn ELSE ledger[i]
        /\ \A i \in 1 .. Len(ledger) : joined[i] \in Lines
    BY <2>1
  <2>3. joined \in [1 .. Len(ledger) -> Lines]
    BY <2>2
  <2>4. joined \in Seq(Lines)
    <3> HIDE DEF joined
    <3> QED BY <2>2, <2>3, SeqDef
  <2>5. WithLine(line) = joined
    BY <1>2 DEF WithLine
  <2> HIDE DEF joined
  <2>6. Len(joined) = Len(ledger) /\ DOMAIN ledger = 1 .. Len(ledger)
    BY <2>2, <2>4
  <2> QED BY <1>2, <2>2, <2>4, <2>5, <2>6
<1> QED BY <1>1, <1>2

LEMMA TornLinesAreFinite ==
  ASSUME NEW lines \in Seq(Lines)
  PROVE  IsFiniteSet(TornIn(lines)) /\ Cardinality(TornIn(lines)) \in Nat
<1> HIDE DEF Lines
<1>1. TornIn(lines) \in SUBSET (1 .. Len(lines)) /\ Len(lines) \in Nat
  BY DEF TornIn
<1>2. IsFiniteSet(1 .. Len(lines))
  BY <1>1, FS_Interval
<1> QED BY <1>1, <1>2, FS_Subset, FS_CardinalityType

\* Writing a line ruins one line at most: itself, or the one that hangs.
LEMMA WritingRuinsOneLine ==
  ASSUME NEW line \in Lines, ledger \in Seq(Lines), ledger' = WithLine(line)
  PROVE  /\ terminated /\ line # Torn =>
              Cardinality(TornLines') = Cardinality(TornLines)
         /\ terminated /\ line = Torn =>
              /\ Cardinality(TornLines') <= Cardinality(TornLines) + 1
              /\ Len(ledger') \in TornLines'
         /\ ~terminated =>
              Cardinality(TornLines') <=
                Cardinality(TornLines) + IF Hanging THEN 1 ELSE 0
<1>1. IsFiniteSet(TornLines) /\ Cardinality(TornLines) \in Nat
  BY TornLinesAreFinite DEF TornLines
<1> HIDE DEF Lines
<1>2. Len(ledger) \in Nat /\ DOMAIN ledger = 1 .. Len(ledger)
  OBVIOUS
<1>3. ASSUME NEW n
      PROVE  /\ IsFiniteSet(TornLines \cup {n})
             /\ Cardinality(TornLines \cup {n}) <= Cardinality(TornLines) + 1
  <2>1. Cardinality(TornLines \cup {n}) =
          IF n \in TornLines THEN Cardinality(TornLines) ELSE Cardinality(TornLines) + 1
    BY <1>1, FS_AddElement
  <2>2. IsFiniteSet(TornLines \cup {n})
    BY <1>1, FS_AddElement
  <2> QED BY <1>1, <2>1, <2>2
<1>4. CASE terminated
  <2>1. ledger' = Append(ledger, line)
    BY <1>4, WithLineAppends
  <2>2. /\ DOMAIN ledger' = 1 .. (Len(ledger) + 1) /\ Len(ledger') = Len(ledger) + 1
        /\ ledger'[Len(ledger) + 1] = line
        /\ \A i \in 1 .. Len(ledger) : ledger'[i] = ledger[i]
    BY <2>1
  <2>3. CASE line # Torn
    <3>1. TornLines' = TornLines
      BY <1>2, <2>2, <2>3 DEF TornLines, TornIn
    <3> QED BY <1>4, <2>3, <3>1
  <2>4. CASE line = Torn
    <3>1. TornLines' = TornLines \cup {Len(ledger) + 1}
      BY <1>2, <2>2, <2>4 DEF TornLines, TornIn
    <3> QED BY <1>3, <1>4, <2>2, <2>4, <3>1
  <2> QED BY <2>3, <2>4
<1>5. CASE ~terminated
  <2>1. /\ DOMAIN ledger' = DOMAIN ledger
        /\ \A i \in DOMAIN ledger :
             ledger'[i] = IF i = Len(ledger) THEN Torn ELSE ledger[i]
    BY <1>5, WithLineAppends
  <2>2. TornLines' \subseteq TornLines \cup {Len(ledger)}
    BY <2>1 DEF TornLines, TornIn
  <2>3. CASE Hanging
    <3>1. Cardinality(TornLines') <= Cardinality(TornLines \cup {Len(ledger)})
          /\ Cardinality(TornLines') \in Nat
          /\ Cardinality(TornLines \cup {Len(ledger)}) \in Nat
      BY <1>3, <2>2, FS_Subset, FS_CardinalityType
    <3>2. Cardinality(TornLines \cup {Len(ledger)}) <= Cardinality(TornLines) + 1
      BY <1>3
    <3>3. Cardinality(TornLines') <= Cardinality(TornLines) + 1
      BY <1>1, <3>1, <3>2
    <3> QED BY <1>5, <2>3, <3>3
  <2>4. CASE ~Hanging
    <3>1. TornLines' \subseteq TornLines
      BY <1>5, <2>2, <2>4 DEF Hanging
    <3>2. Cardinality(TornLines') <= Cardinality(TornLines)
      BY <1>1, <3>1, FS_Subset
    <3> QED BY <1>1, <1>5, <2>4, <3>2
  <2> QED BY <2>3, <2>4
<1> QED BY <1>4, <1>5

\* What is new is not in the file yet; and joining takes a line away.
LEMMA NewLineIsNoRepeat ==
  ASSUME NEW line \in Lines, ledger \in Seq(Lines), NoRepeats,
         line = Torn \/ line \notin LinesOf, ledger' = WithLine(line)
  PROVE  NoRepeats'
<1> HIDE DEF Lines
<1>1. Len(ledger) \in Nat /\ DOMAIN ledger = 1 .. Len(ledger)
  OBVIOUS
<1>2. CASE terminated
  <2>1. ledger' = Append(ledger, line)
    BY <1>2, WithLineAppends
  <2>2. /\ DOMAIN ledger' = 1 .. (Len(ledger) + 1)
        /\ ledger'[Len(ledger) + 1] = line
        /\ \A i \in 1 .. Len(ledger) : ledger'[i] = ledger[i]
    BY <2>1
  <2>3. line # Torn => \A i \in 1 .. Len(ledger) : ledger[i] # line
    BY <1>1 DEF LinesOf
  <2>4. ASSUME NEW i \in DOMAIN ledger', NEW j \in DOMAIN ledger',
               i # j, ledger'[i] # Torn
        PROVE  ledger'[i] # ledger'[j]
    <3>1. CASE i \in 1 .. Len(ledger) /\ j \in 1 .. Len(ledger)
      BY <1>1, <2>2, <2>4, <3>1 DEF NoRepeats
    <3>2. CASE i = Len(ledger) + 1 /\ j \in 1 .. Len(ledger)
      BY <2>2, <2>3, <2>4, <3>2
    <3>3. CASE j = Len(ledger) + 1 /\ i \in 1 .. Len(ledger)
      BY <2>2, <2>3, <2>4, <3>3
    <3> QED BY <1>1, <2>2, <2>4, <3>1, <3>2, <3>3
  <2> QED BY <2>4 DEF NoRepeats
<1>3. CASE ~terminated
  <2>1. /\ DOMAIN ledger' = DOMAIN ledger
        /\ \A i \in DOMAIN ledger :
             ledger'[i] = IF i = Len(ledger) THEN Torn ELSE ledger[i]
    BY <1>3, WithLineAppends
  <2>2. ASSUME NEW i \in DOMAIN ledger', NEW j \in DOMAIN ledger',
               i # j, ledger'[i] # Torn
        PROVE  ledger'[i] # ledger'[j]
    BY <2>1, <2>2 DEF NoRepeats
  <2> QED BY <2>2 DEF NoRepeats
<1> QED BY <1>2, <1>3

LEMMA OfferChangesKeepsInv == LedgerInv /\ OfferChanges => LedgerInv'
<1> SUFFICES ASSUME LedgerInv, OfferChanges PROVE LedgerInv'
  OBVIOUS
<1>1. UNCHANGED <<ledger, terminated, clock, writer, ledgerCrashes, overlapped>>
      /\ offer' \in Offers
  BY DEF OfferChanges
<1>2. UNCHANGED <<TornLines, Hanging, NoRepeats, LinesOf, Busy>>
  BY <1>1 DEF TornLines, TornIn, Hanging, NoRepeats, LinesOf, Busy
<1> QED BY <1>1, <1>2 DEF LedgerInv, LedgerTypes

LEMMA BeginSnapshotKeepsInv ==
  ASSUME LedgerInv, NEW p \in Writers, BeginSnapshot(p) PROVE LedgerInv'
<1> DEFINE begun == [Idle EXCEPT !.pc = "asking", !.now = clock']
<1>1. clock' \in Nat
  BY DEF BeginSnapshot, LedgerInv, LedgerTypes
<1>2. begun \in Commands /\ begun.pc = "asking"
  BY <1>1 DEF Idle, Commands
<1>3. writer' = [writer EXCEPT ![p] = begun]
  BY DEF BeginSnapshot
<1>4. UNCHANGED <<offer, ledger, terminated, ledgerCrashes>>
  BY DEF BeginSnapshot, worldVars
<1>5. LedgerTypes'
  BY <1>1, <1>2, <1>3, <1>4 DEF LedgerInv, LedgerTypes
<1>6. UNCHANGED <<TornLines, Hanging, NoRepeats>>
  BY <1>4 DEF TornLines, TornIn, Hanging, NoRepeats
<1>7. ASSUME ~overlapped'
      PROVE  /\ NoRepeats
             /\ \A q, r \in Busy' : q = r
             /\ \A q \in Writers : writer'[q].pc # "writing"
  <2>1. ~overlapped /\ Busy = {}
    BY <1>7 DEF BeginSnapshot
  <2>2. \A q \in Writers : q # p => writer'[q].pc = "idle"
    BY <2>1, <1>3 DEF Busy, LedgerInv, LedgerTypes
  <2>3. writer'[p].pc = "asking"
    BY <1>2, <1>3 DEF LedgerInv, LedgerTypes
  <2>4. Busy' \subseteq {p}
    BY <2>2 DEF Busy
  <2> QED BY <2>1, <2>2, <2>3, <2>4 DEF LedgerInv
<1> QED BY <1>4, <1>5, <1>6, <1>7 DEF LedgerInv

\* A step of a command under way that leaves file, clock and ghosts alone.
LEMMA QuietStepKeepsInv ==
  ASSUME LedgerInv, NEW p \in Writers, NEW next \in Commands,
         writer[p].pc # "idle",
         next.pc = "writing" => next.known = LinesOf,
         writer' = [writer EXCEPT ![p] = next],
         UNCHANGED <<offer, ledger, terminated, clock, ledgerCrashes, overlapped>>
  PROVE  LedgerInv'
<1>1. LedgerTypes'
  BY DEF LedgerInv, LedgerTypes
<1>2. Busy' \subseteq Busy
  BY DEF Busy, LedgerInv, LedgerTypes
<1>3. UNCHANGED <<TornLines, Hanging, NoRepeats, LinesOf>>
  BY DEF TornLines, TornIn, Hanging, NoRepeats, LinesOf
<1>4. ASSUME ~overlapped, NEW q \in Writers, writer'[q].pc = "writing"
      PROVE  writer'[q].known = LinesOf
  <2>1. CASE q = p
    BY <2>1, <1>4 DEF LedgerInv, LedgerTypes
  <2>2. CASE q # p
    BY <2>2, <1>4 DEF LedgerInv, LedgerTypes
  <2> QED BY <2>1, <2>2
<1> QED BY <1>1, <1>2, <1>3, <1>4 DEF LedgerInv

LEMMA AskScoutKeepsInv ==
  ASSUME LedgerInv, NEW p \in Writers, AskScout(p) PROVE LedgerInv'
<1>1. PICK seen \in {<< >>, <<Snapshot(writer[p].now, offer)>>} :
        writer' = [writer EXCEPT ![p].pc = "loading", ![p].seen = seen]
  BY DEF AskScout
<1> DEFINE next == [writer[p] EXCEPT !.pc = "loading", !.seen = seen]
<1>2. writer[p] \in Commands /\ offer \in Offers \cup {NoOffer}
  BY DEF LedgerInv, LedgerTypes
<1>3. Snapshot(writer[p].now, offer) \in Lines \ {Torn}
  BY <1>2, SnapshotIsNotTorn DEF Lines, Commands
<1>4. next \in Commands /\ next.pc = "loading"
  BY <1>2, <1>3 DEF Commands
<1>5. writer' = [writer EXCEPT ![p] = next]
  BY <1>1, <1>2 DEF LedgerInv, LedgerTypes
<1> HIDE DEF next
<1> QED BY <1>4, <1>5, QuietStepKeepsInv DEF AskScout, worldVars

LEMMA LoadLedgerKeepsInv ==
  ASSUME LedgerInv, NEW p \in Writers, LoadLedger(p) PROVE LedgerInv'
<1> DEFINE loaded == [writer[p] EXCEPT !.pc = "writing", !.known = LinesOf]
           next == IF Readable THEN loaded ELSE Idle
<1>1. writer[p] \in Commands /\ LinesOf \subseteq Lines
  BY DEF LedgerInv, LedgerTypes, LinesOf
<1>2. loaded \in Commands /\ loaded.known = LinesOf
  BY <1>1 DEF Commands
<1>3. next \in Commands /\ (next.pc = "writing" => next.known = LinesOf)
  BY <1>2, IdleIsCommand
<1>4. writer' = [writer EXCEPT ![p] = next]
  BY DEF LoadLedger, LinesOf, LedgerInv, LedgerTypes
<1> HIDE DEF next
<1> QED BY <1>3, <1>4, QuietStepKeepsInv DEF LoadLedger, worldVars

\* The command that writes is the only one, unless commands overlap, and it
\* writes what it did not find in the file.
LEMMA WriterIsAlone ==
  ASSUME LedgerInv, NEW p \in Writers, writer[p].pc = "writing", IsNew(writer[p]),
         writer' = [writer EXCEPT ![p] = Idle]
  PROVE  /\ writer[p].seen[1] \in Lines \ {Torn}
         /\ ~overlapped => /\ writer[p].seen[1] \notin LinesOf
                           /\ \A q \in Writers : writer'[q].pc = "idle"
<1>1. writer[p].seen[1] \in Lines \ {Torn}
  BY DEF LedgerInv, LedgerTypes, Commands, IsNew
<1>2. ASSUME ~overlapped
      PROVE  /\ writer[p].seen[1] \notin LinesOf
             /\ \A q \in Writers : writer'[q].pc = "idle"
  <2>1. \A q \in Writers : q # p => writer[q].pc = "idle"
    BY <1>2 DEF LedgerInv, Busy
  <2>2. \A q \in Writers : writer'[q].pc = "idle"
    BY <2>1, IdleIsCommand DEF LedgerInv, LedgerTypes
  <2>3. writer[p].seen[1] \notin LinesOf
    BY <1>2 DEF LedgerInv, IsNew
  <2> QED BY <2>2, <2>3
<1> QED BY <1>1, <1>2

LEMMA WriteLedgerKeepsInv ==
  ASSUME LedgerInv, NEW p \in Writers, WriteLedger(p) PROVE LedgerInv'
<1>1. CASE IsNew(writer[p])
  <2> DEFINE line == writer[p].seen[1]
  <2>1. /\ ledger' = WithLine(line) /\ terminated' = TRUE
        /\ writer[p].pc = "writing" /\ writer' = [writer EXCEPT ![p] = Idle]
        /\ UNCHANGED <<offer, clock, ledgerCrashes, overlapped>>
    BY <1>1 DEF WriteLedger, EndsLine, worldVars
  <2>2. /\ line \in Lines \ {Torn}
        /\ ~overlapped => /\ line \notin LinesOf
                          /\ \A q \in Writers : writer'[q].pc = "idle"
    BY <1>1, <2>1, WriterIsAlone
  <2>3. ledger \in Seq(Lines) /\ ledgerCrashes \in Nat
    BY DEF LedgerInv, LedgerTypes
  <2> HIDE DEF line
  <2>4. ledger' \in Seq(Lines)
    BY <2>1, <2>2, <2>3, WithLineAppends
  <2>5. LedgerTypes'
    BY <2>1, <2>4, IdleIsCommand DEF LedgerInv, LedgerTypes
  <2>6. Cardinality(TornLines') + (IF Hanging' THEN 1 ELSE 0) <= ledgerCrashes'
    <3>1. Cardinality(TornLines') <=
            Cardinality(TornLines) + (IF Hanging THEN 1 ELSE 0)
      <4>1. CASE terminated
        BY <2>1, <2>2, <2>3, <4>1, TornLinesAreFinite, WritingRuinsOneLine
           DEF TornLines
      <4>2. CASE ~terminated
        BY <2>1, <2>2, <2>3, <4>2, WritingRuinsOneLine
      <4> QED BY <4>1, <4>2
    <3>2. ~Hanging'
      BY <2>1 DEF Hanging
    <3>3. Cardinality(TornLines) \in Nat /\ Cardinality(TornLines') \in Nat
      BY <2>3, <2>4, TornLinesAreFinite DEF TornLines
    <3> QED BY <2>1, <2>3, <3>1, <3>2, <3>3 DEF LedgerInv
  <2>7. ASSUME ~overlapped'
        PROVE  NoRepeats' /\ \A q \in Writers : writer'[q].pc = "idle"
    BY <2>1, <2>2, <2>3, <2>7, NewLineIsNoRepeat DEF LedgerInv
  <2> QED BY <2>5, <2>6, <2>7 DEF LedgerInv, Busy
<1>2. CASE ~IsNew(writer[p])
  BY <1>2, IdleIsCommand, QuietStepKeepsInv DEF WriteLedger, worldVars
<1> QED BY <1>1, <1>2

LEMMA DieWritingKeepsInv ==
  ASSUME LedgerInv, NEW p \in Writers, DieWriting(p) PROVE LedgerInv'
<1>1. /\ writer[p].pc = "writing" /\ IsNew(writer[p])
      /\ writer' = [writer EXCEPT ![p] = Idle]
      /\ ledgerCrashes' = ledgerCrashes + 1 /\ terminated' = FALSE
      /\ UNCHANGED <<offer, clock, overlapped>>
  BY DEF DieWriting, worldVars
<1>2. PICK line \in {Torn, writer[p].seen[1]} : ledger' = WithLine(line)
  BY DEF DieWriting
<1>3. /\ line \in Lines /\ (~overlapped => line = Torn \/ line \notin LinesOf)
      /\ ~overlapped => \A q \in Writers : writer'[q].pc = "idle"
  <2>1. Torn \in Lines
    BY DEF Lines
  <2> QED BY <1>1, <1>2, <2>1, WriterIsAlone
<1>4. ledger \in Seq(Lines) /\ ledgerCrashes \in Nat
  BY DEF LedgerInv, LedgerTypes
<1>5. ledger' \in Seq(Lines)
  BY <1>2, <1>3, <1>4, WithLineAppends
<1>6. LedgerTypes'
  BY <1>1, <1>5, IdleIsCommand DEF LedgerInv, LedgerTypes
<1>7. Cardinality(TornLines') + (IF Hanging' THEN 1 ELSE 0) <= ledgerCrashes'
  <2>1. Cardinality(TornLines') + (IF Hanging' THEN 1 ELSE 0)
          <= Cardinality(TornLines) + (IF Hanging THEN 1 ELSE 0) + 1
    <3>1. Cardinality(TornLines) \in Nat /\ Cardinality(TornLines') \in Nat
      BY <1>4, <1>5, TornLinesAreFinite DEF TornLines
    <3>2. CASE terminated /\ line = Torn
      <4>1. Cardinality(TornLines') <= Cardinality(TornLines) + 1 /\ ~Hanging'
        <5>1. Len(ledger') \in TornLines'
              /\ Cardinality(TornLines') <= Cardinality(TornLines) + 1
          BY <1>2, <1>3, <1>4, <3>2, WritingRuinsOneLine
        <5> QED BY <5>1 DEF Hanging
      <4> QED BY <3>1, <4>1
    <3>3. CASE terminated /\ line # Torn
      BY <1>2, <1>3, <1>4, <3>1, <3>3, WritingRuinsOneLine
    <3>4. CASE ~terminated
      BY <1>2, <1>3, <1>4, <3>1, <3>4, WritingRuinsOneLine
    <3> QED BY <3>2, <3>3, <3>4
  <2>2. Cardinality(TornLines) \in Nat /\ Cardinality(TornLines') \in Nat
    BY <1>4, <1>5, TornLinesAreFinite DEF TornLines
  <2> QED BY <1>1, <1>4, <2>1, <2>2 DEF LedgerInv
<1>8. ASSUME ~overlapped'
      PROVE  NoRepeats' /\ \A q \in Writers : writer'[q].pc = "idle"
  BY <1>1, <1>2, <1>3, <1>4, <1>8, NewLineIsNoRepeat DEF LedgerInv
<1> QED BY <1>6, <1>7, <1>8 DEF LedgerInv, Busy

LEMMA LedgerInvStep == LedgerInv /\ [LedgerNext]_ledgerVars => LedgerInv'
<1> SUFFICES ASSUME LedgerInv, [LedgerNext]_ledgerVars PROVE LedgerInv'
  OBVIOUS
<1>1. CASE OfferChanges
  BY <1>1, OfferChangesKeepsInv
<1>2. ASSUME NEW p \in Writers, BeginSnapshot(p) PROVE LedgerInv'
  BY <1>2, BeginSnapshotKeepsInv
<1>3. ASSUME NEW p \in Writers, AskScout(p) PROVE LedgerInv'
  BY <1>3, AskScoutKeepsInv
<1>4. ASSUME NEW p \in Writers, LoadLedger(p) PROVE LedgerInv'
  BY <1>4, LoadLedgerKeepsInv
<1>5. ASSUME NEW p \in Writers, WriteLedger(p) PROVE LedgerInv'
  BY <1>5, WriteLedgerKeepsInv
<1>6. ASSUME NEW p \in Writers, DieWriting(p) PROVE LedgerInv'
  BY <1>6, DieWritingKeepsInv
<1>7. CASE UNCHANGED ledgerVars
  BY <1>7 DEF ledgerVars, LedgerInv, LedgerTypes, TornLines, TornIn, Hanging, NoRepeats,
              LinesOf, Busy
<1> QED BY <1>1, <1>2, <1>3, <1>4, <1>5, <1>6, <1>7 DEF LedgerNext

\* Each death costs the ledger one line at most, however commands overlap
\* (history.py:450), and no snapshot is in it twice while none overlap
\* (history.py:436).
THEOREM DamageIsLimited == LedgerSpec => []DamageIsBounded
<1>1. LedgerInv => DamageIsBounded
  <2> SUFFICES ASSUME LedgerInv PROVE DamageIsBounded
    OBVIOUS
  <2>1. ledger \in Seq(Lines) /\ ledgerCrashes \in Nat
    BY DEF LedgerInv, LedgerTypes
  <2>2. Cardinality(TornLines) \in Nat
    BY <2>1, TornLinesAreFinite DEF TornLines
  <2>3. Cardinality(TornLines) <= ledgerCrashes
    BY <2>1, <2>2 DEF LedgerInv
  <2> QED BY <2>3 DEF LedgerInv, NoRepeats, TornLines, TornIn, DamageIsBounded
<1> QED BY <1>1, LedgerInvInit, LedgerInvStep, PTL DEF LedgerSpec

------------------------------------------------------------------------------
(* The figures of the analysis, as the ledger grows.                          *)

Shots == {Snapshot(t, o) : t \in Nat, o \in Offers \cup {NoOffer}}

\* What an adjacent pair adds to the two figures.
New(a, b) == Cardinality(b \ a)
Gain(a, b) ==
  IF a # Unpublished /\ b # Unpublished /\ b > a THEN b - a ELSE 0

LEMMA OffersAreFinite ==
  ASSUME NEW o \in Offers \cup {NoOffer}
  PROVE  /\ IsFiniteSet(DOMAIN o.slots)
         /\ GrossCapacity(o) \in Int \cup {Unpublished}
<1>1. CASE o = NoOffer
  <2>1. DOMAIN o.slots = {} /\ Published(o) = {}
    BY <1>1 DEF NoOffer, Published
  <2>2. GrossCapacity(o) = Unpublished
    BY <2>1 DEF GrossCapacity, Capacity
  <2> QED BY <2>1, <2>2, FS_EmptySet
<1>2. CASE o \in Offers
  <2> DEFINE P == Published(o)
             amount == [x \in P |-> Reward[x] * o.slots[x]]
  <2>1. /\ IsFiniteSet(DOMAIN o.slots) /\ o.budget \in Nat
        /\ \A x \in DOMAIN o.slots : o.slots[x] \in Nat
        /\ \A x \in DOMAIN o.slots \ NotFixed : Reward[x] \in Nat
    BY <1>2, OffersAssumption
  <2>2. IsFiniteSet(P) /\ P \in SUBSET (DOMAIN o.slots \ NotFixed)
    BY <2>1, FS_Subset DEF Published
  <2>3. \A x \in P : amount[x] \in Int
    BY <2>1, <2>2
  <2>4. DOMAIN amount = P
    OBVIOUS
  <2> HIDE DEF amount
  <2>5. SumFunctionOnSet(amount, P) \in Int
    BY <2>2, <2>3, SumType
  <2>6. OfferedGross(o) \in Int
    BY <2>4, <2>5 DEF OfferedGross, SumFunction, amount
  <2>7. Lesser(OfferedGross(o), o.budget) \in Int
    BY <2>1, <2>6 DEF Lesser
  <2>8. GrossCapacity(o) \in Int \cup {Unpublished}
    BY <2>1, <2>6, <2>7 DEF GrossCapacity, Capacity
  <2> QED BY <2>1, <2>8
<1> QED BY <1>1, <1>2

LEMMA ShotFacts ==
  ASSUME NEW s \in Shots
  PROVE  /\ s \in Lines \ {Torn}
         /\ s.at \in Nat /\ IsFiniteSet(s.ids)
         /\ s.gross \in Int \cup {Unpublished}
<1>1. PICK t \in Nat, o \in Offers \cup {NoOffer} : s = Snapshot(t, o)
  BY DEF Shots
<1>2. s.at = t /\ s.ids = DOMAIN o.slots /\ s.gross = GrossCapacity(o)
  BY <1>1 DEF Snapshot
<1> QED BY <1>1, <1>2, OffersAreFinite, SnapshotIsNotTorn DEF Lines

LEMMA NewIsNat ==
  ASSUME NEW a, NEW b, IsFiniteSet(b)
  PROVE  New(a, b) \in Nat
BY FS_Difference, FS_CardinalityType DEF New

\* What is new against an older set is new against one of the two in between.
LEMMA NewAddsUp ==
  ASSUME NEW a, NEW b, NEW c, IsFiniteSet(b), IsFiniteSet(c)
  PROVE  New(a, c) <= New(a, b) + New(b, c)
<1> DEFINE X == b \ a  Y == c \ b
<1>1. IsFiniteSet(X) /\ IsFiniteSet(Y)
  BY FS_Difference
<1>2. /\ IsFiniteSet(X \cup Y) /\ IsFiniteSet(X \cap Y)
      /\ Cardinality(X \cup Y) = Cardinality(X) + Cardinality(Y) - Cardinality(X \cap Y)
  BY <1>1, FS_Union, FS_Intersection
<1>3. c \ a \subseteq X \cup Y
  OBVIOUS
<1>4. Cardinality(c \ a) <= Cardinality(X \cup Y)
  BY <1>2, <1>3, FS_Subset
<1>5. /\ Cardinality(X) \in Nat /\ Cardinality(Y) \in Nat
      /\ Cardinality(X \cap Y) \in Nat /\ Cardinality(c \ a) \in Nat
  BY <1>1, <1>2, FS_CardinalityType, FS_Difference
<1>6. New(a, c) = Cardinality(c \ a) /\ New(a, b) = Cardinality(X)
      /\ New(b, c) = Cardinality(Y)
  BY DEF New
<1> HIDE DEF X, Y
<1> QED BY <1>2, <1>4, <1>5, <1>6

LEMMA GainAddsUp ==
  ASSUME NEW a \in Int \cup {Unpublished}, NEW b \in Int \cup {Unpublished},
         NEW c \in Int \cup {Unpublished}
  PROVE  /\ Gain(a, b) \in Nat
         /\ a # Unpublished /\ b # Unpublished =>
              Gain(a, c) <= Gain(a, b) + Gain(b, c)
BY DEF Gain

LEMMA LeastNumber ==
  ASSUME NEW T \in SUBSET Nat, T # {}
  PROVE  \E i \in T : \A k \in T : i <= k
<1> DEFINE R == {ss \in Nat \X Nat : ss[1] < ss[2]}
<1>1. IsWellFoundedOn(R, Nat)
  BY NatLessThanWellFounded DEF OpToRel
<1> HIDE DEF R
<1>2. PICK i \in T : \A k \in T : ~(<<k, i>> \in R)
  BY <1>1, WFMin
<1>3. \A k \in T : ~(k < i)
  BY <1>2 DEF R
<1> QED BY <1>3

\* Each snapshot is later than all before it.
Increasing(lines) ==
  \A i, j \in DOMAIN lines : i < j => lines[i].at < lines[j].at

\* The analysis finds such a ledger in its order.
LEMMA OrderedAlready ==
  ASSUME NEW lines \in Seq(Shots), Increasing(lines)
  PROVE  Ordered(lines) = lines
<1> DEFINE D == DOMAIN lines
           Sorts(p) == /\ p \in Bijection(D, D)
                       /\ \A i, j \in D : i < j => lines[p[i]].at <= lines[p[j]].at
           same == [i \in D |-> i]
           p == CHOOSE q : Sorts(q)
<1>1. D = 1 .. Len(lines) /\ Len(lines) \in Nat
      /\ \A i \in D : lines[i].at \in Nat
  BY ShotFacts
<1>2. Sorts(same)
  <2>1. same \in [D -> D] /\ \A i \in D : same[i] = i
    OBVIOUS
  <2>2. same \in Bijection(D, D)
    <3> HIDE DEF same, D
    <3> QED BY <2>1 DEF Bijection, Injection, Surjection, IsInjective
  <2>3. \A i, j \in D : i < j => lines[i].at <= lines[j].at
    BY <1>1 DEF Increasing
  <2> HIDE DEF D, same
  <2> QED BY <2>1, <2>2, <2>3
<1>3. Sorts(p)
  <2> HIDE DEF Sorts
  <2> QED BY <1>2
<1>4. /\ p \in [D -> D]
      /\ \A i, j \in D : p[i] = p[j] => i = j
      /\ \A j \in D : \E i \in D : p[i] = j
      /\ \A i, j \in D : i < j => lines[p[i]].at <= lines[p[j]].at
  <2> HIDE DEF p, D
  <2> QED BY <1>3 DEF Bijection, Injection, Surjection, IsInjective
<1> HIDE DEF p
<1>5. \A i \in D : p[i] = i
  <2> DEFINE T == {i \in D : p[i] # i}
  <2> SUFFICES ASSUME T # {} PROVE FALSE
    OBVIOUS
  <2>1. PICK i \in T : \A k \in T : i <= k
    <3>1. T \in SUBSET Nat
      BY <1>1
    <3> HIDE DEF T
    <3> QED BY <3>1, LeastNumber
  <2>2. i \in D /\ p[i] # i /\ p[i] \in D
    BY <1>4, <2>1
  <2>3. \A k \in D : k < i => p[k] = k
    BY <1>1, <2>1, <2>2
  <2>4. CASE p[i] < i
    BY <1>4, <2>2, <2>3, <2>4
  <2>5. CASE p[i] > i
    <3>1. PICK j \in D : p[j] = i
      BY <1>4, <2>2
    <3>2. j > i
      <4>1. j # i
        BY <2>2, <3>1
      <4>2. ~(j < i)
        BY <2>3, <3>1, <4>1
      <4> QED BY <1>1, <2>2, <4>1, <4>2
    <3>3. lines[p[i]].at <= lines[i].at
      BY <1>4, <2>2, <3>1, <3>2
    <3>4. lines[i].at < lines[p[i]].at
      BY <2>2, <2>5 DEF Increasing
    <3> QED BY <1>1, <2>2, <3>3, <3>4
  <2> QED BY <1>1, <2>2, <2>4, <2>5
<1>6. Ordered(lines) = [i \in D |-> lines[p[i]]]
  BY DEF Ordered, p
<1>7. lines = [i \in D |-> lines[i]]
  OBVIOUS
<1> QED BY <1>5, <1>6, <1>7

LastIds(lines) == IF lines = << >> THEN {} ELSE lines[Len(lines)].ids
LastGrossOf(lines) == IF lines = << >> THEN Unpublished ELSE lines[Len(lines)].gross

LEMMA LastFacts ==
  ASSUME NEW lines \in Seq(Shots)
  PROVE  IsFiniteSet(LastIds(lines)) /\ LastGrossOf(lines) \in Int \cup {Unpublished}
<1>1. CASE lines = << >>
  BY <1>1, FS_EmptySet DEF LastIds, LastGrossOf
<1>2. CASE lines # << >>
  <2>1. lines[Len(lines)] \in Shots
    BY <1>2
  <2> QED BY <1>2, <2>1, ShotFacts DEF LastIds, LastGrossOf
<1> QED BY <1>1, <1>2

\* A later snapshot at the end makes one more transition, unless it is alone.
LEMMA TransitionsGrow ==
  ASSUME NEW lines \in Seq(Shots), NEW s \in Shots, Increasing(Append(lines, s))
  PROVE  /\ IsFiniteSet(TransitionsOf(lines))
         /\ Len(lines) + 1 \notin TransitionsOf(lines)
         /\ TransitionsOf(Append(lines, s)) =
              TransitionsOf(lines) \cup (IF lines = << >> THEN {} ELSE {Len(lines) + 1})
         /\ \A i \in TransitionsOf(lines) :
              /\ i \in DOMAIN lines /\ i - 1 \in DOMAIN lines
              /\ Append(lines, s)[i] = lines[i] /\ Append(lines, s)[i - 1] = lines[i - 1]
<1> DEFINE more == Append(lines, s)
           n == Len(lines)
<1>1. /\ n \in Nat /\ Len(more) = n + 1
      /\ DOMAIN lines = 1 .. n /\ DOMAIN more = 1 .. (n + 1)
      /\ \A i \in 1 .. n : more[i] = lines[i]
      /\ more[n + 1] = s
  OBVIOUS
<1>2. TransitionsOf(lines) \subseteq 2 .. n
  BY DEF TransitionsOf
<1>3. IsFiniteSet(TransitionsOf(lines))
  <2>1. IsFiniteSet(2 .. n)
    <3>1. 2 \in Int /\ n \in Int
      BY <1>1
    <3> QED BY <3>1, FS_Interval
  <2> QED BY <1>2, <2>1, FS_Subset
<1> HIDE DEF more
<1>4. \A i \in 2 .. n : i \in TransitionsOf(more) <=> i \in TransitionsOf(lines)
  BY <1>1 DEF TransitionsOf
<1>5. TransitionsOf(more) \subseteq 2 .. (n + 1)
  BY <1>1 DEF TransitionsOf
<1>6. n >= 1 => n + 1 \in TransitionsOf(more)
  BY <1>1 DEF TransitionsOf, Increasing, more
<1>7. lines = << >> <=> n = 0
  OBVIOUS
<1>8. n + 1 \notin TransitionsOf(lines)
  BY <1>1, <1>2
<1>9. TransitionsOf(more) =
        TransitionsOf(lines) \cup (IF lines = << >> THEN {} ELSE {n + 1})
  <2>1. CASE n = 0
    BY <1>1, <1>2, <1>5, <1>7, <2>1
  <2>2. CASE n # 0
    <3>1. n >= 1 /\ 2 .. (n + 1) = (2 .. n) \cup {n + 1}
      BY <1>1, <2>2
    <3> QED BY <1>2, <1>4, <1>5, <1>6, <1>7, <3>1
  <2> QED BY <2>1, <2>2
<1> QED BY <1>1, <1>2, <1>3, <1>8, <1>9 DEF more

LEMMA EventsGrow ==
  ASSUME NEW lines \in Seq(Shots), NEW s \in Shots, Increasing(Append(lines, s))
  PROVE  /\ NewOpportunityEvents(lines) \in Int
         /\ NewOpportunityEvents(Append(lines, s)) =
              NewOpportunityEvents(lines)
                + (IF lines = << >> THEN 0 ELSE New(LastIds(lines), s.ids))
<1> DEFINE more == Append(lines, s)
           n == Len(lines)
           I == TransitionsOf(lines)
           J == TransitionsOf(more)
           f == [i \in I |-> Cardinality(NewBetween(lines[i - 1], lines[i]))]
           g == [i \in J |-> Cardinality(NewBetween(more[i - 1], more[i]))]
<1>1. /\ IsFiniteSet(I) /\ n + 1 \notin I
      /\ J = I \cup (IF lines = << >> THEN {} ELSE {n + 1})
      /\ \A i \in I : /\ i \in DOMAIN lines /\ i - 1 \in DOMAIN lines
                      /\ more[i] = lines[i] /\ more[i - 1] = lines[i - 1]
  BY TransitionsGrow
<1>2. /\ NewOpportunityEvents(lines) = SumFunctionOnSet(f, I)
      /\ NewOpportunityEvents(more) = SumFunctionOnSet(g, J)
  BY DEF NewOpportunityEvents, SumFunction
<1>3. ASSUME NEW i \in I PROVE f[i] \in Int /\ g[i] = f[i]
  <2>1. lines[i] \in Shots /\ i \in J
    BY <1>1
  <2>2. f[i] = New(lines[i - 1].ids, lines[i].ids)
    BY DEF NewBetween, New
  <2>3. g[i] = Cardinality(NewBetween(more[i - 1], more[i]))
    BY <2>1
  <2>4. g[i] = f[i]
    BY <1>1, <2>3
  <2>5. f[i] \in Nat
    BY <2>1, <2>2, ShotFacts, NewIsNat
  <2> HIDE DEF f, g
  <2> QED BY <2>4, <2>5
<1>4. CASE lines = << >>
  <2>1. J = I
    BY <1>1, <1>4
  <2>2. SumFunctionOnSet(f, I) \in Int
    <3> HIDE DEF f, g, I, J
    <3> QED BY <1>1, <1>3, SumType
  <2>3. SumFunctionOnSet(f, I) = SumFunctionOnSet(g, I)
    <3> HIDE DEF f, g, I, J
    <3> QED BY <1>1, <1>3, SumsAgree
  <2> HIDE DEF f, g, I, J
  <2> QED BY <1>2, <1>4, <2>1, <2>2, <2>3 DEF more
<1>5. CASE lines # << >>
  <2>1. n + 1 \in J /\ J = I \cup {n + 1}
    BY <1>1, <1>5
  <2>2. more[n + 1] = s /\ more[n + 1 - 1] = lines[n]
    BY <1>5
  <2>3. g[n + 1] = New(LastIds(lines), s.ids)
    <3>1. \A i \in J : g[i] = Cardinality(NewBetween(more[i - 1], more[i]))
      OBVIOUS
    <3> HIDE DEF g, J, more
    <3>2. g[n + 1] = Cardinality(NewBetween(more[n + 1 - 1], more[n + 1]))
      BY <2>1, <3>1
    <3> QED BY <1>5, <2>2, <3>2 DEF NewBetween, New, LastIds
  <2>4. g[n + 1] \in Int
    <3>1. New(LastIds(lines), s.ids) \in Int
      BY ShotFacts, NewIsNat
    <3> HIDE DEF g
    <3> QED BY <2>3, <3>1
  <2>5. SumFunctionOnSet(f, I) \in Int
    <3> HIDE DEF f, g, I, J
    <3> QED BY <1>1, <1>3, SumType
  <2>6. SumFunctionOnSet(g, I \cup {n + 1}) = SumFunctionOnSet(f, I) + g[n + 1]
    <3> HIDE DEF f, g, I, J
    <3>1. IsFiniteSet(I) /\ n + 1 \notin I
      BY <1>1
    <3>2. \A i \in I : f[i] \in Int /\ g[i] = f[i]
      BY <1>3
    <3> QED BY <2>4, <3>1, <3>2, SumOfOneMore
  <2> HIDE DEF f, g, I, J
  <2> QED BY <1>2, <1>5, <2>1, <2>3, <2>5, <2>6 DEF more
<1> QED BY <1>4, <1>5

LEMMA FundingGrows ==
  ASSUME NEW lines \in Seq(Shots), NEW s \in Shots, Increasing(Append(lines, s))
  PROVE  /\ PositiveFunding(lines) \in Int
         /\ PositiveFunding(Append(lines, s)) =
              PositiveFunding(lines) + Gain(LastGrossOf(lines), s.gross)
<1> DEFINE more == Append(lines, s)
           n == Len(lines)
           Up(ordered) == {j \in FundedTransitions(ordered) :
                             ordered[j].gross > ordered[j - 1].gross}
           I == Up(lines)
           J == Up(more)
           f == [i \in I |-> lines[i].gross - lines[i - 1].gross]
           g == [i \in J |-> more[i].gross - more[i - 1].gross]
<1>1. /\ IsFiniteSet(TransitionsOf(lines)) /\ n + 1 \notin TransitionsOf(lines)
      /\ TransitionsOf(more)
           = TransitionsOf(lines) \cup (IF lines = << >> THEN {} ELSE {n + 1})
      /\ \A i \in TransitionsOf(lines) :
           /\ i \in DOMAIN lines /\ i - 1 \in DOMAIN lines
           /\ more[i] = lines[i] /\ more[i - 1] = lines[i - 1]
  BY TransitionsGrow
<1>2. /\ PositiveFunding(lines) = SumFunctionOnSet(f, I)
      /\ PositiveFunding(more) = SumFunctionOnSet(g, J)
  BY DEF PositiveFunding, SumFunction
<1>3. IsFiniteSet(I) /\ I \subseteq TransitionsOf(lines) /\ n + 1 \notin I
  <2>1. I \subseteq TransitionsOf(lines)
    BY DEF FundedTransitions
  <2> QED BY <1>1, <2>1, FS_Subset
<1>4. \A i \in TransitionsOf(lines) : i \in I <=> i \in J
  BY <1>1 DEF FundedTransitions
<1>5. J \subseteq TransitionsOf(more)
  BY DEF FundedTransitions
<1>6. ASSUME NEW i \in I PROVE f[i] \in Int /\ g[i] = f[i]
  <2>1. i \in TransitionsOf(lines) /\ i \in J
    BY <1>3, <1>4
  <2>2. lines[i] \in Shots /\ lines[i - 1] \in Shots
    BY <1>1, <2>1
  <2>3. lines[i].gross \in Int /\ lines[i - 1].gross \in Int
    BY <2>2, ShotFacts DEF FundedTransitions
  <2>4. g[i] = more[i].gross - more[i - 1].gross
    BY <2>1
  <2> QED BY <1>1, <2>1, <2>3, <2>4
<1>7. SumFunctionOnSet(f, I) \in Int
  <2> HIDE DEF f, g, I, J
  <2> QED BY <1>3, <1>6, SumType
<1>8. CASE n + 1 \notin J
  <2>1. J = I
    BY <1>1, <1>3, <1>4, <1>5, <1>8
  <2>2. SumFunctionOnSet(f, I) = SumFunctionOnSet(g, I)
    <3> HIDE DEF f, g, I, J
    <3> QED BY <1>3, <1>6, SumsAgree
  <2>3. Gain(LastGrossOf(lines), s.gross) = 0
    <3>1. CASE lines = << >>
      BY <3>1 DEF LastGrossOf, Gain
    <3>2. CASE lines # << >>
      <4>1. n + 1 \in TransitionsOf(more)
        BY <1>1, <3>2
      <4>2. more[n + 1] = s /\ more[n + 1 - 1] = lines[n]
        BY <3>2
      <4>3. \/ lines[n].gross = Unpublished \/ s.gross = Unpublished
            \/ ~(s.gross > lines[n].gross)
        <5>1. \A i \in TransitionsOf(more) \ J :
                \/ more[i - 1].gross = Unpublished \/ more[i].gross = Unpublished
                \/ ~(more[i].gross > more[i - 1].gross)
          BY DEF FundedTransitions
        <5> HIDE DEF J, more
        <5>2. \/ more[n + 1 - 1].gross = Unpublished \/ more[n + 1].gross = Unpublished
              \/ ~(more[n + 1].gross > more[n + 1 - 1].gross)
          BY <1>8, <4>1, <5>1
        <5> QED BY <4>2, <5>2
      <4> QED BY <3>2, <4>3 DEF LastGrossOf, Gain
    <3> QED BY <3>1, <3>2
  <2> HIDE DEF f, g, I, J
  <2> QED BY <1>2, <1>7, <2>1, <2>2, <2>3 DEF more
<1>9. CASE n + 1 \in J
  <2>1. lines # << >> /\ J = I \cup {n + 1}
    BY <1>1, <1>3, <1>4, <1>5, <1>9
  <2>2. more[n + 1] = s /\ more[n + 1 - 1] = lines[n]
    BY <2>1
  <2>3. g[n + 1] = s.gross - lines[n].gross
    <3>1. \A i \in J : g[i] = more[i].gross - more[i - 1].gross
      OBVIOUS
    <3> HIDE DEF g, J, more
    <3>2. g[n + 1] = more[n + 1].gross - more[n + 1 - 1].gross
      BY <1>9, <3>1
    <3> QED BY <2>2, <3>2
  <2>4. s.gross # Unpublished /\ lines[n].gross # Unpublished
        /\ s.gross > lines[n].gross
    <3>1. \A i \in J : /\ more[i].gross # Unpublished /\ more[i - 1].gross # Unpublished
                       /\ more[i].gross > more[i - 1].gross
      BY DEF FundedTransitions
    <3> HIDE DEF J, more
    <3>2. /\ more[n + 1].gross # Unpublished /\ more[n + 1 - 1].gross # Unpublished
          /\ more[n + 1].gross > more[n + 1 - 1].gross
      BY <1>9, <3>1
    <3> QED BY <2>2, <3>2
  <2>5. s.gross \in Int /\ lines[n].gross \in Int
    <3>1. lines[n] \in Shots
      BY <2>1
    <3> QED BY <2>4, <3>1, ShotFacts
  <2>6. g[n + 1] = Gain(LastGrossOf(lines), s.gross)
    <3> HIDE DEF g
    <3> QED BY <2>1, <2>3, <2>4 DEF Gain, LastGrossOf
  <2>7. g[n + 1] \in Int
    <3> HIDE DEF g
    <3> QED BY <2>3, <2>5
  <2>8. SumFunctionOnSet(g, I \cup {n + 1}) = SumFunctionOnSet(f, I) + g[n + 1]
    <3> HIDE DEF f, g, I, J
    <3> QED BY <1>3, <1>6, <2>7, SumOfOneMore
  <2> HIDE DEF f, g, I, J
  <2> QED BY <1>2, <1>7, <2>1, <2>6, <2>8 DEF more
<1> QED BY <1>8, <1>9

------------------------------------------------------------------------------
(* The figures stay below what happened.  Whatever is known of the source at  *)
(* the end of the ledger, or in the hands of the command under way, leaves    *)
(* room for what has happened since.                                          *)

\* Figures n and m reached with these opportunities and this capacity last
\* seen: what is new since then is still to be counted.
Covers(n, m, ids, gross) ==
  /\ n + New(ids, DOMAIN offer.slots) <= arrivals
  /\ m + Gain(gross, lastGross) <= funded
  /\ gross # Unpublished => lastGross # Unpublished

LedgerCovers ==
  Covers(NewOpportunityEvents(ledger), PositiveFunding(ledger),
         LastIds(ledger), LastGrossOf(ledger))

\* The same if s were the next line.
ShotCovers(s) ==
  Covers(NewOpportunityEvents(ledger)
           + (IF ledger = << >> THEN 0 ELSE New(LastIds(ledger), s.ids)),
         PositiveFunding(ledger) + Gain(LastGrossOf(ledger), s.gross),
         s.ids, s.gross)

WorldTypes ==
  /\ arrivals \in Nat /\ funded \in Int
  /\ lastGross \in Int \cup {Unpublished}
  /\ GrossCapacity(offer) # Unpublished => lastGross = GrossCapacity(offer)

\* The command under way holds the time of the clock, later than every line.
HoldsTheClock(p) ==
  /\ writer[p].now = clock
  /\ writer[p].pc = "writing" => Readable
  /\ writer[p].seen # << >> => /\ writer[p].seen[1] \in Shots
                               /\ writer[p].seen[1].at = clock

InOrder ==
  /\ Increasing(ledger)
  /\ \A i \in DOMAIN ledger : /\ ledger[i].at <= clock
                              /\ Busy # {} => ledger[i].at < clock

OneByOne ==
  /\ \A p, q \in Busy : p = q
  /\ \A p \in Busy : HoldsTheClock(p)
  /\ Readable => /\ InOrder /\ LedgerCovers
                 /\ \A p \in Busy : writer[p].seen # << >> =>
                      ShotCovers(writer[p].seen[1])

SampleInv ==
  /\ LedgerInv
  /\ WorldTypes
  /\ ledger = << >> => terminated
  /\ ~overlapped => OneByOne

LEMMA FiguresAreNumbers ==
  ASSUME NEW lines \in Seq(Shots), Increasing(lines)
  PROVE  NewOpportunityEvents(lines) \in Int /\ PositiveFunding(lines) \in Int
<1>1. IsFiniteSet(TransitionsOf(lines))
        /\ \A i \in TransitionsOf(lines) : i \in DOMAIN lines /\ i - 1 \in DOMAIN lines
  <2>1. TransitionsOf(lines) \subseteq 2 .. Len(lines) /\ Len(lines) \in Nat
    BY DEF TransitionsOf
  <2>2. IsFiniteSet(2 .. Len(lines))
    <3>1. 2 \in Int /\ Len(lines) \in Int
      BY <2>1
    <3> QED BY <3>1, FS_Interval
  <2>3. IsFiniteSet(TransitionsOf(lines))
    BY <2>1, <2>2, FS_Subset
  <2> QED BY <2>1, <2>3
<1>2. NewOpportunityEvents(lines) \in Int
  <2> DEFINE I == TransitionsOf(lines)
             f == [i \in I |-> Cardinality(NewBetween(lines[i - 1], lines[i]))]
  <2>1. ASSUME NEW i \in I PROVE f[i] \in Int
    <3>1. lines[i] \in Shots
      BY <1>1
    <3>2. f[i] = New(lines[i - 1].ids, lines[i].ids)
      BY DEF NewBetween, New
    <3> HIDE DEF f
    <3> QED BY <3>1, <3>2, ShotFacts, NewIsNat
  <2>2. NewOpportunityEvents(lines) = SumFunctionOnSet(f, I)
    BY DEF NewOpportunityEvents, SumFunction
  <2> HIDE DEF f, I
  <2>3. SumFunctionOnSet(f, I) \in Int
    <3>1. IsFiniteSet(I)
      BY <1>1 DEF I
    <3> QED BY <2>1, <3>1, SumType
  <2> QED BY <2>2, <2>3
<1>3. PositiveFunding(lines) \in Int
  <2> DEFINE I == {j \in FundedTransitions(lines) : lines[j].gross > lines[j - 1].gross}
             f == [i \in I |-> lines[i].gross - lines[i - 1].gross]
  <2>1. I \subseteq TransitionsOf(lines)
    BY DEF FundedTransitions
  <2>2. ASSUME NEW i \in I PROVE f[i] \in Int
    <3>1. lines[i] \in Shots /\ lines[i - 1] \in Shots
      BY <1>1, <2>1
    <3>2. lines[i].gross \in Int /\ lines[i - 1].gross \in Int
      BY <3>1, ShotFacts DEF FundedTransitions
    <3> QED BY <3>2
  <2>3. PositiveFunding(lines) = SumFunctionOnSet(f, I)
    BY DEF PositiveFunding, SumFunction
  <2>4. IsFiniteSet(I)
    BY <1>1, <2>1, FS_Subset
  <2> HIDE DEF f, I
  <2>5. SumFunctionOnSet(f, I) \in Int
    BY <2>2, <2>4, SumType
  <2> QED BY <2>3, <2>5
<1> QED BY <1>2, <1>3

LEMMA ReadableLines ==
  ASSUME LedgerTypes, Readable PROVE ledger \in Seq(Shots)
<1>1. \A i \in 1 .. Len(ledger) : ledger[i] \in Shots
  BY DEF LedgerTypes, Readable, Lines, Shots
<1> QED BY <1>1 DEF LedgerTypes

LEMMA OfferedIds ==
  ASSUME LedgerTypes PROVE IsFiniteSet(DOMAIN offer.slots)
BY OffersAreFinite DEF LedgerTypes

\* What happens to the source is counted among what happened.
LEMMA ChangesAreCovered ==
  ASSUME LedgerTypes, WorldTypes, OfferChanges,
         NEW n \in Int, NEW m \in Int, NEW ids, NEW gross \in Int \cup {Unpublished},
         Covers(n, m, ids, gross)
  PROVE  Covers(n, m, ids, gross)'
<1>1. PICK next \in Offers :
        /\ offer' = next
        /\ arrivals' = arrivals + New(DOMAIN offer.slots, DOMAIN next.slots)
        /\ funded' = funded + Gain(lastGross, GrossCapacity(next))
        /\ lastGross' = IF GrossCapacity(next) = Unpublished THEN lastGross
                        ELSE GrossCapacity(next)
  BY DEF OfferChanges, New, Gain
<1> DEFINE now == DOMAIN offer.slots
           then == DOMAIN next.slots
           g == GrossCapacity(next)
<1>2. IsFiniteSet(now) /\ IsFiniteSet(then) /\ g \in Int \cup {Unpublished}
  BY OfferedIds, OffersAreFinite
<1> HIDE DEF now, then, g
<1>3. n + New(ids, then) <= arrivals'
  <2>1. New(ids, then) <= New(ids, now) + New(now, then)
    BY <1>2, NewAddsUp
  <2>2. New(ids, then) \in Nat /\ New(ids, now) \in Nat /\ New(now, then) \in Nat
    BY <1>2, NewIsNat
  <2>3. n + New(ids, now) <= arrivals
    BY DEF Covers, now
  <2>4. arrivals' = arrivals + New(now, then)
    BY <1>1 DEF now, then
  <2> QED BY <2>1, <2>2, <2>3, <2>4 DEF WorldTypes
<1>4. m + Gain(gross, lastGross') <= funded'
  <2>1. funded' = funded + Gain(lastGross, g)
        /\ lastGross' = IF g = Unpublished THEN lastGross ELSE g
    BY <1>1 DEF g
  <2>2. /\ Gain(lastGross, g) \in Nat /\ Gain(gross, g) \in Nat
        /\ Gain(gross, lastGross) \in Nat
    BY <1>2, GainAddsUp DEF WorldTypes
  <2>3. m + Gain(gross, lastGross) <= funded
    BY DEF Covers
  <2>4. CASE g = Unpublished
    BY <2>1, <2>2, <2>3, <2>4 DEF WorldTypes
  <2>5. CASE g # Unpublished /\ gross = Unpublished
    <3>1. Gain(gross, g) = 0
      BY <2>5 DEF Gain
    <3> QED BY <2>1, <2>2, <2>3, <2>5, <3>1 DEF WorldTypes
  <2>6. CASE g # Unpublished /\ gross # Unpublished
    <3>1. lastGross # Unpublished
      BY <2>6 DEF Covers
    <3>2. Gain(gross, g) <= Gain(gross, lastGross) + Gain(lastGross, g)
      BY <1>2, <2>6, <3>1, GainAddsUp DEF WorldTypes
    <3> QED BY <2>1, <2>2, <2>3, <2>6, <3>2 DEF WorldTypes
  <2> QED BY <2>4, <2>5, <2>6
<1>5. gross # Unpublished => lastGross' # Unpublished
  BY <1>1 DEF Covers
<1> QED BY <1>1, <1>3, <1>4, <1>5 DEF Covers, then

\* A snapshot taken now is covered when the ledger is.
LEMMA NewShotIsCovered ==
  ASSUME LedgerTypes, WorldTypes, Readable, InOrder, LedgerCovers, NEW t \in Nat
  PROVE  ShotCovers(Snapshot(t, offer))
<1> DEFINE s == Snapshot(t, offer)
           now == DOMAIN offer.slots
           g == GrossCapacity(offer)
           n == NewOpportunityEvents(ledger)
           m == PositiveFunding(ledger)
           old == LastIds(ledger)
           known == LastGrossOf(ledger)
<1>1. s.ids = now /\ s.gross = g
  BY DEF Snapshot
<1>2. ledger \in Seq(Shots) /\ Increasing(ledger)
  BY ReadableLines DEF InOrder
<1>3. n \in Int /\ m \in Int /\ IsFiniteSet(old) /\ known \in Int \cup {Unpublished}
  BY <1>2, FiguresAreNumbers, LastFacts
<1>4. IsFiniteSet(now) /\ g \in Int \cup {Unpublished}
  BY OffersAreFinite DEF LedgerTypes
<1>5. /\ n + New(old, now) <= arrivals /\ m + Gain(known, lastGross) <= funded
      /\ g # Unpublished => lastGross = g
      /\ lastGross \in Int \cup {Unpublished} /\ arrivals \in Nat /\ funded \in Int
  BY DEF LedgerCovers, Covers, WorldTypes
<1> HIDE DEF n, m, old, known, now, g, s
<1>6. New(now, now) = 0 /\ New(old, now) \in Nat
  <2>1. now \ now = {}
    OBVIOUS
  <2> QED BY <1>4, <2>1, NewIsNat, FS_EmptySet DEF New
<1>7. n + (IF ledger = << >> THEN 0 ELSE New(old, now)) + New(now, now) <= arrivals
  BY <1>3, <1>5, <1>6
<1>8. m + Gain(known, g) + Gain(g, lastGross) <= funded
  <2>1. Gain(known, lastGross) \in Nat
    BY <1>3, <1>5, GainAddsUp
  <2>2. CASE g = Unpublished
    BY <1>3, <1>5, <2>1, <2>2 DEF Gain
  <2>3. CASE g # Unpublished
    BY <1>3, <1>5, <2>1, <2>3 DEF Gain
  <2> QED BY <2>2, <2>3
<1>9. g # Unpublished => lastGross # Unpublished
  BY <1>5
<1> QED BY <1>1, <1>7, <1>8, <1>9 DEF ShotCovers, Covers, n, m, old, known, now, s

LEMMA ShotJoins ==
  ASSUME LedgerTypes, Readable, InOrder, NEW s \in Shots,
         \A i \in DOMAIN ledger : ledger[i].at < s.at, ShotCovers(s),
         ledger' = Append(ledger, s), UNCHANGED worldVars
  PROVE  /\ Increasing(ledger)' /\ LedgerCovers'
         /\ \A i \in DOMAIN ledger' : ledger'[i].at <= s.at
<1>1. ledger \in Seq(Shots) /\ Increasing(ledger)
  BY ReadableLines DEF InOrder
<1> DEFINE n == Len(ledger)
<1>2. /\ n \in Nat /\ DOMAIN ledger = 1 .. n /\ DOMAIN ledger' = 1 .. (n + 1)
      /\ Len(ledger') = n + 1 /\ ledger' # << >>
      /\ ledger'[n + 1] = s /\ \A i \in 1 .. n : ledger'[i] = ledger[i]
  BY <1>1
<1>3. s.at \in Nat /\ \A i \in 1 .. n : ledger[i].at \in Nat
  BY <1>1, <1>2, ShotFacts
<1> HIDE DEF n
<1>4. Increasing(ledger')
  BY <1>1, <1>2, <1>3 DEF Increasing
<1>5. \A i \in DOMAIN ledger' : ledger'[i].at <= s.at
  BY <1>2, <1>3
<1>6. /\ NewOpportunityEvents(ledger') =
           NewOpportunityEvents(ledger)
             + (IF ledger = << >> THEN 0 ELSE New(LastIds(ledger), s.ids))
      /\ PositiveFunding(ledger') =
           PositiveFunding(ledger) + Gain(LastGrossOf(ledger), s.gross)
  BY <1>1, <1>4, EventsGrow, FundingGrows
<1>7. LastIds(ledger') = s.ids /\ LastGrossOf(ledger') = s.gross
  BY <1>2 DEF LastIds, LastGrossOf
<1>8. Covers(NewOpportunityEvents(ledger'), PositiveFunding(ledger'),
             LastIds(ledger'), LastGrossOf(ledger'))
  BY <1>6, <1>7 DEF ShotCovers
<1>9. LedgerCovers'
  BY <1>8 DEF LedgerCovers, Covers, worldVars
<1> QED BY <1>4, <1>5, <1>9

\* What spoils the ledger is not undone.
LEMMA SpoiltForGood ==
  ASSUME LedgerTypes, ledger = << >> => terminated, NEW line \in Lines,
         ledger' = WithLine(line), Readable'
  PROVE  terminated /\ line # Torn /\ ledger' = Append(ledger, line)
<1> DEFINE n == Len(ledger)
<1>1. n \in Nat /\ DOMAIN ledger = 1 .. n
  BY DEF LedgerTypes
<1>2. CASE terminated
  <2>1. ledger' = Append(ledger, line)
    BY <1>2 DEF WithLine
  <2>2. n + 1 \in DOMAIN ledger' /\ ledger'[n + 1] = line
    BY <2>1 DEF LedgerTypes
  <2> QED BY <1>2, <2>1, <2>2 DEF Readable
<1>3. CASE ~terminated
  <2>1. ledger' = [ledger EXCEPT ![n] = Torn] /\ n \in DOMAIN ledger
    BY <1>1, <1>3 DEF WithLine, LedgerTypes
  <2>2. n \in DOMAIN ledger' /\ ledger'[n] = Torn
    BY <2>1
  <2> QED BY <2>2 DEF Readable
<1> QED BY <1>2, <1>3

\* A step of the command under way that leaves all but the command alone.
LEMMA QuietStepIsSampled ==
  ASSUME SampleInv, LedgerInv', NEW p \in Writers, writer[p].pc # "idle",
         NEW next \in Commands, writer' = [writer EXCEPT ![p] = next],
         UNCHANGED <<offer, arrivals, funded, lastGross, ledger, terminated,
                     clock, overlapped>>,
         next.pc # "idle" /\ ~overlapped =>
           /\ next.now = clock
           /\ next.pc = "writing" => Readable
           /\ next.seen # << >> => /\ next.seen[1] \in Shots /\ next.seen[1].at = clock
                                   /\ Readable => ShotCovers(next.seen[1])
  PROVE  SampleInv'
<1>1. WorldTypes' /\ (ledger = << >> => terminated)'
  BY DEF SampleInv, WorldTypes
<1>2. Busy' \subseteq Busy /\ writer'[p] = next
  BY DEF Busy, SampleInv, LedgerInv, LedgerTypes
<1>3. ASSUME ~overlapped' PROVE OneByOne'
  <2>1. OneByOne /\ \A q \in Busy' : q = p
    BY <1>2, <1>3 DEF SampleInv, OneByOne, Busy
  <2>2. p \in Busy' => next.pc # "idle"
    BY <1>2 DEF Busy
  <2>3. Readable' = Readable /\ Increasing(ledger)' = Increasing(ledger)
        /\ LedgerCovers' = LedgerCovers
    BY DEF Readable, Increasing, LedgerCovers, Covers
  <2>4. ASSUME NEW q \in Busy' PROVE HoldsTheClock(q)'
    BY <1>2, <1>3, <2>1, <2>2, <2>3, <2>4 DEF HoldsTheClock
  <2>5. ASSUME Readable', NEW q \in Busy', writer'[q].seen # << >>
        PROVE  ShotCovers(writer[q].seen[1])'
    <3>1. ShotCovers(next.seen[1])
      BY <1>2, <1>3, <2>1, <2>2, <2>3, <2>5
    <3>2. writer'[q] = next
      BY <1>2, <2>1, <2>5
    <3> QED BY <3>1, <3>2 DEF ShotCovers, Covers
  <2>6. Readable' => InOrder'
    BY <1>2, <2>1, <2>3 DEF OneByOne, InOrder
  <2> QED BY <2>1, <2>3, <2>4, <2>5, <2>6 DEF OneByOne
<1> QED BY <1>1, <1>3 DEF SampleInv

LEMMA SampleInvInit == LedgerInit => SampleInv
<1> SUFFICES ASSUME LedgerInit PROVE SampleInv
  OBVIOUS
<1>1. /\ offer = NoOffer /\ ledger = << >> /\ terminated /\ Busy = {}
      /\ arrivals = 0 /\ funded = 0 /\ lastGross = Unpublished
  BY IdleIsCommand DEF LedgerInit, Busy
<1>2. LedgerTypes
  BY LedgerInvInit DEF LedgerInv
<1>3. DOMAIN offer.slots = {} /\ GrossCapacity(offer) = Unpublished
  BY <1>1 DEF NoOffer, GrossCapacity, Capacity, Published
<1>4. << >> \in Seq(Shots) /\ TransitionsOf(<< >>) = {} /\ Increasing(<< >>)
  BY DEF TransitionsOf, Increasing
<1>5. NewOpportunityEvents(<< >>) = 0 /\ PositiveFunding(<< >>) = 0
  <2>1. ASSUME NEW f, DOMAIN f = {} PROVE SumFunction(f) = 0
    BY <2>1, FS_EmptySet, SumStep DEF SumFunction
  <2>2. {j \in FundedTransitions(<< >>) : << >>[j].gross > << >>[j - 1].gross} = {}
    BY <1>4 DEF FundedTransitions
  <2> QED BY <1>4, <2>1, <2>2 DEF NewOpportunityEvents, PositiveFunding
<1>6. LastIds(<< >>) = {} /\ LastGrossOf(<< >>) = Unpublished
  BY DEF LastIds, LastGrossOf
<1>7. New({}, {}) = 0 /\ Gain(Unpublished, Unpublished) = 0
  <2>1. {} \ {} = {}
    OBVIOUS
  <2> QED BY <2>1, FS_EmptySet DEF New, Gain
<1>8. LedgerCovers
  BY <1>1, <1>3, <1>5, <1>6, <1>7 DEF LedgerCovers, Covers
<1>9. InOrder
  BY <1>1, <1>4 DEF InOrder
<1> QED BY <1>1, <1>3, <1>8, <1>9, LedgerInvInit DEF SampleInv, WorldTypes, OneByOne

LEMMA OfferChangesIsSampled ==
  ASSUME SampleInv, LedgerInv', OfferChanges PROVE SampleInv'
<1>1. LedgerTypes /\ WorldTypes
  BY DEF SampleInv, LedgerInv
<1>2. UNCHANGED <<ledger, terminated, clock, writer, overlapped>>
  BY DEF OfferChanges
<1>3. WorldTypes'
  <2>1. PICK next \in Offers :
          /\ offer' = next
          /\ arrivals' = arrivals + New(DOMAIN offer.slots, DOMAIN next.slots)
          /\ funded' = funded + Gain(lastGross, GrossCapacity(next))
          /\ lastGross' = IF GrossCapacity(next) = Unpublished THEN lastGross
                          ELSE GrossCapacity(next)
    BY DEF OfferChanges, New, Gain
  <2>2. GrossCapacity(next) \in Int \cup {Unpublished}
        /\ New(DOMAIN offer.slots, DOMAIN next.slots) \in Nat
    BY OffersAreFinite, NewIsNat
  <2>3. Gain(lastGross, GrossCapacity(next)) \in Nat
    BY <1>1, <2>2, GainAddsUp DEF WorldTypes
  <2> QED BY <1>1, <2>1, <2>2, <2>3 DEF WorldTypes
<1>4. ASSUME ~overlapped, Readable
      PROVE  /\ LedgerCovers'
             /\ \A s \in Shots : ShotCovers(s) => ShotCovers(s)'
  <2>1. ledger \in Seq(Shots) /\ Increasing(ledger) /\ LedgerCovers
    BY <1>1, <1>4, ReadableLines DEF SampleInv, OneByOne, InOrder
  <2> DEFINE n == NewOpportunityEvents(ledger)
             m == PositiveFunding(ledger)
             old == LastIds(ledger)
             known == LastGrossOf(ledger)
  <2>2. n \in Int /\ m \in Int /\ known \in Int \cup {Unpublished}
    BY <2>1, FiguresAreNumbers, LastFacts
  <2>3. Covers(n, m, old, known)'
    <3>1. Covers(n, m, old, known)
      BY <2>1 DEF LedgerCovers
    <3> HIDE DEF n, m, old, known
    <3>2. n + New(old, DOMAIN offer'.slots) <= arrivals'
          /\ m + Gain(known, lastGross') <= funded'
          /\ (known # Unpublished => lastGross' # Unpublished)
      BY <1>1, <2>2, <3>1, ChangesAreCovered DEF Covers
    <3> QED BY <1>2, <3>2 DEF Covers, n, m, old, known
  <2>4. ASSUME NEW s \in Shots, ShotCovers(s) PROVE ShotCovers(s)'
    <3> DEFINE a == n + (IF ledger = << >> THEN 0 ELSE New(old, s.ids))
               b == m + Gain(known, s.gross)
    <3>1. a \in Int /\ b \in Int /\ s.gross \in Int \cup {Unpublished}
      <4>1. New(old, s.ids) \in Nat /\ s.gross \in Int \cup {Unpublished}
        BY ShotFacts, NewIsNat
      <4>2. Gain(known, s.gross) \in Nat
        BY <2>2, <4>1, GainAddsUp
      <4> QED BY <2>2, <4>1, <4>2
    <3>2. Covers(a, b, s.ids, s.gross)
      BY <2>4 DEF ShotCovers
    <3> HIDE DEF a, b
    <3>3. a + New(s.ids, DOMAIN offer'.slots) <= arrivals'
          /\ b + Gain(s.gross, lastGross') <= funded'
          /\ (s.gross # Unpublished => lastGross' # Unpublished)
      BY <1>1, <3>1, <3>2, ChangesAreCovered DEF Covers
    <3> QED BY <1>2, <3>3 DEF ShotCovers, Covers, a, b
  <2>5. LedgerCovers'
    BY <2>3 DEF LedgerCovers, Covers
  <2> QED BY <2>4, <2>5
<1>5. ASSUME ~overlapped' PROVE OneByOne'
  <2>1. ~overlapped /\ OneByOne /\ Busy' = Busy /\ Readable' = Readable
    BY <1>2, <1>5 DEF SampleInv, Busy, Readable
  <2>2. InOrder' = InOrder /\ \A p \in Busy : HoldsTheClock(p)' = HoldsTheClock(p)
    BY <1>2, <2>1 DEF InOrder, Increasing, HoldsTheClock
  <2>3. ASSUME Readable, NEW p \in Busy, writer[p].seen # << >>
        PROVE  ShotCovers(writer[p].seen[1])'
    <3>1. writer[p].seen[1] \in Shots /\ ShotCovers(writer[p].seen[1])
      BY <2>1, <2>3 DEF OneByOne, HoldsTheClock
    <3> QED BY <1>2, <1>4, <2>1, <2>3, <3>1
  <2> QED BY <1>2, <1>4, <2>1, <2>2, <2>3 DEF OneByOne
<1> QED BY <1>2, <1>3, <1>5 DEF SampleInv

LEMMA BeginSnapshotIsSampled ==
  ASSUME SampleInv, LedgerInv', NEW p \in Writers, BeginSnapshot(p) PROVE SampleInv'
<1> DEFINE begun == [Idle EXCEPT !.pc = "asking", !.now = clock']
<1>1. UNCHANGED <<offer, arrivals, funded, lastGross, ledger, terminated>>
      /\ writer' = [writer EXCEPT ![p] = begun]
  BY DEF BeginSnapshot, worldVars
<1>2. begun.now = clock' /\ begun.pc = "asking" /\ begun.seen = << >>
  BY DEF Idle
<1>3. WorldTypes' /\ (ledger = << >> => terminated)'
  BY <1>1 DEF SampleInv, WorldTypes
<1>4. ASSUME ~overlapped' PROVE OneByOne'
  <2>1. ~overlapped /\ OneByOne /\ Busy = {} /\ clock' = clock + 1
    BY <1>4 DEF SampleInv, BeginSnapshot
  <2>2. /\ \A q \in Writers : q # p => writer'[q].pc = "idle"
        /\ writer'[p] = begun
    BY <1>1, <2>1 DEF Busy, SampleInv, LedgerInv, LedgerTypes
  <2>3. \A q \in Busy' : q = p
    BY <2>2 DEF Busy
  <2>4. \A q \in Busy' : HoldsTheClock(q)' /\ writer'[q].seen = << >>
    BY <1>2, <2>2, <2>3 DEF HoldsTheClock
  <2>5. ASSUME Readable PROVE InOrder' /\ LedgerCovers'
    <3>1. ledger \in Seq(Shots) /\ InOrder /\ LedgerCovers /\ clock \in Nat
      BY <2>1, <2>5, ReadableLines DEF SampleInv, LedgerInv, LedgerTypes, OneByOne
    <3>2. \A i \in DOMAIN ledger : ledger[i].at \in Nat
      BY <3>1, ShotFacts
    <3>3. InOrder'
      BY <1>1, <2>1, <3>1, <3>2 DEF InOrder, Increasing
    <3> QED BY <1>1, <3>1, <3>3 DEF LedgerCovers, Covers
  <2>6. Readable' = Readable
    BY <1>1 DEF Readable
  <2> QED BY <2>3, <2>4, <2>5, <2>6 DEF OneByOne
<1> QED BY <1>3, <1>4 DEF SampleInv

LEMMA AskScoutIsSampled ==
  ASSUME SampleInv, LedgerInv', NEW p \in Writers, AskScout(p) PROVE SampleInv'
<1>1. PICK seen \in {<< >>, <<Snapshot(writer[p].now, offer)>>} :
        writer' = [writer EXCEPT ![p].pc = "loading", ![p].seen = seen]
  BY DEF AskScout
<1> DEFINE next == [writer[p] EXCEPT !.pc = "loading", !.seen = seen]
           s == Snapshot(writer[p].now, offer)
<1>2. writer[p] \in Commands /\ offer \in Offers \cup {NoOffer} /\ LedgerTypes
  BY DEF SampleInv, LedgerInv, LedgerTypes
<1>3. writer[p].now \in Nat /\ s \in Shots /\ s.at = writer[p].now
  <2>1. writer[p].now \in Nat /\ s.at = writer[p].now
    BY <1>2 DEF Commands, Snapshot
  <2>2. s \in Shots
    BY <1>2, <2>1 DEF Shots
  <2> QED BY <2>1, <2>2
<1>4. s \in Lines \ {Torn}
  BY <1>3, ShotFacts
<1>5. next \in Commands /\ next.pc = "loading" /\ next.now = writer[p].now
      /\ next.seen \in {<< >>, <<s>>}
  BY <1>2, <1>4 DEF Commands
<1>6. writer' = [writer EXCEPT ![p] = next]
  BY <1>1, <1>2 DEF LedgerTypes
<1>7. ASSUME ~overlapped
      PROVE  writer[p].now = clock /\ (Readable => ShotCovers(s))
  <2>1. OneByOne /\ p \in Busy /\ WorldTypes
    BY <1>7 DEF SampleInv, Busy, AskScout
  <2> QED BY <1>2, <1>3, <2>1, NewShotIsCovered DEF OneByOne, HoldsTheClock
<1> HIDE DEF next, s
<1>8. next.seen # << >> => next.seen[1] = s
  BY <1>5
<1>9. writer[p].pc # "idle"
  BY DEF AskScout
<1>10. UNCHANGED <<offer, arrivals, funded, lastGross, ledger, terminated,
                   clock, overlapped>>
  BY DEF AskScout, worldVars
<1> QED BY <1>3, <1>5, <1>6, <1>7, <1>8, <1>9, <1>10, QuietStepIsSampled

LEMMA LoadLedgerIsSampled ==
  ASSUME SampleInv, LedgerInv', NEW p \in Writers, LoadLedger(p) PROVE SampleInv'
<1> DEFINE lines == {ledger[i] : i \in DOMAIN ledger}
           loaded == [writer[p] EXCEPT !.pc = "writing", !.known = lines]
           next == IF Readable THEN loaded ELSE Idle
<1>1. writer[p] \in Commands /\ lines \subseteq Lines
  BY DEF SampleInv, LedgerInv, LedgerTypes
<1>2. loaded \in Commands /\ loaded.now = writer[p].now /\ loaded.seen = writer[p].seen
  BY <1>1 DEF Commands
<1>3. next \in Commands
  BY <1>2, IdleIsCommand
<1>4. writer' = [writer EXCEPT ![p] = next]
  BY DEF LoadLedger, SampleInv, LedgerInv, LedgerTypes
<1>5. ASSUME next.pc # "idle", ~overlapped
      PROVE  /\ next.now = clock
             /\ next.pc = "writing" => Readable
             /\ next.seen # << >> => /\ next.seen[1] \in Shots /\ next.seen[1].at = clock
                                     /\ Readable => ShotCovers(next.seen[1])
  <2>1. next = loaded /\ Readable
    BY <1>5, IdleIsCommand
  <2>2. OneByOne /\ p \in Busy
    BY <1>5 DEF SampleInv, Busy, LoadLedger
  <2> HIDE DEF loaded, next
  <2>3. HoldsTheClock(p) /\ (writer[p].seen # << >> => ShotCovers(writer[p].seen[1]))
    BY <2>1, <2>2 DEF OneByOne
  <2> QED BY <1>2, <2>1, <2>3 DEF HoldsTheClock
<1> HIDE DEF next
<1>6. writer[p].pc # "idle"
  BY DEF LoadLedger
<1>7. UNCHANGED <<offer, arrivals, funded, lastGross, ledger, terminated,
                  clock, overlapped>>
  BY DEF LoadLedger, worldVars
<1> QED BY <1>3, <1>4, <1>5, <1>6, <1>7, QuietStepIsSampled

\* A command that ends in the write, with or without its newline.
LEMMA WrittenIsSampled ==
  ASSUME SampleInv, LedgerInv', NEW p \in Writers, writer[p].pc = "writing",
         IsNew(writer[p]),
         ledger' \in {WithLine(Torn), WithLine(writer[p].seen[1])},
         writer' = [writer EXCEPT ![p] = Idle],
         UNCHANGED <<worldVars, clock, overlapped>>
  PROVE  SampleInv'
<1> DEFINE s == writer[p].seen[1]
<1>1. LedgerTypes /\ s \in Lines /\ Torn \in Lines /\ writer[p].seen # << >>
  BY DEF SampleInv, LedgerInv, LedgerTypes, Commands, IsNew, Lines
<1> HIDE DEF s
<1>2. WorldTypes' /\ ledger' # << >>
  <2>1. WorldTypes'
    BY DEF SampleInv, WorldTypes, worldVars
  <2>2. ledger' # << >>
    <3>1. \A line \in Lines : WithLine(line) # << >>
      <4> TAKE line \in Lines
      <4>1. CASE terminated
        BY <1>1, <4>1 DEF WithLine, LedgerTypes
      <4>2. CASE ~terminated
        <5>1. Len(ledger) \in DOMAIN WithLine(line)
          BY <1>1, <4>2 DEF WithLine, LedgerTypes, SampleInv
        <5> QED BY <5>1
      <4> QED BY <4>1, <4>2
    <3> QED BY <1>1, <3>1 DEF s
  <2> QED BY <2>1, <2>2
<1>3. ASSUME ~overlapped' PROVE OneByOne'
  <2>1. ~overlapped /\ OneByOne /\ p \in Busy
    BY <1>3 DEF SampleInv, Busy
  <2>2. Busy' = {}
    BY <1>1, <2>1, IdleIsCommand DEF OneByOne, Busy, LedgerTypes
  <2>3. ASSUME Readable' PROVE InOrder' /\ LedgerCovers'
    <3>1. ledger' = Append(ledger, s)
      BY <1>1, <2>3, SpoiltForGood DEF SampleInv, s
    <3>2. Readable /\ InOrder /\ LedgerCovers /\ s \in Shots /\ s.at = clock
          /\ ShotCovers(s) /\ \A i \in DOMAIN ledger : ledger[i].at < s.at
      BY <1>1, <2>1 DEF OneByOne, HoldsTheClock, InOrder, s
    <3>3. /\ Increasing(ledger)' /\ LedgerCovers'
          /\ \A i \in DOMAIN ledger' : ledger'[i].at <= s.at
      BY <1>1, <3>1, <3>2, ShotJoins
    <3> QED BY <2>2, <3>2, <3>3 DEF InOrder
  <2> QED BY <2>2, <2>3 DEF OneByOne
<1> QED BY <1>2, <1>3 DEF SampleInv

LEMMA WriteLedgerIsSampled ==
  ASSUME SampleInv, LedgerInv', NEW p \in Writers, WriteLedger(p) PROVE SampleInv'
<1>1. CASE IsNew(writer[p])
  BY <1>1, WrittenIsSampled DEF WriteLedger
<1>2. CASE ~IsNew(writer[p])
  <2>1. /\ writer[p].pc # "idle" /\ writer' = [writer EXCEPT ![p] = Idle]
        /\ UNCHANGED <<offer, arrivals, funded, lastGross, ledger, terminated,
                       clock, overlapped>>
    BY <1>2 DEF WriteLedger, worldVars
  <2> QED BY <2>1, IdleIsCommand, QuietStepIsSampled
<1> QED BY <1>1, <1>2

LEMMA SampleInvStep == SampleInv /\ [LedgerNext]_ledgerVars => SampleInv'
<1> SUFFICES ASSUME SampleInv, [LedgerNext]_ledgerVars PROVE SampleInv'
  OBVIOUS
<1>0. LedgerInv'
  BY LedgerInvStep DEF SampleInv
<1>1. CASE OfferChanges
  BY <1>0, <1>1, OfferChangesIsSampled
<1>2. ASSUME NEW p \in Writers, BeginSnapshot(p) PROVE SampleInv'
  BY <1>0, <1>2, BeginSnapshotIsSampled
<1>3. ASSUME NEW p \in Writers, AskScout(p) PROVE SampleInv'
  BY <1>0, <1>3, AskScoutIsSampled
<1>4. ASSUME NEW p \in Writers, LoadLedger(p) PROVE SampleInv'
  BY <1>0, <1>4, LoadLedgerIsSampled
<1>5. ASSUME NEW p \in Writers, WriteLedger(p) PROVE SampleInv'
  BY <1>0, <1>5, WriteLedgerIsSampled
<1>6. ASSUME NEW p \in Writers, DieWriting(p) PROVE SampleInv'
  BY <1>0, <1>6, WrittenIsSampled DEF DieWriting
<1>7. CASE UNCHANGED ledgerVars
  BY <1>0, <1>7 DEF ledgerVars, SampleInv, WorldTypes, OneByOne, Busy, Readable,
     HoldsTheClock, InOrder, Increasing, LedgerCovers, ShotCovers, Covers
<1> QED BY <1>1, <1>2, <1>3, <1>4, <1>5, <1>6, <1>7 DEF LedgerNext

\* The figures of analyze_replenishment are lower bounds of what the source
\* did, whatever it offers, as long as no two commands overlap
\* (history.py:592).
THEOREM FiguresAreLowerBounds == LedgerSpec => []ObservedIsLowerBound
<1>1. SampleInv => ObservedIsLowerBound
  <2> SUFFICES ASSUME SampleInv, Readable, ~overlapped
               PROVE  /\ NewOpportunityEvents(Ordered(ledger)) <= arrivals
                      /\ PositiveFunding(Ordered(ledger)) <= funded
                      /\ Signal(Ordered(ledger)) = "OBSERVED_REPLENISHMENT" =>
                           arrivals > 0 \/ funded > 0
    BY DEF ObservedIsLowerBound
  <2>1. ledger \in Seq(Shots) /\ Increasing(ledger) /\ LedgerCovers /\ WorldTypes
    BY ReadableLines DEF SampleInv, LedgerInv, OneByOne, InOrder
  <2>2. Ordered(ledger) = ledger
    BY <2>1, OrderedAlready
  <2> DEFINE n == NewOpportunityEvents(ledger)
             m == PositiveFunding(ledger)
  <2>3. n \in Int /\ m \in Int
    BY <2>1, FiguresAreNumbers
  <2>4. /\ New(LastIds(ledger), DOMAIN offer.slots) \in Nat
        /\ Gain(LastGrossOf(ledger), lastGross) \in Nat
    <3>1. LedgerTypes /\ lastGross \in Int \cup {Unpublished}
      BY <2>1 DEF WorldTypes, SampleInv, LedgerInv
    <3>2. LastGrossOf(ledger) \in Int \cup {Unpublished}
      BY <2>1, LastFacts
    <3>3. Gain(LastGrossOf(ledger), lastGross) \in Nat
      BY <3>1, <3>2, GainAddsUp
    <3> QED BY <3>1, <3>3, OfferedIds, NewIsNat
  <2>5. /\ n + New(LastIds(ledger), DOMAIN offer.slots) <= arrivals
        /\ m + Gain(LastGrossOf(ledger), lastGross) <= funded
        /\ arrivals \in Nat /\ funded \in Int
    BY <2>1 DEF LedgerCovers, Covers, WorldTypes
  <2>6. Signal(ledger) = "OBSERVED_REPLENISHMENT" => m > 0 \/ n > 0
    BY DEF Signal
  <2> HIDE DEF n, m
  <2>7. n <= arrivals /\ m <= funded
    BY <2>3, <2>4, <2>5
  <2>8. Signal(ledger) = "OBSERVED_REPLENISHMENT" => arrivals > 0 \/ funded > 0
    BY <2>3, <2>5, <2>6, <2>7
  <2> QED BY <2>2, <2>7, <2>8 DEF n, m
<1> QED BY <1>1, SampleInvInit, SampleInvStep, PTL DEF LedgerSpec

------------------------------------------------------------------------------
(* The review.                                                                *)

AllIdentifiers == UNION {Identifiers(r) : r \in Records}

Groups == [kept : Records, ids : SUBSET AllIdentifiers]

ReviewTypes ==
  /\ rbatch \in Seq(Records)
  /\ rdone \subseteq Records
  /\ rgroups \in Seq(Groups)

\* The group i stands for the record r.
Represents(groups, i, r) ==
  /\ Identifiers(r) \subseteq groups[i].ids
  /\ Score(groups[i].kept) >= Score(r)

ReviewInv ==
  /\ ReviewTypes
  /\ rgroups = << >> /\ rbatch # << >> => rdone = {}
  /\ rgroups # << >> =>
       \A r \in rdone : \E i \in DOMAIN rgroups : Represents(rgroups, i, r)

LEMMA PartScores ==
  ASSUME NEW r
  PROVE  /\ FreshnessScore(r) \in {40, 100, 85, 70, 55, 35}
         /\ AvailabilityScore(r) \in {100, 0, 65, 40}
         /\ EconomicsScore(r) \in {40, 100, 0}
         /\ RiskPercent(r) \in {100, 75, 0}
<1>1. FreshnessScore(r) \in {40, 100, 85, 70, 55, 35}
  BY DEF FreshnessScore
<1>2. AvailabilityScore(r) \in {100, 0, 65, 40}
  BY DEF AvailabilityScore
<1>3. EconomicsScore(r) \in {40, 100, 0}
  BY DEF EconomicsScore
<1>4. RiskPercent(r) \in {100, 75, 0}
  BY DEF RiskPercent
<1> QED BY <1>1, <1>2, <1>3, <1>4

\* Scores are integers, so that any two compare.
LEMMA ScoreIsInteger == ASSUME NEW r \in Records PROVE Score(r) \in Int
<1> DEFINE owner == IF r.authorized THEN 100 ELSE 0
           parts == FreshnessScore(r) + AvailabilityScore(r) + EconomicsScore(r)
           weighted == 30 * r.evidenceScore + 25 * owner + 15 * parts
<1>1. r.evidenceScore \in Int
  BY RecordsAssumption
<1>2. parts \in Int /\ owner \in Int
  BY PartScores
<1>3. weighted \in Int
  <2> HIDE DEF parts, owner
  <2> QED BY <1>1, <1>2
<1>4. (weighted * RiskPercent(r) + 5000) \div 10000 \in Int
  <2>1. RiskPercent(r) \in Int
    BY PartScores
  <2>2. weighted * RiskPercent(r) + 5000 \in Int
    <3> HIDE DEF weighted
    <3> QED BY <1>3, <2>1
  <2> HIDE DEF weighted
  <2> QED BY <2>2
<1> QED BY <1>4 DEF Score

\* A group that takes in a record keeps one that is at least as strong as
\* the record and as what it kept.
LEMMA MergedRepresentsBoth ==
  ASSUME NEW g \in Groups, NEW r \in Records
  PROVE  /\ Merged(g, r) \in Groups
         /\ Identifiers(r) \subseteq Merged(g, r).ids
         /\ g.ids \subseteq Merged(g, r).ids
         /\ Score(Merged(g, r).kept) >= Score(r)
         /\ Score(Merged(g, r).kept) >= Score(g.kept)
<1>1. g.kept \in Records /\ g.ids \subseteq AllIdentifiers
  BY DEF Groups
<1>2. Identifiers(r) \subseteq AllIdentifiers
  BY DEF AllIdentifiers
<1>3. /\ Stronger(r, g.kept) \in Records
      /\ Score(Stronger(r, g.kept)) >= Score(r)
      /\ Score(Stronger(r, g.kept)) >= Score(g.kept)
  BY <1>1, ScoreIsInteger DEF Stronger
<1>4. /\ Merged(g, r).kept = Stronger(r, g.kept)
      /\ Merged(g, r).ids = g.ids \cup Identifiers(r)
  BY DEF Merged
<1>5. Merged(g, r) \in Groups
  BY <1>1, <1>2, <1>3 DEF Merged, Groups
<1> QED BY <1>3, <1>4, <1>5

LEMMA ReviewInvInit == ReviewInit => ReviewInv
BY DEF ReviewInit, ReviewInv, ReviewTypes

LEMMA ReviewRecordKeepsInv ==
  ASSUME ReviewInv, ReviewRecord PROVE ReviewInv'
<1> DEFINE r == Head(rbatch)
<1>1. r \in Records /\ rbatch' \in Seq(Records) /\ rdone' = rdone \cup {r}
  BY DEF ReviewInv, ReviewTypes, ReviewRecord
<1>2. rdone' \subseteq Records
  BY <1>1 DEF ReviewInv, ReviewTypes
<1>3. rgroups = << >> => rdone = {}
  BY DEF ReviewInv, ReviewRecord
<1>4. CASE /\ Overlapping(r) = {}
           /\ rgroups' = Append(rgroups, [kept |-> r, ids |-> Identifiers(r)])
  <2> DEFINE own == [kept |-> r, ids |-> Identifiers(r)]
             n == Len(rgroups) + 1
  <2>1. own \in Groups
    BY <1>1 DEF Groups, AllIdentifiers
  <2>2. /\ rgroups' \in Seq(Groups) /\ rgroups' # << >>
        /\ n \in DOMAIN rgroups' /\ rgroups'[n] = own
        /\ \A i \in DOMAIN rgroups : i \in DOMAIN rgroups' /\ rgroups'[i] = rgroups[i]
    BY <1>4, <2>1 DEF ReviewInv, ReviewTypes
  <2>3. Represents(rgroups', n, r)
    BY <1>1, <2>2, ScoreIsInteger DEF Represents
  <2>4. ASSUME NEW d \in rdone
        PROVE  \E i \in DOMAIN rgroups' : Represents(rgroups', i, d)
    <3>1. PICK i \in DOMAIN rgroups : Represents(rgroups, i, d)
      BY <1>3, <2>4 DEF ReviewInv
    <3> QED BY <3>1, <2>2 DEF Represents
  <2> QED BY <1>1, <1>2, <2>2, <2>3, <2>4 DEF ReviewInv, ReviewTypes
<1>5. ASSUME NEW i \in Overlapping(r),
             rgroups' = [rgroups EXCEPT ![i] = Merged(rgroups[i], r)]
      PROVE  ReviewInv'
  <2>1. i \in DOMAIN rgroups /\ rgroups[i] \in Groups
    BY <1>5 DEF Overlapping, ReviewInv, ReviewTypes
  <2>2. /\ rgroups' \in Seq(Groups) /\ rgroups' # << >>
        /\ DOMAIN rgroups' = DOMAIN rgroups
        /\ rgroups'[i] = Merged(rgroups[i], r)
        /\ \A j \in DOMAIN rgroups : j # i => rgroups'[j] = rgroups[j]
    BY <1>1, <1>5, <2>1, MergedRepresentsBoth DEF ReviewInv, ReviewTypes
  <2>3. Represents(rgroups', i, r)
    BY <1>1, <2>1, <2>2, MergedRepresentsBoth DEF Represents
  <2>4. ASSUME NEW d \in rdone
        PROVE  \E j \in DOMAIN rgroups' : Represents(rgroups', j, d)
    <3>1. PICK j \in DOMAIN rgroups : Represents(rgroups, j, d)
      BY <1>3, <2>4 DEF ReviewInv
    <3>2. CASE j # i
      BY <3>1, <3>2, <2>2 DEF Represents
    <3>3. CASE j = i
      <4>1. d \in Records
        BY <2>4 DEF ReviewInv, ReviewTypes
      <4>2. Score(d) \in Int /\ Score(rgroups[i].kept) \in Int
            /\ Score(rgroups'[i].kept) \in Int
        BY <4>1, <1>1, <2>1, <2>2, MergedRepresentsBoth, ScoreIsInteger DEF Groups
      <4>3. Identifiers(d) \subseteq rgroups'[i].ids
        BY <1>1, <2>1, <2>2, <3>1, <3>3, MergedRepresentsBoth DEF Represents
      <4>4. Score(rgroups[i].kept) >= Score(d)
        BY <3>1, <3>3 DEF Represents
      <4>5. Score(rgroups'[i].kept) >= Score(rgroups[i].kept)
        BY <1>1, <2>1, <2>2, MergedRepresentsBoth
      <4>6. Score(rgroups'[i].kept) >= Score(d)
        BY <4>2, <4>4, <4>5
      <4>7. Represents(rgroups', i, d)
        BY <4>3, <4>6 DEF Represents
      <4> QED BY <2>1, <2>2, <4>7
    <3> QED BY <3>2, <3>3
  <2> QED BY <1>1, <1>2, <2>1, <2>2, <2>3, <2>4 DEF ReviewInv, ReviewTypes
<1> QED BY <1>4, <1>5 DEF ReviewRecord

LEMMA ReviewInvStep == ReviewInv /\ [ReviewNext]_reviewVars => ReviewInv'
<1> SUFFICES ASSUME ReviewInv, [ReviewNext]_reviewVars PROVE ReviewInv'
  OBVIOUS
<1>1. CASE BeginReview
  BY <1>1 DEF BeginReview, ReviewInv, ReviewTypes
<1>2. CASE ReviewRecord
  BY <1>2, ReviewRecordKeepsInv
<1>3. CASE ListReviews
  BY <1>3 DEF ListReviews, ReviewInv, ReviewTypes
<1>4. CASE UNCHANGED reviewVars
  BY <1>4 DEF reviewVars, ReviewInv, ReviewTypes, Represents
<1> QED BY <1>1, <1>2, <1>3, <1>4 DEF ReviewNext

\* Whatever the batch and its order, the group that stands for a record keeps
\* a review at least as strong as the record's own (engine.py:195).
THEOREM StrongestIsKept == ReviewSpec => []StrongestCovers
<1>1. ReviewInv => StrongestCovers
  BY DEF ReviewInv, StrongestCovers, Represents
<1> QED BY <1>1, ReviewInvInit, ReviewInvStep, PTL DEF ReviewSpec

------------------------------------------------------------------------------
(* What a listing says of the batch.  A group holds together: a set of        *)
(* reviewed records that is closed under overlapping, and has a record that   *)
(* meets the group, has the record the group keeps and meets each of its      *)
(* identifiers.  A new record can only enlarge what a closed set reaches.     *)

Coherent(g, S) ==
  /\ g.kept \in S
  /\ \A x \in g.ids : \E a \in S : x \in Identifiers(a)
  /\ \A T \in SUBSET S :
       Closed(T, S) /\ (\E a \in T : Identifiers(a) \cap g.ids # {}) =>
         g.kept \in T /\ \A x \in g.ids : \E a \in T : x \in Identifiers(a)

Represented(list, S) ==
  \A r \in S : \E i \in DOMAIN list :
    list[i] \in ConnectedTo(r, S) /\ Score(list[i]) >= Score(r)

BatchInv ==
  /\ ReviewInv
  /\ rbatch # << >> \/ rgroups # << >> => rlisting = << >>
  /\ \A i \in DOMAIN rgroups : Coherent(rgroups[i], rdone)
  /\ rlisting # << >> => Represented(rlisting, rdone)

LEMMA RecordsAreIdentified == ASSUME NEW r PROVE Identifiers(r) # {}
BY DEF Identifiers

\* What a closed set of the larger batch has of the smaller one is closed in it.
LEMMA ClosedRestricts ==
  ASSUME NEW S, NEW r, NEW T \in SUBSET (S \cup {r}), Closed(T, S \cup {r})
  PROVE  Closed(T \cap S, S)
BY DEF Closed

\* A closed set that meets a group, or reaches it by the new record, has what
\* the group has of the records before.
LEMMA GroupIsReached ==
  ASSUME NEW S, NEW r, NEW T \in SUBSET (S \cup {r}), Closed(T, S \cup {r}),
         NEW g, Coherent(g, S),
         NEW a \in T, Identifiers(a) \cap g.ids # {}
  PROVE  g.kept \in T /\ \A x \in g.ids : \E b \in T : x \in Identifiers(b)
<1>1. PICK x \in g.ids : x \in Identifiers(a)
  OBVIOUS
<1>2. PICK c \in S : x \in Identifiers(c)
  BY <1>1 DEF Coherent
<1>3. c \in T
  BY <1>1, <1>2 DEF Closed
<1>4. /\ T \cap S \in SUBSET S /\ Closed(T \cap S, S)
      /\ c \in T \cap S /\ Identifiers(c) \cap g.ids # {}
  BY <1>1, <1>2, <1>3, ClosedRestricts
<1> QED BY <1>4 DEF Coherent

LEMMA CoherentStays ==
  ASSUME NEW S, NEW r, NEW g, Coherent(g, S)
  PROVE  Coherent(g, S \cup {r})
<1>1. /\ g.kept \in S \cup {r}
      /\ \A x \in g.ids : \E a \in S \cup {r} : x \in Identifiers(a)
  BY DEF Coherent
<1>2. ASSUME NEW T \in SUBSET (S \cup {r}), Closed(T, S \cup {r}),
             NEW a \in T, Identifiers(a) \cap g.ids # {}
      PROVE  g.kept \in T /\ \A x \in g.ids : \E b \in T : x \in Identifiers(b)
  BY <1>2, GroupIsReached
<1> QED BY <1>1, <1>2 DEF Coherent

LEMMA NewGroupIsCoherent ==
  ASSUME NEW S, NEW r
  PROVE  Coherent([kept |-> r, ids |-> Identifiers(r)], S \cup {r})
<1> DEFINE g == [kept |-> r, ids |-> Identifiers(r)]
<1>1. g.kept = r /\ g.ids = Identifiers(r)
  OBVIOUS
<1>2. ASSUME NEW T \in SUBSET (S \cup {r}), Closed(T, S \cup {r}),
             NEW a \in T, Identifiers(a) \cap Identifiers(r) # {}
      PROVE  r \in T
  BY <1>2 DEF Closed
<1> HIDE DEF g
<1>3. Coherent(g, S \cup {r})
  BY <1>1, <1>2 DEF Coherent
<1> QED BY <1>3 DEF g

LEMMA MergedIsCoherent ==
  ASSUME NEW S, NEW r, NEW g, Coherent(g, S), Identifiers(r) \cap g.ids # {}
  PROVE  Coherent(Merged(g, r), S \cup {r})
<1> DEFINE m == Merged(g, r)
<1>1. m.kept \in {r, g.kept} /\ m.ids = g.ids \cup Identifiers(r)
  BY DEF Merged, Stronger
<1>2. ASSUME NEW T \in SUBSET (S \cup {r}), Closed(T, S \cup {r}),
             NEW a \in T, Identifiers(a) \cap m.ids # {}
      PROVE  r \in T /\ g.kept \in T /\ \A x \in g.ids : \E b \in T : x \in Identifiers(b)
  <2>1. CASE Identifiers(a) \cap Identifiers(r) # {}
    <3>1. r \in T
      BY <1>2, <2>1 DEF Closed
    <3> QED BY <3>1, <1>2, GroupIsReached
  <2>2. CASE Identifiers(a) \cap g.ids # {}
    <3>1. g.kept \in T /\ \A x \in g.ids : \E b \in T : x \in Identifiers(b)
      BY <1>2, <2>2, GroupIsReached
    <3>2. PICK b \in T : Identifiers(b) \cap Identifiers(r) # {}
      BY <3>1
    <3> QED BY <1>2, <3>1, <3>2 DEF Closed
  <2> QED BY <1>1, <1>2, <2>1, <2>2
<1>3. g.kept \in S /\ \A x \in g.ids : \E a \in S : x \in Identifiers(a)
  BY DEF Coherent
<1> HIDE DEF m
<1>4. Coherent(m, S \cup {r})
  BY <1>1, <1>2, <1>3 DEF Coherent
<1> QED BY <1>4 DEF m

LEMMA ReviewRecordKeepsBatch ==
  ASSUME BatchInv, ReviewRecord PROVE BatchInv'
<1> DEFINE r == Head(rbatch)
<1>1. ReviewInv'
  BY ReviewRecordKeepsInv DEF BatchInv
<1>2. rlisting = << >> /\ rlisting' = << >> /\ rdone' = rdone \cup {r}
  BY DEF BatchInv, ReviewRecord
<1>3. rgroups \in Seq(Groups)
  BY DEF BatchInv, ReviewInv, ReviewTypes
<1> HIDE DEF r
<1>4. CASE rgroups' = Append(rgroups, [kept |-> r, ids |-> Identifiers(r)])
  <2>1. ASSUME NEW i \in DOMAIN rgroups'
        PROVE  Coherent(rgroups'[i], rdone \cup {r})
    <3>1. \/ i \in DOMAIN rgroups /\ rgroups'[i] = rgroups[i]
          \/ rgroups'[i] = [kept |-> r, ids |-> Identifiers(r)]
      BY <1>3, <1>4
    <3>2. CASE i \in DOMAIN rgroups /\ rgroups'[i] = rgroups[i]
      BY <3>2, CoherentStays DEF BatchInv
    <3> QED BY <3>1, <3>2, NewGroupIsCoherent
  <2> QED BY <1>1, <1>2, <2>1 DEF BatchInv
<1>5. ASSUME NEW k \in Overlapping(r),
             rgroups' = [rgroups EXCEPT ![k] = Merged(rgroups[k], r)]
      PROVE  BatchInv'
  <2>1. k \in DOMAIN rgroups /\ Identifiers(r) \cap rgroups[k].ids # {}
    BY <1>5 DEF Overlapping
  <2>2. ASSUME NEW i \in DOMAIN rgroups'
        PROVE  Coherent(rgroups'[i], rdone \cup {r})
    <3>1. i \in DOMAIN rgroups /\ Coherent(rgroups[i], rdone)
      BY <1>5 DEF BatchInv
    <3>2. CASE i = k
      BY <1>5, <2>1, <3>1, <3>2, MergedIsCoherent
    <3>3. CASE i # k
      BY <1>5, <3>1, <3>3, CoherentStays
    <3> QED BY <3>2, <3>3
  <2> QED BY <1>1, <1>2, <2>2 DEF BatchInv
<1> QED BY <1>4, <1>5 DEF ReviewRecord, r

\* The listing shows each group once, whatever the order.
LEMMA ListReviewsKeepsBatch ==
  ASSUME BatchInv, ListReviews PROVE BatchInv'
<1>1. ReviewInv'
  BY ReviewInvStep DEF BatchInv, ReviewNext
<1>2. PICK p \in Bijection(DOMAIN rgroups, DOMAIN rgroups) :
        rlisting' = [i \in DOMAIN rgroups |-> rgroups[p[i]].kept]
  BY DEF ListReviews, ListOrders
<1>3. ASSUME NEW r \in rdone
      PROVE  \E i \in DOMAIN rlisting' :
               rlisting'[i] \in ConnectedTo(r, rdone) /\ Score(rlisting'[i]) >= Score(r)
  <2>1. PICK j \in DOMAIN rgroups : Represents(rgroups, j, r)
    BY <1>3 DEF BatchInv, ReviewInv, ListReviews
  <2>2. PICK i \in DOMAIN rgroups : p[i] = j
    BY <1>2 DEF Bijection, Surjection
  <2>3. Coherent(rgroups[j], rdone)
    BY DEF BatchInv
  <2>4. rgroups[j].kept \in ConnectedTo(r, rdone)
    <3>1. Identifiers(r) \cap rgroups[j].ids # {}
      BY <2>1, RecordsAreIdentified DEF Represents
    <3> QED BY <2>3, <3>1 DEF Coherent, ConnectedTo
  <2> QED BY <1>2, <2>1, <2>2, <2>4 DEF Represents
<1> QED BY <1>1, <1>3 DEF BatchInv, Represented, ListReviews

LEMMA BatchInvStep == BatchInv /\ [ReviewNext]_reviewVars => BatchInv'
<1> SUFFICES ASSUME BatchInv, [ReviewNext]_reviewVars PROVE BatchInv'
  OBVIOUS
<1>1. CASE BeginReview
  <2>1. ReviewInv'
    BY <1>1, ReviewInvStep DEF BatchInv, ReviewNext
  <2> QED BY <1>1, <2>1 DEF BeginReview, BatchInv
<1>2. CASE ReviewRecord
  BY <1>2, ReviewRecordKeepsBatch
<1>3. CASE ListReviews
  BY <1>3, ListReviewsKeepsBatch
<1>4. CASE UNCHANGED reviewVars
  <2>1. ReviewInv'
    BY <1>4, ReviewInvStep DEF BatchInv
  <2> QED BY <1>4, <2>1 DEF reviewVars, BatchInv
<1> QED BY <1>1, <1>2, <1>3, <1>4 DEF ReviewNext

\* A listing drops no record without a stronger one that overlapping leads to,
\* directly or through others of the batch (engine.py:172).
THEOREM ListingIsComplete == ReviewSpec => []ListingRepresentsBatch
<1>1. ReviewInit => BatchInv
  BY ReviewInvInit DEF ReviewInit, BatchInv
<1>2. BatchInv => ListingRepresentsBatch
  BY DEF BatchInv, Represented, ListingRepresentsBatch
<1> QED BY <1>1, <1>2, BatchInvStep, PTL DEF ReviewSpec
==============================================================================
