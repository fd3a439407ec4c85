--------------------------- MODULE AcquisitionProofs --------------------------
(* What an acquisition plan recommends was really published, in time, and     *)
(* completes one worker: for any providers, terms, policies, catalogs and     *)
(* inventories, however often the terms change and however old the files are. *)
(*                                                                            *)
(* Provenance is the invariant: a record, and the option made of it, trace to *)
(* something its source published no earlier than the record's date.  A plan  *)
(* adds what it checks: no worker does the task, so an option that covers it  *)
(* was counted, which takes fresh evidence.                                   *)
(*                                                                            *)
(* What a drift report says changed really changed: each record stands for a  *)
(* version of its source's terms, dates and versions agree, and neighbours    *)
(* that differ are of different versions.                                     *)
EXTENDS EvidencePipeline, FiniteSetTheorems, WellFoundedInduction, TLAPS

------------------------------------------------------------------------------
\* Least and greatest elements.

LEMMA LeastNumber ==
  ASSUME NEW T \in SUBSET Nat, T # {}
  PROVE  \E x \in T : \A y \in T : x <= y
<1> DEFINE R == OpToRel(<, Nat)
<1>1. IsWellFoundedOn(R, Nat)
  BY NatLessThanWellFounded
<1> HIDE DEF R
<1>2. PICK x \in T : \A y \in T : ~ (<<y, x>> \in R)
  BY <1>1, WFMin
<1>3. \A y \in T : ~ (y < x)
  BY <1>2 DEF R, OpToRel
<1> QED BY <1>3

LEMMA MinOfNumbers ==
  ASSUME NEW T \in SUBSET Nat, T # {}
  PROVE  Min(T) \in T
BY LeastNumber DEF Min

LEMMA MaxOfBounded ==
  ASSUME NEW n \in Nat, NEW T \in SUBSET (1 .. n), T # {}
  PROVE  Max(T) \in T
<1> DEFINE D == {n - x : x \in T}
<1>1. D \in SUBSET Nat /\ D # {}
  <2>1. \A x \in T : n - x \in Nat
    OBVIOUS
  <2> QED BY <2>1
<1>2. PICK d \in D : \A y \in D : d <= y
  BY <1>1, LeastNumber
<1>3. PICK x \in T : d = n - x
  BY <1>2
<1>4. \A y \in T : x >= y
  <2> SUFFICES ASSUME NEW y \in T PROVE x >= y
    OBVIOUS
  <2>1. n - y \in D
    OBVIOUS
  <2> HIDE DEF D
  <2>2. n - x <= n - y
    BY <1>2, <1>3, <2>1
  <2> QED BY <2>2
<1> QED BY <1>4 DEF Max

------------------------------------------------------------------------------
\* Requirements and workers.

\* A worker is feasible exactly when it can do, alone, all of a task whose
\* requirements are known.
LEMMA FeasibleIsWhole ==
  ASSUME NEW o, NEW worker, worker.configured = TRUE
  PROVE  Feasibility(o, worker) = "FEASIBLE"
           <=> Required(o) # {} /\ Required(o) \subseteq worker.capabilities
<1>1. Missing(o, worker) = {} <=> Required(o) \subseteq worker.capabilities
  BY DEF Missing
<1> QED BY <1>1 DEF Feasibility

AdaptedWorkers(inventory) ==
  /\ inventory \in Seq(Range(inventory))
  /\ \A w \in DOMAIN inventory :
       inventory[w].configured = TRUE /\ inventory[w].name \in Nat

LEMMA GapTellsWholeWorkers ==
  ASSUME NEW o, NEW inventory, AdaptedWorkers(inventory)
  PROVE  /\ Gap(o, inventory) = "NONE" =>
              \E w \in DOMAIN inventory : Required(o) \subseteq inventory[w].capabilities
         /\ Gap(o, inventory) \notin {"NONE", "UNKNOWN_REQUIREMENTS"} =>
              /\ Required(o) # {}
              /\ \A w \in DOMAIN inventory :
                   ~ (Required(o) \subseteq inventory[w].capabilities)
<1>1. \A w \in DOMAIN inventory :
        w \in FeasibleWorkers(o, inventory)
          <=> Required(o) # {} /\ Required(o) \subseteq inventory[w].capabilities
  BY FeasibleIsWhole DEF FeasibleWorkers, AdaptedWorkers
<1>2. FeasibleWorkers(o, inventory) \subseteq DOMAIN inventory
  BY DEF FeasibleWorkers
<1>3. inventory = << >> => DOMAIN inventory = {}
  OBVIOUS
<1>4. ASSUME Gap(o, inventory) = "NONE"
      PROVE  FeasibleWorkers(o, inventory) # {}
  BY <1>4 DEF Gap
<1>5. ASSUME Gap(o, inventory) \notin {"NONE", "UNKNOWN_REQUIREMENTS"}
      PROVE  Required(o) # {} /\ FeasibleWorkers(o, inventory) = {}
  <2>1. Required(o) # {}
    BY <1>5 DEF Gap
  <2>2. CASE inventory = << >>
    BY <2>1, <2>2, <1>2, <1>3
  <2>3. CASE inventory # << >>
    BY <1>5, <2>1, <2>3 DEF Gap
  <2> QED BY <2>1, <2>2, <2>3
<1> QED BY <1>1, <1>2, <1>4, <1>5

LEMMA BaseIsWorker ==
  ASSUME NEW o, NEW inventory, AdaptedWorkers(inventory), NEW option
  PROVE  \/ BaseWorker(o, option, inventory) = NotStated
         \/ \E w \in DOMAIN inventory :
              BaseWorker(o, option, inventory) = inventory[w]
<1> DEFINE named == {w \in DOMAIN inventory :
                       inventory[w].name = TargetName(o, option, inventory)}
<1>1. Len(inventory) \in Nat /\ DOMAIN inventory = 1 .. Len(inventory)
  BY DEF AdaptedWorkers
<1>2. named # {} => Max(named) \in DOMAIN inventory
  BY <1>1, MaxOfBounded
<1>3. BaseWorker(o, option, inventory) \in
        {NotStated} \cup (IF named = {} THEN {} ELSE {inventory[Max(named)]})
  BY DEF BaseWorker
<1> HIDE DEF named
<1> QED BY <1>2, <1>3

------------------------------------------------------------------------------
\* Options.

\* Only fresh evidence is usable, and it is no older than it allows.
LEMMA UsableIsRecent ==
  ASSUME NEW ev, NEW now \in Int, NEW claim, ev # NotStated,
         ev.observed \in Int, ev.maxAge \in Int, UsableFor(claim, ev, now)
  PROVE  now - ev.observed <= ev.maxAge
<1>1. EvidenceStatus(ev, now) = "FRESH"
  BY DEF UsableFor
<1>2. ~TooOld(ev, now)
  BY <1>1 DEF EvidenceStatus
<1> QED BY <1>2 DEF TooOld

\* An option that covers what no worker does was counted: its evidence, if it
\* has any, is usable; and it completes one worker or nobody's work.
LEMMA CoveringOptionCounts ==
  ASSUME NEW o, NEW inventory, AdaptedWorkers(inventory), NEW option, NEW now,
         NEW verdicts, Required(o) # {},
         \A w \in DOMAIN inventory :
           ~ (Required(o) \subseteq inventory[w].capabilities),
         Covers(o, option, inventory, now, verdicts)
  PROVE  /\ option.evidence # NotStated =>
              UsableFor("CAPABILITY", option.evidence, now)
         /\ \/ Required(o) \subseteq option.provides
            \/ \E w \in DOMAIN inventory :
                 Required(o) \subseteq inventory[w].capabilities \cup option.provides
<1> DEFINE base == BaseWorker(o, option, inventory)
           counts == option.evidence = NotStated
                     \/ UsableFor("CAPABILITY", option.evidence, now)
           own == IF base = NotStated THEN {} ELSE base.capabilities
           added == IF counts THEN option.provides ELSE {}
<1>1. Required(o) \subseteq own \cup added
  BY DEF Covers, Resulting
<1>2. base = NotStated \/ \E w \in DOMAIN inventory : base = inventory[w]
  BY BaseIsWorker
<1>3. ~ (Required(o) \subseteq own)
  BY <1>2
<1>4. counts
  BY <1>1, <1>3
<1>5. base = NotStated => Required(o) \subseteq option.provides
  BY <1>1, <1>4
<1>6. \A w \in DOMAIN inventory : base = inventory[w] =>
        Required(o) \subseteq inventory[w].capabilities \cup option.provides
  BY <1>1, <1>4
<1> QED BY <1>2, <1>4, <1>5, <1>6

LEMMA FailedHistoryNeverCovers ==
  ASSUME NEW o, NEW inventory, NEW option, NEW now, NEW verdicts,
         Covers(o, option, inventory, now, verdicts),
         verdicts # NotStated, option.evidence # NotStated,
         option.evidence.source \in DOMAIN verdicts
  PROVE  verdicts[option.evidence.source] # "FAIL"
<1>1. HistoricalVerdict(option, verdicts) = verdicts[option.evidence.source]
  BY DEF HistoricalVerdict
<1> QED BY <1>1 DEF Covers

LEMMA BestOptionCovers ==
  ASSUME NEW o, NEW options, DOMAIN options \subseteq Nat, NEW inventory, NEW now,
         NEW uses, NEW verdicts,
         BestOption(o, options, inventory, now, uses, verdicts) # 0
  PROVE  LET best == BestOption(o, options, inventory, now, uses, verdicts)
         IN /\ best \in DOMAIN options
            /\ options[best].enabled
            /\ Covers(o, options[best], inventory, now, verdicts)
<1> DEFINE candidates == [k \in DOMAIN options |->
                            Candidate(o, options[k], inventory, now, uses, verdicts)]
           covering == {k \in DOMAIN options :
                          options[k].enabled /\ candidates[k].covers}
           strongest == {k \in covering :
                           \A j \in covering : ~Outranks(candidates[j], candidates[k])}
           best == BestOption(o, options, inventory, now, uses, verdicts)
<1>1. best = IF strongest = {} THEN 0 ELSE Min(strongest)
  BY DEF BestOption, StrongestOf
<1>2. strongest \subseteq covering /\ covering \subseteq DOMAIN options
  OBVIOUS
<1> HIDE DEF strongest
<1>3. best \in covering
  <2>1. strongest # {}
    BY <1>1
  <2>2. strongest \in SUBSET Nat
    BY <1>2
  <2> QED BY <1>1, <1>2, <2>1, <2>2, MinOfNumbers
<1> HIDE DEF best
<1>4. best \in DOMAIN options /\ options[best].enabled
      /\ Candidate(o, options[best], inventory, now, uses, verdicts).covers
  BY <1>3
<1>5. Covers(o, options[best], inventory, now, verdicts)
  BY <1>4 DEF Candidate, Judged
<1> QED BY <1>4, <1>5 DEF best

------------------------------------------------------------------------------
\* Provenance.

Records == [source : ConfigSources, observed : Nat, terms : Terms]

\* Published by its source no earlier than its date.
Genuine(r) ==
  \E p \in past : /\ p.source = r.source /\ p.terms = r.terms
                  /\ p.at \in r.observed .. tick

\* What the catalog says of an option, its source published.
Traced(option) ==
  \E p \in past :
    /\ p.source = option.evidence.source
    /\ p.terms.capabilities = option.provides /\ p.terms.price = option.perTask
    /\ option.enabled = (p.terms.available # "no")
    /\ option.evidence.observed \in Int /\ option.evidence.maxAge \in Int
    /\ p.at \in option.evidence.observed .. tick

WorldInv ==
  /\ tick \in Nat
  /\ provider \in [ConfigSources -> Terms]
  /\ \A s \in ConfigSources : Publication(tick, s, provider[s]) \in past

CollectorInv ==
  /\ collector \in [next : 0 .. Len(Config), dated : 0 .. tick, got : Seq(Records)]
  /\ collector.dated > 0 => collector.next > 0
  /\ \A i \in DOMAIN collector.got : Genuine(collector.got[i])

RecordsInv ==
  records # NotStated =>
    /\ records \in Seq(Records)
    /\ \A i \in DOMAIN records : Genuine(records[i])

CatalogInv ==
  catalog # NotStated =>
    /\ DOMAIN catalog \subseteq Nat \ {0}
    /\ \A k \in DOMAIN catalog :
         catalog[k].evidence # NotStated => Traced(catalog[k])

PipelineInv == WorldInv /\ CollectorInv /\ RecordsInv /\ CatalogInv

PrintedIsSound == RecommendedWasPublished /\ PlansRestOnOneWorker

LEMMA ConfigNames ==
  /\ Len(Config) \in Nat \ {0}
  /\ \A i \in 1 .. Len(Config) : Config[i] \in ConfigSources
BY SourcesAssumption DEF ConfigSources, Range

LEMMA PipelineInvInit == PipelineInit => PipelineInv /\ PrintedIsSound
<1> SUFFICES ASSUME PipelineInit PROVE PipelineInv /\ PrintedIsSound
  OBVIOUS
<1>1. WorldInv
  BY DEF PipelineInit, WorldInv
<1>2. CollectorInv
  <2>1. collector = [next |-> 0, dated |-> 0, got |-> << >>] /\ tick = 0
    BY DEF PipelineInit, NoCollection
  <2> QED BY <2>1, ConfigNames DEF CollectorInv
<1>3. RecordsInv /\ CatalogInv
  BY DEF PipelineInit, RecordsInv, CatalogInv
<1>4. PrintedIsSound
  BY DEF PipelineInit, PrintedIsSound, RecommendedWasPublished,
         PlansRestOnOneWorker, NothingPrinted
<1> QED BY <1>1, <1>2, <1>3, <1>4 DEF PipelineInv

\* A command that prints something else than a plan.
LEMMA NoPlanIsSound ==
  ASSUME printed'.kind # "plan" PROVE PrintedIsSound'
BY DEF PrintedIsSound, RecommendedWasPublished, PlansRestOnOneWorker

LEMMA NothingPrintedIsSound ==
  ASSUME printed' = NothingPrinted PROVE PrintedIsSound'
<1>1. printed'.kind # "plan"
  BY DEF NothingPrinted
<1> QED BY <1>1, NoPlanIsSound

\* The past only grows and time only passes: what is genuine stays so.
LEMMA ProvenanceStays ==
  ASSUME past \subseteq past', tick \in Nat, tick' \in Nat, tick <= tick'
  PROVE  /\ \A r \in Records : Genuine(r) => Genuine(r)'
         /\ \A option : Traced(option) => Traced(option)'
<1>1. ASSUME NEW r \in Records, Genuine(r) PROVE Genuine(r)'
  <2>1. PICK p \in past : /\ p.source = r.source /\ p.terms = r.terms
                          /\ p.at \in r.observed .. tick
    BY <1>1 DEF Genuine
  <2>2. p \in past' /\ p.at \in r.observed .. tick'
    BY <2>1, <1>1 DEF Records
  <2> QED BY <2>1, <2>2 DEF Genuine
<1>2. ASSUME NEW option, Traced(option) PROVE Traced(option)'
  <2>1. PICK p \in past :
          /\ p.source = option.evidence.source
          /\ p.terms.capabilities = option.provides
          /\ p.terms.price = option.perTask
          /\ option.enabled = (p.terms.available # "no")
          /\ option.evidence.observed \in Int /\ option.evidence.maxAge \in Int
          /\ p.at \in option.evidence.observed .. tick
    BY <1>2 DEF Traced
  <2>2. p \in past' /\ p.at \in option.evidence.observed .. tick'
    BY <2>1
  <2> QED BY <2>1, <2>2 DEF Traced
<1> QED BY <1>1, <1>2

LEMMA FilesStay ==
  ASSUME PipelineInv, past \subseteq past', tick' \in Nat, tick <= tick',
         UNCHANGED <<records, catalog>>
  PROVE  RecordsInv' /\ CatalogInv'
<1>1. tick \in Nat
  BY DEF PipelineInv, WorldInv
<1>2. RecordsInv'
  BY <1>1, ProvenanceStays DEF PipelineInv, RecordsInv
<1>3. CatalogInv'
  BY <1>1, ProvenanceStays DEF PipelineInv, CatalogInv
<1> QED BY <1>2, <1>3

LEMMA CollectorStays ==
  ASSUME PipelineInv, past \subseteq past', tick' \in Nat, tick <= tick',
         collector'.got = collector.got,
         collector' \in [next : 0 .. Len(Config), dated : 0 .. tick',
                         got : Seq(Records)],
         collector'.dated > 0 => collector'.next > 0
  PROVE  CollectorInv'
<1>1. tick \in Nat
  BY DEF PipelineInv, WorldInv
<1>2. \A i \in DOMAIN collector.got : collector.got[i] \in Records
  BY DEF PipelineInv, CollectorInv
<1>3. ASSUME NEW i \in DOMAIN collector'.got PROVE Genuine(collector.got[i])'
  <2>1. i \in DOMAIN collector.got /\ collector.got[i] \in Records
        /\ Genuine(collector.got[i])
    BY <1>2, <1>3 DEF PipelineInv, CollectorInv
  <2>2. PICK p \in past : /\ p.source = collector.got[i].source
                          /\ p.terms = collector.got[i].terms
                          /\ p.at \in collector.got[i].observed .. tick
    BY <2>1 DEF Genuine
  <2>3. p \in past' /\ p.at \in collector.got[i].observed .. tick'
    BY <1>1, <2>1, <2>2 DEF Records
  <2>4. collector'.got[i] = collector.got[i]
    OBVIOUS
  <2> QED BY <2>2, <2>3, <2>4 DEF Genuine
<1> QED BY <1>3 DEF CollectorInv

LEMMA ProviderChangesKeepsInv ==
  ASSUME PipelineInv, NEW s \in ConfigSources, ProviderChanges(s)
  PROVE  PipelineInv' /\ PrintedIsSound'
<1>1. PICK t \in Terms : /\ provider' = [provider EXCEPT ![s] = t]
                         /\ past' = past \cup {Publication(tick, s, t)}
  BY DEF ProviderChanges
<1>2. UNCHANGED <<tick, collector, records, catalog>> /\ printed' = NothingPrinted
  BY DEF ProviderChanges
<1>3. tick \in Nat
  BY DEF PipelineInv, WorldInv
<1>4. WorldInv'
  BY <1>1, <1>2 DEF PipelineInv, WorldInv
<1>5. CollectorInv' /\ RecordsInv' /\ CatalogInv'
  BY <1>1, <1>2, <1>3, CollectorStays, FilesStay DEF PipelineInv, CollectorInv
<1> QED BY <1>2, <1>4, <1>5, NothingPrintedIsSound DEF PipelineInv

LEMMA NextTickKeepsWorld ==
  ASSUME WorldInv, NextTick, UNCHANGED provider
  PROVE  WorldInv' /\ past \subseteq past' /\ tick' = tick + 1
BY DEF WorldInv, NextTick

LEMMA TimePassesKeepsInv ==
  ASSUME PipelineInv, TimePasses PROVE PipelineInv' /\ PrintedIsSound'
<1>1. WorldInv' /\ past \subseteq past' /\ tick' = tick + 1 /\ tick \in Nat
  BY NextTickKeepsWorld DEF PipelineInv, WorldInv, TimePasses
<1>2. UNCHANGED <<collector, records, catalog>> /\ printed' = NothingPrinted
  BY DEF TimePasses
<1>3. CollectorInv'
  <2>1. collector' \in [next : 0 .. Len(Config), dated : 0 .. tick',
                        got : Seq(Records)]
    BY <1>1, <1>2 DEF PipelineInv, CollectorInv
  <2> QED BY <1>1, <1>2, <2>1, CollectorStays DEF PipelineInv, CollectorInv
<1>4. RecordsInv' /\ CatalogInv'
  BY <1>1, <1>2, FilesStay
<1> QED BY <1>1, <1>2, <1>3, <1>4, NothingPrintedIsSound DEF PipelineInv

LEMMA AskProviderKeepsInv ==
  ASSUME PipelineInv, AskProvider PROVE PipelineInv' /\ PrintedIsSound'
<1>1. WorldInv' /\ past \subseteq past' /\ tick' = tick + 1 /\ tick \in Nat
  BY NextTickKeepsWorld DEF PipelineInv, WorldInv, AskProvider
<1>2. /\ UNCHANGED <<records, catalog>> /\ printed' = NothingPrinted
      /\ collector' = [next |-> IF collector.next = 0 THEN 1 ELSE collector.next,
                       dated |-> tick + 1, got |-> collector.got]
  BY DEF AskProvider
<1>3. CollectorInv'
  <2>1. collector.got \in Seq(Records) /\ collector.next \in 0 .. Len(Config)
    BY DEF PipelineInv, CollectorInv
  <2>2. collector' \in [next : 0 .. Len(Config), dated : 0 .. tick',
                        got : Seq(Records)]
        /\ collector'.next > 0 /\ collector'.got = collector.got
    BY <1>1, <1>2, <2>1, ConfigNames
  <2> QED BY <1>1, <2>2, CollectorStays
<1>4. RecordsInv' /\ CatalogInv'
  BY <1>1, <1>2, FilesStay
<1> QED BY <1>1, <1>2, <1>3, <1>4, NothingPrintedIsSound DEF PipelineInv

\* A collection hands on what it collected, and that is genuine.
LEMMA CollectedSoFarKeepsInv ==
  ASSUME PipelineInv, collector.dated > 0, NEW got \in Seq(Records),
         \A i \in DOMAIN got : Genuine(got[i]), CollectedSoFar(got),
         UNCHANGED <<worldOfProviders, tick, catalog>>, printed' = NothingPrinted
  PROVE  PipelineInv' /\ PrintedIsSound'
<1>1. UNCHANGED <<provider, past, tick, catalog>> /\ tick \in Nat
  BY DEF worldOfProviders, PipelineInv, WorldInv
<1>2. WorldInv'
  BY <1>1 DEF PipelineInv, WorldInv
<1>3. CatalogInv'
  BY <1>1 DEF PipelineInv, CatalogInv, Traced
<1>4. \A i \in DOMAIN got : Genuine(got[i])'
  BY <1>1 DEF Genuine
<1>5. CASE collector' = NoCollection /\ records' = got
  <2>1. RecordsInv'
    BY <1>4, <1>5 DEF RecordsInv
  <2>2. CollectorInv'
    <3>1. collector' = [next |-> 0, dated |-> 0, got |-> << >>]
      BY <1>5 DEF NoCollection
    <3> QED BY <1>1, <3>1, ConfigNames DEF CollectorInv
  <2> QED BY <1>2, <1>3, <2>1, <2>2, NothingPrintedIsSound DEF PipelineInv
<1>6. CASE /\ collector.next # Len(Config)
           /\ collector' = [next |-> collector.next + 1, dated |-> 0, got |-> got]
           /\ UNCHANGED records
  <2>1. RecordsInv'
    BY <1>1, <1>6 DEF PipelineInv, RecordsInv, Genuine
  <2>2. collector.next + 1 \in 0 .. Len(Config)
    BY <1>6, ConfigNames DEF PipelineInv, CollectorInv
  <2>3. CollectorInv'
    BY <1>1, <1>4, <1>6, <2>2 DEF CollectorInv
  <2> QED BY <1>2, <1>3, <2>1, <2>3, NothingPrintedIsSound DEF PipelineInv
<1> QED BY <1>5, <1>6 DEF CollectedSoFar

LEMMA ProviderAnswersKeepsInv ==
  ASSUME PipelineInv, ProviderAnswers PROVE PipelineInv' /\ PrintedIsSound'
<1> DEFINE s == Config[collector.next]
           record == RecordOf(s, collector.dated, provider[s])
           got == Append(collector.got, record)
<1>1. collector.dated > 0 /\ CollectedSoFar(got)
      /\ UNCHANGED <<worldOfProviders, tick, catalog>> /\ printed' = NothingPrinted
  BY DEF ProviderAnswers
<1>2. s \in ConfigSources
  BY <1>1, ConfigNames DEF PipelineInv, CollectorInv
<1>3. record \in Records
  BY <1>2 DEF PipelineInv, CollectorInv, WorldInv, RecordOf, Records
<1>4. Genuine(record)
  <2>1. Publication(tick, s, provider[s]) \in past /\ tick \in Nat
    BY <1>2 DEF PipelineInv, WorldInv
  <2>2. tick \in collector.dated .. tick
    BY <2>1 DEF PipelineInv, CollectorInv
  <2> QED BY <2>1, <2>2 DEF Genuine, RecordOf, Publication
<1>5. collector.got \in Seq(Records)
      /\ \A i \in DOMAIN collector.got : Genuine(collector.got[i])
  BY DEF PipelineInv, CollectorInv
<1> HIDE DEF record
<1>6. got \in Seq(Records) /\ \A i \in DOMAIN got : Genuine(got[i])
  BY <1>3, <1>4, <1>5
<1> QED BY <1>1, <1>6, CollectedSoFarKeepsInv

LEMMA ProviderFailsKeepsInv ==
  ASSUME PipelineInv, ProviderFails PROVE PipelineInv' /\ PrintedIsSound'
<1>1. collector.got \in Seq(Records)
      /\ \A i \in DOMAIN collector.got : Genuine(collector.got[i])
  BY DEF PipelineInv, CollectorInv
<1> QED BY <1>1, CollectedSoFarKeepsInv DEF ProviderFails

LEMMA CollectionDiesKeepsInv ==
  ASSUME PipelineInv, CollectionDies PROVE PipelineInv' /\ PrintedIsSound'
<1>1. /\ collector' = [next |-> 0, dated |-> 0, got |-> << >>]
      /\ UNCHANGED <<provider, past, tick, records, catalog>>
      /\ printed' = NothingPrinted /\ tick \in Nat
  BY DEF CollectionDies, NoCollection, worldOfProviders, PipelineInv, WorldInv
<1>2. WorldInv' /\ RecordsInv' /\ CatalogInv'
  BY <1>1 DEF PipelineInv, WorldInv, RecordsInv, CatalogInv, Genuine, Traced
<1>3. CollectorInv'
  BY <1>1, ConfigNames DEF CollectorInv
<1> QED BY <1>1, <1>2, <1>3, NothingPrintedIsSound DEF PipelineInv

\* The ledger's commands leave the provenance alone.
LEMMA LedgerCommandsKeepInv ==
  ASSUME PipelineInv, AppendLedger \/ AnalyzeLedger
  PROVE  PipelineInv' /\ PrintedIsSound'
<1>1. UNCHANGED <<provider, past, tick, collector, records, catalog>>
  BY DEF AppendLedger, AnalyzeLedger, worldOfProviders
<1>2. PipelineInv'
  BY <1>1 DEF PipelineInv, WorldInv, CollectorInv, RecordsInv, CatalogInv,
              Genuine, Traced
<1>3. printed'.kind # "plan"
  BY DEF AppendLedger, AnalyzeLedger, NothingPrinted
<1> QED BY <1>2, <1>3, NoPlanIsSound

\* Of the records of a source there is a latest one.
LEMMA LatestIsRecord ==
  ASSUME PipelineInv, records # NotStated, NEW rule, HasRecord(rule)
  PROVE  /\ LatestRecord(rule.source) \in Records
         /\ Genuine(LatestRecord(rule.source))
<1> DEFINE mine == {r \in Range(records) : r.source = rule.source}
           ages == {tick - r.observed : r \in mine}
<1>1. \A r \in Range(records) : r \in Records /\ Genuine(r)
  BY DEF PipelineInv, RecordsInv, Range
<1>2. \A r \in mine : tick - r.observed \in Nat
  <2> SUFFICES ASSUME NEW r \in mine PROVE tick - r.observed \in Nat
    OBVIOUS
  <2>1. r \in Records /\ Genuine(r) /\ tick \in Nat
    BY <1>1 DEF PipelineInv, WorldInv
  <2> QED BY <2>1 DEF Genuine, Records
<1>3. ages \in SUBSET Nat /\ ages # {}
  BY <1>2 DEF HasRecord
<1>4. PICK a \in ages : \A b \in ages : a <= b
  BY <1>3, LeastNumber
<1>5. PICK r \in mine : a = tick - r.observed
  BY <1>4
<1>6. \A q \in Range(records) : q.source = rule.source => q.observed <= r.observed
  <2> SUFFICES ASSUME NEW q \in mine PROVE q.observed <= r.observed
    OBVIOUS
  <2>1. tick - r.observed <= tick - q.observed
    BY <1>4, <1>5
  <2>2. tick \in Nat /\ q.observed \in Nat /\ r.observed \in Nat
    BY <1>1 DEF PipelineInv, WorldInv, Records
  <2> QED BY <2>1, <2>2
<1>7. LatestRecord(rule.source) \in Range(records)
  BY <1>5, <1>6 DEF LatestRecord
<1> QED BY <1>1, <1>7

LEMMA OptionIsTraced ==
  ASSUME NEW r \in Records, Genuine(r), NEW rule
  PROVE  Traced(OptionFrom(r, rule))
<1> DEFINE option == OptionFrom(r, rule)
<1>1. /\ option.provides = r.terms.capabilities /\ option.perTask = r.terms.price
      /\ option.enabled = (r.terms.available # "no")
      /\ option.evidence.source = r.source
      /\ option.evidence.observed = r.observed
      /\ option.evidence.maxAge = r.terms.maxAge
  BY DEF OptionFrom, EvidenceOf
<1>2. r.observed \in Int /\ r.terms.maxAge \in Int
  BY SourcesAssumption DEF Records
<1> HIDE DEF option
<1>3. Traced(option)
  BY <1>1, <1>2 DEF Genuine, Traced
<1> QED BY <1>3 DEF option

LEMMA MaterializeKeepsInv ==
  ASSUME PipelineInv, Materialize PROVE PipelineInv' /\ PrintedIsSound'
<1>1. /\ UNCHANGED <<provider, past, tick, collector, records>>
      /\ printed' = NothingPrinted /\ records # NotStated
      /\ catalog' = [k \in {j \in DOMAIN Rules : HasRecord(Rules[j])} |->
                       OptionFrom(LatestRecord(Rules[k].source), Rules[k])]
  BY DEF Materialize, worldOfProviders
<1>2. WorldInv' /\ CollectorInv' /\ RecordsInv'
  BY <1>1 DEF PipelineInv, WorldInv, CollectorInv, RecordsInv, Genuine
<1>3. DOMAIN catalog' \subseteq Nat \ {0}
  BY <1>1, SourcesAssumption
<1>4. ASSUME NEW k \in DOMAIN catalog' PROVE Traced(catalog[k])'
  <2>1. HasRecord(Rules[k])
        /\ catalog'[k] = OptionFrom(LatestRecord(Rules[k].source), Rules[k])
    BY <1>1, <1>4
  <2>2. /\ LatestRecord(Rules[k].source) \in Records
        /\ Genuine(LatestRecord(Rules[k].source))
    BY <1>1, <2>1, LatestIsRecord
  <2> DEFINE option == OptionFrom(LatestRecord(Rules[k].source), Rules[k])
  <2>3. Traced(option)
    BY <2>2, OptionIsTraced
  <2> HIDE DEF option
  <2>4. catalog'[k] = option
    BY <2>1 DEF option
  <2> QED BY <1>1, <2>3, <2>4 DEF Traced
<1>5. CatalogInv'
  BY <1>3, <1>4 DEF CatalogInv
<1> QED BY <1>1, <1>2, <1>5, NothingPrintedIsSound DEF PipelineInv

LEMMA WriteCatalogByHandKeepsInv ==
  ASSUME PipelineInv, WriteCatalogByHand PROVE PipelineInv' /\ PrintedIsSound'
<1>1. UNCHANGED <<provider, past, tick, collector, records>>
      /\ catalog' \in HandCatalogs /\ printed' = NothingPrinted
  BY DEF WriteCatalogByHand, worldOfProviders
<1>2. WorldInv' /\ CollectorInv' /\ RecordsInv'
  BY <1>1 DEF PipelineInv, WorldInv, CollectorInv, RecordsInv, Genuine
<1>3. CatalogInv'
  BY <1>1, HandCatalogsAssumption DEF CatalogInv
<1> QED BY <1>1, <1>2, <1>3, NothingPrintedIsSound DEF PipelineInv

\* The plan.
LEMMA PlanAcquisitionKeepsInv ==
  ASSUME PipelineInv, PlanAcquisition PROVE PipelineInv' /\ PrintedIsSound'
<1>1. PICK input \in PlanInputs :
        LET gap == Gap(input.task, input.inventory)
            verdicts == IF input.history THEN HistoricalVerdicts ELSE NotStated
        IN printed' = PlanFor(input, gap, verdicts,
                              ChosenOption(input, gap, verdicts))
  BY DEF PlanAcquisition
<1> DEFINE o == input.task
           inventory == input.inventory
           gap == Gap(o, inventory)
           verdicts == IF input.history THEN HistoricalVerdicts ELSE NotStated
           best == ChosenOption(input, gap, verdicts)
           option == IF best = 0 THEN NotStated ELSE catalog[best]
           status == PlanStatus(gap, best)
           needs == Required(o)
<1>2. AdaptedWorkers(inventory)
  BY PlanInputsAssumption DEF AdaptedWorkers
<1> HIDE DEF verdicts, gap, o, inventory
<1>3. catalog # NotStated /\ UNCHANGED <<provider, past, tick, collector, records, catalog>>
  BY DEF PlanAcquisition, worldOfProviders
<1>4. PipelineInv'
  BY <1>3 DEF PipelineInv, WorldInv, CollectorInv, RecordsInv, CatalogInv,
              Genuine, Traced
<1>5. /\ gap = "NONE" => \E w \in DOMAIN inventory : needs \subseteq inventory[w].capabilities
      /\ gap \notin {"NONE", "UNKNOWN_REQUIREMENTS"} =>
           /\ needs # {}
           /\ \A w \in DOMAIN inventory : ~ (needs \subseteq inventory[w].capabilities)
  BY <1>2, GapTellsWholeWorkers DEF gap
<1>6. DOMAIN catalog \subseteq Nat \ {0}
      /\ \A k \in DOMAIN catalog :
           catalog[k].evidence # NotStated => Traced(catalog[k])
  BY <1>3 DEF PipelineInv, CatalogInv
<1>7. ASSUME best # 0
      PROVE  /\ best \in DOMAIN catalog /\ catalog[best].enabled
             /\ Covers(o, catalog[best], inventory, tick, verdicts)
             /\ gap \notin {"NONE", "UNKNOWN_REQUIREMENTS"}
  <2>1. gap \notin {"NONE", "UNKNOWN_REQUIREMENTS"}
        /\ best = BestOption(o, catalog, inventory, tick, 2, verdicts)
    BY <1>7 DEF ChosenOption, o, inventory
  <2>2. DOMAIN catalog \subseteq Nat
    BY <1>6
  <2> HIDE DEF best
  <2> QED BY <1>7, <2>1, <2>2, BestOptionCovers
<1>8. printed'.kind = "plan" /\ printed'.status = status /\ printed'.at = tick
      /\ printed'.task = o /\ printed'.inventory = inventory
      /\ printed'.option = option /\ printed'.verdicts = verdicts
  <2> HIDE DEF status, option
  <2>1. printed' = [kind |-> "plan", status |-> status, at |-> tick, task |-> o,
                    inventory |-> inventory, option |-> option,
                    verdicts |-> verdicts]
    BY <1>1 DEF PlanFor, status, option, verdicts, gap, o, inventory
  <2> QED BY <2>1
<1>9. status = "READY" => gap = "NONE"
  BY DEF PlanStatus
<1> HIDE DEF best, status
<1>10. ASSUME option # NotStated
       PROVE  /\ option = catalog[best] /\ best # 0
              /\ option.enabled
              /\ \A w \in DOMAIN inventory : ~ (needs \subseteq inventory[w].capabilities)
              /\ option.evidence # NotStated =>
                   UsableFor("CAPABILITY", option.evidence, tick) /\ Traced(option)
              /\ \/ needs \subseteq option.provides
                 \/ \E w \in DOMAIN inventory :
                      needs \subseteq inventory[w].capabilities \cup option.provides
              /\ verdicts # NotStated /\ option.evidence # NotStated
                   /\ option.evidence.source \in DOMAIN verdicts
                   => verdicts[option.evidence.source] # "FAIL"
  <2>1. best # 0 /\ option = catalog[best]
    BY <1>10
  <2>2. Covers(o, option, inventory, tick, verdicts) /\ option.enabled
        /\ (option.evidence # NotStated => Traced(option))
    BY <1>6, <1>7, <2>1
  <2>3. needs # {}
        /\ \A w \in DOMAIN inventory : ~ (needs \subseteq inventory[w].capabilities)
    BY <1>5, <1>7, <2>1
  <2> HIDE DEF option
  <2>4. /\ option.evidence # NotStated =>
             UsableFor("CAPABILITY", option.evidence, tick)
        /\ \/ needs \subseteq option.provides
           \/ \E w \in DOMAIN inventory :
                needs \subseteq inventory[w].capabilities \cup option.provides
    BY <1>2, <2>2, <2>3, CoveringOptionCounts
  <2> QED BY <2>1, <2>2, <2>3, <2>4, FailedHistoryNeverCovers
<1> HIDE DEF option
<1>11. PlansRestOnOneWorker'
  <2>1. status = "READY" => \E w \in Range(inventory) : needs \subseteq w.capabilities
    BY <1>5, <1>9 DEF Range
  <2>2. option # NotStated =>
          /\ \A w \in Range(inventory) : ~ (needs \subseteq w.capabilities)
          /\ \/ needs \subseteq option.provides
             \/ \E w \in Range(inventory) : needs \subseteq w.capabilities \cup option.provides
    BY <1>10 DEF Range
  <2> QED BY <1>8, <2>1, <2>2 DEF PlansRestOnOneWorker
<1>12. ASSUME option # NotStated, option.evidence # NotStated
       PROVE  \E p \in past :
                /\ p.source = option.evidence.source
                /\ p.at \in (tick - option.evidence.maxAge) .. tick
                /\ p.terms.capabilities = option.provides
                /\ p.terms.price = option.perTask
                /\ p.terms.available # "no"
  <2>1. PICK p \in past :
          /\ p.source = option.evidence.source
          /\ p.terms.capabilities = option.provides
          /\ p.terms.price = option.perTask
          /\ option.enabled = (p.terms.available # "no")
          /\ option.evidence.observed \in Int /\ option.evidence.maxAge \in Int
          /\ p.at \in option.evidence.observed .. tick
    BY <1>10, <1>12 DEF Traced
  <2>2. tick \in Int
    BY DEF PipelineInv, WorldInv
  <2>3. tick - option.evidence.observed <= option.evidence.maxAge
    BY <1>10, <1>12, <2>1, <2>2, UsableIsRecent
  <2>4. p.at \in (tick - option.evidence.maxAge) .. tick
    BY <2>1, <2>2, <2>3
  <2>5. p.terms.available # "no"
    BY <1>10, <1>12, <2>1
  <2> QED BY <2>1, <2>4, <2>5
<1>13. RecommendedWasPublished'
  BY <1>3, <1>8, <1>10, <1>12 DEF RecommendedWasPublished
<1> QED BY <1>4, <1>11, <1>13 DEF PrintedIsSound

LEMMA PipelineInvStep ==
  PipelineInv /\ PrintedIsSound /\ [PipelineNext]_pipelineVars
    => PipelineInv' /\ PrintedIsSound'
<1> SUFFICES ASSUME PipelineInv, PrintedIsSound, [PipelineNext]_pipelineVars
             PROVE  PipelineInv' /\ PrintedIsSound'
  OBVIOUS
<1>1. CASE \E s \in ConfigSources : ProviderChanges(s)
  BY <1>1, ProviderChangesKeepsInv
<1>2. CASE TimePasses
  BY <1>2, TimePassesKeepsInv
<1>3. CASE AskProvider
  BY <1>3, AskProviderKeepsInv
<1>4. CASE ProviderAnswers
  BY <1>4, ProviderAnswersKeepsInv
<1>5. CASE ProviderFails
  BY <1>5, ProviderFailsKeepsInv
<1>6. CASE CollectionDies
  BY <1>6, CollectionDiesKeepsInv
<1>7. CASE AppendLedger \/ AnalyzeLedger
  BY <1>7, LedgerCommandsKeepInv
<1>8. CASE Materialize
  BY <1>8, MaterializeKeepsInv
<1>9. CASE WriteCatalogByHand
  BY <1>9, WriteCatalogByHandKeepsInv
<1>10. CASE PlanAcquisition
  BY <1>10, PlanAcquisitionKeepsInv
<1>11. CASE UNCHANGED pipelineVars
  BY <1>11 DEF pipelineVars, PipelineInv, WorldInv, CollectorInv, RecordsInv,
     CatalogInv, Genuine, Traced, PrintedIsSound, RecommendedWasPublished,
     PlansRestOnOneWorker
<1> QED BY <1>1, <1>2, <1>3, <1>4, <1>5, <1>6, <1>7, <1>8, <1>9, <1>10, <1>11
        DEF PipelineNext

\* An option recommended on evidence was really published with what the plan
\* counts on, within the age its evidence allows (acquisition.py:209).
THEOREM RecommendationsAreGenuine == PipelineSpec => []RecommendedWasPublished
<1>1. PrintedIsSound => RecommendedWasPublished
  BY DEF PrintedIsSound
<1> QED BY <1>1, PipelineInvInit, PipelineInvStep, PTL DEF PipelineSpec

\* READY means that one declared worker does the whole task; an option is
\* recommended only when none does and it completes one (inventory.py:32).
THEOREM PlansUniteNoWorkers == PipelineSpec => []PlansRestOnOneWorker
<1>1. PrintedIsSound => PlansRestOnOneWorker
  BY DEF PrintedIsSound
<1> QED BY <1>1, PipelineInvInit, PipelineInvStep, PTL DEF PipelineSpec

------------------------------------------------------------------------------
(* The drift report.  Every record ever made holds some version of its        *)
(* source's terms, counted by the changes before it; versions follow the      *)
(* dates, so a change between two neighbours is a version of its own.         *)

Recorded ==
  eledger \cup (IF records = NotStated THEN {} ELSE Range(records))
    \cup Range(collector.got)

\* The versions v of the records R.
Versions(v, R) ==
  /\ \A r \in R :
       /\ v[r] \in 0 .. termChanges[r.source]
       /\ v[r] = termChanges[r.source] => r.terms = provider[r.source]
       /\ r.observed <= tick /\ (collector.dated > 0 => r.observed < collector.dated)
  /\ \A r, q \in R : r.source = q.source =>
       /\ r.observed < q.observed => v[r] <= v[q]
       /\ v[r] = v[q] => r.terms = q.terms
       /\ r.observed = q.observed => r = q

DriftInv ==
  /\ termChanges \in [ConfigSources -> Nat]
  /\ Recorded \subseteq Records
  /\ \E v : Versions(v, Recorded)

DriftPrinted ==
  printed = NothingPrinted \/ printed.kind # "drift" \/ DriftIsHistory

\* Of the changes between neighbours each is another version.
LEMMA ChangesAreVersions ==
  ASSUME DriftInv, NEW s \in ConfigSources,
         NEW P \in SUBSET Adjacent(s), \A p \in P : p[1].terms # p[2].terms
  PROVE  IsFiniteSet(P) /\ Cardinality(P) <= termChanges[s]
<1>1. PICK v : Versions(v, Recorded)
  BY DEF DriftInv
<1>2. /\ HistoryOf(s) \subseteq Recorded
      /\ \A r \in HistoryOf(s) : r.source = s /\ r \in Records /\ r.observed \in Nat
  BY DEF HistoryOf, Recorded, DriftInv, Records
<1>3. \A p \in P : /\ p[1] \in HistoryOf(s) /\ p[2] \in HistoryOf(s)
                   /\ p[1].observed < p[2].observed
                   /\ \A r \in HistoryOf(s) :
                        r.observed <= p[1].observed \/ p[2].observed <= r.observed
                   /\ p = <<p[1], p[2]>>
  BY DEF Adjacent, DatedPairs
<1> DEFINE n == termChanges[s]
           f == [p \in P |-> v[p[2]]]
<1>4. n \in Nat
  BY DEF DriftInv
<1>5. \A r \in HistoryOf(s) : v[r] \in 0 .. n
  BY <1>1, <1>2 DEF Versions
<1>6. \A p \in P : v[p[1]] < v[p[2]]
  <2> SUFFICES ASSUME NEW p \in P PROVE v[p[1]] < v[p[2]]
    OBVIOUS
  <2>1. v[p[1]] <= v[p[2]] /\ v[p[1]] # v[p[2]]
    BY <1>1, <1>2, <1>3 DEF Versions
  <2>2. v[p[1]] \in 0 .. n /\ v[p[2]] \in 0 .. n
    BY <1>3, <1>5
  <2> QED BY <1>4, <2>1, <2>2
<1>7. f \in [P -> 1 .. n]
  <2>1. \A p \in P : v[p[2]] \in 1 .. n
    BY <1>3, <1>4, <1>5, <1>6
  <2> QED BY <2>1
<1>8. ASSUME NEW p \in P, NEW q \in P, f[p] = f[q] PROVE p = q
  <2>1. v[p[2]] = v[q[2]]
    BY <1>8
  <2>2. ASSUME NEW x \in P, NEW y \in P, v[x[2]] = v[y[2]]
        PROVE  ~(x[2].observed < y[2].observed)
    <3> SUFFICES ASSUME x[2].observed < y[2].observed PROVE FALSE
      OBVIOUS
    <3>1. x[2].observed <= y[1].observed
      BY <1>2, <1>3
    <3>2. v[x[2]] <= v[y[1]]
      BY <1>1, <1>2, <1>3, <1>4, <1>5, <3>1 DEF Versions
    <3> QED BY <1>3, <1>4, <1>5, <1>6, <2>2, <3>2
  <2>3. p[2].observed = q[2].observed
    BY <1>2, <1>3, <2>1, <2>2
  <2>4. p[2] = q[2]
    BY <1>1, <1>2, <1>3, <2>3 DEF Versions
  <2>5. p[1].observed = q[1].observed
    BY <1>2, <1>3, <2>4
  <2>6. p[1] = q[1]
    BY <1>1, <1>2, <1>3, <2>5 DEF Versions
  <2> QED BY <1>3, <2>4, <2>6
<1> HIDE DEF f, n
<1>9. f \in Injection(P, 1 .. n)
  BY <1>7, <1>8 DEF Injection, IsInjective
<1>10. IsFiniteSet(1 .. n) /\ Cardinality(1 .. n) = n
  BY <1>4, FS_Interval
<1> QED BY <1>9, <1>10, FS_Injection DEF n

\* A report that sees no change of terms sees one price.
LEMMA NoChangeOnePrice ==
  ASSUME DriftInv, NEW s \in ConfigSources,
         \A p \in Adjacent(s) : p[1].terms.price = p[2].terms.price
  PROVE  \A r, q \in HistoryOf(s) : r.terms.price = q.terms.price
<1>1. PICK v : Versions(v, Recorded)
  BY DEF DriftInv
<1> DEFINE H == HistoryOf(s)
<1>2. /\ H \subseteq Recorded
      /\ \A r \in H : r.source = s /\ r \in Records /\ r.observed \in Nat
  BY DEF HistoryOf, Recorded, DriftInv, Records
<1>3. \A r, q \in H : r.observed = q.observed => r = q
  BY <1>1, <1>2 DEF Versions
<1>4. \A a, b \in H :
        /\ a.observed < b.observed
        /\ \A r \in H : r.observed <= a.observed \/ b.observed <= r.observed
        => a.terms.price = b.terms.price
  <2> SUFFICES ASSUME NEW a \in H, NEW b \in H, a.observed < b.observed,
                      \A r \in H : r.observed <= a.observed \/ b.observed <= r.observed
               PROVE  a.terms.price = b.terms.price
    OBVIOUS
  <2> DEFINE p == <<a, b>>
  <2>1. p \in H \X H /\ p[1] = a /\ p[2] = b
    OBVIOUS
  <2> HIDE DEF p
  <2>2. p \in Adjacent(s)
    BY <2>1 DEF Adjacent, DatedPairs
  <2> QED BY <2>1, <2>2
<1> HIDE DEF H
<1>5. ASSUME NEW r \in H, NEW q \in H, r.observed < q.observed
      PROVE  r.terms.price = q.terms.price
  <2> DEFINE odd == {x \in H : r.observed < x.observed /\ x.terms.price # r.terms.price}
             dates == {x.observed : x \in odd}
  <2> SUFFICES ASSUME odd # {} PROVE FALSE
    BY <1>5
  <2>1. PICK first \in dates : \A d \in dates : first <= d
    <3>1. dates \in SUBSET Nat /\ dates # {}
      BY <1>2
    <3> HIDE DEF dates
    <3> QED BY <3>1, LeastNumber
  <2>2. PICK b \in odd : b.observed = first
    BY <2>1
  <2>3. b \in H /\ r.observed < b.observed /\ b.terms.price # r.terms.price
        /\ \A x \in odd : b.observed <= x.observed
    BY <2>1, <2>2
  <2> DEFINE before == {x \in H : x.observed < b.observed}
             gaps == {b.observed - x.observed : x \in before}
  <2>4. PICK least \in gaps : \A d \in gaps : least <= d
    <3>1. gaps \in SUBSET Nat /\ gaps # {}
      <4>1. \A x \in before : b.observed - x.observed \in Nat
        BY <1>2, <2>3
      <4> QED BY <2>3, <4>1
    <3> HIDE DEF gaps
    <3> QED BY <3>1, LeastNumber
  <2>5. PICK a \in before : least = b.observed - a.observed
    BY <2>4
  <2>6. a \in H /\ a.observed < b.observed /\ a.observed \in Nat /\ b.observed \in Nat
        /\ \A x \in before : x.observed <= a.observed
    <3>1. a \in H /\ a.observed < b.observed /\ a.observed \in Nat /\ b.observed \in Nat
      BY <1>2, <2>3, <2>5
    <3>2. ASSUME NEW x \in before PROVE x.observed <= a.observed
      <4>1. b.observed - a.observed <= b.observed - x.observed /\ x.observed \in Nat
        BY <1>2, <2>4, <2>5
      <4> QED BY <3>1, <4>1
    <3> QED BY <3>1, <3>2
  <2>7. a.terms.price = b.terms.price
    <3>1. \A x \in H : x.observed <= a.observed \/ b.observed <= x.observed
      BY <1>2, <2>6
    <3> QED BY <1>4, <2>3, <2>6, <3>1
  <2>8. r.observed <= a.observed
    BY <2>3, <2>6
  <2>9. CASE a.observed = r.observed
    BY <1>3, <2>3, <2>6, <2>7, <2>9
  <2>10. CASE r.observed < a.observed
    <3>1. a \in odd
      BY <2>3, <2>6, <2>7, <2>10
    <3> QED BY <1>2, <2>3, <2>6, <3>1
  <2> QED BY <1>2, <2>6, <2>8, <2>9, <2>10
<1> SUFFICES ASSUME NEW r \in H, NEW q \in H PROVE r.terms.price = q.terms.price
  BY DEF H
<1>6. r.observed < q.observed \/ q.observed < r.observed \/ r.observed = q.observed
  BY <1>2
<1>7. CASE r.observed < q.observed
  BY <1>5, <1>7
<1>8. CASE q.observed < r.observed
  BY <1>5, <1>8
<1>9. CASE r.observed = q.observed
  BY <1>3, <1>9
<1> QED BY <1>6, <1>7, <1>8, <1>9

LEMMA SummaryIsHistory ==
  ASSUME DriftInv, NEW s \in ConfigSources
  PROVE  LET d == SummaryOf(s)
         IN /\ d.changes + d.contentOnly <= termChanges[s]
            /\ d.changes = 0 => Cardinality(d.prices) <= 1
<1> DEFINE C == {p \in Adjacent(s) : SemanticDrift(p[1], p[2]) # {}}
           D == {p \in Adjacent(s) : PairDrift(p[1], p[2]) = {"content"}}
           prices == {r.terms.price : r \in HistoryOf(s)} \ {NotStated}
<1>1. SummaryOf(s).changes = Cardinality(C)
      /\ SummaryOf(s).contentOnly = Cardinality(D) /\ SummaryOf(s).prices = prices
  BY DEF SummaryOf
<1>2. \A p \in C \cup D : p[1].terms # p[2].terms
  <2>1. \A p \in C : p[1].terms # p[2].terms
    BY DEF SemanticDrift
  <2>2. \A p \in D : p[1].terms # p[2].terms
    BY DEF PairDrift, SemanticDrift
  <2> QED BY <2>1, <2>2
<1>3. C \cap D = {}
  <2>1. \A a, b : "content" \notin SemanticDrift(a, b)
    BY DEF SemanticDrift
  <2> QED BY <2>1 DEF PairDrift
<1>4. C \cup D \in SUBSET Adjacent(s)
  OBVIOUS
<1> HIDE DEF C, D
<1>5. /\ IsFiniteSet(C \cup D) /\ Cardinality(C \cup D) <= termChanges[s]
  BY <1>2, <1>4, ChangesAreVersions
<1>6. /\ IsFiniteSet(C) /\ IsFiniteSet(D)
      /\ Cardinality(C \cup D) = Cardinality(C) + Cardinality(D)
  <2>1. IsFiniteSet(C) /\ IsFiniteSet(D)
    BY <1>5, FS_Subset
  <2>2. Cardinality(C \cup D) =
          Cardinality(C) + Cardinality(D) - Cardinality(C \cap D)
    BY <2>1, FS_Union
  <2>3. Cardinality(C \cap D) = 0
    BY <1>3, FS_EmptySet
  <2> QED BY <2>1, <2>2, <2>3, FS_CardinalityType
<1>7. ASSUME Cardinality(C) = 0 PROVE Cardinality(prices) <= 1
  <2>1. C = {}
    BY <1>6, <1>7, FS_EmptySet
  <2>2. ASSUME NEW p \in Adjacent(s) PROVE p[1].terms.price = p[2].terms.price
    <3>1. SemanticDrift(p[1], p[2]) = {}
      BY <2>1 DEF C
    <3>2. ~(p[1].terms["price"] # p[2].terms["price"])
      BY <3>1 DEF SemanticDrift
    <3> QED BY <3>2
  <2>3. \A x, y \in prices : x = y
    BY <2>2, NoChangeOnePrice
  <2> HIDE DEF prices
  <2>4. CASE prices = {}
    BY <2>4, FS_EmptySet
  <2>5. CASE prices # {}
    <3>1. PICK x : prices = {x}
      BY <2>3, <2>5
    <3>2. Cardinality({x}) = 1
      BY FS_Singleton
    <3> QED BY <3>1, <3>2
  <2> QED BY <2>4, <2>5
<1> HIDE DEF prices
<1> QED BY <1>1, <1>5, <1>6, <1>7

\* Nothing is added to the records, and their sources stand still.
LEMMA NoNewRecord ==
  ASSUME DriftInv, Recorded' \subseteq Recorded, UNCHANGED <<termChanges, provider>>,
         PipelineInv, tick' \in Nat, tick <= tick',
         collector'.dated > 0 =>
           \/ collector'.dated = collector.dated
           \/ collector'.dated \in Nat /\ collector'.dated > tick
  PROVE  DriftInv'
<1>1. PICK v : Versions(v, Recorded)
  BY DEF DriftInv
<1>2. Recorded \subseteq Records /\ tick \in Nat
  BY DEF DriftInv, PipelineInv, WorldInv
<1>3. ASSUME NEW r \in Recorded'
      PROVE  /\ r.observed <= tick'
             /\ (collector'.dated > 0 => r.observed < collector'.dated)
  <2>1. /\ r \in Recorded /\ r.observed \in Nat /\ r.observed <= tick
        /\ (collector.dated > 0 => r.observed < collector.dated)
    BY <1>1, <1>2, <1>3 DEF Versions, Records
  <2> QED BY <1>2, <2>1
<1>4. Versions(v, Recorded)'
  BY <1>1, <1>3 DEF Versions
<1> QED BY <1>2, <1>4 DEF DriftInv

LEMMA ProviderChangesKeepsDrift ==
  ASSUME DriftInv, PipelineInv, NEW s \in ConfigSources, ProviderChanges(s)
  PROVE  DriftInv'
<1>1. PICK v : Versions(v, Recorded)
  BY DEF DriftInv
<1>2. /\ UNCHANGED <<tick, collector>> /\ Recorded' = Recorded
      /\ termChanges' = [termChanges EXCEPT ![s] = @ + 1]
      /\ \A q \in ConfigSources : q # s => provider'[q] = provider[q]
  BY DEF ProviderChanges, Recorded, PipelineInv, WorldInv
<1>3. termChanges \in [ConfigSources -> Nat] /\ Recorded \subseteq Records
  BY DEF DriftInv
<1>4. termChanges' \in [ConfigSources -> Nat]
  BY <1>2, <1>3
<1>5. ASSUME NEW r \in Recorded
      PROVE  /\ v[r] \in 0 .. termChanges'[r.source]
             /\ v[r] = termChanges'[r.source] => r.terms = provider'[r.source]
  <2>1. /\ r.source \in ConfigSources /\ v[r] \in 0 .. termChanges[r.source]
        /\ v[r] = termChanges[r.source] => r.terms = provider[r.source]
    BY <1>1, <1>3 DEF Versions, Records
  <2>2. CASE r.source = s
    BY <1>2, <1>3, <2>1, <2>2
  <2>3. CASE r.source # s
    BY <1>2, <1>3, <2>1, <2>3
  <2> QED BY <2>2, <2>3
<1>6. Versions(v, Recorded)'
  BY <1>1, <1>2, <1>5 DEF Versions
<1> QED BY <1>2, <1>3, <1>4, <1>6 DEF DriftInv

\* The answer is the latest record of its source and of the current version.
LEMMA ProviderAnswersKeepsDrift ==
  ASSUME DriftInv, PipelineInv, ProviderAnswers PROVE DriftInv'
<1> DEFINE s == Config[collector.next]
           new == RecordOf(s, collector.dated, provider[s])
           got == Append(collector.got, new)
<1>1. collector.dated > 0 /\ CollectedSoFar(got)
      /\ UNCHANGED <<provider, termChanges, tick, eledger>>
  BY DEF ProviderAnswers, worldOfProviders
<1>2. s \in ConfigSources
  BY <1>1, ConfigNames DEF PipelineInv, CollectorInv
<1>3. new \in Records
  BY <1>2 DEF PipelineInv, CollectorInv, WorldInv, RecordOf, Records
<1>4. new.source = s /\ new.observed = collector.dated /\ new.terms = provider[s]
  BY DEF RecordOf
<1> HIDE DEF new
<1>5. Range(got) \subseteq Range(collector.got) \cup {new}
  <2>1. collector.got \in Seq(Records)
    BY DEF PipelineInv, CollectorInv
  <2>2. \A i \in DOMAIN got : got[i] = new \/ \E j \in DOMAIN collector.got : got[i] = collector.got[j]
    BY <1>3, <2>1
  <2> QED BY <2>2 DEF Range
<1> HIDE DEF got
<1>6. Recorded' \subseteq Recorded \cup {new} /\ collector'.dated = 0
  <2>1. CASE collector' = NoCollection /\ records' = got
    <3>1. collector'.got = << >> /\ collector'.dated = 0
      BY <2>1 DEF NoCollection
    <3>2. Range(<< >>) = {}
      BY DEF Range
    <3> QED BY <1>1, <1>5, <2>1, <3>1, <3>2 DEF Recorded
  <2>2. CASE /\ collector' = [next |-> collector.next + 1, dated |-> 0, got |-> got]
             /\ UNCHANGED records
    <3>1. collector'.got = got /\ collector'.dated = 0
      BY <2>2
    <3> QED BY <1>1, <1>5, <2>2, <3>1 DEF Recorded
  <2> QED BY <1>1, <2>1, <2>2 DEF CollectedSoFar
<1>7. PICK v : Versions(v, Recorded)
  BY DEF DriftInv
<1>8. /\ termChanges \in [ConfigSources -> Nat] /\ Recorded \subseteq Records
      /\ tick \in Nat /\ collector.dated \in 0 .. tick
  BY DEF DriftInv, PipelineInv, WorldInv, CollectorInv
<1>9. \A r \in Recorded : r.observed \in Nat /\ r.observed < collector.dated
  BY <1>1, <1>7, <1>8 DEF Versions, Records
<1>10. new \notin Recorded
  BY <1>4, <1>8, <1>9
<1> DEFINE w == [r \in Recorded \cup {new} |-> IF r = new THEN termChanges[s] ELSE v[r]]
<1>11. w[new] = termChanges[s] /\ \A r \in Recorded : w[r] = v[r]
  BY <1>10
<1> HIDE DEF w, s
<1>12. ASSUME NEW r \in Recorded'
       PROVE  /\ w[r] \in 0 .. termChanges'[r.source]
              /\ w[r] = termChanges'[r.source] => r.terms = provider'[r.source]
              /\ r.observed <= tick' /\ (collector'.dated > 0 => r.observed < collector'.dated)
  <2>1. CASE r = new
    BY <1>1, <1>2, <1>4, <1>6, <1>8, <1>11, <2>1
  <2>2. CASE r \in Recorded
    BY <1>1, <1>6, <1>7, <1>11, <2>2 DEF Versions
  <2> QED BY <1>6, <2>1, <2>2
<1>13. ASSUME NEW r \in Recorded', NEW q \in Recorded', r.source = q.source
       PROVE  /\ r.observed < q.observed => w[r] <= w[q]
              /\ w[r] = w[q] => r.terms = q.terms
              /\ r.observed = q.observed => r = q
  <2>1. CASE r \in Recorded /\ q \in Recorded
    BY <1>7, <1>11, <1>13, <2>1 DEF Versions
  <2>2. CASE r = new /\ q = new
    BY <1>4, <1>8, <2>2
  <2>3. CASE r \in Recorded /\ q = new
    <3>1. r.source = s /\ w[q] = termChanges[s] /\ w[r] = v[r]
      BY <1>4, <1>11, <1>13, <2>3
    <3>2. v[r] \in 0 .. termChanges[s] /\ (v[r] = termChanges[s] => r.terms = provider[s])
      BY <1>7, <2>3, <3>1 DEF Versions
    <3>3. termChanges[s] \in Nat
      BY <1>2, <1>8
    <3> QED BY <1>4, <1>8, <1>9, <2>3, <3>1, <3>2, <3>3
  <2>4. CASE r = new /\ q \in Recorded
    <3>1. q.source = s /\ w[r] = termChanges[s] /\ w[q] = v[q]
      BY <1>4, <1>11, <1>13, <2>4
    <3>2. v[q] = termChanges[s] => q.terms = provider[s]
      BY <1>7, <2>4, <3>1 DEF Versions
    <3> QED BY <1>4, <1>8, <1>9, <2>4, <3>1, <3>2
  <2> QED BY <1>6, <2>1, <2>2, <2>3, <2>4
<1>14. PICK u : u = w
  OBVIOUS
<1>15. Versions(u, Recorded)'
  BY <1>12, <1>13, <1>14 DEF Versions
<1>16. Recorded' \subseteq Records
  BY <1>3, <1>6, <1>8
<1> QED BY <1>1, <1>8, <1>15, <1>16 DEF DriftInv

\* What ends a request without a record.
LEMMA FewerRecords ==
  ASSUME DriftInv, PipelineInv, ProviderFails \/ CollectionDies PROVE DriftInv'
<1>1. Range(<< >>) = {}
  BY DEF Range
<1>2. UNCHANGED <<provider, termChanges, tick, eledger>> /\ tick \in Nat
  BY DEF ProviderFails, CollectionDies, worldOfProviders, PipelineInv, WorldInv
<1>3. Recorded' \subseteq Recorded /\ collector'.dated = 0
  <2>1. CASE collector' = NoCollection /\ (records' = collector.got \/ UNCHANGED records)
    <3>1. collector'.got = << >> /\ collector'.dated = 0
      BY <2>1 DEF NoCollection
    <3> QED BY <1>1, <1>2, <2>1, <3>1 DEF Recorded
  <2>2. CASE /\ collector' = [next |-> collector.next + 1, dated |-> 0,
                              got |-> collector.got]
             /\ UNCHANGED records
    <3>1. collector'.got = collector.got /\ collector'.dated = 0
      BY <2>2
    <3> QED BY <1>2, <2>2, <3>1 DEF Recorded
  <2> QED BY <2>1, <2>2 DEF ProviderFails, CollectionDies, CollectedSoFar
<1> QED BY <1>2, <1>3, NoNewRecord

LEMMA DriftInvInit == PipelineInit => DriftInv /\ DriftPrinted
<1> SUFFICES ASSUME PipelineInit PROVE DriftInv /\ DriftPrinted
  OBVIOUS
<1>1. collector.got = << >> /\ eledger = {} /\ records = NotStated
      /\ termChanges = [s \in ConfigSources |-> 0] /\ printed = NothingPrinted
  BY DEF PipelineInit, NoCollection
<1>2. Range(<< >>) = {}
  BY DEF Range
<1>3. Recorded = {}
  BY <1>1, <1>2 DEF Recorded
<1>4. \E v : Versions(v, {})
  BY DEF Versions
<1> QED BY <1>1, <1>3, <1>4 DEF DriftInv, DriftPrinted

LEMMA DriftInvStep ==
  PipelineInv /\ DriftInv /\ DriftPrinted /\ [PipelineNext]_pipelineVars
    => DriftInv' /\ DriftPrinted'
<1> SUFFICES ASSUME PipelineInv, DriftInv, DriftPrinted, [PipelineNext]_pipelineVars
             PROVE  DriftInv' /\ DriftPrinted'
  OBVIOUS
<1>0. tick \in Nat
  BY DEF PipelineInv, WorldInv
<1>1. CASE \E s \in ConfigSources : ProviderChanges(s)
  BY <1>1, ProviderChangesKeepsDrift DEF ProviderChanges, DriftPrinted
<1>2. CASE TimePasses
  <2>1. UNCHANGED <<provider, termChanges, collector>> /\ Recorded' = Recorded
        /\ tick' = tick + 1 /\ printed' = NothingPrinted
    BY <1>2 DEF TimePasses, NextTick, Recorded
  <2> QED BY <1>0, <2>1, NoNewRecord DEF DriftPrinted
<1>3. CASE AskProvider
  <2>1. /\ UNCHANGED <<provider, termChanges, records, eledger>>
        /\ collector' = [next |-> IF collector.next = 0 THEN 1 ELSE collector.next,
                         dated |-> tick + 1, got |-> collector.got]
        /\ tick' = tick + 1 /\ printed' = NothingPrinted
    BY <1>3 DEF AskProvider, NextTick
  <2>2. collector'.dated = tick + 1 /\ collector'.got = collector.got
    BY <2>1
  <2>3. Recorded' = Recorded
    BY <2>1, <2>2 DEF Recorded
  <2> QED BY <1>0, <2>1, <2>2, <2>3, NoNewRecord DEF DriftPrinted
<1>4. CASE ProviderAnswers
  BY <1>4, ProviderAnswersKeepsDrift DEF ProviderAnswers, DriftPrinted
<1>5. CASE ProviderFails \/ CollectionDies
  BY <1>5, FewerRecords DEF ProviderFails, CollectionDies, DriftPrinted
<1>6. CASE AppendLedger
  <2>1. /\ UNCHANGED <<provider, termChanges, tick, collector, records>>
        /\ eledger' = eledger \cup NewEntries /\ records # NotStated
        /\ printed' = NothingPrinted
    BY <1>6 DEF AppendLedger, worldOfProviders
  <2>2. Recorded' \subseteq Recorded
    BY <2>1 DEF Recorded, NewEntries
  <2> QED BY <1>0, <2>1, <2>2, NoNewRecord DEF DriftPrinted
<1>7. CASE Materialize \/ WriteCatalogByHand \/ PlanAcquisition
  <2>1. UNCHANGED <<provider, termChanges, tick, collector, records, eledger>>
    BY <1>7 DEF Materialize, WriteCatalogByHand, PlanAcquisition, worldOfProviders
  <2>2. Recorded' = Recorded
    BY <2>1 DEF Recorded
  <2>3. DriftPrinted'
    BY <1>7 DEF Materialize, WriteCatalogByHand, PlanAcquisition, PlanFor, DriftPrinted
  <2> QED BY <1>0, <2>1, <2>2, <2>3, NoNewRecord
<1>8. CASE AnalyzeLedger
  <2>1. UNCHANGED <<provider, termChanges, tick, collector, records, eledger>>
        /\ printed' = [kind |-> "drift", summaries |-> Summaries]
    BY <1>8 DEF AnalyzeLedger, worldOfProviders
  <2>2. Recorded' = Recorded
    BY <2>1 DEF Recorded
  <2>3. DriftInv'
    BY <1>0, <2>1, <2>2, NoNewRecord
  <2>4. ASSUME NEW s \in DOMAIN Summaries
        PROVE  /\ Summaries[s].changes + Summaries[s].contentOnly <= termChanges[s]
               /\ Summaries[s].changes = 0 => Cardinality(Summaries[s].prices) <= 1
    <3>1. s \in ConfigSources
      BY <2>4 DEF Summaries, DriftInv, Recorded, Records
    <3>2. Summaries[s] = SummaryOf(s)
      BY <2>4 DEF Summaries
    <3> QED BY <3>1, <3>2, SummaryIsHistory
  <2>5. DriftIsHistory'
    <3> HIDE DEF Summaries
    <3>1. printed'.summaries = Summaries
      BY <2>1
    <3> QED BY <2>1, <2>4, <3>1 DEF DriftIsHistory
  <2> QED BY <2>3, <2>5 DEF DriftPrinted
<1>9. CASE UNCHANGED pipelineVars
  BY <1>9 DEF pipelineVars, DriftInv, Recorded, Versions, DriftPrinted, DriftIsHistory
<1> QED BY <1>1, <1>2, <1>3, <1>4, <1>5, <1>6, <1>7, <1>8, <1>9 DEF PipelineNext

\* The analysis of the evidence ledger reports no more changes than the
\* provider made, and none only if the price never moved (ledger.py:349).
THEOREM DriftIsReal == PipelineSpec => []DriftIsHistory
<1>1. DriftPrinted => DriftIsHistory
  BY DEF DriftPrinted, DriftIsHistory, NothingPrinted
<1> QED BY <1>1, PipelineInvInit, PipelineInvStep, DriftInvInit, DriftInvStep, PTL
        DEF PipelineSpec
==============================================================================
