--------------------------- MODULE EvidencePipeline --------------------------
(* cog evidence-collect, evidence-ledger-append, evidence-ledger-analyze,     *)
(* evidence-materialize and acquisition-plan: separate commands that hand     *)
(* files to each other (records, ledger, catalog) while the providers change  *)
(* their terms and time passes.                                               *)
(*                                                                            *)
(* The terms a provider publishes: capabilities, price, available, claims,    *)
(* auth, maxAge (counted in ticks here), lifetime (ticks to expires_at) and   *)
(* wellFormed, which the parser of the descriptor demands.                    *)
EXTENDS Acquisition

CONSTANTS
  Config,          \* the enabled sources, in the order of the configuration
  Terms,           \* what a provider may publish
  Rules,           \* the materialization policy: one rule per source
  HandCatalogs,    \* v1 catalogs written by hand
  PlanInputs,      \* task, inventory, and whether the ledger is given (history)
  HistoryPolicy,   \* the historical confidence policy
  NoNumber,        \* a price such as "NaN": a Decimal that cannot be compared
  MaxTicks, MaxTermChanges    \* bounds

\* The text of a task matches known rules; every worker comes from an adapter,
\* and names are numbered in their order.
ASSUME PlanInputsAssumption ==
  \A input \in PlanInputs :
    /\ input.task.words \subseteq DOMAIN RuleBook
    /\ input.inventory \in Seq(Range(input.inventory))
    /\ \A w \in DOMAIN input.inventory :
         input.inventory[w].configured = TRUE /\ input.inventory[w].name \in Nat

\* There are sources to collect from, and the times they state are numbers.
ASSUME SourcesAssumption ==
  /\ Config \in Seq(Range(Config)) /\ Config # << >>
  /\ Rules \in Seq(Range(Rules))
  /\ \A t \in Terms : t.maxAge \in Int

\* A v1 catalog has no evidence.
ASSUME HandCatalogsAssumption ==
  \A c \in HandCatalogs :
    c \in Seq(Range(c)) /\ \A k \in DOMAIN c : c[k].evidence = NotStated

VARIABLES
  provider,     \* what each provider publishes now
  past,         \* ghost: what was published: at, source, terms
  termChanges,  \* ghost: how often the terms of a source changed
  tick,
  collector,    \* the running collection: next source, date, records so far
  records,      \* the records file, or NotStated
  eledger,      \* the entries of the evidence ledger; nobody goes by their lines
  catalog,      \* the catalog file, options by position, or NotStated
  printed       \* what the last command printed, a drift report or a plan

pipelineVars == <<provider, past, termChanges, tick, collector, records, eledger,
                  catalog, printed>>
worldOfProviders == <<provider, past, termChanges>>

ConfigSources == Range(Config)
NoCollection == [next |-> 0, dated |-> 0, got |-> << >>]
NothingPrinted == [kind |-> "nothing"]
Publication(at, s, t) == [at |-> at, source |-> s, terms |-> t]

PipelineInit ==
  /\ provider \in [ConfigSources -> {t \in Terms : t.wellFormed}]
  /\ past = {Publication(0, s, provider[s]) : s \in ConfigSources}
  /\ termChanges = [s \in ConfigSources |-> 0]
  /\ tick = 0 /\ collector = NoCollection
  /\ records = NotStated /\ eledger = {} /\ catalog = NotStated
  /\ printed = NothingPrinted

(* ------------------------------- the world ------------------------------- *)

ProviderChanges(s) ==
  /\ MapThenSumSet(LAMBDA q : termChanges[q], ConfigSources) < MaxTermChanges
  /\ \E t \in Terms \ {provider[s]} :
       /\ provider' = [provider EXCEPT ![s] = t]
       /\ past' = past \cup {Publication(tick, s, t)}
  /\ termChanges' = [termChanges EXCEPT ![s] = @ + 1]
  /\ printed' = NothingPrinted
  /\ UNCHANGED <<tick, collector, records, eledger, catalog>>

NextTick ==
  /\ tick' = tick + 1
  /\ past' = past \cup {Publication(tick + 1, s, provider[s]) : s \in ConfigSources}

TimePasses ==
  /\ tick < MaxTicks
  /\ NextTick
  /\ printed' = NothingPrinted
  /\ UNCHANGED <<provider, termChanges, collector, records, eledger, catalog>>

(* ------------------------------ collection ------------------------------- *)

\* A request is dated when it starts; its answer may be of later terms.
AskProvider ==
  /\ tick < MaxTicks
  /\ collector.dated = 0
  /\ NextTick
  /\ collector' = [next |-> IF collector.next = 0 THEN 1 ELSE collector.next,
                   dated |-> tick + 1, got |-> collector.got]
  /\ printed' = NothingPrinted
  /\ UNCHANGED <<provider, termChanges, records, eledger, catalog>>

\* After the last source the records file is written anew.
CollectedSoFar(got) ==
  IF collector.next = Len(Config)
  THEN collector' = NoCollection /\ records' = got
  ELSE /\ collector' = [next |-> collector.next + 1, dated |-> 0, got |-> got]
       /\ UNCHANGED records

Parses(t) ==
  /\ t.wellFormed /\ t.capabilities # {} /\ t.claims # {}
  /\ t.price # NoNumber

RecordOf(s, at, t) == [source |-> s, observed |-> at, terms |-> t]

ProviderAnswers ==
  /\ collector.dated > 0
  /\ LET s == Config[collector.next]
     IN /\ Parses(provider[s])
        /\ CollectedSoFar(Append(collector.got,
                                 RecordOf(s, collector.dated, provider[s])))
  /\ printed' = NothingPrinted
  /\ UNCHANGED <<worldOfProviders, tick, eledger, catalog>>

\* A transport error, or an answer that is refused, leaves the source out.
ProviderFails ==
  /\ collector.dated > 0
  /\ CollectedSoFar(collector.got)
  /\ printed' = NothingPrinted
  /\ UNCHANGED <<worldOfProviders, tick, eledger, catalog>>

\* Comparing such a price raises what no handler on the way catches: the whole
\* collection ends and writes nothing.
CollectionDies ==
  /\ collector.dated > 0
  /\ provider[Config[collector.next]].price = NoNumber
  /\ collector' = NoCollection
  /\ printed' = NothingPrinted
  /\ UNCHANGED <<worldOfProviders, tick, records, eledger, catalog>>

(* ------------------------------- the ledger ------------------------------ *)

\* An entry's identity is its source, date and payload: what is known already
\* is a duplicate.
NewEntries == Range(records) \ eledger
AppendLedger ==
  /\ records # NotStated
  /\ eledger' = eledger \cup NewEntries
  /\ printed' = NothingPrinted
  /\ UNCHANGED <<worldOfProviders, tick, collector, records, catalog>>

\* One source's entries, and those next to each other by date, the earlier one
\* first; every request has a date of its own.
HistoryOf(s) == {r \in eledger : r.source = s}

DatedPairs(s) ==
  {p \in HistoryOf(s) \X HistoryOf(s) : p[1].observed < p[2].observed}
PairsWithFirst(s) ==
  {p \in DatedPairs(s) : \A r \in HistoryOf(s) : p[1].observed <= r.observed}
Adjacent(s) ==
  {p \in DatedPairs(s) : \A r \in HistoryOf(s) :
     r.observed <= p[1].observed \/ p[2].observed <= r.observed}

\* _pair_drift: the fields in which two adjacent entries differ, the three
\* prices among them; a change of the rest of the payload alone (here of
\* maxAge, lifetime or confidence) is CONTENT.
SemanticDrift(a, b) ==
  {k \in {"setup", "price", "hourly", "capabilities", "available", "claims", "auth"} :
     a.terms[k] # b.terms[k]}
PairDrift(a, b) ==
  IF SemanticDrift(a, b) = {} /\ a.terms # b.terms THEN {"content"}
  ELSE SemanticDrift(a, b)

SummaryOf(s) ==
  LET h == HistoryOf(s)
      last == (CHOOSE r \in h : \A q \in h : q.observed <= r.observed).terms
  IN [observations |-> Cardinality(h), transitions |-> Cardinality(h) - 1,
      changes |-> Cardinality({p \in Adjacent(s) : SemanticDrift(p[1], p[2]) # {}}),
      contentOnly |-> Cardinality({p \in Adjacent(s) :
                                     PairDrift(p[1], p[2]) = {"content"}}),
      prices |-> {r.terms.price : r \in h} \ {NotStated},
      latestPrice |-> last.price, available |-> last.available]

Summaries == [s \in {r.source : r \in eledger} |-> SummaryOf(s)]

AnalyzeLedger ==
  /\ printed' = [kind |-> "drift", summaries |-> Summaries]
  /\ UNCHANGED <<worldOfProviders, tick, collector, records, eledger, catalog>>

(* ------------------------------ the catalog ------------------------------ *)

EvidenceOf(r) ==
  [observed |-> r.observed, maxAge |-> r.terms.maxAge, claims |-> r.terms.claims,
   expires |-> IF r.terms.lifetime = NotStated THEN NotStated
               ELSE r.observed + r.terms.lifetime,
   confidence |-> r.terms.confidence, source |-> r.source]

OptionFrom(r, rule) ==
  [provides |-> r.terms.capabilities, target |-> rule.target, adds |-> rule.adds,
   setup |-> r.terms.setup, perTask |-> r.terms.price, hourly |-> r.terms.hourly,
   confidence |-> r.terms.confidence, reusable |-> rule.reusable,
   enabled |-> r.terms.available # "no", evidence |-> EvidenceOf(r)]

\* The latest record of each source that has a rule, at the position of the
\* rule: only the order of the options matters.
LatestRecord(s) ==
  CHOOSE r \in Range(records) : r.source = s /\
    \A q \in Range(records) : q.source = s => q.observed <= r.observed
HasRecord(rule) == \E r \in Range(records) : r.source = rule.source

Materialize ==
  /\ records # NotStated
  /\ catalog' = [k \in {j \in DOMAIN Rules : HasRecord(Rules[j])} |->
                   OptionFrom(LatestRecord(Rules[k].source), Rules[k])]
  /\ printed' = NothingPrinted
  /\ UNCHANGED <<worldOfProviders, tick, collector, records, eledger>>

WriteCatalogByHand ==
  /\ catalog' \in HandCatalogs
  /\ printed' = NothingPrinted
  /\ UNCHANGED <<worldOfProviders, tick, collector, records, eledger>>

(* --------------------------------- the plan ------------------------------ *)

HistoricalVerdicts ==
  LET summaries == Summaries
  IN [s \in DOMAIN summaries |-> HistoricalStatus(summaries[s], HistoryPolicy)]

PlanFor(input, gap, verdicts, best) ==
  [kind |-> "plan", status |-> PlanStatus(gap, best), at |-> tick,
   task |-> input.task, inventory |-> input.inventory,
   option |-> IF best = 0 THEN NotStated ELSE catalog[best],
   verdicts |-> verdicts]

\* Options are ranked only to close a gap.
ChosenOption(input, gap, verdicts) ==
  IF gap \in {"NONE", "UNKNOWN_REQUIREMENTS"} THEN 0
  ELSE BestOption(input.task, catalog, input.inventory, tick, 2, verdicts)

PlanAcquisition ==
  /\ catalog # NotStated /\ CatalogParses(catalog)
  /\ \E input \in PlanInputs :
       LET gap == Gap(input.task, input.inventory)
           verdicts == IF input.history THEN HistoricalVerdicts ELSE NotStated
       IN printed' = PlanFor(input, gap, verdicts,
                             ChosenOption(input, gap, verdicts))
  /\ UNCHANGED <<worldOfProviders, tick, collector, records, eledger, catalog>>

PipelineNext ==
  \/ \E s \in ConfigSources : ProviderChanges(s)
  \/ TimePasses \/ AskProvider \/ ProviderAnswers \/ ProviderFails \/ CollectionDies
  \/ AppendLedger \/ AnalyzeLedger \/ Materialize \/ WriteCatalogByHand
  \/ PlanAcquisition

PipelineSpec == PipelineInit /\ [][PipelineNext]_pipelineVars

------------------------------------------------------------------------------
\* However old the catalog and whatever the provider did since: an option that
\* a plan recommends on evidence was really published, with these capabilities
\* and this price and not as unavailable, within the age the evidence allows;
\* and with a history at hand its source was not last seen unavailable.
RecommendedWasPublished ==
  printed.kind = "plan" =>
    LET x == printed.option
    IN x # NotStated /\ x.evidence # NotStated =>
         /\ \E p \in past :
              /\ p.source = x.evidence.source
              /\ p.at \in (printed.at - x.evidence.maxAge) .. printed.at
              /\ p.terms.capabilities = x.provides /\ p.terms.price = x.perTask
              /\ p.terms.available # "no"
         /\ printed.verdicts # NotStated
              /\ x.evidence.source \in DOMAIN printed.verdicts
              => printed.verdicts[x.evidence.source] # "FAIL"

\* Profiles are never united (adapters/inventory.py:32): READY means that one
\* declared worker does the whole task, and an option is recommended only when
\* no worker does and it completes one, or does the task by itself.
PlansRestOnOneWorker ==
  printed.kind = "plan" =>
    LET needs == Required(printed.task)
        workers == Range(printed.inventory)
        option == printed.option
    IN /\ printed.status = "READY" => \E w \in workers : needs \subseteq w.capabilities
       /\ option # NotStated =>
            /\ \A w \in workers : ~(needs \subseteq w.capabilities)
            /\ \/ needs \subseteq option.provides
               \/ \E w \in workers : needs \subseteq w.capabilities \cup option.provides

\* What the analysis of the ledger calls a change of the terms is one: it
\* counts no more changes than the provider made, and none only if every
\* entry shows the same price.
DriftIsHistory ==
  printed.kind = "drift" =>
    \A s \in DOMAIN printed.summaries :
      LET d == printed.summaries[s]
      IN /\ d.changes + d.contentOnly <= termChanges[s]
         /\ d.changes = 0 => Cardinality(d.prices) <= 1
==============================================================================
