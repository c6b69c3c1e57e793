# BULWARK-Agents: formal models

TLA+ models of BULWARK's core, a fleet of LLM agents that assesses third-party
vendors: what the Python code around the models guarantees whatever the language
models decide. The source is `src/` (paths below are relative to
`src/src/bulwark/`). `PROJECT.json` lists components, runs, mutants, the map from
definitions to source lines, hazards, findings and theorems.

## 1. The system

One FastAPI process serves the REST API and runs the agents. Everything is a
coroutine on one event loop, and nearly all code between two `await`s is plain
synchronous Python that calls a document store. On Cloud Run up to three instances
(`deploy/deploy_cloud_run.sh:56-58`) share one Firestore database; each has its own
event loop. The event bus is in process: a publisher awaits every handler, so a chain
of events is a chain of nested calls, and a crash ends all of it.

| Component | State | Operations | What is hard | What makes it correct |
|---|---|---|---|---|
| Event bus `platform/event_bus.py` | `event_dedup`, `event_dlq` | `publish`, `list_dlq` | duplicates that race, failing handlers, a crash after the key is marked | a key's handlers run once; none is skipped; failures are visible |
| Document store `platform/store.py` | collections | get, set, update, list, delete, append to a list | an append is several requests to Firestore | every other operation is atomic; an append loses nothing |
| Vendor lifecycle `agents/offboarding.py`, `platform/rollback.py`, `agents/drift_sentinel.py`, `agents/orchestrator.py` | vendor status, offboarding records, compensating actions, tickets | initiate, confirm, reopen, assess, ticket, roll back | an assessment that ends after the vendor left, rollbacks that overtake later writes, crashes between two writes | actions describe the change they compensate; one confirmation for each offboarding; rollback once and whole |
| Kill switch and breaker `platform/policy.py`, `platform/spend.py` | `fleet_config`, `spend_ledger` | POST `/fleet-config`, `enforce_autonomy`, `record`, `check_circuit_breaker` | read-modify-write of whole documents, midnight, the exact cap | commands act atomically; a kill holds at every write; a breach drops the fleet |
| Findings `agents/risk_assessor.py`, `agents/remediation_router.py`, `api/routes.py` | findings, snapshots, reasoning records, drafts | `create_finding`, decisions, `draft_vendor_email`, stamping | evidence that ages or changes meanwhile, reassessment after a decision, crashes between three writes | gates fail closed; trend and explanation match the finding; emails rest on current decisions |
| Evidence Collector `agents/evidence_collector.py` | evidence | `collect_evidence`, its tick | ids repeat, so a sweep replaces the last one's documents; a source may hand out an old reading | an assessment and a drift sweep judge the evidence as it is |
| Drift sweep, run ledger `agents/drift_sentinel.py`, `platform/models.py`, `agents/offboarding.py` | runs, evidence, exceptions, snapshots | the ticks, `run_drift_sweep`, checkpoints, `check_offboarding_overdue` | evidence ages and exceptions lapse meanwhile, crashes in a sweep, runs that raise before the overdue check, records replaced meanwhile | a sweep finds what stands and no more; the ledger tells how far it came; an answer names what is overdue |
| Onboarding `agents/orchestrator.py`, `agents/intake.py`, `agents/contract_intelligence.py` | vendors, artifacts, assertions, terms, subprocessors | `process_vendor_artifact` and the topics it starts | keys that coincide, vendors created twice | an artifact leads to one assessment |
| Questionnaires `agents/questionnaire_responder.py`, `api/routes.py` | questionnaires, answers | submit, `draft_answer`, PATCH, export | edits and exports while answers are drafted, three writers of the counters, ids that count | only answers that passed both gates are exported; edits keep what they should; the counters are what their last writer makes of the answers |
| Concentration `agents/concentration_analyzer.py` | concentration risks | clear and recreate | a crash between | the clusters are those of the graph |
| Rate limiter `platform/auth.py` | buckets | `check`, from every route and from login | the boundary of the fixed window | at most twice the limit in any window; nobody within the rate is refused |
| Audit log `platform/observability.py`, memory bank `platform/memory_bank.py` | a list per trace, lists per vendor | `record`, `list_traces`; `add_*`, `has_active_exception` | two tasks append to a new list | nothing entered is lost; a completed trace stays completed |
| Digest, crosswalk, identity, registry, guardrails | reports, tables | reads, appends | little | - |

Interactions: a request or an event starts an agent run (`orchestrator._run`); the
run calls tools, which ask `policy.enforce_autonomy` and then write the store; when
it ends, `_run` records what it cost, checks the breaker and stamps telemetry; then
the handler publishes the next event. Artifact → assertion.extracted →
assessment.requested → finding.created → ticket; evidence.collected → drift sweep →
drift.detected → assessment.requested; a decision → human.decision → email draft.

## 2. Modules

| Module | What it is |
|---|---|
| `Delivery` | Abstract: a key is claimed by one event, each handler runs once for it. |
| `EventBus` | `publish` with dedup, dispatch and dead-letter queue, on any number of instances; defines the refinement to `Delivery`. |
| `EventBusSingle` | The same with the assumption of one instance. |
| `VendorLifecycle`, `LifecycleSingle` | Vendor status, deletion record, tickets, compensating actions, rollback. |
| `FleetSwitch` | Abstract: a dial and a set of paused agents that atomic commands change. |
| `FleetControl`, `FleetSingle` | `/fleet-config`, gates, spend ledger, breaker; refinement to `FleetSwitch`. |
| `FindingReview`, `ReviewSingle` | Evidence, findings, snapshots, reasoning records, decisions, email drafts. |
| `Onboarding`, `OnboardingSingle` | Both artifact routes, vendors, prescan, extraction, contract review, subprocessors, concentration analysis. |
| `Questionnaire`, `QuestionnaireSingle` | The answers of one questionnaire: drafts, edits, exports and the counters. |
| `Watch`, `WatchSingle` | The ticks, evidence, drift sweep, run ledger, exceptions and overdue deletions. |
| `RateLimiter` | The fixed window. |
| `DocumentStore` | The append to a list, as the audit log and the memory bank use it, and what it loses. |
| `EventBus_proofs`, `VendorLifecycle_proofs`, `FleetControl_proofs`, `FindingReview_proofs`, `Onboarding_proofs`, `Questionnaire_proofs`, `Watch_proofs` | Theorems about `*Single`, one process. |
| `Platform_proofs` | Theorems about `DocumentStore` and `RateLimiter`. |
| `MC*` | Instances for TLC. |

How the code becomes actions, in every module:

* A *task* (in `EventBus`, a *call*) is a request, an event's handler or an agent run.
  Its local variables and its place in the code are one record.
* A step is one store operation or one resumption of a coroutine. While a task is at
  a control point of `Busy` (between two operations with no `await`), no other task
  of the same instance moves (`LoopFree`); a task of another instance may. That is
  exactly what an event loop gives and all that the shared store gives.
* An agent run is one long await in which the language model calls the tools of its
  agent with any arguments: vendor, reason, trace, citations and status are chosen
  freely, since the code does not check them. A tool that refuses changes nothing and
  is not a step, except where the refusal ends the run (`ToolBlocked`).
* `Crash` kills an instance at any point: its tasks are gone, the store stays.
* Left out: the audit log (but for `DocumentStore`), wording, the time stamps that
  nothing modelled reads, identity grants (a fixed table). The gates of
  `enforce_autonomy` are open in the other modules, but for that of the overdue check in
  `Watch`; `FleetControl` has them.

Per module: in `EventBus`, `dedup` and `dlq` are the two collections, `env` the
envelopes, `pc`/`next` the coroutine in `publish`; `Accept` and `MarkProcessed` are the
`get` and the `set` of `_already_processed`. In `VendorLifecycle`, `status`, `record`,
`ticket`, `ledger` and `seen` are collections (`seen` the keys of drift.detected); the
`Initiate*`, `Confirm*`, `Reopen*`, `Ticket*` and rollback actions are the functions of
that name, one action per store operation. In `FleetControl`, `config` and `spend` are
documents; a request is the list of its commands, each of which reads
(`LookPause`/`LookResume`), reads again (`Load`) and writes (`Store`); a run goes through
`CallTool`/`ToolWrites` and ends with `RunEnds`, `SaveSpend`, `CheckConfig`, `Compare`. In
`FindingReview`, `CreateFinding` is `create_finding` up to its first write and
`WriteFinding`, `WriteSnapshot`, `WriteReasoning` are its three writes; the status it is given may
be any string, and evidence grows stale between awaits only (ages count whole days, a tool call
takes milliseconds); `RunEnds` to
`StampingEnds` the end of `_run`; `ListGaps` and `Announce` the loop over finding.created.
In `Onboarding`, `vendors[n]` counts the vendor documents of a name (`LookUp` and
`CreateVendor` are the two operations of `get_or_create`), `WriteArtifact` is the end of
the prescan and the branch after it, `ExtractionEnds` and `RequestAssessment` are the key
of assertion.extracted and its handler, and `ClearRisk`, `FindClusters`, `WriteRisk` the
loops of the analysis. The agent names vendors and artifacts on record, as its prompt
gives them. A subprocessor's id is its artifact and its place in the list.

In `Questionnaire`, `answers` is the collection of one questionnaire and `counts` its
document. `StartDraft` is `draft_answer` up to the answer's id, `CreateAnswer`, `ListAnswers`
and `UpdateCounts` the three store operations that follow; `StartPatch`, `DeleteAnswer`,
`AddQuestion` and then `ListAnswers`, `UpdateCounts` are PATCH, `StartExport` and
`StampAnswer` the export. What an answer says is reduced to what the two gates see
(`Quality`). In `Watch`, `runs` is the run ledger and a sweep goes `StartSweep`, `Inspect`
for each vendor and control, `Checkpoint` after each of the four checks (`at` is the check
it has come to), `SweepEnds`;
`RunReturns` includes `check_offboarding_overdue`, whose gate (`offboarding.py:153`) is open or
closed by choice, and which `RunRaises` skips; `reported` is the list in the answer. `Offboard`
has no guard: a second one replaces the record, an overdue one included. Two of the four
checks find nothing, because no code sets `valid_until` and the breach feed is empty.
Exceptions, snapshots, offboardings and confirmations, which have modules of their own or
no route, are one step here. In `DocumentStore`, `Look`, `CreateEmpty` and `Unite` are the three
requests of `append_to_list_field` to Firestore and `AppendLocked` the same in memory. In
`RateLimiter` a `check` is one step, `Tick` moves the clock.

History variables (`started`, `failed`, `count`, `reverts`, `recorded`, `version`, `maker`,
`read`, `requests`, `removed`, `tally`, `reported`, `before`, `overdue`, `appended`, `times`) record
what happened for the properties and are read by no guard, but for `version`, whose bound
MaxVersions limits the model.

## 3. Runs

| Run | Shows |
|---|---|
| `bus` | Three publishes over two topics, one of them with two handlers, with failures and a crash: at most once per key, no handler skipped, failures visible, `Delivery` implemented, and a caller that is told "duplicate" can rely on the other call unless an instance died. |
| `lifecycle` | Two tasks over one vendor, a ticket and two traces: the value recorded as "before" is the one replaced; reopening spares vendors that leave; one confirmation for each offboarding; an action is reverted once (once more for a crash); a rollback that begins completes. |
| `offboarded_terminal` (violation) | An assessment under way makes an offboarded vendor active. |
| `offboarding_reversible` (violation) | A rollback leaves the deletion record pending. |
| `fleet` | Two tasks, two agents, two days, a crash: the commands implement `FleetSwitch`; the kill switch holds at every tool's write and is lifted only by raising the dial; no spend is lost; a run that takes the day to its cap ends with the fleet at L0. |
| `fleet_two_instances` (violation) | A pause on another instance writes the level of before the kill. |
| `review` | Two tasks over one finding: the gates hold for the evidence as it is at the write, whatever the agent saw; trend and explanation match the finding; every draft rests on a decision about the finding as it stands. |
| `telemetry_replaced` (violation) | The remediation's telemetry replaces the assessment's. |
| `onboarding` | Two tasks hand in three documents of two vendors, by either route: a name has one vendor, no poisoned document reaches a model (nor under the id of a clean one), an artifact is assessed at most once and only a crash forgets it, and each analysis ends with the clusters of the portfolio at that moment, whatever earlier ones or a crash left. |
| `upload_unassessed` (violation) | The second vendor whose evidence is uploaded is never assessed. |
| `attest` | Two requests draft, edit and export the answers of one questionnaire: only confident, cited and clean answers leave; an export brings back nothing that was edited away; an edit leaves exactly the questions of its payload and the answers of those that stay; a draft replaces no answer unless an edit has deleted one; between requests, after edits and exports in any order, the counters are exactly what the writer that counted last makes of the answers: a draft counts blocked answers as abstained, an edit does not, and what an export approves stays among the auto ones (section 5: they need not agree with the statuses on record). |
| `watch` | Ticks, evidence, exceptions, snapshots and offboardings of two vendors meet a drift sweep while days pass and an instance dies: a sweep hands over every drift that stood when it began and none that does not stand at its end; its ledger says how far it came; the answer to a tick, when there is one, names every deletion that was overdue when it began and is on record still, and none that is not overdue. That there is an answer is not claimed: a run may raise and the gate may be closed. |

Bounds. Two tasks are enough for every race of the code, which are all between a
reader-writer and one other writer; a third call in `bus` comes after two that raced.
One vendor, one ticket, one finding: operations touch one subject each, and subjects
meet only through traces, of which there are two. `MaxActions = 3` lets a rollback
have two actions of one trace and be overtaken by another trace's. `MaxSpend`, `Cap` and `Costs`
reach the cap exactly, in one run and in two, and trip the breaker twice. `MaxVersions =
2` is a finding and its reassessment. One crash: a second only repeats it. `review` is
checked up to exchanging the two tasks and the two traces, which nothing tells apart;
it has no liveness property. `onboarding` has
a clean and a poisoned document of one vendor and a contract of another, which meet in
the id "uploaded"; a tool call lists one subprocessor of two, so a cluster takes two
calls, and a third call can take one apart; tasks and subprocessors are exchangeable.
`attest` has two tasks, two questions, two drafts, two answers added by hand and two exports:
enough for an edit that takes away an answer, adds a question, is drafted over and exported,
and for an export after each; tasks and questions are exchangeable. `watch` has two
vendors and one control (two pairs to inspect), two days with `FreshDays = 0`, so that a
reading grows stale, an exception lapses and a deadline passes overnight, and a
history of two rising risks that one snapshot continues; one sweep, exception, snapshot
and crash each and two offboardings, of two vendors or one after the other of the same vendor, so
that an overdue record is replaced; any of them at any point of the others. With one sweep a second
run of Drift Sentinel calls no tool, which the model always may choose.

Every property has a mutant, a plausible bug in one definition (named "Mutant" in the
modules, next to the definition it replaces) under which TLC finds it violated.

Deadlock is checked everywhere but in `bus`, where all calls end.

Fairness. Only for what an event loop does by itself: a coroutine that has begun
continues (`WF` of `Advance` / `Continue` of each task). In `EventBus` and
`VendorLifecycle` that includes that agent runs return or raise, since they are awaited
with nothing else to wait for; in `FleetControl` runs need not end. No request has to
come and no crash has to happen. `Watch`, `FindingReview`, `Onboarding` and `Questionnaire`
state safety only. `Watch` in particular does not assume that Drift Sentinel's runs return: the
code does nothing to make them, and what follows one that raises is up to the next tick.

## 4. Proofs

`EventBus_proofs` proves for one instance and every number of calls, topics, keys,
handlers and crashes, from `BusAssumption` and `OneInstance`:

* `BusTypeCorrect`, `BusAtMostOnce`, `BusNoHandlerSkipped`, `BusFailuresVisible`: the
  invariants of the run `bus`;
* `BusKeepsPromise`: the bus implements `Delivery`, by a step-by-step mapping
  (`MarkProcessed` is `Claim`, `StartHandler` is `Run`, all else stutters).

None of these is inductive. `BusInv` is their strengthening, itself checked with TLC:
`OneBusy` (at most one call is between the test and the write of event_dedup: this is
where the event loop matters, and where two instances fail), `Owns` (a call that is
marking finds its key still free; whoever dispatches owns its key, so two calls of one key
cannot both start handlers), `Progress` (the handlers started are those up to `next`,
once each) and `Recorded` (a failed handler is noted before the bus moves on). One
lemma per conjunct shows that every step keeps it.

The modules of the agents are proved about in the same way, each for one process
(`OneInstance`) and every value of its constants: any number of tasks, vendors, findings,
documents, days, crashes. Every invariant and action property that the passing runs check
is a theorem; liveness is not (below). None of the invariants is inductive, and all
strengthenings have the same first two conjuncts:

* `OneBusy`: at most one task is between two awaits. This is the event loop. Each step
  lemma uses it through `Alone`: whoever moves is the only one at a control point of
  `Busy`.
* `Steady`: at each control point, what a task knows of its own locals, and at those of
  `Busy`, and no others, that what it has read and is going to rely on is what the store
  holds: across an await that fails. So there is nothing to show for the other tasks
  (`OthersWait`, `OneMoves`), and a step has to keep `Steady` of its own task only.

What each adds, and why:

| Module, invariant | `Steady` and the other conjuncts | Theorems |
|---|---|---|
| `FleetControl_proofs`, `FleetInv` | The config read by a command is the one on record, the list it made for its agent is that config's with the agent in or out (`Listed`), the spend read is the day's; a tool that was allowed still is. `NoLostSpend` needs the read to be current, `PermittedAtWrite` that no command comes between. | `FleetPermittedAtWrite`, `FleetNoLostSpend`, `FleetKillSticks`, `FleetBreachDrops`, and `FleetActsAsSwitch`: the store of a command is that command of `FleetSwitch`, all else stutters |
| `FindingReview_proofs`, `ReviewInv` | The draft of a finding passes the gates when it is about to be written (`Gated`), and is the finding on record until its snapshot and record are written; `Decided`: a decision is about the version on record, so that a draft which rests on it cannot be about an earlier one. | `ReviewFailClosed`, `ReviewTrendMatches`, `ReviewExplained`, `ReviewDraftRests` |
| `VendorLifecycle_proofs`, `LifecycleInv` | The status read is the vendor's, the record about to be confirmed is pending, the actions about to be taken back are not marked; `Certified`: a pending record has an initiation that was not confirmed; `Charged`: an action neither marked nor about to be has been applied once for each crash at most. `Latest`, a `CHOOSE`, is shown to exist by well-foundedness. | `LifecycleBeforeCurrent`, `LifecycleReopenSpares`, `LifecycleOneConfirmation`, `LifecycleRevertedOnce` |
| `Questionnaire_proofs`, `QuestionnaireInv` | How far an edit has come, in terms of its payload and of what it found (`Edited`); `OnRecord`: answers on record passed the gates, and the ids that come next are free; `Counted`: the counters are exactly what the last writer's rule makes of the answers (`Agree`) whenever no task is between the two. | `QuestionnaireCountsHold`, `QuestionnaireOnlySoundLeaves`, `QuestionnaireExportOnlyStamps`, `QuestionnaireDraftsDistinct`, `QuestionnairePatchExact` |
| `Watch_proofs`, `WatchInv` | A sweep is at the check its ledger says, and a drift that stood at its start was found or lies ahead of it (`Ahead`). What stands is fixed by the store (`StandingShows`) and cannot change while a sweep is between two awaits (`StandingLasts`). What was overdue when a run began had its deadline before today, and days only pass. | `WatchLedgerTellsProgress`, `WatchSweepComplete`, `WatchSweepSound`, `WatchOverdueNamed` |
| `Onboarding_proofs`, `OnboardingInv` | A vendor about to be created has no document, an artifact about to be asked for has its key and no request, an agent holds a document that the prescan let through; a risk that is not left to be cleared is gone, and one that is not left to be written is the cluster found, which is the portfolio's. | `OnboardingOneVendor`, `OnboardingQuarantine`, `OnboardingOneAssessment`, `OnboardingAnalysisExact` |

Each also has its type correctness and the inductive invariant itself as theorems. The
assumptions are those of the modules (`FleetAssumption`, `ReviewAssumption`,
`LifecycleAssumption`, `QuestionnaireAssumption` with `NoDocument`, `WatchAssumption`,
`OnboardingAssumption`): types of the constants, the two kinds of subject differ where one
collection names both, and `None` is no value; TLC evaluates them in the runs. `OneInstance` is
not a formality: `fleet_two_instances` shows what fails without it.

`Platform_proofs` proves about `RateLimiter`, assuming only that the limit is at least 1 and the
window a natural number (`Positive`, a hypothesis of each theorem):

* `RateAtMostTwice`: any `2 * MaxRequests + 1` requests of a key that are let through span
  a whole window, so the boundary of a fixed window costs a factor of two and no more;
* `RateRefusedOnlyBeyond`: a key is refused only when `MaxRequests` of its requests were let
  through less than a window ago;
* `RateTypeCorrect`.

The strengthening `RateInv` says of each key that its times are in order (`Ordered`), that
the bucket counts the last of them and starts with the first it counts (`Counted`), and that
what lies `MaxRequests` before the bucket's first request is a window older than it
(`Apart`); the bound (`Twice`) follows for the request that is let through next. The limiter
is one instance's: three instances admit three times as much.

About `DocumentStore` it proves, for any number of documents, entries, tasks and crashes and
for both backends:

* `BankKeepsAll`: no entry of the memory bank is lost, on any number of instances, given
  that the two collections differ (`Separate`). `BankInv` adds `BanksReady`: `update` makes the
  vendor's document before the append looks for it, so nobody ever empties it;
* `LogKeepsAll` and `TraceStaysCompleted`: no audit entry is lost and a completed trace stays
  completed, in one process (`OneInstance`). `LogInv` adds that one call at most is between
  its look and its end (`OneBusy`), that what it found missing still is (`LookHolds`), and
  that a missing document has no entries.

These two modules have no run: both are small, and their parameters matter only as a whole.

Only model-checked is liveness: `DuplicateImpliesHandled`, `RollbackCompletes` and `BreachTrips`
rest on fairness, which is beyond the prover.

## 5. Findings

1. `offboarded`, documented as terminal, is left when an assessment ends
   (`orchestrator.py:216`), one that Drift Sentinel asks for included
   (`drift_sentinel.py:195-202`), or when a rollback restores a status (`rollback.py:88`).
2. Rolling back an offboarding, documented as fully reversible, leaves the deletion
   record pending (`rollback.py:88`).
3. Two instances can lose a kill of the fleet (`models.py:790`).
4. Telemetry of a reasoning record is replaced by later runs of the same trace
   (`models.py:449`).
5. Every uploaded file has the sha256 "uploaded"; after the first, no upload leads to an
   assessment (`routes.py:185`).

Noted while reading, without a run of its own:

* Two instances that publish one event both handle it: the key is tested and written in two
  operations (`event_bus.py:80-82`). This is why the theorems on the bus assume one.
* Two instances can lose the first audit entries of a trace: `append_to_list_field` sets
  the list to empty when it saw no document, whatever was appended since (`store.py:128-129`).
* After a PATCH has deleted an answer, an id that counts answers can be taken, and the next
  draft overwrites another question's answer (`questionnaire_responder.py:99`). `draft_answer`
  also takes a questionnaire id that does not exist and writes a partial document for it (`:112`).
* `docs/architecture.md:200-204` has the sweep call `check_offboarding_overdue` "deterministically
  on every tick" and its signals go "through the same LLM-judgment path" as the others. A run that
  raises skips it (`orchestrator.py:258-259`), a dial below 3 makes it raise (`offboarding.py:153`),
  and its signals are returned to the caller of the tick and shown to no model. A tick that
  evidence.collected causes drops even that answer (`orchestrator.py:290-298`).
* A second POST `/vendors/{id}/offboard` replaces the deletion record and its deadline, without a
  look at the old one (`offboarding.py:85-106`): a deletion that is overdue is then overdue no more,
  and if no tick came before, nobody has heard of it (`docs/USER_GUIDE.md:477-480` promises the
  signal at the next tick after the deadline). `Offboard` in `Watch` does the same.
* The three writers of a questionnaire's counters disagree: `draft_answer` counts blocked answers
  as abstained (`questionnaire_responder.py:111`), PATCH does not (`routes.py:495`), and export
  turns auto answers into approved ones without a recount (`routes.py:519-523`), so
  `auto_answered` and `abstained` depend on who wrote last; the metrics sum the former
  (`routes.py:715`), which `docs/USER_GUIDE.md:438-440` calls "computed live from whatever data
  currently exists". `CountsHold` states the three rules as they are.
* A sweep never resumes an earlier run, although its docstring says so
  (`drift_sentinel.py:53-54`); no agent's tool gives an exception to the memory bank, no code
  sets an artifact's `valid_until`, and the breach feed is empty.
* Evidence is described as an append-only write (`evidence_collector.py:33`); its ids repeat,
  so each sweep replaces the documents of the last.
* `docs/SETUP_GUIDE.md:187-189` sets `max_daily_token_spend` through POST `/fleet-config`, whose
  request has no such field (`api/schemas.py:40-43`).

## 6. Plan

Left to prove, in this order: the safety half of the liveness properties, that a step
towards each end is possible from wherever a task can be and that none undoes it;
which of the theorems need no `OneInstance` (`Quarantine` and `OnlySoundLeaves` are about one
task's own locals); that nothing but what the violation runs show lets a vendor leave
`offboarded`.

## 7. Not modelled, and why

What the language models write (any tool call with any argument is allowed instead);
pattern matching on text (guardrails, prescan, document extraction, DLP), of which the
modules take the outcome; the executive digest, a report that nothing else reads; the
callbacks that write the audit log, of which `DocumentStore` takes the write; fixed tables
(identity grants, registry, crosswalk) and the key and password lookups; the memory
bank's posture notes and assessment dates; contract terms and assertions, on which no
modelled step depends; the frontend, a client of the API; collisions of random ids.
