-------------------------------- MODULE Watch --------------------------------
(***************************************************************************)
(* Loop B up to its signals: Cloud Scheduler's ticks, the readings they    *)
(* collect, the sweep of Drift Sentinel with its run ledger and the        *)
(* exceptions of the memory bank, and the check for overdue data deletions *)
(* after it.  What a reopened assessment does is in VendorLifecycle.       *)
(*                                                                         *)
(* A task is one request.  An agent run is a long await in which the model *)
(* calls the tools of its agent with any arguments, or none of them.  A    *)
(* step is one store operation or one resumption of a coroutine, the reads *)
(* of one vendor and control being one step; while a task is at a control  *)
(* point of Busy, no other task of its instance moves.  Time passes at any *)
(* moment.  Two of the checks find nothing: no code sets the valid_until   *)
(* of an artifact, and the breach feed is empty.                           *)
(***************************************************************************)
EXTENDS Naturals, Sequences, FiniteSets, Functions

CONSTANTS
    Vendors, Controls,
    Risks,                    \* residual risks an assessment may give
    Histories,                \* residual risks that earlier assessments left behind
    FreshDays,                \* evidence_freshness_days
    Tasks, Instances, Home,   \* Home[p]: the instance that runs task p
    MaxDay,                   \* bound: days
    MaxSweeps,                \* bound: sweeps
    MaxSnapshots,             \* bound: snapshots appended
    MaxExceptions,            \* bound: exceptions negotiated
    MaxOffboardings,          \* bound: offboardings
    MaxCrashes,               \* bound: how often an instance is killed
    None                      \* no value

Days == 0 .. MaxDay

ASSUME WatchAssumption ==
    /\ Risks \subseteq Nat /\ Histories \subseteq Seq(Nat)
    /\ FreshDays \in Nat /\ MaxDay \in Nat
    /\ Home \in [Tasks -> Instances]
    /\ MaxSweeps \in Nat /\ MaxSnapshots \in Nat /\ MaxExceptions \in Nat
    /\ MaxOffboardings \in Nat /\ MaxCrashes \in Nat
    /\ None \notin Days

VARIABLES
    day,         \* the date
    evidence,    \* evidence[c]: the latest reading of a control, None for none
    exceptions,  \* memory_bank_vendor_state: vendor, control and expiry of each exception
    history,     \* assessment_snapshots: the residual risks of a vendor and control, in order
    due,         \* offboarding_records: the deadline of a pending one, None for none
    runs,        \* runs, in the order they were started
    task,        \* task[p]: control point and local variables of task p
    used,        \* how often the bounded operations were done
    reported     \* the vendors that the last answer of a sweep names as overdue

store == <<evidence, exceptions, history, due, runs>>
vars == <<day, store, task, used, reported>>

Pairs == Vendors \X Controls

Reading == [ok : BOOLEAN, on : Days]

Checks == <<"check_expiry", "check_evidence_drift", "check_breach_feed", "check_risk_trend">>

(* (the steps that are pending are in the order of Checks) *)
Run == [completed : Seq(Range(Checks)), pending : SUBSET Range(Checks),
        status : {"running", "completed"}]

Kinds == {"control_drift", "risk_trend_rising"}

Busy == {"collecting", "sweeping"}

Local == [pc : Busy \cup {"idle", "running"}, run : Nat, at : 1 .. Len(Checks) + 1,
          left : SUBSET (Controls \cup Pairs), found : SUBSET (Pairs \X Kinds),
          before : SUBSET (Pairs \X Kinds), overdue : SUBSET (Vendors \X Days)]

Idle == [pc |-> "idle", run |-> 0, at |-> 1, left |-> {}, found |-> {}, before |-> {},
         overdue |-> {}]

(* Mutant: the routes are plain functions, which FastAPI runs in threads. *)
ThreadPool(p) == TRUE

LoopFree(p) ==
    \A q \in Tasks \ {p} : Home[q] = Home[p] => task[q].pc \notin Busy

Become(p, local) == task' = [task EXCEPT ![p] = local]

Init ==
    /\ day = 0
    /\ evidence = [c \in Controls |-> None]
    /\ exceptions = {}
    /\ history \in [Pairs -> Histories]
    /\ due = [v \in Vendors |-> None]
    /\ runs = << >>
    /\ task = [p \in Tasks |-> Idle]
    /\ used = [snapshots |-> 0, exceptions |-> 0, offboardings |-> 0, crashes |-> 0]
    /\ reported = {}

-----------------------------------------------------------------------------
(* OffboardingRecordRepo.list_overdue *)
Overdue(v) == due[v] # None /\ due[v] < day

(* The orchestrator's run_drift_sweep: a run of Drift Sentinel.  (overdue is *)
(* for the properties: the deletions that are overdue when the run begins.)  *)
Sweeping == [Idle EXCEPT !.pc = "running",
                         !.overdue = {<<v, due[v]>> : v \in {u \in Vendors : Overdue(u)}}]

(* _on_evidence_collected, the one handler of evidence.collected. *)
OnEvidenceCollected == Sweeping

(* The ticks of Cloud Scheduler.  collect_evidence replaces the reading of *)
(* each control, and evidence.collected, whose key is new, sweeps.         *)
EvidenceTick(p) ==
    /\ task[p].pc = "idle" /\ LoopFree(p)
    /\ Become(p, [Idle EXCEPT !.pc = "collecting", !.left = Controls])
    /\ UNCHANGED <<day, store, used, reported>>

(* A source may hand out a reading it took earlier. *)
Collect(p, c, ok, on) ==
    /\ task[p].pc = "collecting" /\ c \in task[p].left
    /\ evidence' = [evidence EXCEPT ![c] = [ok |-> ok, on |-> on]]
    /\ Become(p, IF task[p].left = {c} THEN OnEvidenceCollected
                 ELSE [task[p] EXCEPT !.left = @ \ {c}])
    /\ UNCHANGED <<day, exceptions, history, due, runs, used, reported>>

DriftTick(p) ==
    /\ task[p].pc = "idle" /\ LoopFree(p)
    /\ Become(p, Sweeping)
    /\ UNCHANGED <<day, store, used, reported>>

-----------------------------------------------------------------------------
Satisfied(c) == evidence[c].ok /\ day - evidence[c].on <= FreshDays

(* Mutant: an exception holds for ever. *)
ExceptedOnce(v, c) == \E until \in Days : <<v, c, until>> \in exceptions

(* has_active_exception *)
Excepted(v, c) == \E until \in Days : <<v, c, until>> \in exceptions /\ until > day

(* The last three assessments, each worse than the one before. *)
Rising(risks) ==
    LET n == Len(risks) IN n >= 3 /\ risks[n - 2] < risks[n - 1] /\ risks[n - 1] < risks[n]

Shows(v, c, kind) ==
    IF kind = "control_drift" THEN evidence[c] # None /\ ~Satisfied(c)
    ELSE Rising(history[<<v, c>>])

(* What the properties take for a drift: the reading of a control is wrong *)
(* or too old, or its last two assessments each were worse than the one    *)
(* before, and no exception of the vendor for it goes on beyond today.     *)
Standing ==
    {s \in Pairs \X Kinds :
        LET reading == evidence[s[1][2]]
            risks == history[s[1]]
        IN /\ \A x \in exceptions : s[1] = <<x[1], x[2]>> => x[3] <= day
           /\ IF s[2] = "control_drift"
              THEN reading # None /\ (~reading.ok \/ reading.on + FreshDays < day)
              ELSE Len(risks) > 2 /\ \A i \in Len(risks) - 1 .. Len(risks) :
                                         risks[i - 1] < risks[i]}

(* run_drift_sweep opens a run ... *)
StartSweep(p) ==
    /\ task[p].pc = "running" /\ LoopFree(p)
    /\ Len(runs) < MaxSweeps
    /\ runs' = Append(runs, [completed |-> << >>, pending |-> Range(Checks),
                            status |-> "running"])
    /\ Become(p, [Idle EXCEPT !.pc = "sweeping", !.run = Len(runs'),
                              !.before = Standing, !.overdue = task[p].overdue])
    /\ UNCHANGED <<day, evidence, exceptions, history, due, used, reported>>

(* The check that a sweep is at, and the kind of signal it finds. *)
Check(p) == Checks[task[p].at]

(* Mutant: a signal bears the name of the check. *)
FindsByName(check) == {check}

Finds(check) ==
    CASE check = "check_evidence_drift" -> {"control_drift"}
      [] check = "check_risk_trend" -> {"risk_trend_rising"}
      [] OTHER -> {}

(* ... looks at every vendor and control ... *)
Inspect(p, v, c) ==
    LET t == task[p] IN
    /\ t.pc = "sweeping" /\ <<v, c>> \in t.left
    /\ Become(p, [t EXCEPT !.left = @ \ {<<v, c>>},
            !.found = @ \cup {<< <<v, c>>, kind >> : kind \in {k \in Finds(Check(p)) :
                                  Shows(v, c, k) /\ ~Excepted(v, c)}}])
    /\ UNCHANGED <<day, store, used, reported>>

(* Mutant: a checkpoint says what was done last. *)
CheckpointOfLast(run, check) ==
    [run EXCEPT !.completed = <<check>>, !.pending = @ \ {check}]

(* RunRepo.checkpoint *)
Checkpointed(run, check) ==
    [run EXCEPT !.completed = Append(@, check), !.pending = @ \ {check}]

(* ... notes each check that is done ... *)
Checkpoint(p) ==
    LET t == task[p]
        looks == t.at < Len(Checks) /\ Finds(Checks[t.at + 1]) # {}
    IN
    /\ t.pc = "sweeping" /\ t.left = {} /\ t.at <= Len(Checks)
    /\ runs' = [runs EXCEPT ![t.run] = Checkpointed(runs[t.run], Check(p))]
    /\ Become(p, [t EXCEPT !.at = @ + 1, !.left = IF looks THEN Pairs ELSE {}])
    /\ UNCHANGED <<day, evidence, exceptions, history, due, used, reported>>

(* ... and closes the run. *)
SweepEnds(p) ==
    LET t == task[p] IN
    /\ t.pc = "sweeping" /\ t.at > Len(Checks)
    /\ runs' = [runs EXCEPT ![t.run].status = "completed"]
    /\ Become(p, [Idle EXCEPT !.pc = "running", !.overdue = t.overdue])
    /\ UNCHANGED <<day, evidence, exceptions, history, due, used, reported>>

-----------------------------------------------------------------------------
(* Mutant: the deletions are listed before the run is awaited. *)
NamedBefore(p) == {x[1] : x \in task[p].overdue}

(* The vendors that a sweep's answer names. *)
Named(p) == {v \in Vendors : Overdue(v)}

(* The sweep's run returns, and check_offboarding_overdue looks, if the fleet *)
(* config permits it at that moment ...                                       *)
RunReturns(p, permitted) ==
    /\ task[p].pc = "running" /\ LoopFree(p)
    /\ reported' = IF permitted THEN Named(p) ELSE reported
    /\ Become(p, Idle)
    /\ UNCHANGED <<day, store, used>>

(* ... which it does not when the run raises. *)
RunRaises(p) ==
    /\ task[p].pc = "running" /\ LoopFree(p)
    /\ Become(p, Idle)
    /\ UNCHANGED <<day, store, used, reported>>

-----------------------------------------------------------------------------
(* Operations of one step: an exception for the memory bank, which no route *)
(* adds yet ...                                                             *)
AddException(p, v, c, until) ==
    /\ task[p].pc = "idle" /\ LoopFree(p)
    /\ used.exceptions < MaxExceptions
    /\ used' = [used EXCEPT !.exceptions = @ + 1]
    /\ exceptions' = exceptions \cup {<<v, c, until>>}
    /\ UNCHANGED <<day, evidence, history, due, runs, task, reported>>

(* ... a snapshot that create_finding appends ... *)
AppendSnapshot(p, v, c, risk) ==
    /\ task[p].pc = "idle" /\ LoopFree(p)
    /\ used.snapshots < MaxSnapshots
    /\ used' = [used EXCEPT !.snapshots = @ + 1]
    /\ history' = [history EXCEPT ![<<v, c>>] = Append(@, risk)]
    /\ UNCHANGED <<day, evidence, exceptions, due, runs, task, reported>>

(* (the days that a clause of the vendor's contract or the playbook gives) *)
Deadlines == {d \in Days : d >= day}

(* ... an offboarding, whose record replaces the vendor's last one, even one *)
(* that is overdue ...                                                       *)
Offboard(p, v, deadline) ==
    /\ task[p].pc = "idle" /\ LoopFree(p)
    /\ used.offboardings < MaxOffboardings
    /\ used' = [used EXCEPT !.offboardings = @ + 1]
    /\ deadline \in Deadlines
    /\ due' = [due EXCEPT ![v] = deadline]
    /\ UNCHANGED <<day, evidence, exceptions, history, runs, task, reported>>

(* ... and its confirmation. *)
ConfirmDeletion(p, v) ==
    /\ task[p].pc = "idle" /\ LoopFree(p)
    /\ due[v] # None
    /\ due' = [due EXCEPT ![v] = None]
    /\ UNCHANGED <<day, evidence, exceptions, history, runs, task, used, reported>>

DayPasses ==
    /\ day < MaxDay
    /\ day' = day + 1
    /\ UNCHANGED <<store, task, used, reported>>

(* The platform kills an instance; its tasks are gone, the store stays. *)
Crash(i) ==
    /\ used.crashes < MaxCrashes
    /\ \E p \in Tasks : Home[p] = i /\ task[p].pc # "idle"
    /\ used' = [used EXCEPT !.crashes = @ + 1]
    /\ task' = [p \in Tasks |-> IF Home[p] = i THEN Idle ELSE task[p]]
    /\ UNCHANGED <<day, store, reported>>

Ask(p) ==
    \/ EvidenceTick(p) \/ DriftTick(p)
    \/ \E v \in Vendors, c \in Controls, until \in Days : AddException(p, v, c, until)
    \/ \E v \in Vendors, c \in Controls, risk \in Risks : AppendSnapshot(p, v, c, risk)
    \/ \E v \in Vendors, deadline \in Days : Offboard(p, v, deadline)
    \/ \E v \in Vendors : ConfirmDeletion(p, v)

Advance(p) ==
    \/ \E c \in Controls, ok \in BOOLEAN, on \in 0 .. day : Collect(p, c, ok, on)
    \/ \E v \in Vendors, c \in Controls : Inspect(p, v, c)
    \/ Checkpoint(p) \/ SweepEnds(p)

RunEnds(p) ==
    \/ \E permitted \in BOOLEAN : RunReturns(p, permitted)
    \/ RunRaises(p)

Next ==
    \/ DayPasses
    \/ \E p \in Tasks : Ask(p) \/ StartSweep(p) \/ Advance(p) \/ RunEnds(p)
    \/ \E i \in Instances : Crash(i)

Spec == Init /\ [][Next]_vars

-----------------------------------------------------------------------------
TypeOK ==
    /\ day \in Days
    /\ evidence \in [Controls -> Reading \cup {None}]
    /\ exceptions \subseteq Vendors \X Controls \X Days
    /\ history \in [Pairs -> Seq(Nat)]
    /\ due \in [Vendors -> Days \cup {None}]
    /\ runs \in Seq(Run)
    /\ task \in [Tasks -> Local]
    /\ used \in [snapshots : 0 .. MaxSnapshots, exceptions : 0 .. MaxExceptions,
                 offboardings : 0 .. MaxOffboardings, crashes : 0 .. MaxCrashes]
    /\ reported \subseteq Vendors

(* A sweep hands to the agent every drift that stood, and was not excepted,  *)
(* when it began ("scan for drift signals across every vendor",              *)
(* run_drift_sweep) ...                                                      *)
SweepComplete == [][\A p \in Tasks : SweepEnds(p) => task[p].before \subseteq task[p].found]_vars

(* ... and no signal that does not stand at its end, or that an exception    *)
(* still covers ("and isn't covered by an active Memory Bank exception"),    *)
(* although evidence ages and exceptions lapse while it looks.               *)
SweepSound == [][\A p \in Tasks : SweepEnds(p) => task[p].found \subseteq Standing]_vars

(* The ledger says how far a sweep came: its checks are done in their order, *)
(* it is completed when all are, and one that stays running at a check that  *)
(* no task is at was cut off by a crash (Run, "checkpointed state for        *)
(* long-running agent sweeps").                                              *)
LedgerTellsProgress ==
    \A n \in DOMAIN runs :
        LET done == Len(runs[n].completed) IN
        /\ runs[n].completed = SubSeq(Checks, 1, done)
        /\ runs[n].pending = Range(Checks) \ Range(runs[n].completed)
        /\ IF runs[n].status = "completed" THEN runs[n].pending = {}
           ELSE \/ used.crashes > 0
                \/ \E p \in Tasks : task[p].run = n /\ task[p].at = done + 1

(* The answer to a tick, when there is one, names each vendor whose deletion *)
(* was overdue when the run began, unless it was confirmed or the vendor was *)
(* offboarded anew during the run, and no vendor whose deletion is not       *)
(* overdue any more ("every OffboardingRecord past its deadline and still    *)
(* unconfirmed", check_offboarding_overdue).                                 *)
OverdueNamed ==
    [][\A p \in Tasks : RunReturns(p, TRUE) =>
        /\ \A x \in task[p].overdue : due[x[1]] = x[2] => x[1] \in reported'
        /\ \A v \in reported' : due[v] \in Days /\ due[v] < day]_vars
=============================================================================
