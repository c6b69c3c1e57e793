-------------------------- MODULE VendorLifecycle ---------------------------
(***************************************************************************)
(* The status of a vendor and everything that writes it: assessments       *)
(* (agents/orchestrator.py), Drift Sentinel's reopen_assessment, the       *)
(* Offboarding Agent with its deletion record, and the rollback of         *)
(* compensating actions (platform/rollback.py), which also takes back the  *)
(* tickets Remediation Router opens.                                       *)
(*                                                                         *)
(* A task is a request being served or a tool an agent runs, on the event  *)
(* loop of its instance.  A step is one store operation or one resumption  *)
(* of a coroutine; while a task is at a control point of Busy, no other    *)
(* task of its instance moves (the code between two awaits).  The autonomy *)
(* gates are taken as open here: module FleetControl has them.             *)
(***************************************************************************)
EXTENDS Naturals, Sequences, FiniteSets

CONSTANTS
    Vendors, Tickets,            \* ids
    RequestTraces, AgentTraces,  \* trace ids: a request's fresh uuid; an agent's argument
    Reasons,                     \* the reasons Drift Sentinel writes
    Tasks, Instances, Home,      \* Home[p]: the instance that runs task p
    MaxActions,                  \* bound: compensating actions ever recorded
    MaxCrashes,                  \* bound: how often an instance is killed
    None                         \* no value

ASSUME LifecycleAssumption ==
    /\ Home \in [Tasks -> Instances]
    /\ MaxActions \in Nat /\ MaxCrashes \in Nat
    /\ Vendors \cap Tickets = {}
    /\ None \notin Vendors \cup Tickets \cup RequestTraces \cup AgentTraces

VARIABLES
    status,   \* vendors: the status field
    record,   \* offboarding_records: the status of the vendor's record
    ticket,   \* tickets: the status field
    ledger,   \* compensating_actions, in the order of created_at
    seen,     \* event_dedup, for drift.detected: the <<vendor, reason>> published
    used,     \* the request traces handed out
    task,     \* task[p]: control point and local variables of task p
    crashes,  \* number of crashes so far
    count     \* history: initiations and confirmations of each vendor

store == <<status, record, ticket, ledger, seen>>
vars == <<status, record, ticket, ledger, seen, used, task, crashes, count>>

Status == {"onboarding", "active", "under_review", "offboarding", "offboarded"}
Leaving == {"offboarding", "offboarded"}
RecordStatus == {"none", "pending", "confirmed"}
TicketStatus == {"absent", "open", "not_opened"}
Traces == RequestTraces \cup AgentTraces

(* A CompensatingAction; reverts is history: how often a rollback applied it. *)
Action == [trace : Traces, subject : Vendors \cup Tickets,
           before : Status \cup TicketStatus, undone : BOOLEAN, reverts : Nat]

(* Control points inside a piece of code that does not await. *)
Recording == {"initiate_set", "initiate_action", "reopen_set", "reopen_action",
              "ticket_action"}
Busy == Recording \cup {"initiate_record", "confirm_record", "confirm_set",
                        "reopen_publish", "revert", "mark"}

Local == [pc : Busy \cup {"idle", "assessing"}, subject : Vendors \cup Tickets \cup {None},
          trace : Traces \cup {None}, reason : Reasons \cup {None},
          prev : Status \cup {None}, todo : SUBSET Nat]

Idle == [pc |-> "idle", subject |-> None, trace |-> None, reason |-> None,
         prev |-> None, todo |-> {}]

(* Mutant: the routes are plain functions, which FastAPI runs in threads. *)
ThreadPool(p) == TRUE

LoopFree(p) ==
    \A q \in Tasks \ {p} : Home[q] = Home[p] => task[q].pc \notin Busy

Ready(p) == task[p].pc = "idle" /\ LoopFree(p)

Become(p, local) == task' = [task EXCEPT ![p] = local]
Go(p, pc) == Become(p, [task[p] EXCEPT !.pc = pc])
End(p) == Become(p, Idle)

(* MaxActions: no operation begins that could not record its action. *)
Room == Len(ledger) + Cardinality({p \in Tasks : task[p].pc \in Recording}) < MaxActions

(* Mutant: subject and value from before change places. *)
RecordSwapped(trace, subject, before) ==
    ledger' = Append(ledger, [trace |-> trace, subject |-> before, before |-> subject,
                              undone |-> FALSE, reverts |-> 0])

(* CompensatingActionLedger.record *)
Record(trace, subject, before) ==
    ledger' = Append(ledger, [trace |-> trace, subject |-> subject, before |-> before,
                              undone |-> FALSE, reverts |-> 0])

Init ==
    /\ status = [v \in Vendors |-> "onboarding"]
    /\ record = [v \in Vendors |-> "none"]
    /\ ticket = [k \in Tickets |-> "absent"]
    /\ ledger = << >>
    /\ seen = {}
    /\ used = {}
    /\ task = [p \in Tasks |-> Idle]
    /\ crashes = 0
    /\ count = [v \in Vendors |-> [initiated |-> 0, confirmed |-> 0]]

-----------------------------------------------------------------------------
(* _on_assessment_requested: the Supervisor's run is one long await ... *)
Assess(p, v) == Become(p, [Idle EXCEPT !.pc = "assessing", !.subject = v])

(* (trigger_assessment, or an artifact, publishes the event under a new key) *)
StartAssessment(p, v) ==
    /\ Ready(p)
    /\ Assess(p, v)
    /\ UNCHANGED <<store, used, crashes, count>>

(* ... after which the vendor is made active, whatever its status is by now. *)
CompleteAssessment(p) ==
    /\ task[p].pc = "assessing" /\ LoopFree(p)
    /\ status' = [status EXCEPT ![task[p].subject] = "active"]
    /\ End(p)
    /\ UNCHANGED <<record, ticket, ledger, seen, used, crashes, count>>

(* ... or the run raises and the event goes to the dead-letter queue.        *)
FailAssessment(p) ==
    /\ task[p].pc = "assessing" /\ LoopFree(p)
    /\ End(p)
    /\ UNCHANGED <<store, used, crashes, count>>

-----------------------------------------------------------------------------
(* initiate_offboarding *)
InitiateRead(p, v, t) ==
    /\ Ready(p) /\ Room
    /\ t \notin used
    /\ used' = used \cup {t}
    /\ Become(p, [Idle EXCEPT !.pc = "initiate_set", !.subject = v,
                              !.trace = t, !.prev = status[v]])
    /\ UNCHANGED <<store, crashes, count>>

InitiateSetStatus(p) ==
    /\ task[p].pc = "initiate_set"
    /\ status' = [status EXCEPT ![task[p].subject] = "offboarding"]
    /\ Go(p, "initiate_action")
    /\ UNCHANGED <<record, ticket, ledger, seen, used, crashes, count>>

InitiateRecordAction(p) ==
    /\ task[p].pc = "initiate_action"
    /\ Record(task[p].trace, task[p].subject, task[p].prev)
    /\ Go(p, "initiate_record")
    /\ UNCHANGED <<status, record, ticket, seen, used, crashes, count>>

(* The record's id comes from the vendor's, so a second offboarding *)
(* replaces the record of the first, confirmed or not.              *)
InitiateCreateRecord(p) ==
    /\ task[p].pc = "initiate_record"
    /\ record' = [record EXCEPT ![task[p].subject] = "pending"]
    /\ count' = [count EXCEPT ![task[p].subject].initiated = @ + 1]
    /\ End(p)
    /\ UNCHANGED <<status, ticket, ledger, seen, used, crashes>>

(* Mutant: a record that was already confirmed is confirmed again. *)
ConfirmReadAny(p, v) ==
    /\ Ready(p)
    /\ record[v] # "none"
    /\ Become(p, [Idle EXCEPT !.pc = "confirm_record", !.subject = v])
    /\ UNCHANGED <<store, used, crashes, count>>

(* confirm_data_deletion; it returns an error when no record is pending, *)
(* and looks at nothing else: not at the vendor's status.                *)
ConfirmRead(p, v) ==
    /\ Ready(p)
    /\ record[v] = "pending"
    /\ Become(p, [Idle EXCEPT !.pc = "confirm_record", !.subject = v])
    /\ UNCHANGED <<store, used, crashes, count>>

ConfirmRecord(p) ==
    /\ task[p].pc = "confirm_record"
    /\ record' = [record EXCEPT ![task[p].subject] = "confirmed"]
    /\ count' = [count EXCEPT ![task[p].subject].confirmed = @ + 1]
    /\ Go(p, "confirm_set")
    /\ UNCHANGED <<status, ticket, ledger, seen, used, crashes>>

ConfirmSetStatus(p) ==
    /\ task[p].pc = "confirm_set"
    /\ status' = [status EXCEPT ![task[p].subject] = "offboarded"]
    /\ End(p)
    /\ UNCHANGED <<record, ticket, ledger, seen, used, crashes, count>>

-----------------------------------------------------------------------------
(* Mutant: only a vendor that has left is spared, not one that is leaving. *)
ReopenReadLate(p, v, t, r) ==
    /\ Ready(p) /\ Room
    /\ Become(p, [Idle EXCEPT !.pc = IF status[v] = "offboarded" THEN "reopen_publish"
                                     ELSE "reopen_set",
                              !.subject = v, !.trace = t, !.reason = r, !.prev = status[v]])
    /\ UNCHANGED <<store, used, crashes, count>>

(* reopen_assessment: trace and reason are arguments the agent writes.  A *)
(* vendor that is leaving keeps its status; the signal is published all   *)
(* the same.                                                              *)
ReopenRead(p, v, t, r) ==
    /\ Ready(p) /\ Room
    /\ Become(p, [Idle EXCEPT !.pc = IF status[v] \in Leaving THEN "reopen_publish"
                                     ELSE "reopen_set",
                              !.subject = v, !.trace = t, !.reason = r, !.prev = status[v]])
    /\ UNCHANGED <<store, used, crashes, count>>

ReopenSetStatus(p) ==
    /\ task[p].pc = "reopen_set"
    /\ status' = [status EXCEPT ![task[p].subject] = "under_review"]
    /\ Go(p, "reopen_action")
    /\ UNCHANGED <<record, ticket, ledger, seen, used, crashes, count>>

ReopenRecordAction(p) ==
    /\ task[p].pc = "reopen_action"
    /\ Record(task[p].trace, task[p].subject, task[p].prev)
    /\ Go(p, "reopen_publish")
    /\ UNCHANGED <<status, record, ticket, seen, used, crashes, count>>

(* _on_drift_detected publishes assessment.requested under a key of its own, *)
(* and its handler assesses the vendor before the publisher goes on.         *)
OnDriftDetected(p, v) == Assess(p, v)

(* drift.detected is keyed by vendor and reason.  If the reason was given    *)
(* before, nothing more happens.                                             *)
ReopenPublish(p) ==
    LET signal == <<task[p].subject, task[p].reason>> IN
    /\ task[p].pc = "reopen_publish"
    /\ seen' = seen \cup {signal}
    /\ IF signal \in seen THEN End(p)
       ELSE OnDriftDetected(p, task[p].subject)
    /\ UNCHANGED <<status, record, ticket, ledger, used, crashes, count>>

(* open_ticket: the trace is the finding's, which an agent wrote.  There is *)
(* none if there is no such finding, and then no compensating action either. *)
OpenTicket(p, k, t) ==
    /\ Ready(p) /\ Room
    /\ ticket[k] = "absent"
    /\ ticket' = [ticket EXCEPT ![k] = "open"]
    /\ IF t = None THEN End(p)
       ELSE Become(p, [Idle EXCEPT !.pc = "ticket_action", !.subject = k, !.trace = t])
    /\ UNCHANGED <<status, record, ledger, seen, used, crashes, count>>

TicketRecordAction(p) ==
    /\ task[p].pc = "ticket_action"
    /\ Record(task[p].trace, task[p].subject, "not_opened")
    /\ End(p)
    /\ UNCHANGED <<status, record, ticket, seen, used, crashes, count>>

-----------------------------------------------------------------------------
(* Mutant: the actions that were rolled back already are replayed too. *)
PendingActionsAll(t) == {i \in DOMAIN ledger : ledger[i].trace = t}

(* What list_for_trace returns and rollback_trace does not skip. *)
PendingActions(t) ==
    {i \in DOMAIN ledger : ledger[i].trace = t /\ ~ledger[i].undone}

RollbackList(p, t) ==
    /\ Ready(p)
    /\ PendingActions(t) # {}
    /\ Become(p, [Idle EXCEPT !.pc = "revert", !.todo = PendingActions(t)])
    /\ UNCHANGED <<store, used, crashes, count>>

Latest(S) == CHOOSE i \in S : \A j \in S : j <= i

(* The most recent action goes first; its subject gets its value from     *)
(* before the action, whatever happened to it since.                      *)
RevertSubject(p) ==
    LET i == Latest(task[p].todo)
        a == ledger[i]
    IN
    /\ task[p].pc = "revert"
    /\ IF a.subject \in Vendors
       THEN /\ status' = [status EXCEPT ![a.subject] = a.before]
            /\ UNCHANGED ticket
       ELSE /\ ticket' = [ticket EXCEPT ![a.subject] = a.before]
            /\ UNCHANGED status
    /\ ledger' = [ledger EXCEPT ![i].reverts = @ + 1]
    /\ Go(p, "mark")
    /\ UNCHANGED <<record, seen, used, crashes, count>>

(* Mutant: only the first action of the trace is taken back. *)
MarkRolledBackAndStop(p) ==
    /\ task[p].pc = "mark"
    /\ ledger' = [ledger EXCEPT ![Latest(task[p].todo)].undone = TRUE]
    /\ End(p)
    /\ UNCHANGED <<status, record, ticket, seen, used, crashes, count>>

MarkRolledBack(p) ==
    LET i == Latest(task[p].todo)
        rest == task[p].todo \ {i}
    IN
    /\ task[p].pc = "mark"
    /\ ledger' = [ledger EXCEPT ![i].undone = TRUE]
    /\ IF rest = {} THEN End(p)
       ELSE Become(p, [task[p] EXCEPT !.pc = "revert", !.todo = rest])
    /\ UNCHANGED <<status, record, ticket, seen, used, crashes, count>>

-----------------------------------------------------------------------------
(* The platform kills an instance; its tasks are gone, the store stays. *)
Crash(i) ==
    /\ crashes < MaxCrashes
    /\ crashes' = crashes + 1
    /\ task' = [p \in Tasks |-> IF Home[p] = i THEN Idle ELSE task[p]]
    /\ UNCHANGED <<store, used, count>>

Start(p) ==
    \/ \E v \in Vendors : StartAssessment(p, v) \/ ConfirmRead(p, v)
    \/ \E v \in Vendors, t \in RequestTraces : InitiateRead(p, v, t)
    \/ \E v \in Vendors, t \in AgentTraces, r \in Reasons : ReopenRead(p, v, t, r)
    \/ \E k \in Tickets, t \in AgentTraces \cup {None} : OpenTicket(p, k, t)
    \/ \E t \in Traces : RollbackList(p, t)

Continue(p) ==
    \/ CompleteAssessment(p) \/ FailAssessment(p)
    \/ InitiateSetStatus(p) \/ InitiateRecordAction(p) \/ InitiateCreateRecord(p)
    \/ ConfirmRecord(p) \/ ConfirmSetStatus(p)
    \/ ReopenSetStatus(p) \/ ReopenRecordAction(p) \/ ReopenPublish(p)
    \/ TicketRecordAction(p)
    \/ RevertSubject(p) \/ MarkRolledBack(p)

Next ==
    \/ \E p \in Tasks : Start(p) \/ Continue(p)
    \/ \E i \in Instances : Crash(i)

(* What a request or a tool has begun, its event loop brings to an end; no *)
(* request has to come.                                                    *)
Spec == Init /\ [][Next]_vars /\ \A p \in Tasks : WF_vars(Continue(p))

-----------------------------------------------------------------------------
TypeOK ==
    /\ status \in [Vendors -> Status]
    /\ record \in [Vendors -> RecordStatus]
    /\ ticket \in [Tickets -> TicketStatus]
    /\ ledger \in Seq(Action)
    /\ seen \subseteq Vendors \X Reasons
    /\ used \subseteq RequestTraces
    /\ task \in [Tasks -> Local]
    /\ crashes \in 0 .. MaxCrashes
    /\ count \in [Vendors -> [initiated : Nat, confirmed : Nat]]

(* The value an action will record as "before" is the value its write       *)
(* replaces: nothing slips in between the read of the vendor and the write, *)
(* so a compensating action describes exactly the change it compensates.    *)
BeforeValueCurrent ==
    \A p \in Tasks :
        task[p].pc \in {"initiate_set", "reopen_set"} =>
            task[p].prev = status[task[p].subject]

(* Drift Sentinel never puts a vendor that is being, or has been, offboarded *)
(* back under review (the guard of reopen_assessment): when it writes, the   *)
(* vendor is still not leaving.                                              *)
ReopenSparesLeaving ==
    \A p \in Tasks :
        task[p].pc = "reopen_set" => status[task[p].subject] \notin Leaving

(* A deletion is certified at most once for each offboarding that was begun, *)
(* however many reviewers press the button (confirm_data_deletion).          *)
OneConfirmationPerOffboarding ==
    \A v \in Vendors : count[v].confirmed <= count[v].initiated

(* Rolling a trace back is idempotent: however often it is asked for, a      *)
(* compensating action is applied once, and once more at most for each crash *)
(* between the two writes of rollback_trace.                                 *)
RevertedOnce ==
    \A i \in DOMAIN ledger : ledger[i].reverts <= 1 + crashes

(* A rollback that has begun takes back every action of the trace it found,  *)
(* unless its instance dies.                                                 *)
RollbackCompletes ==
    \A p \in Tasks, i \in 1 .. MaxActions :
        i \in task[p].todo ~> (i \in DOMAIN ledger /\ ledger[i].undone) \/ crashes > 0

-----------------------------------------------------------------------------
(* "offboarded" is a terminal state, "not reversible by this codebase"       *)
(* (confirm_data_deletion): nothing takes a vendor out of it.                *)
OffboardedIsTerminal ==
    [][\A v \in Vendors : status[v] = "offboarded" => status'[v] = "offboarded"]_vars

(* Offboarding is "fully reversible" (initiate_offboarding): a deletion      *)
(* record is open only for an offboarding that has not been rolled back.     *)
OpenRecordStands ==
    \A v \in Vendors :
        record[v] = "pending" =>
            \E i \in DOMAIN ledger :
                ledger[i].subject = v /\ ledger[i].trace \in used /\ ~ledger[i].undone
=============================================================================
