----------------------- MODULE VendorLifecycle_proofs ------------------------
(***************************************************************************)
(* What holds of vendors, deletion records and compensating actions in one *)
(* process, for every number of vendors, tickets, traces, tasks, actions   *)
(* and crashes.                                                            *)
(***************************************************************************)
EXTENDS LifecycleSingle, WellFoundedInduction, TLAPS

(* The code between two awaits is entered by one task at a time. *)
OneBusy == \A p, q \in Tasks : task[p].pc \in Busy /\ task[q].pc \in Busy => p = q

(* The control points at which a task has to do with a vendor. *)
AboutVendor == {"assessing", "initiate_set", "initiate_action", "initiate_record",
                "confirm_record", "confirm_set", "reopen_set", "reopen_action",
                "reopen_publish"}

(* What a task knows of what it works on: the arguments it was called with, *)
(* and what it read from the store and is going to rely on.                 *)
Steady(p) ==
    LET t == task[p] IN
    /\ t.pc \in AboutVendor => t.subject \in Vendors
    /\ t.pc \in {"initiate_set", "initiate_action", "reopen_set", "reopen_action"} =>
           t.trace \in Traces /\ t.prev \in Status
    /\ t.pc \in {"reopen_set", "reopen_action", "reopen_publish"} => t.reason \in Reasons
    /\ t.pc = "ticket_action" => t.subject \in Tickets /\ t.trace \in Traces
    /\ t.pc \in {"initiate_set", "reopen_set"} => t.prev = status[t.subject]
    /\ t.pc = "reopen_set" => t.prev \notin Leaving
    /\ t.pc = "confirm_record" => record[t.subject] = "pending"
    /\ t.pc \in {"revert", "mark"} =>
           t.todo # {} /\ \A i \in t.todo : i \in DOMAIN ledger /\ ~ledger[i].undone

(* An action names a status of its vendor or of its ticket. *)
Described ==
    \A i \in DOMAIN ledger :
        /\ ledger[i].subject \in Vendors => ledger[i].before \in Status
        /\ ledger[i].subject \in Tickets => ledger[i].before \in TicketStatus

(* A record that is pending has an initiation that was not confirmed yet. *)
Certified ==
    \A v \in Vendors :
        /\ count[v].confirmed <= count[v].initiated
        /\ record[v] = "pending" => count[v].confirmed < count[v].initiated

(* An action that is neither marked nor about to be has been applied only   *)
(* where an instance was killed before the mark.                            *)
Charged ==
    \A i \in DOMAIN ledger :
        \/ ledger[i].undone
        \/ \E p \in Tasks : task[p].pc = "mark" /\ Latest(task[p].todo) = i
        \/ ledger[i].reverts <= crashes

LifecycleInv ==
    /\ TypeOK
    /\ OneBusy
    /\ \A p \in Tasks : Steady(p)
    /\ Described
    /\ Certified
    /\ Charged
    /\ RevertedOnce

-----------------------------------------------------------------------------
(* A set of numbers that is not empty has a least one ... *)
LEMMA LeastNumber ==
    ASSUME NEW S \in SUBSET Nat, S # {}
    PROVE  \E m \in S : \A n \in S : m <= n
<1> DEFINE R == OpToRel(<, Nat)
<1>1. IsWellFoundedOn(R, Nat)
  BY NatLessThanWellFounded
<1>2. \A x, y \in Nat : x < y => <<x, y>> \in R
  BY DEF OpToRel
<1> HIDE DEF R
<1>3. PICK m \in S : \A n \in S : ~(<<n, m>> \in R)
  BY <1>1, WFMin
<1>4. \A n \in S : n \in Nat /\ m \in Nat /\ ~(n < m)
  BY <1>2, <1>3
<1>5. \A n \in S : m <= n
  BY <1>4
<1> QED
  BY <1>5

(* ... and, when it is bounded, a greatest one: of the actions that remain  *)
(* to be taken back, one is the most recent.                                *)
LEMMA LatestIs ==
    ASSUME NEW n \in Nat, NEW S \in SUBSET (1 .. n), S # {}
    PROVE  Latest(S) \in S /\ \A j \in S : j <= Latest(S)
<1> DEFINE T == {n - i : i \in S}
<1>1. T \in SUBSET Nat /\ T # {}
  <2>1. \A i \in S : n - i \in Nat
    OBVIOUS
  <2> QED
    BY <2>1
<1>2. PICK m \in T : \A k \in T : m <= k
  BY <1>1, LeastNumber
<1>3. PICK i \in S : m = n - i
  OBVIOUS
<1>4. \A j \in S : j <= i
  <2> TAKE j \in S
  <2>1. m <= n - j
    BY <1>2
  <2> QED
    BY <1>3, <2>1
<1> QED
  BY <1>4 DEF Latest

(* A task without work is a local state. *)
LEMMA IdleType == Idle \in Local /\ Idle.pc = "idle"
BY DEF Idle, Local, Busy, Recording

(* The step of a task is about that task only. *)
LEMMA BecomeType ==
    ASSUME TypeOK, NEW p \in Tasks, NEW local \in Local, Become(p, local)
    PROVE  /\ task' \in [Tasks -> Local]
           /\ task'[p] = local
           /\ \A q \in Tasks \ {p} : task'[q] = task[q]
BY DEF TypeOK, Become

(* Where a task is between two awaits, it only goes on. *)
LEMMA GoType ==
    ASSUME TypeOK, NEW p \in Tasks, NEW pc \in Busy, Go(p, pc)
    PROVE  /\ task' \in [Tasks -> Local]
           /\ task'[p] = [task[p] EXCEPT !.pc = pc]
           /\ task'[p].pc = pc
           /\ task'[p].subject = task[p].subject /\ task'[p].trace = task[p].trace
           /\ task'[p].reason = task[p].reason /\ task'[p].prev = task[p].prev
           /\ task'[p].todo = task[p].todo
           /\ \A q \in Tasks \ {p} : task'[q] = task[q]
<1> DEFINE local == [task[p] EXCEPT !.pc = pc]
<1>1. /\ local \in Local /\ local.pc = pc
      /\ local.subject = task[p].subject /\ local.trace = task[p].trace
      /\ local.reason = task[p].reason /\ local.prev = task[p].prev
      /\ local.todo = task[p].todo
  BY DEF TypeOK, Local
<1>2. Become(p, local)
  BY DEF Go
<1> HIDE DEF local
<1>3. /\ task' \in [Tasks -> Local] /\ task'[p] = local
      /\ \A q \in Tasks \ {p} : task'[q] = task[q]
  BY <1>1, <1>2, BecomeType
<1> QED
  BY <1>1, <1>3 DEF local

(* In one process a task moves only when no other is between two awaits. *)
LEMMA Alone ==
    ASSUME OneBusy, NEW p \in Tasks, task[p].pc \in Busy \/ LoopFree(p)
    PROVE  \A q \in Tasks \ {p} : task[q].pc \notin Busy
BY OneInstance DEF OneBusy, LoopFree

(* A step of p after which p still knows what it relies on. *)
Moves(p) ==
    /\ task[p].pc \in Busy \/ LoopFree(p)
    /\ \A q \in Tasks \ {p} : task'[q] = task[q]
    /\ Steady(p)'

(* It disturbs no other task. *)
LEMMA OneMoves ==
    ASSUME LifecycleInv, NEW p \in Tasks, Moves(p)
    PROVE  OneBusy' /\ \A q \in Tasks : Steady(q)'
<1>1. \A q \in Tasks \ {p} : task'[q].pc \notin Busy
  BY Alone DEF LifecycleInv, Moves
<1>2. OneBusy'
  BY <1>1 DEF OneBusy
<1>3. ASSUME NEW q \in Tasks \ {p}
      PROVE  Steady(q)'
  <2>1. task'[q] = task[q] /\ task[q].pc \notin Busy
          /\ (task[q].pc \in AboutVendor => task[q].subject \in Vendors)
    BY <1>1 DEF Moves, LifecycleInv, Steady
  <2> QED
    BY <2>1 DEF Steady, Busy, Recording
<1> QED
  BY <1>2, <1>3 DEF Moves

(* A step that writes neither an action nor a deletion record. *)
Calm(p) ==
    /\ Moves(p)
    /\ task[p].pc # "mark"
    /\ UNCHANGED <<record, ledger, crashes, count>>

(* Such a step keeps the invariant. *)
LEMMA CalmKeeps ==
    ASSUME LifecycleInv, NEW p \in Tasks, Calm(p), TypeOK'
    PROVE  LifecycleInv'
<1>1. OneBusy' /\ \A q \in Tasks : Steady(q)'
  BY OneMoves DEF Calm
<1>2. Described' /\ Certified' /\ RevertedOnce'
  BY DEF Calm, LifecycleInv, Described, Certified, RevertedOnce
<1>3. Charged'
  BY DEF Calm, Moves, LifecycleInv, Charged
<1> QED
  BY <1>1, <1>2, <1>3 DEF LifecycleInv

(* How a step that is calm is recognised: by the local state it leaves. *)
LEMMA CalmBy ==
    ASSUME LifecycleInv, NEW p \in Tasks,
           task' \in [Tasks -> Local], \A q \in Tasks \ {p} : task'[q] = task[q], Steady(p)',
           task[p].pc \in Busy \/ LoopFree(p), task[p].pc # "mark",
           UNCHANGED <<record, ledger, crashes, count>>,
           status' \in [Vendors -> Status], ticket' \in [Tickets -> TicketStatus],
           seen' \subseteq Vendors \X Reasons, used' \subseteq RequestTraces
    PROVE  Calm(p) /\ TypeOK'
BY DEF Calm, Moves, LifecycleInv, TypeOK

(* The steps that begin an operation are calm: what the task read, it knows. *)
LEMMA StartCalm ==
    ASSUME LifecycleInv, NEW p \in Tasks, Start(p)
    PROVE  Calm(p) /\ TypeOK'
<1> TypeOK /\ task[p] \in Local
  BY DEF LifecycleInv, TypeOK
<1>0. ASSUME NEW local \in Local, Become(p, local), Steady(p)', Ready(p),
             UNCHANGED <<record, ledger, crashes, count, status, seen>>,
             ticket' \in [Tickets -> TicketStatus], used' \subseteq RequestTraces
      PROVE  Calm(p) /\ TypeOK'
  <2>1. task' \in [Tasks -> Local] /\ \A q \in Tasks \ {p} : task'[q] = task[q]
    BY <1>0, BecomeType
  <2>2. LoopFree(p) /\ task[p].pc # "mark"
    BY <1>0 DEF Ready
  <2>3. status' \in [Vendors -> Status] /\ seen' \subseteq Vendors \X Reasons
          /\ UNCHANGED <<record, ledger, crashes, count>>
    BY <1>0 DEF TypeOK
  <2> QED
    BY <1>0, <2>1, <2>2, <2>3, CalmBy
<1> DEFINE Fixed == /\ UNCHANGED <<record, ledger, crashes, count, status, seen>>
                    /\ ticket' \in [Tickets -> TicketStatus] /\ used' \subseteq RequestTraces
<1>1. ASSUME NEW v \in Vendors, StartAssessment(p, v)
      PROVE  Calm(p) /\ TypeOK'
  <2> DEFINE local == [Idle EXCEPT !.pc = "assessing", !.subject = v]
  <2>1. local \in Local /\ local.pc = "assessing" /\ local.subject = v
    BY IdleType DEF Local
  <2>2. Become(p, local) /\ Ready(p) /\ Fixed
    BY <1>1 DEF StartAssessment, Assess, store, TypeOK
  <2> HIDE DEF local
  <2>3. task'[p] = local
    BY <2>1, <2>2, BecomeType
  <2>4. Steady(p)'
    BY <2>1, <2>3 DEF Steady
  <2> QED
    BY <1>0, <2>1, <2>2, <2>4
<1>2. ASSUME NEW v \in Vendors, ConfirmRead(p, v)
      PROVE  Calm(p) /\ TypeOK'
  <2> DEFINE local == [Idle EXCEPT !.pc = "confirm_record", !.subject = v]
  <2>1. local \in Local /\ local.pc = "confirm_record" /\ local.subject = v
    BY IdleType DEF Local, Busy
  <2>2. Become(p, local) /\ Ready(p) /\ Fixed /\ record[v] = "pending" /\ record' = record
    BY <1>2 DEF ConfirmRead, store, TypeOK
  <2> HIDE DEF local
  <2>3. task'[p] = local
    BY <2>1, <2>2, BecomeType
  <2>4. Steady(p)'
    BY <2>1, <2>2, <2>3 DEF Steady, AboutVendor
  <2> QED
    BY <1>0, <2>1, <2>2, <2>4
<1>3. ASSUME NEW v \in Vendors, NEW t \in RequestTraces, InitiateRead(p, v, t)
      PROVE  Calm(p) /\ TypeOK'
  <2> DEFINE local == [Idle EXCEPT !.pc = "initiate_set", !.subject = v,
                                   !.trace = t, !.prev = status[v]]
  <2>1. t \in Traces /\ status[v] \in Status
    BY DEF Traces, TypeOK
  <2>2. local \in Local /\ local.pc = "initiate_set" /\ local.subject = v /\ local.trace = t
          /\ local.prev = status[v]
    BY <2>1, IdleType DEF Local, Busy, Recording
  <2>3. Become(p, local) /\ Ready(p) /\ Fixed /\ status' = status
    BY <1>3 DEF InitiateRead, store, TypeOK
  <2> HIDE DEF local
  <2>4. task'[p] = local
    BY <2>2, <2>3, BecomeType
  <2>5. Steady(p)'
    BY <2>1, <2>2, <2>3, <2>4 DEF Steady, AboutVendor
  <2> QED
    BY <1>0, <2>2, <2>3, <2>5
<1>4. ASSUME NEW v \in Vendors, NEW t \in AgentTraces, NEW r \in Reasons,
             ReopenRead(p, v, t, r)
      PROVE  Calm(p) /\ TypeOK'
  <2> DEFINE pc == IF status[v] \in Leaving THEN "reopen_publish" ELSE "reopen_set"
             local == [Idle EXCEPT !.pc = pc, !.subject = v, !.trace = t, !.reason = r,
                                   !.prev = status[v]]
  <2>1. t \in Traces /\ status[v] \in Status
    BY DEF Traces, TypeOK
  <2>2. Become(p, local) /\ Ready(p) /\ Fixed /\ status' = status
    BY <1>4 DEF ReopenRead, store, TypeOK
  <2>3. pc = "reopen_publish" \/ (pc = "reopen_set" /\ status[v] \notin Leaving)
    OBVIOUS
  <2> HIDE DEF pc
  <2>4. local \in Local /\ local.pc = pc /\ local.subject = v /\ local.trace = t
          /\ local.reason = r /\ local.prev = status[v]
    BY <2>1, <2>3, IdleType DEF Local, Busy, Recording
  <2> HIDE DEF local
  <2>5. task'[p] = local
    BY <2>2, <2>4, BecomeType
  <2>6. Steady(p)'
    BY <2>1, <2>2, <2>3, <2>4, <2>5 DEF Steady, AboutVendor
  <2> QED
    BY <1>0, <2>2, <2>4, <2>6
<1>5. ASSUME NEW k \in Tickets, NEW t \in AgentTraces \cup {None}, OpenTicket(p, k, t)
      PROVE  Calm(p) /\ TypeOK'
  <2> DEFINE local == [Idle EXCEPT !.pc = "ticket_action", !.subject = k, !.trace = t]
  <2>1. Ready(p) /\ Fixed
    BY <1>5 DEF OpenTicket, TypeOK, TicketStatus
  <2>2. CASE t = None
    <3>1. Become(p, Idle)
      BY <1>5, <2>2 DEF OpenTicket, End
    <3>2. task'[p].pc = "idle"
      BY <3>1, IdleType, BecomeType
    <3>3. Steady(p)'
      BY <3>2 DEF Steady, AboutVendor
    <3> QED
      BY <1>0, <2>1, <3>1, <3>3, IdleType
  <2>3. CASE t # None
    <3>1. t \in Traces
      BY <2>3 DEF Traces
    <3>2. local \in Local /\ local.pc = "ticket_action" /\ local.subject = k /\ local.trace = t
      BY <3>1, IdleType DEF Local, Busy, Recording
    <3>3. Become(p, local)
      BY <1>5, <2>3 DEF OpenTicket
    <3> HIDE DEF local
    <3>4. task'[p] = local
      BY <3>2, <3>3, BecomeType
    <3>5. Steady(p)'
      BY <3>1, <3>2, <3>4 DEF Steady, AboutVendor
    <3> QED
      BY <1>0, <2>1, <3>2, <3>3, <3>5
  <2> QED
    BY <2>2, <2>3
<1>6. ASSUME NEW t \in Traces, RollbackList(p, t)
      PROVE  Calm(p) /\ TypeOK'
  <2> DEFINE local == [Idle EXCEPT !.pc = "revert", !.todo = PendingActions(t)]
  <2>1. PendingActions(t) # {}
          /\ \A i \in PendingActions(t) : i \in DOMAIN ledger /\ i \in Nat /\ ~ledger[i].undone
    BY <1>6 DEF RollbackList, PendingActions, TypeOK
  <2>2. local \in Local /\ local.pc = "revert" /\ local.todo = PendingActions(t)
    BY <2>1, IdleType DEF Local, Busy
  <2>3. Become(p, local) /\ Ready(p) /\ Fixed /\ ledger' = ledger
    BY <1>6 DEF RollbackList, store, TypeOK
  <2> HIDE DEF local
  <2>4. task'[p] = local
    BY <2>2, <2>3, BecomeType
  <2>5. Steady(p)'
    BY <2>1, <2>2, <2>3, <2>4 DEF Steady, AboutVendor
  <2> QED
    BY <1>0, <2>2, <2>3, <2>5
<1> QED
  BY <1>1, <1>2, <1>3, <1>4, <1>5, <1>6 DEF Start

(* The ends of an assessment, the writes of a status and the signal of a    *)
(* drift are calm.                                                          *)
LEMMA StatusCalm ==
    ASSUME LifecycleInv, NEW p \in Tasks,
           \/ CompleteAssessment(p) \/ FailAssessment(p) \/ InitiateSetStatus(p)
           \/ ConfirmSetStatus(p) \/ ReopenSetStatus(p) \/ ReopenPublish(p)
    PROVE  Calm(p) /\ TypeOK'
<1> DEFINE v == task[p].subject
<1> TypeOK /\ task[p] \in Local /\ Steady(p)
  BY DEF LifecycleInv, TypeOK
<1>0. ASSUME task' \in [Tasks -> Local], \A q \in Tasks \ {p} : task'[q] = task[q], Steady(p)',
             task[p].pc \in Busy \/ LoopFree(p), task[p].pc # "mark",
             UNCHANGED <<record, ledger, crashes, count, ticket, used>>,
             status' \in [Vendors -> Status], seen' \subseteq Vendors \X Reasons
      PROVE  Calm(p) /\ TypeOK'
  <2>1. ticket' \in [Tickets -> TicketStatus] /\ used' \subseteq RequestTraces
          /\ UNCHANGED <<record, ledger, crashes, count>>
    BY <1>0 DEF TypeOK
  <2> QED
    BY <1>0, <2>1, CalmBy
<1>1. ASSUME End(p)
      PROVE  /\ task' \in [Tasks -> Local] /\ \A q \in Tasks \ {p} : task'[q] = task[q]
             /\ Steady(p)'
  <2>1. /\ task' \in [Tasks -> Local] /\ \A q \in Tasks \ {p} : task'[q] = task[q]
        /\ task'[p] = Idle
    BY <1>1, IdleType, BecomeType DEF End
  <2> QED
    BY <2>1, IdleType DEF Steady, AboutVendor
<1>2. CASE CompleteAssessment(p) \/ FailAssessment(p)
  <2>1. /\ task[p].pc = "assessing" /\ LoopFree(p) /\ End(p) /\ v \in Vendors
        /\ status' \in [Vendors -> Status]
        /\ UNCHANGED <<record, ledger, crashes, count, ticket, used>> /\ seen' = seen
    BY <1>2 DEF CompleteAssessment, FailAssessment, store, TypeOK, Status, Steady, AboutVendor
  <2>2. seen' \subseteq Vendors \X Reasons /\ task[p].pc # "mark"
    BY <2>1 DEF TypeOK
  <2> QED
    BY <1>0, <1>1, <2>1, <2>2
<1>3. CASE ConfirmSetStatus(p)
  <2>1. /\ task[p].pc = "confirm_set" /\ End(p) /\ v \in Vendors
        /\ status' \in [Vendors -> Status]
        /\ UNCHANGED <<record, ledger, crashes, count, ticket, used>> /\ seen' = seen
    BY <1>3 DEF ConfirmSetStatus, TypeOK, Status, Steady, AboutVendor
  <2>2. seen' \subseteq Vendors \X Reasons /\ task[p].pc # "mark" /\ task[p].pc \in Busy
    BY <2>1 DEF TypeOK, Busy
  <2> QED
    BY <1>0, <1>1, <2>1, <2>2
<1>4. ASSUME NEW from \in {"initiate_set", "reopen_set"}, task[p].pc = from,
             NEW to \in {"initiate_action", "reopen_action"}, Go(p, to),
             to = "reopen_action" => from = "reopen_set",
             NEW new \in {"offboarding", "under_review"}, status' = [status EXCEPT ![v] = new],
             UNCHANGED <<record, ledger, crashes, count, ticket, used>>, seen' = seen
      PROVE  Calm(p) /\ TypeOK'
  <2>1. v \in Vendors /\ task[p].trace \in Traces /\ task[p].prev \in Status
          /\ (from = "reopen_set" => task[p].reason \in Reasons)
    BY <1>4 DEF Steady, AboutVendor
  <2>2. to \in Busy /\ task[p].pc \in Busy /\ task[p].pc # "mark"
    BY <1>4 DEF Busy, Recording
  <2>3. /\ task' \in [Tasks -> Local] /\ \A q \in Tasks \ {p} : task'[q] = task[q]
        /\ task'[p].pc = to /\ task'[p].subject = v /\ task'[p].trace = task[p].trace
        /\ task'[p].reason = task[p].reason /\ task'[p].prev = task[p].prev
    BY <1>4, <2>2, GoType
  <2>4. Steady(p)'
    BY <1>4, <2>1, <2>3 DEF Steady, AboutVendor
  <2>5. status' \in [Vendors -> Status] /\ seen' \subseteq Vendors \X Reasons
    BY <1>4, <2>1 DEF TypeOK, Status
  <2> QED
    BY <1>0, <1>4, <2>2, <2>3, <2>4, <2>5
<1>5. CASE InitiateSetStatus(p)
  BY <1>4, <1>5 DEF InitiateSetStatus
<1>6. CASE ReopenSetStatus(p)
  BY <1>4, <1>6 DEF ReopenSetStatus
<1>7. CASE ReopenPublish(p)
  <2> DEFINE local == [Idle EXCEPT !.pc = "assessing", !.subject = v]
  <2>1. /\ task[p].pc = "reopen_publish" /\ v \in Vendors /\ task[p].reason \in Reasons
        /\ UNCHANGED <<record, ledger, crashes, count, ticket, used>> /\ status' = status
        /\ seen' = seen \cup {<<v, task[p].reason>>}
    BY <1>7 DEF ReopenPublish, Steady, AboutVendor
  <2>2. /\ task[p].pc \in Busy /\ task[p].pc # "mark"
        /\ status' \in [Vendors -> Status] /\ seen' \subseteq Vendors \X Reasons
    BY <2>1 DEF Busy, TypeOK
  <2>3. CASE End(p)
    BY <1>0, <1>1, <2>1, <2>2, <2>3
  <2>4. CASE Become(p, local)
    <3>1. local \in Local /\ local.pc = "assessing" /\ local.subject = v
      BY <2>1, IdleType DEF Local
    <3> HIDE DEF local
    <3>2. /\ task' \in [Tasks -> Local] /\ \A q \in Tasks \ {p} : task'[q] = task[q]
          /\ task'[p] = local
      BY <2>4, <3>1, BecomeType
    <3>3. Steady(p)'
      BY <2>1, <3>1, <3>2 DEF Steady, AboutVendor
    <3> QED
      BY <1>0, <2>1, <2>2, <3>2, <3>3
  <2> QED
    BY <1>7, <2>3, <2>4 DEF ReopenPublish, OnDriftDetected, Assess
<1> QED
  BY <1>2, <1>3, <1>5, <1>6, <1>7

(* A compensating action that is entered is whole and not applied yet, and  *)
(* the others stay as they are.                                             *)
LEMMA ActionRecorded ==
    ASSUME LifecycleInv, NEW p \in Tasks, Moves(p), task[p].pc # "mark",
           task' \in [Tasks -> Local],
           NEW trace \in Traces, NEW subject, NEW before,
           \/ subject \in Vendors /\ before \in Status
           \/ subject \in Tickets /\ before \in TicketStatus,
           Record(trace, subject, before),
           UNCHANGED <<status, record, ticket, seen, used, crashes, count>>
    PROVE  LifecycleInv'
<1> DEFINE new == [trace |-> trace, subject |-> subject, before |-> before,
                   undone |-> FALSE, reverts |-> 0]
<1>1. ledger \in Seq(Action) /\ crashes \in Nat
  BY DEF LifecycleInv, TypeOK
<1>2. /\ new \in Action /\ ~new.undone /\ new.reverts = 0
      /\ new.subject \in Vendors => new.before \in Status
      /\ new.subject \in Tickets => new.before \in TicketStatus
  BY LifecycleAssumption DEF Action
<1>3. ledger' = Append(ledger, new)
  BY DEF Record
<1> HIDE DEF new
<1>4. /\ ledger' \in Seq(Action) /\ DOMAIN ledger \subseteq DOMAIN ledger'
      /\ \A i \in DOMAIN ledger : ledger'[i] = ledger[i]
      /\ \A i \in DOMAIN ledger' : i \in DOMAIN ledger \/ ledger'[i] = new
  BY <1>1, <1>2, <1>3
<1>5. TypeOK'
  BY <1>4 DEF LifecycleInv, TypeOK
<1>6. OneBusy' /\ \A q \in Tasks : Steady(q)'
  BY OneMoves
<1>7. Described'
  BY <1>2, <1>4 DEF LifecycleInv, Described
<1>8. Certified'
  BY DEF LifecycleInv, Certified
<1>9. Charged'
  BY <1>1, <1>2, <1>4 DEF LifecycleInv, Charged, Moves
<1>10. RevertedOnce'
  BY <1>1, <1>2, <1>4 DEF LifecycleInv, RevertedOnce
<1> QED
  BY <1>5, <1>6, <1>7, <1>8, <1>9, <1>10 DEF LifecycleInv

(* The three operations that enter one. *)
LEMMA RecordingKeeps ==
    ASSUME LifecycleInv, NEW p \in Tasks,
           InitiateRecordAction(p) \/ ReopenRecordAction(p) \/ TicketRecordAction(p)
    PROVE  LifecycleInv'
<1> TypeOK /\ task[p] \in Local /\ Steady(p)
  BY DEF LifecycleInv, TypeOK
<1>1. CASE InitiateRecordAction(p)
  <2>1. /\ task[p].pc = "initiate_action" /\ Go(p, "initiate_record")
        /\ Record(task[p].trace, task[p].subject, task[p].prev)
        /\ UNCHANGED <<status, record, ticket, seen, used, crashes, count>>
    BY <1>1 DEF InitiateRecordAction
  <2>2. /\ task[p].subject \in Vendors /\ task[p].trace \in Traces /\ task[p].prev \in Status
        /\ task[p].pc \in Busy /\ "initiate_record" \in Busy
    BY <2>1 DEF Steady, AboutVendor, Busy, Recording
  <2>3. /\ task' \in [Tasks -> Local] /\ \A q \in Tasks \ {p} : task'[q] = task[q]
        /\ task'[p].pc = "initiate_record" /\ task'[p].subject = task[p].subject
    BY <2>1, <2>2, GoType
  <2>4. Moves(p)
    BY <2>2, <2>3 DEF Moves, Steady
  <2> QED
    BY <2>1, <2>2, <2>3, <2>4, ActionRecorded
<1>2. CASE ReopenRecordAction(p)
  <2>1. /\ task[p].pc = "reopen_action" /\ Go(p, "reopen_publish")
        /\ Record(task[p].trace, task[p].subject, task[p].prev)
        /\ UNCHANGED <<status, record, ticket, seen, used, crashes, count>>
    BY <1>2 DEF ReopenRecordAction
  <2>2. /\ task[p].subject \in Vendors /\ task[p].trace \in Traces /\ task[p].prev \in Status
        /\ task[p].reason \in Reasons /\ task[p].pc \in Busy /\ "reopen_publish" \in Busy
    BY <2>1 DEF Steady, AboutVendor, Busy, Recording
  <2>3. /\ task' \in [Tasks -> Local] /\ \A q \in Tasks \ {p} : task'[q] = task[q]
        /\ task'[p].pc = "reopen_publish" /\ task'[p].subject = task[p].subject
        /\ task'[p].reason = task[p].reason
    BY <2>1, <2>2, GoType
  <2>4. Moves(p)
    BY <2>2, <2>3 DEF Moves, Steady
  <2> QED
    BY <2>1, <2>2, <2>3, <2>4, ActionRecorded
<1>3. CASE TicketRecordAction(p)
  <2>1. /\ task[p].pc = "ticket_action" /\ End(p)
        /\ Record(task[p].trace, task[p].subject, "not_opened")
        /\ UNCHANGED <<status, record, ticket, seen, used, crashes, count>>
    BY <1>3 DEF TicketRecordAction
  <2>2. /\ task[p].subject \in Tickets /\ task[p].trace \in Traces
        /\ "not_opened" \in TicketStatus /\ task[p].pc \in Busy
    BY <2>1 DEF Steady, TicketStatus, Busy, Recording
  <2>3. /\ task' \in [Tasks -> Local] /\ \A q \in Tasks \ {p} : task'[q] = task[q]
        /\ task'[p].pc = "idle"
    BY <2>1, IdleType, BecomeType DEF End
  <2>4. Moves(p)
    BY <2>2, <2>3 DEF Moves, Steady, AboutVendor
  <2> QED
    BY <2>1, <2>2, <2>3, <2>4, ActionRecorded
<1> QED
  BY <1>1, <1>2, <1>3

(* A deletion record is opened by an initiation, and confirmed once. *)
LEMMA RecordKeeps ==
    ASSUME LifecycleInv, NEW p \in Tasks, InitiateCreateRecord(p) \/ ConfirmRecord(p)
    PROVE  LifecycleInv'
<1> DEFINE v == task[p].subject
<1> TypeOK /\ task[p] \in Local /\ Steady(p)
  BY DEF LifecycleInv, TypeOK
<1>1. v \in Vendors /\ task[p].pc \in Busy /\ task[p].pc # "mark"
        /\ UNCHANGED <<status, ticket, ledger, seen, used, crashes>>
  BY DEF InitiateCreateRecord, ConfirmRecord, Steady, AboutVendor, Busy
<1>2. count[v].initiated \in Nat /\ count[v].confirmed \in Nat
  BY <1>1 DEF TypeOK
<1>3. /\ task' \in [Tasks -> Local] /\ \A q \in Tasks \ {p} : task'[q] = task[q]
      /\ \/ task'[p].pc = "idle"
         \/ task'[p].pc = "confirm_set" /\ task'[p].subject = v
  <2>1. CASE InitiateCreateRecord(p)
    BY <2>1, IdleType, BecomeType DEF InitiateCreateRecord, End
  <2>2. CASE ConfirmRecord(p)
    <3>1. Go(p, "confirm_set") /\ "confirm_set" \in Busy
      BY <2>2 DEF ConfirmRecord, Busy
    <3> QED
      BY <3>1, GoType
  <2> QED
    BY <2>1, <2>2
<1>4. Moves(p)
  BY <1>1, <1>3 DEF Moves, Steady, AboutVendor
<1>5. OneBusy' /\ \A q \in Tasks : Steady(q)'
  BY <1>4, OneMoves
<1>6. Described' /\ RevertedOnce' /\ Charged'
  BY <1>1, <1>3 DEF LifecycleInv, Described, RevertedOnce, Charged
<1>7. /\ record' \in [Vendors -> RecordStatus]
      /\ count' \in [Vendors -> [initiated : Nat, confirmed : Nat]]
      /\ Certified'
  <2>1. CASE InitiateCreateRecord(p)
    <3> DEFINE new == [count[v] EXCEPT !.initiated = count[v].initiated + 1]
    <3>1. /\ new \in [initiated : Nat, confirmed : Nat]
          /\ new.confirmed = count[v].confirmed /\ new.initiated = count[v].initiated + 1
      <4>1. count[v] \in [initiated : Nat, confirmed : Nat]
        BY <1>1 DEF TypeOK
      <4>2. count[v].initiated + 1 \in Nat
        BY <1>2
      <4> QED
        BY <4>1, <4>2
    <3>2. count' = [count EXCEPT ![v] = new] /\ record' = [record EXCEPT ![v] = "pending"]
      BY <2>1 DEF InitiateCreateRecord
    <3>3. count[v].confirmed <= count[v].initiated
      BY <1>1 DEF LifecycleInv, Certified
    <3> HIDE DEF new
    <3>4. /\ count'[v].confirmed <= count'[v].initiated
          /\ count'[v].confirmed < count'[v].initiated
      BY <1>1, <1>2, <3>1, <3>2, <3>3 DEF TypeOK
    <3> QED
      BY <1>1, <3>1, <3>2, <3>4 DEF TypeOK, RecordStatus, LifecycleInv, Certified
  <2>2. CASE ConfirmRecord(p)
    <3> DEFINE new == [count[v] EXCEPT !.confirmed = count[v].confirmed + 1]
    <3>1. /\ new \in [initiated : Nat, confirmed : Nat]
          /\ new.confirmed = count[v].confirmed + 1 /\ new.initiated = count[v].initiated
      <4>1. count[v] \in [initiated : Nat, confirmed : Nat]
        BY <1>1 DEF TypeOK
      <4>2. count[v].confirmed + 1 \in Nat
        BY <1>2
      <4> QED
        BY <4>1, <4>2
    <3>2. /\ count' = [count EXCEPT ![v] = new] /\ record' = [record EXCEPT ![v] = "confirmed"]
          /\ task[p].pc = "confirm_record"
      BY <2>2 DEF ConfirmRecord
    <3>3. count[v].confirmed < count[v].initiated
      BY <1>1, <3>2 DEF LifecycleInv, Certified, Steady
    <3> HIDE DEF new
    <3>4. count'[v].confirmed <= count'[v].initiated /\ record'[v] # "pending"
      BY <1>1, <1>2, <3>1, <3>2, <3>3 DEF TypeOK
    <3> QED
      BY <1>1, <3>1, <3>2, <3>4 DEF TypeOK, RecordStatus, LifecycleInv, Certified
  <2> QED
    BY <2>1, <2>2
<1>8. TypeOK'
  BY <1>1, <1>3, <1>7 DEF TypeOK
<1> QED
  BY <1>5, <1>6, <1>7, <1>8 DEF LifecycleInv

(* What a rollback is at: the most recent action that it has still to take  *)
(* back, which nobody has marked.                                           *)
LEMMA RollbackAt ==
    ASSUME LifecycleInv, NEW p \in Tasks, task[p].pc \in {"revert", "mark"}
    PROVE  LET i == Latest(task[p].todo) IN
           /\ i \in task[p].todo /\ i \in DOMAIN ledger /\ ledger[i] \in Action
           /\ ~ledger[i].undone
           /\ \A q \in Tasks : task[q].pc = "mark" => q = p
<1>1. /\ task[p].todo # {} /\ \A i \in task[p].todo : i \in DOMAIN ledger /\ ~ledger[i].undone
      /\ ledger \in Seq(Action)
  BY DEF LifecycleInv, Steady, TypeOK
<1>2. task[p].todo \in SUBSET (1 .. Len(ledger)) /\ Len(ledger) \in Nat
  BY <1>1
<1>3. Latest(task[p].todo) \in task[p].todo
  BY <1>1, <1>2, LatestIs
<1>4. \A q \in Tasks : task[q].pc = "mark" => q = p
  BY DEF LifecycleInv, OneBusy, Busy
<1> QED
  BY <1>1, <1>3, <1>4

(* An action is applied: from now on it counts as about to be marked. *)
LEMMA RevertKeeps ==
    ASSUME LifecycleInv, NEW p \in Tasks, RevertSubject(p)
    PROVE  LifecycleInv'
<1> DEFINE i == Latest(task[p].todo)
           new == [ledger[i] EXCEPT !.reverts = ledger[i].reverts + 1]
<1> TypeOK /\ task[p] \in Local /\ Steady(p)
  BY DEF LifecycleInv, TypeOK
<1>1. task[p].pc = "revert" /\ task[p].pc \in Busy /\ "mark" \in Busy /\ Go(p, "mark")
        /\ ledger' = [ledger EXCEPT ![i] = new]
        /\ UNCHANGED <<record, seen, used, crashes, count>>
  BY DEF RevertSubject, Busy
<1>2. /\ i \in task[p].todo /\ i \in DOMAIN ledger /\ ledger[i] \in Action /\ ~ledger[i].undone
      /\ \A q \in Tasks : task[q].pc # "mark"
      /\ ledger \in Seq(Action) /\ crashes \in Nat
  BY <1>1, RollbackAt DEF TypeOK
<1>3. /\ new \in Action /\ new.subject = ledger[i].subject /\ new.before = ledger[i].before
      /\ ~new.undone /\ new.reverts = ledger[i].reverts + 1
  BY <1>2 DEF Action
<1>4. /\ status' \in [Vendors -> Status] /\ ticket' \in [Tickets -> TicketStatus]
  <2>1. /\ ledger[i].subject \in Vendors \cup Tickets
        /\ ledger[i].subject \in Vendors => ledger[i].before \in Status
        /\ ledger[i].subject \in Tickets => ledger[i].before \in TicketStatus
    BY <1>2 DEF LifecycleInv, Described, Action
  <2>2. \/ /\ ledger[i].subject \in Vendors /\ ticket' = ticket
           /\ status' = [status EXCEPT ![ledger[i].subject] = ledger[i].before]
        \/ /\ ledger[i].subject \notin Vendors /\ status' = status
           /\ ticket' = [ticket EXCEPT ![ledger[i].subject] = ledger[i].before]
    BY DEF RevertSubject
  <2> QED
    BY <2>1, <2>2 DEF TypeOK
<1>5. /\ task' \in [Tasks -> Local] /\ \A q \in Tasks \ {p} : task'[q] = task[q]
      /\ task'[p].pc = "mark" /\ task'[p].todo = task[p].todo
  BY <1>1, GoType
<1> HIDE DEF new, i
<1>6. /\ ledger' \in Seq(Action) /\ DOMAIN ledger' = DOMAIN ledger /\ ledger'[i] = new
      /\ \A j \in DOMAIN ledger \ {i} : ledger'[j] = ledger[j]
  BY <1>1, <1>2, <1>3
<1>7. TypeOK'
  BY <1>1, <1>4, <1>5, <1>6 DEF TypeOK
<1>8. Steady(p)'
  <2>1. \A j \in task[p].todo : j \in DOMAIN ledger' /\ ~ledger'[j].undone
    BY <1>1, <1>3, <1>6 DEF Steady
  <2> QED
    BY <1>1, <1>5, <2>1 DEF Steady, AboutVendor
<1>9. OneBusy' /\ \A q \in Tasks : Steady(q)'
  BY <1>1, <1>5, <1>8, OneMoves DEF Moves
<1>10. Described'
  BY <1>3, <1>6 DEF LifecycleInv, Described
<1>11. Certified'
  BY <1>1 DEF LifecycleInv, Certified
<1>12. Charged'
  <2>1. task'[p].pc = "mark" /\ Latest(task'[p].todo) = i
    BY <1>5 DEF i
  <2>2. \A j \in DOMAIN ledger \ {i} : ledger[j].undone \/ ledger[j].reverts <= crashes
    BY <1>2 DEF LifecycleInv, Charged
  <2> QED
    BY <1>1, <1>6, <2>1, <2>2 DEF Charged
<1>13. RevertedOnce'
  <2>1. ledger[i].reverts <= crashes /\ ledger[i].reverts \in Nat
    BY <1>2 DEF LifecycleInv, Charged, Action
  <2>2. new.reverts <= 1 + crashes
    BY <1>2, <1>3, <2>1
  <2> QED
    BY <1>1, <1>6, <2>2 DEF LifecycleInv, RevertedOnce
<1> QED
  BY <1>7, <1>9, <1>10, <1>11, <1>12, <1>13 DEF LifecycleInv

(* The mark takes the action out of every later rollback. *)
LEMMA MarkKeeps ==
    ASSUME LifecycleInv, NEW p \in Tasks, MarkRolledBack(p)
    PROVE  LifecycleInv'
<1> DEFINE i == Latest(task[p].todo)
           new == [ledger[i] EXCEPT !.undone = TRUE]
           rest == task[p].todo \ {i}
           local == [task[p] EXCEPT !.pc = "revert", !.todo = rest]
<1> TypeOK /\ task[p] \in Local /\ Steady(p)
  BY DEF LifecycleInv, TypeOK
<1>1. task[p].pc = "mark" /\ task[p].pc \in Busy
        /\ ledger' = [ledger EXCEPT ![i] = new]
        /\ (IF rest = {} THEN Become(p, Idle) ELSE Become(p, local))
        /\ UNCHANGED <<status, record, ticket, seen, used, crashes, count>>
  BY DEF MarkRolledBack, Busy, End
<1>2. /\ i \in task[p].todo /\ i \in DOMAIN ledger /\ ledger[i] \in Action
      /\ \A q \in Tasks : task[q].pc = "mark" => q = p
      /\ ledger \in Seq(Action)
  BY <1>1, RollbackAt DEF TypeOK
<1>3. /\ new \in Action /\ new.subject = ledger[i].subject /\ new.before = ledger[i].before
      /\ new.undone /\ new.reverts = ledger[i].reverts
  BY <1>2 DEF Action
<1>4. local \in Local /\ local.pc = "revert" /\ local.todo = rest
  BY DEF Local, Busy
<1> HIDE DEF new, local
<1>5. /\ task' \in [Tasks -> Local] /\ \A q \in Tasks \ {p} : task'[q] = task[q]
      /\ \/ task'[p].pc = "idle"
         \/ task'[p].pc = "revert" /\ task'[p].todo = rest /\ rest # {}
  BY <1>1, <1>4, IdleType, BecomeType
<1>6. \A j \in rest : j \in DOMAIN ledger /\ j # i /\ ~ledger[j].undone
  BY <1>1 DEF Steady
<1>7. \A q \in Tasks : task[q].pc = "mark" => Latest(task[q].todo) = i
  BY <1>2
<1> HIDE DEF i, rest
<1>8. /\ ledger' \in Seq(Action) /\ DOMAIN ledger' = DOMAIN ledger /\ ledger'[i] = new
      /\ \A j \in DOMAIN ledger \ {i} : ledger'[j] = ledger[j]
  BY <1>1, <1>2, <1>3
<1>9. TypeOK'
  BY <1>1, <1>5, <1>8 DEF TypeOK
<1>10. Steady(p)'
  <2>1. \A j \in rest : j \in DOMAIN ledger' /\ ~ledger'[j].undone
    BY <1>6, <1>8
  <2> QED
    BY <1>5, <2>1 DEF Steady, AboutVendor
<1>11. OneBusy' /\ \A q \in Tasks : Steady(q)'
  BY <1>1, <1>5, <1>10, OneMoves DEF Moves
<1>12. Described'
  BY <1>3, <1>8 DEF LifecycleInv, Described
<1>13. Certified'
  BY <1>1 DEF LifecycleInv, Certified
<1>14. Charged'
  <2>1. \A j \in DOMAIN ledger \ {i} : ledger[j].undone \/ ledger[j].reverts <= crashes
    BY <1>7 DEF LifecycleInv, Charged
  <2> QED
    BY <1>1, <1>3, <1>8, <2>1 DEF Charged
<1>15. RevertedOnce'
  BY <1>1, <1>2, <1>3, <1>8 DEF LifecycleInv, RevertedOnce
<1> QED
  BY <1>9, <1>11, <1>12, <1>13, <1>14, <1>15 DEF LifecycleInv

(* A crash pays for the action that its instance may have left applied and  *)
(* not marked.                                                              *)
LEMMA CrashKeeps ==
    ASSUME LifecycleInv, NEW i \in Instances, Crash(i)
    PROVE  LifecycleInv'
<1>1. /\ UNCHANGED <<status, record, ticket, ledger, seen, used, count>>
      /\ crashes' = crashes + 1 /\ crashes \in Nat /\ crashes' \in 0 .. MaxCrashes
      /\ task' \in [Tasks -> Local]
      /\ \A p \in Tasks : task'[p] \in {Idle, task[p]}
  BY IdleType, LifecycleAssumption DEF Crash, store, LifecycleInv, TypeOK
<1>2. TypeOK'
  BY <1>1 DEF LifecycleInv, TypeOK
<1>3. OneBusy'
  BY <1>1, IdleType DEF LifecycleInv, OneBusy, Busy, Recording
<1>4. ASSUME NEW p \in Tasks
      PROVE  Steady(p)'
  <2>1. CASE task'[p] = Idle
    BY <2>1, IdleType DEF Steady, AboutVendor
  <2>2. CASE task'[p] = task[p]
    BY <1>1, <2>2 DEF LifecycleInv, Steady
  <2> QED
    BY <1>1, <2>1, <2>2
<1>5. Described' /\ Certified'
  BY <1>1 DEF LifecycleInv, Described, Certified
<1>6. ASSUME NEW j \in DOMAIN ledger
      PROVE  ledger[j].reverts \in Nat /\ ledger[j].reverts <= 1 + crashes
  <2>1. ledger[j] \in Action
    BY DEF LifecycleInv, TypeOK
  <2> QED
    BY <2>1 DEF LifecycleInv, RevertedOnce, Action
<1>7. RevertedOnce' /\ Charged'
  BY <1>1, <1>6 DEF RevertedOnce, Charged
<1> QED
  BY <1>2, <1>3, <1>4, <1>5, <1>7 DEF LifecycleInv

(* The invariant holds at the start. *)
LEMMA InvInit == Init => LifecycleInv
<1> SUFFICES ASSUME Init
             PROVE  LifecycleInv
  OBVIOUS
<1>1. TypeOK
  BY IdleType, LifecycleAssumption DEF Init, TypeOK, Status, RecordStatus, TicketStatus
<1>2. \A p \in Tasks : task[p].pc = "idle"
  BY IdleType DEF Init
<1>3. OneBusy /\ \A p \in Tasks : Steady(p)
  BY <1>2 DEF OneBusy, Steady, Busy, Recording, AboutVendor
<1>4. DOMAIN ledger = {}
  BY DEF Init
<1>5. Described /\ Charged /\ RevertedOnce
  BY <1>4 DEF Described, Charged, RevertedOnce
<1>6. Certified
  BY DEF Init, Certified
<1> QED
  BY <1>1, <1>3, <1>5, <1>6 DEF LifecycleInv

(* Every step keeps it. *)
LEMMA InvStep == LifecycleInv /\ [Next]_vars => LifecycleInv'
<1> SUFFICES ASSUME LifecycleInv, [Next]_vars
             PROVE  LifecycleInv'
  OBVIOUS
<1>1. ASSUME NEW p \in Tasks, Start(p)
      PROVE  LifecycleInv'
  BY <1>1, StartCalm, CalmKeeps
<1>2. ASSUME NEW p \in Tasks, Continue(p)
      PROVE  LifecycleInv'
  <2>1. CASE \/ CompleteAssessment(p) \/ FailAssessment(p) \/ InitiateSetStatus(p)
             \/ ConfirmSetStatus(p) \/ ReopenSetStatus(p) \/ ReopenPublish(p)
    BY <2>1, StatusCalm, CalmKeeps
  <2>2. CASE InitiateRecordAction(p) \/ ReopenRecordAction(p) \/ TicketRecordAction(p)
    BY <2>2, RecordingKeeps
  <2>3. CASE InitiateCreateRecord(p) \/ ConfirmRecord(p)
    BY <2>3, RecordKeeps
  <2>4. CASE RevertSubject(p)
    BY <2>4, RevertKeeps
  <2>5. CASE MarkRolledBack(p)
    BY <2>5, MarkKeeps
  <2> QED
    BY <1>2, <2>1, <2>2, <2>3, <2>4, <2>5 DEF Continue
<1>3. ASSUME NEW i \in Instances, Crash(i)
      PROVE  LifecycleInv'
  BY <1>3, CrashKeeps
<1>4. CASE UNCHANGED vars
  BY <1>4 DEF vars, LifecycleInv, TypeOK, OneBusy, Steady, Described, Certified, Charged,
     RevertedOnce
<1> QED
  BY <1>1, <1>2, <1>3, <1>4 DEF Next
-----------------------------------------------------------------------------
(* The inductive invariant: the argument behind all that follows. *)
THEOREM LifecycleInvariant == Spec => []LifecycleInv
BY InvInit, InvStep, PTL DEF Spec

(* Type correctness of vendors, deletion records, tickets and the ledger. *)
THEOREM LifecycleTypeCorrect == Spec => []TypeOK
<1>1. LifecycleInv => TypeOK
  BY DEF LifecycleInv
<1> QED
  BY <1>1, LifecycleInvariant, PTL

(* A compensating action names the status that its operation replaced. *)
THEOREM LifecycleBeforeCurrent == Spec => []BeforeValueCurrent
<1>1. LifecycleInv => BeforeValueCurrent
  BY DEF LifecycleInv, Steady, BeforeValueCurrent
<1> QED
  BY <1>1, LifecycleInvariant, PTL

(* Drift Sentinel puts no vendor that is leaving back under review. *)
THEOREM LifecycleReopenSpares == Spec => []ReopenSparesLeaving
<1>1. LifecycleInv => ReopenSparesLeaving
  BY DEF LifecycleInv, Steady, ReopenSparesLeaving
<1> QED
  BY <1>1, LifecycleInvariant, PTL

(* A deletion is certified at most once for each offboarding. *)
THEOREM LifecycleOneConfirmation == Spec => []OneConfirmationPerOffboarding
<1>1. LifecycleInv => OneConfirmationPerOffboarding
  BY DEF LifecycleInv, Certified, OneConfirmationPerOffboarding
<1> QED
  BY <1>1, LifecycleInvariant, PTL

(* A rollback applies an action once, and once more at most for each crash. *)
THEOREM LifecycleRevertedOnce == Spec => []RevertedOnce
<1>1. LifecycleInv => RevertedOnce
  BY DEF LifecycleInv
<1> QED
  BY <1>1, LifecycleInvariant, PTL
=============================================================================
