--------------------------- MODULE Platform_proofs ---------------------------
(***************************************************************************)
(* Two parts of the platform that the agents rest on, each on its own.     *)
(*                                                                         *)
(* DocumentStore: the memory bank's lists lose nothing on any number of    *)
(* instances, for a document is made before something is appended to it;   *)
(* the audit log's lose nothing in one process.  For every number of       *)
(* documents, entries, tasks and crashes, and both backends.               *)
(*                                                                         *)
(* RateLimiter: what the fixed window guarantees for every limit, window,  *)
(* set of keys and arrival of requests.                                    *)
(***************************************************************************)
EXTENDS DocumentStore, Naturals, Sequences, TLAPS

(* audit_log and memory_bank_vendor_state are two collections. *)
Separate == Logs \cap Banks = {}

(* Whoever is about to append to a vendor's memory finds the document there. *)
BanksReady ==
    \A p \in Tasks :
        /\ task[p].pc \in Busy /\ task[p].doc \in Banks => task[p].doc \in exists
        /\ task[p].pc = "creating" => task[p].doc \notin Banks

BankInv == TypeOK /\ BanksReady /\ BanksKept

(* At most one call is between its look for the document and the end. *)
OneBusy == \A p, q \in Tasks : task[p].pc \in Busy /\ task[q].pc \in Busy => p = q

(* A document that a call is going to make is still not there. *)
LookHolds ==
    \A p \in Tasks :
        /\ task[p].pc = "creating" => task[p].doc \notin exists
        /\ task[p].pc = "uniting" => task[p].doc \in exists

(* What is not there has no entries. *)
NothingThere == \A d \in Docs : d \notin exists => entries[d] = {}

AllKept == \A d \in Docs : appended[d] \subseteq entries[d]

LogInv == TypeOK /\ OneBusy /\ LookHolds /\ NothingThere /\ AllKept

-----------------------------------------------------------------------------
(* A task at a control point of Busy has a document and an entry. *)
LEMMA BusyTask ==
    ASSUME TypeOK, NEW p \in Tasks, task[p].pc \in Busy
    PROVE  task[p] \in [pc : Busy, doc : Docs, entry : Entries]
BY DEF TypeOK, Local, Busy

(* Every step keeps the types (DocumentStore, AuditLog, MemoryBank). *)
LEMMA TypeStep == TypeOK /\ [Next]_vars => TypeOK'
<1> SUFFICES ASSUME TypeOK, [Next]_vars
             PROVE  TypeOK'
  OBVIOUS
<1>1. ASSUME NEW p \in Tasks, NEW d \in Docs, NEW e \in Entries, Begin(p, d, e)
      PROVE  /\ task' \in [Tasks -> Local] /\ taken' \subseteq Entries
             /\ entries' = entries /\ appended' = appended
  BY <1>1 DEF TypeOK, Begin, Local, Busy
<1>2. ASSUME NEW p \in Tasks, NEW d \in Logs, NEW e \in Entries, Record(p, d, e)
      PROVE  TypeOK'
  BY <1>1, <1>2 DEF TypeOK, Record, Docs
<1>3. ASSUME NEW p \in Tasks, NEW d \in Banks, NEW e \in Entries, Merge(p, d, e)
      PROVE  TypeOK'
  BY <1>1, <1>3 DEF TypeOK, Merge, Docs
<1>4. ASSUME NEW p \in Tasks, NEW pc \in Busy, task[p].pc \in Busy, Go(p, pc)
      PROVE  task' \in [Tasks -> Local]
  BY <1>4, BusyTask DEF TypeOK, Go, Local
<1>5. ASSUME NEW p \in Tasks, Look(p)
      PROVE  TypeOK'
  <2>1. task' \in [Tasks -> Local]
    BY <1>4, <1>5 DEF Look, Busy
  <2> QED
    BY <1>5, <2>1 DEF TypeOK, Look, store
<1>6. ASSUME NEW p \in Tasks, CreateEmpty(p)
      PROVE  TypeOK'
  <2>1. task' \in [Tasks -> Local]
    BY <1>4, <1>6 DEF CreateEmpty, Busy
  <2>2. task[p].doc \in Docs
    BY <1>6, BusyTask DEF CreateEmpty, Busy
  <2> QED
    BY <1>6, <2>1, <2>2 DEF TypeOK, CreateEmpty
<1>7. ASSUME NEW p \in Tasks, task[p].pc \in Busy, Appended(p)
      PROVE  /\ task' \in [Tasks -> Local] /\ taken' = taken
             /\ entries' \in [Docs -> SUBSET Entries]
             /\ appended' \in [Docs -> SUBSET Entries]
  <2>1. task[p].doc \in Docs /\ task[p].entry \in Entries
    BY <1>7, BusyTask
  <2> QED
    BY <1>7, <2>1 DEF TypeOK, Appended, Local, Idle
<1>8. ASSUME NEW p \in Tasks, Unite(p)
      PROVE  TypeOK'
  BY <1>7, <1>8 DEF TypeOK, Unite, Busy
<1>9. ASSUME NEW p \in Tasks, AppendLocked(p)
      PROVE  TypeOK'
  <2>1. task[p].doc \in Docs
    BY <1>9, BusyTask DEF AppendLocked, Busy
  <2> QED
    BY <1>7, <1>9, <2>1 DEF TypeOK, AppendLocked, Busy
<1>10. ASSUME NEW i \in Instances, Crash(i)
       PROVE  TypeOK'
  <2>1. task' \in [Tasks -> Local]
    BY <1>10 DEF TypeOK, Crash, Local, Idle
  <2> QED
    BY <1>10, <2>1 DEF TypeOK, Crash, store
<1>11. CASE UNCHANGED vars
  BY <1>11 DEF TypeOK, vars, store
<1> QED
  BY <1>2, <1>3, <1>5, <1>6, <1>8, <1>9, <1>10, <1>11 DEF Next, Step

(* The two invariants hold at the start. *)
LEMMA Start == Init => BankInv /\ LogInv
<1> SUFFICES ASSUME Init
             PROVE  BankInv /\ LogInv
  OBVIOUS
<1>1. TypeOK
  BY DEF Init, TypeOK, Local, Idle
<1>2. \A p \in Tasks : task[p].pc = "idle"
  BY DEF Init, Idle
<1> QED
  BY <1>1, <1>2 DEF Init, BankInv, BanksReady, BanksKept, LogInv, OneBusy, LookHolds,
                    NothingThere, AllKept, Busy, Docs

-----------------------------------------------------------------------------
(* Every step keeps what the memory bank rests on. *)
LEMMA BankStep == Separate /\ BankInv /\ [Next]_vars => BankInv'
<1> SUFFICES ASSUME Separate, BankInv, [Next]_vars
             PROVE  BankInv'
  OBVIOUS
<1>1. TypeOK /\ TypeOK'
  BY TypeStep DEF BankInv
<1>2. ASSUME NEW p \in Tasks, NEW d \in Logs, NEW e \in Entries, Record(p, d, e)
      PROVE  BanksReady' /\ BanksKept'
  <2>1. \A q \in Tasks : task'[q] = IF q = p THEN [pc |-> "appending", doc |-> d, entry |-> e]
                                    ELSE task[q]
    BY <1>1, <1>2 DEF TypeOK, Record, Begin
  <2>2. d \notin Banks
    BY DEF Separate
  <2>3. exists' = exists /\ entries' = entries /\ appended' = appended
    BY <1>2 DEF Record, Begin
  <2> QED
    BY <2>1, <2>2, <2>3 DEF BankInv, BanksReady, BanksKept
<1>3. ASSUME NEW p \in Tasks, NEW d \in Banks, NEW e \in Entries, Merge(p, d, e)
      PROVE  BanksReady' /\ BanksKept'
  <2>1. \A q \in Tasks : task'[q] = IF q = p THEN [pc |-> "appending", doc |-> d, entry |-> e]
                                    ELSE task[q]
    BY <1>1, <1>3 DEF TypeOK, Merge, Begin
  <2>2. exists' = exists \cup {d} /\ entries' = entries /\ appended' = appended
    BY <1>3 DEF Merge, Begin
  <2> QED
    BY <2>1, <2>2 DEF BankInv, BanksReady, BanksKept
<1>4. ASSUME NEW p \in Tasks, Look(p)
      PROVE  BanksReady' /\ BanksKept'
  <2>1. task[p].pc \in Busy /\ task[p].doc \in Docs
    BY <1>1, <1>4, BusyTask DEF Look, Busy
  <2>2. \A q \in Tasks : q # p => task'[q] = task[q]
    BY <1>1, <1>4 DEF TypeOK, Look, Go
  <2>3. /\ task'[p].doc = task[p].doc
        /\ task'[p].pc = IF task[p].doc \in exists THEN "uniting" ELSE "creating"
    BY <1>1, <1>4, BusyTask DEF TypeOK, Look, Go, Busy
  <2>4. exists' = exists /\ entries' = entries /\ appended' = appended
    BY <1>4 DEF Look, store
  <2> QED
    BY <2>1, <2>2, <2>3, <2>4 DEF BankInv, BanksReady, BanksKept
<1>5. ASSUME NEW p \in Tasks, CreateEmpty(p)
      PROVE  BanksReady' /\ BanksKept'
  <2>1. task[p].doc \in Docs /\ task[p].doc \notin Banks
    BY <1>1, <1>5, BusyTask DEF CreateEmpty, Busy, BankInv, BanksReady
  <2>2. \A q \in Tasks : q # p => task'[q] = task[q]
    BY <1>1, <1>5 DEF TypeOK, CreateEmpty, Go
  <2>3. task'[p].doc = task[p].doc /\ task'[p].pc = "uniting"
    BY <1>1, <1>5, BusyTask DEF TypeOK, CreateEmpty, Go, Busy
  <2>4. \A d \in Banks : entries'[d] = entries[d]
    BY <1>1, <1>5, <2>1 DEF TypeOK, CreateEmpty, Docs
  <2>5. exists' = exists \cup {task[p].doc} /\ appended' = appended
    BY <1>5 DEF CreateEmpty
  <2> QED
    BY <2>1, <2>2, <2>3, <2>4, <2>5 DEF BankInv, BanksReady, BanksKept
<1>6. ASSUME NEW p \in Tasks, task[p].pc \in Busy, Appended(p), exists \subseteq exists'
      PROVE  BanksReady' /\ BanksKept'
  <2>1. \A q \in Tasks : task'[q] = IF q = p THEN Idle ELSE task[q]
    BY <1>1, <1>6 DEF TypeOK, Appended
  <2>2. BanksReady'
    BY <1>6, <2>1 DEF BankInv, BanksReady, Idle, Busy
  <2>3. \A d \in Banks : appended'[d] \subseteq entries'[d]
    BY <1>1, <1>6 DEF TypeOK, Appended, BankInv, BanksKept, Docs
  <2> QED
    BY <2>2, <2>3 DEF BanksKept
<1>7. ASSUME NEW p \in Tasks, Unite(p) \/ AppendLocked(p)
      PROVE  BanksReady' /\ BanksKept'
  BY <1>6, <1>7 DEF Unite, AppendLocked, Busy
<1>8. ASSUME NEW i \in Instances, Crash(i)
      PROVE  BanksReady' /\ BanksKept'
  BY <1>8 DEF Crash, Idle, Busy, store, BankInv, BanksReady, BanksKept
<1>9. ASSUME UNCHANGED vars
      PROVE  BanksReady' /\ BanksKept'
  BY <1>9 DEF vars, store, BankInv, BanksReady, BanksKept
<1>10. BanksReady' /\ BanksKept'
  BY <1>2, <1>3, <1>4, <1>5, <1>7, <1>8, <1>9 DEF Next, Step
<1> QED
  BY <1>1, <1>10 DEF BankInv

(* Nothing that was entered in the memory bank is lost, on any number of     *)
(* instances (MemoryBank.add_negotiated_exception, add_accepted_risk).       *)
THEOREM BankKeepsAll ==
    ASSUME Separate
    PROVE  Spec => []BanksKept
<1>1. Init => BankInv
  BY Start
<1>2. BankInv /\ [Next]_vars => BankInv'
  BY BankStep
<1>3. BankInv => BanksKept
  BY DEF BankInv
<1> QED
  BY <1>1, <1>2, <1>3, PTL DEF Spec

-----------------------------------------------------------------------------
(* In one process a task moves only when no other is at a point of Busy. *)
LEMMA Alone ==
    ASSUME OneInstance, OneBusy, NEW p \in Tasks,
           task[p].pc \in Busy \/ LoopFree(p)
    PROVE  \A q \in Tasks \ {p} : task[q].pc \notin Busy
BY DEF OneInstance, OneBusy, LoopFree

(* A step of a task leaves the other tasks alone and not at a point of Busy, *)
(* so the invariant is about this task only.                                 *)
LEMMA OneMoves ==
    ASSUME OneInstance, LogInv, NEW p \in Tasks,
           task[p].pc \in Busy \/ LoopFree(p),
           \A q \in Tasks \ {p} : task'[q] = task[q],
           task'[p].pc = "creating" => task'[p].doc \notin exists',
           task'[p].pc = "uniting" => task'[p].doc \in exists'
    PROVE  OneBusy' /\ LookHolds'
<1>1. \A q \in Tasks \ {p} : task'[q].pc \notin Busy
  BY Alone DEF LogInv
<1>2. OneBusy'
  BY <1>1 DEF OneBusy
<1>3. LookHolds'
  BY <1>1 DEF LookHolds, Busy
<1> QED
  BY <1>2, <1>3

Grows == \A d \in Docs : entries[d] \subseteq entries'[d]

(* Every step keeps what the audit log rests on, and no list shrinks. *)
LEMMA LogStep == OneInstance /\ LogInv /\ [Next]_vars => LogInv' /\ Grows
<1> SUFFICES ASSUME OneInstance, LogInv, [Next]_vars
             PROVE  LogInv' /\ Grows
  OBVIOUS
<1> DEFINE Goal == /\ OneBusy' /\ LookHolds'
                   /\ NothingThere' /\ AllKept' /\ Grows
<1>1. TypeOK /\ TypeOK'
  BY TypeStep DEF LogInv
<1>2. ASSUME NEW p \in Tasks, NEW d \in Docs, NEW e \in Entries, Begin(p, d, e),
             exists \subseteq exists'
      PROVE  Goal
  <2>1. LoopFree(p) /\ entries' = entries /\ appended' = appended
    BY <1>2 DEF Begin
  <2>2. task'[p].pc = "appending" /\ \A q \in Tasks \ {p} : task'[q] = task[q]
    BY <1>1, <1>2 DEF TypeOK, Begin
  <2>3. OneBusy' /\ LookHolds'
    BY <2>1, <2>2, OneMoves
  <2> QED
    BY <1>2, <2>1, <2>3 DEF LogInv, NothingThere, AllKept, Grows
<1>3. ASSUME NEW p \in Tasks, Look(p)
      PROVE  Goal
  <2>1. task[p].pc \in Busy
    BY <1>3 DEF Look, Busy
  <2>2. exists' = exists /\ entries' = entries /\ appended' = appended
    BY <1>3 DEF Look, store
  <2>3. \A q \in Tasks \ {p} : task'[q] = task[q]
    BY <1>1, <1>3 DEF TypeOK, Look, Go
  <2>4. /\ task'[p].doc = task[p].doc
        /\ task'[p].pc = IF task[p].doc \in exists THEN "uniting" ELSE "creating"
    BY <1>1, <1>3, <2>1, BusyTask DEF TypeOK, Look, Go
  <2>5. OneBusy' /\ LookHolds'
    BY <2>1, <2>2, <2>3, <2>4, OneMoves
  <2> QED
    BY <2>2, <2>5 DEF LogInv, NothingThere, AllKept, Grows
<1>4. ASSUME NEW p \in Tasks, CreateEmpty(p)
      PROVE  Goal
  <2>1. task[p].pc \in Busy /\ task[p].doc \in Docs
    BY <1>1, <1>4, BusyTask DEF CreateEmpty, Busy
  <2>2. entries[task[p].doc] = {}
    BY <1>4, <2>1 DEF CreateEmpty, LogInv, LookHolds, NothingThere
  <2>3. entries' = entries
    BY <1>1, <1>4, <2>1, <2>2 DEF TypeOK, CreateEmpty
  <2>4. exists' = exists \cup {task[p].doc} /\ appended' = appended
    BY <1>4 DEF CreateEmpty
  <2>5. \A q \in Tasks \ {p} : task'[q] = task[q]
    BY <1>1, <1>4 DEF TypeOK, CreateEmpty, Go
  <2>6. task'[p].doc = task[p].doc /\ task'[p].pc = "uniting"
    BY <1>1, <1>4, <2>1, BusyTask DEF TypeOK, CreateEmpty, Go
  <2>7. OneBusy' /\ LookHolds'
    BY <2>1, <2>4, <2>5, <2>6, OneMoves
  <2> QED
    BY <2>3, <2>4, <2>7 DEF LogInv, NothingThere, AllKept, Grows
<1>5. ASSUME NEW p \in Tasks, task[p].pc \in Busy, Appended(p),
             exists \subseteq exists', task[p].doc \in exists'
      PROVE  Goal
  <2>1. task[p].doc \in Docs
    BY <1>1, <1>5, BusyTask
  <2>2. \A q \in Tasks : task'[q] = IF q = p THEN Idle ELSE task[q]
    BY <1>1, <1>5 DEF TypeOK, Appended
  <2>3. OneBusy' /\ LookHolds'
    BY <1>5, <2>2, OneMoves DEF Idle
  <2>4. \A d \in Docs : /\ entries[d] \subseteq entries'[d]
                        /\ d # task[p].doc => entries'[d] = entries[d]
    BY <1>1, <1>5 DEF TypeOK, Appended
  <2>5. \A d \in Docs : appended'[d] \subseteq entries'[d]
    BY <1>1, <1>5 DEF TypeOK, Appended, LogInv, AllKept
  <2>6. NothingThere'
    BY <1>5, <2>4 DEF LogInv, NothingThere
  <2> QED
    BY <2>3, <2>4, <2>5, <2>6 DEF AllKept, Grows
<1>6. ASSUME NEW p \in Tasks, Unite(p) \/ AppendLocked(p)
      PROVE  Goal
  <2>1. task[p].pc \in Busy /\ Appended(p) /\ exists \subseteq exists'
    BY <1>6 DEF Unite, AppendLocked, Busy
  <2>2. task[p].doc \in exists'
    BY <1>6 DEF Unite, AppendLocked, LogInv, LookHolds
  <2> QED
    BY <1>5, <2>1, <2>2
<1>7. ASSUME NEW i \in Instances, Crash(i)
      PROVE  Goal
  <2>1. \A q \in Tasks : task'[q] = Idle \/ task'[q] = task[q]
    BY <1>7 DEF Crash
  <2>2. exists' = exists /\ entries' = entries /\ appended' = appended
    BY <1>7 DEF Crash, store
  <2>3. OneBusy'
    BY <2>1 DEF LogInv, OneBusy, Idle, Busy
  <2>4. LookHolds'
    BY <2>1, <2>2 DEF LogInv, LookHolds, Idle
  <2> QED
    BY <2>2, <2>3, <2>4 DEF LogInv, NothingThere, AllKept, Grows
<1>8. ASSUME UNCHANGED vars
      PROVE  Goal
  BY <1>8 DEF vars, store, LogInv, OneBusy, LookHolds, NothingThere, AllKept, Grows
<1>9. ASSUME NEW p \in Tasks, Step(p)
      PROVE  Goal
  <2>1. ASSUME NEW d \in Logs, NEW e \in Entries, Record(p, d, e)
        PROVE  Goal
    BY <1>2, <2>1 DEF Record, Docs
  <2>2. ASSUME NEW d \in Banks, NEW e \in Entries, Merge(p, d, e)
        PROVE  Goal
    BY <1>2, <2>2 DEF Merge, Docs
  <2> QED
    BY <1>3, <1>4, <1>6, <1>9, <2>1, <2>2 DEF Step
<1>10. Goal
  BY <1>7, <1>8, <1>9 DEF Next
<1> QED
  BY <1>1, <1>10 DEF LogInv

(* In one process no audit entry is lost (AuditLog.record). *)
THEOREM LogKeepsAll ==
    ASSUME OneInstance
    PROVE  Spec => []LogsKept
<1>1. Init => LogInv
  BY Start
<1>2. LogInv /\ [Next]_vars => LogInv'
  BY LogStep
<1>3. LogInv => LogsKept
  BY DEF LogInv, AllKept, LogsKept, Docs
<1> QED
  BY <1>1, <1>2, <1>3, PTL DEF Spec

(* In one process a trace that list_traces or get_assessment_status called  *)
(* completed is never called running again.                                 *)
THEOREM TraceStaysCompleted ==
    ASSUME OneInstance
    PROVE  Spec => CompletedStays
<1>1. Init => LogInv
  BY Start
<1>2. LogInv /\ [Next]_vars => LogInv'
  BY LogStep
<1>3. LogInv /\ [Next]_vars => [\A d \in Logs : Completed(d) => Completed(d)']_vars
  BY LogStep DEF Grows, Completed, Docs
<1> QED
  BY <1>1, <1>2, <1>3, PTL DEF Spec, CompletedStays

-----------------------------------------------------------------------------
(* The limiter of one instance. *)
CONSTANTS ApiKeys, LoginKey, MaxRequests, Window

VARIABLES now, bucket, times

Limiter == INSTANCE RateLimiter

(* A limit of 0 is excluded: the first request of a window is let through *)
(* without a look at the limit.                                           *)
Positive == MaxRequests \in Nat \ {0} /\ Window \in Nat

(* The invariant is about one key: the times s of its requests, the count c *)
(* and the start b of its bucket, and the time t.  Requests were let through *)
(* in the order of the clock.                                                *)
Ordered(s, t) ==
    /\ \A i \in 1 .. Len(s) : s[i] <= t
    /\ \A i, j \in 1 .. Len(s) : i <= j => s[i] <= s[j]

(* The bucket counts the last requests and knows when the first was. *)
Counted(s, c, b) ==
    /\ c <= Len(s)
    /\ IF c = 0 THEN Len(s) = 0 ELSE s[Len(s) - c + 1] = b

(* The limit before the window opened, the window before was open at most: *)
(* what is older is a whole window older than this window.                 *)
Apart(s, c, b) ==
    \A i \in 1 .. Len(s) : i + MaxRequests <= Len(s) - c + 1 => s[i] + Window <= b

(* TwiceTheLimit for one key. *)
Twice(s) ==
    \A i, j \in 1 .. Len(s) : j = i + 2 * MaxRequests => s[i] + Window <= s[j]

Good(s, c, b, t) == Ordered(s, t) /\ Counted(s, c, b) /\ Apart(s, c, b) /\ Twice(s)

RateInv ==
    /\ Limiter!TypeOK
    /\ \A k \in Limiter!Keys : Good(times[k], bucket[k].count, bucket[k].started, now)

-----------------------------------------------------------------------------
(* What Append leaves and adds. *)
LEMMA AppendLast ==
    ASSUME NEW s \in Seq(Nat), NEW t \in Nat
    PROVE  /\ Append(s, t) \in Seq(Nat)
           /\ Len(s) \in Nat
           /\ Len(Append(s, t)) = Len(s) + 1
           /\ \A i \in 1 .. Len(s) : Append(s, t)[i] = s[i] /\ s[i] \in Nat
           /\ Append(s, t)[Len(s) + 1] = t
OBVIOUS

(* A request that is let through now comes last. *)
LEMMA StaysOrdered ==
    ASSUME NEW s \in Seq(Nat), NEW t \in Nat, Ordered(s, t)
    PROVE  Ordered(Append(s, t), t)
<1> DEFINE n == Len(s)
           r == Append(s, t)
<1>1. n \in Nat /\ Len(r) = n + 1 /\ r[n + 1] = t
  BY AppendLast
<1>2. \A i \in 1 .. n : r[i] = s[i]
  BY AppendLast
<1>3. \A i \in 1 .. n + 1 : i \in 1 .. n \/ i = n + 1
  BY <1>1
<1>4. \A i \in 1 .. n + 1 : r[i] <= t
  BY <1>1, <1>2, <1>3 DEF Ordered
<1>5. ASSUME NEW i \in 1 .. n + 1, NEW j \in 1 .. n + 1, i <= j
      PROVE  r[i] <= r[j]
  <2>1. CASE j = n + 1
    BY <1>1, <1>4, <2>1
  <2>2. CASE j \in 1 .. n
    <3>1. i \in 1 .. n
      BY <1>1, <1>5, <2>2
    <3> QED
      BY <1>2, <1>5, <2>2, <3>1 DEF Ordered
  <2> QED
    BY <1>3, <2>1, <2>2
<1> QED
  BY <1>1, <1>4, <1>5 DEF Ordered

(* The bound for the requests so far and for the last one is the bound for  *)
(* all of them.                                                             *)
LEMMA StaysTwice ==
    ASSUME Positive, NEW s \in Seq(Nat), NEW t \in Nat, Twice(s),
           \A i \in 1 .. Len(s) : i + 2 * MaxRequests = Len(s) + 1 => s[i] + Window <= t
    PROVE  Twice(Append(s, t))
<1> DEFINE n == Len(s)
           r == Append(s, t)
<1>1. n \in Nat /\ Len(r) = n + 1 /\ r[n + 1] = t
  BY AppendLast
<1>2. \A i \in 1 .. n : r[i] = s[i]
  BY AppendLast
<1>3. ASSUME NEW i \in 1 .. n + 1, NEW j \in 1 .. n + 1, j = i + 2 * MaxRequests
      PROVE  r[i] + Window <= r[j]
  <2>1. i \in 1 .. n
    BY <1>1, <1>3 DEF Positive
  <2>2. CASE j = n + 1
    <3>1. s[i] + Window <= t
      BY <1>3, <2>1, <2>2
    <3> QED
      BY <1>1, <1>2, <2>1, <2>2, <3>1
  <2>3. CASE j \in 1 .. n
    <3>1. s[i] + Window <= s[j]
      BY <1>3, <2>1, <2>3 DEF Twice
    <3> QED
      BY <1>2, <2>1, <2>3, <3>1
  <2> QED
    BY <1>1, <2>2, <2>3
<1> QED
  BY <1>1, <1>3 DEF Twice

(* A request that opens a window: all that is MaxRequests older is before   *)
(* the last window, or opened it.                                           *)
LEMMA OpensWindow ==
    ASSUME Positive, NEW s \in Seq(Nat), NEW c \in 0 .. MaxRequests, NEW b \in Nat,
           NEW t \in Nat, Good(s, c, b, t), c = 0 \/ t >= b + Window
    PROVE  Good(Append(s, t), 1, t, t)
<1> DEFINE n == Len(s)
           r == Append(s, t)
<1>1. n \in Nat /\ Len(r) = n + 1 /\ r[n + 1] = t
  BY AppendLast
<1>2. \A i \in 1 .. n : r[i] = s[i] /\ s[i] \in Nat
  BY AppendLast
<1>3. ASSUME NEW i \in 1 .. n, i + MaxRequests <= n + 1
      PROVE  s[i] + Window <= t
  <2>1. c # 0 /\ c <= n /\ s[n - c + 1] = b
    BY <1>1 DEF Good, Counted
  <2>2. n - c + 1 \in 1 .. n /\ i <= n - c + 1
    BY <1>1, <1>3, <2>1 DEF Positive
  <2>3. s[i] <= b
    BY <2>1, <2>2 DEF Good, Ordered
  <2> QED
    BY <1>2, <2>1, <2>3 DEF Positive
<1>4. Counted(r, 1, t)
  BY <1>1 DEF Counted
<1>5. Apart(r, 1, t)
  <2>1. \A i \in 1 .. n + 1 : i + MaxRequests <= n + 1 - 1 + 1 =>
            i \in 1 .. n /\ i + MaxRequests <= n + 1
    BY <1>1 DEF Positive
  <2> QED
    BY <1>1, <1>2, <1>3, <2>1 DEF Apart
<1>6. Twice(r)
  <2>1. \A i \in 1 .. n : i + 2 * MaxRequests = n + 1 => s[i] + Window <= t
    BY <1>1, <1>3 DEF Positive
  <2> QED
    BY <2>1, StaysTwice DEF Good
<1> QED
  BY <1>4, <1>5, <1>6, StaysOrdered DEF Good

(* A request that is counted in the window: the limit leaves it less than   *)
(* MaxRequests behind the start.                                            *)
LEMMA JoinsWindow ==
    ASSUME Positive, NEW s \in Seq(Nat), NEW c \in 0 .. MaxRequests, NEW b \in Nat,
           NEW t \in Nat, Good(s, c, b, t), c # 0, c < MaxRequests
    PROVE  Good(Append(s, t), c + 1, b, t)
<1> DEFINE n == Len(s)
           r == Append(s, t)
<1>1. n \in Nat /\ Len(r) = n + 1 /\ r[n + 1] = t
  BY AppendLast
<1>2. \A i \in 1 .. n : r[i] = s[i] /\ s[i] \in Nat
  BY AppendLast
<1>3. c <= n /\ s[n - c + 1] = b /\ n - c + 1 \in 1 .. n /\ n + 1 - (c + 1) + 1 = n - c + 1
  BY <1>1 DEF Good, Counted
<1>4. Counted(r, c + 1, b)
  BY <1>1, <1>2, <1>3 DEF Counted
<1>5. Apart(r, c + 1, b)
  <2>1. \A i \in 1 .. n + 1 : i + MaxRequests <= n - c + 1 => i \in 1 .. n
    BY <1>1 DEF Positive
  <2> QED
    BY <1>1, <1>2, <1>3, <2>1 DEF Apart, Good
<1>6. ASSUME NEW i \in 1 .. n, i + 2 * MaxRequests = n + 1
      PROVE  s[i] + Window <= t
  <2>1. i + MaxRequests <= n - c + 1
    BY <1>1, <1>6 DEF Positive
  <2>2. s[i] + Window <= b
    BY <2>1 DEF Good, Apart
  <2>3. b <= t
    BY <1>3 DEF Good, Ordered
  <2> QED
    BY <1>2, <2>2, <2>3 DEF Positive
<1>7. Twice(r)
  BY <1>6, StaysTwice DEF Good
<1> QED
  BY <1>4, <1>5, <1>7, StaysOrdered DEF Good

-----------------------------------------------------------------------------
(* No bucket, no requests: the invariant holds at the start. *)
LEMMA InitRate == Positive /\ Limiter!Init => RateInv
<1> SUFFICES ASSUME Positive, Limiter!Init
             PROVE  RateInv
  OBVIOUS
<1>1. Limiter!TypeOK
  BY DEF Positive, Limiter!Init, Limiter!TypeOK, Limiter!Bucket
<1>2. Good(<< >>, 0, 0, 0)
  BY DEF Good, Ordered, Counted, Apart, Twice
<1> QED
  BY <1>1, <1>2 DEF RateInv, Limiter!Init

(* A request that is let through keeps the invariant of its key. *)
LEMMA CheckKeeps ==
    ASSUME Positive, RateInv, NEW k \in Limiter!Keys, Limiter!Check(k)
    PROVE  /\ bucket'[k] \in Limiter!Bucket
           /\ times'[k] \in Seq(Nat)
           /\ Good(times'[k], bucket'[k].count, bucket'[k].started, now)
<1>1. /\ times[k] \in Seq(Nat) /\ now \in Nat
      /\ bucket[k].count \in 0 .. MaxRequests /\ bucket[k].started \in Nat
      /\ Good(times[k], bucket[k].count, bucket[k].started, now)
  BY DEF RateInv, Limiter!TypeOK, Limiter!Bucket
<1>2. times'[k] = Append(times[k], now)
  BY DEF RateInv, Limiter!TypeOK, Limiter!Check
<1>3. CASE Limiter!Over(k)
  <2>1. bucket'[k] = [count |-> 1, started |-> now]
    BY <1>3 DEF RateInv, Limiter!TypeOK, Limiter!Check
  <2>2. bucket[k].count = 0 \/ now >= bucket[k].started + Window
    BY <1>3 DEF Limiter!Over
  <2>3. Good(times'[k], 1, now, now)
    BY <1>1, <1>2, <2>2, OpensWindow
  <2> QED
    BY <1>1, <1>2, <2>1, <2>3, AppendLast DEF Limiter!Bucket, Positive
<1>4. CASE ~Limiter!Over(k)
  <2>1. bucket'[k] = [bucket[k] EXCEPT !.count = bucket[k].count + 1]
    BY <1>4 DEF RateInv, Limiter!TypeOK, Limiter!Check
  <2>2. bucket[k] \in Limiter!Bucket
    BY DEF RateInv, Limiter!TypeOK
  <2>3. /\ bucket'[k].count = bucket[k].count + 1
        /\ bucket'[k].started = bucket[k].started
    BY <2>1, <2>2 DEF Limiter!Bucket
  <2>4. bucket[k].count # 0 /\ bucket[k].count < MaxRequests
    BY <1>1, <1>4 DEF Limiter!Check, Limiter!Refused, Limiter!Over, Positive
  <2>5. Good(times'[k], bucket[k].count + 1, bucket[k].started, now)
    BY <1>1, <1>2, <2>4, JoinsWindow
  <2>6. bucket[k].count + 1 \in 0 .. MaxRequests
    BY <1>1, <2>4 DEF Positive
  <2>7. bucket'[k] \in Limiter!Bucket
    BY <2>1, <2>2, <2>6 DEF Limiter!Bucket
  <2>8. times'[k] \in Seq(Nat)
    BY <1>1, <1>2, AppendLast
  <2> QED
    BY <2>3, <2>5, <2>7, <2>8
<1> QED
  BY <1>3, <1>4

(* Time that passes keeps it: only Ordered speaks of the time. *)
LEMMA TimeKeeps ==
    ASSUME NEW s \in Seq(Nat), NEW c, NEW b, NEW t \in Nat, Good(s, c, b, t)
    PROVE  Good(s, c, b, t + 1)
<1>1. \A i \in 1 .. Len(s) : s[i] \in Nat
  OBVIOUS
<1>2. \A i \in 1 .. Len(s) : s[i] <= t + 1
  BY <1>1 DEF Good, Ordered
<1> QED
  BY <1>2 DEF Good, Ordered

(* Every step keeps the invariant. *)
LEMMA NextRate == Positive /\ RateInv /\ [Limiter!Next]_Limiter!vars => RateInv'
<1> SUFFICES ASSUME Positive, RateInv, [Limiter!Next]_Limiter!vars
             PROVE  RateInv'
  OBVIOUS
<1>1. ASSUME NEW k \in Limiter!Keys, Limiter!Check(k)
      PROVE  RateInv'
  <2>1. now' = now /\ DOMAIN bucket = Limiter!Keys /\ DOMAIN times = Limiter!Keys
    BY <1>1 DEF RateInv, Limiter!TypeOK, Limiter!Check
  <2>2. \A l \in Limiter!Keys \ {k} : bucket'[l] = bucket[l] /\ times'[l] = times[l]
    BY <1>1, <2>1 DEF Limiter!Check
  <2>3. /\ bucket'[k] \in Limiter!Bucket /\ times'[k] \in Seq(Nat)
        /\ Good(times'[k], bucket'[k].count, bucket'[k].started, now)
    BY <1>1, CheckKeeps
  <2>4. /\ bucket' = [l \in Limiter!Keys |-> bucket'[l]]
        /\ times' = [l \in Limiter!Keys |-> times'[l]]
    BY <1>1, <2>1 DEF Limiter!Check
  <2>5. Limiter!TypeOK'
    <3>1. \A l \in Limiter!Keys : bucket'[l] \in Limiter!Bucket /\ times'[l] \in Seq(Nat)
      BY <2>2, <2>3 DEF RateInv, Limiter!TypeOK
    <3> QED
      BY <2>1, <2>4, <3>1 DEF RateInv, Limiter!TypeOK, Limiter!Bucket
  <2>6. \A l \in Limiter!Keys : Good(times'[l], bucket'[l].count, bucket'[l].started, now)
    BY <2>2, <2>3 DEF RateInv
  <2> QED
    BY <2>1, <2>5, <2>6 DEF RateInv, Good, Ordered, Counted, Apart, Twice
<1>2. CASE Limiter!Authorize
  BY <1>1, <1>2 DEF Limiter!Authorize, Limiter!Keys
<1>3. CASE Limiter!Login
  BY <1>1, <1>3 DEF Limiter!Login, Limiter!Keys
<1>4. CASE Limiter!Tick
  <2>1. now' = now + 1 /\ bucket' = bucket /\ times' = times
    BY <1>4 DEF Limiter!Tick
  <2>2. Limiter!TypeOK'
    BY <2>1 DEF RateInv, Limiter!TypeOK, Limiter!Bucket
  <2>3. \A k \in Limiter!Keys : Good(times[k], bucket[k].count, bucket[k].started, now + 1)
    BY TimeKeeps DEF RateInv, Limiter!TypeOK
  <2> QED
    BY <2>1, <2>2, <2>3 DEF RateInv, Good, Ordered, Counted, Apart, Twice
<1>5. CASE UNCHANGED Limiter!vars
  BY <1>5 DEF Limiter!vars, RateInv, Limiter!TypeOK, Limiter!Bucket, Good, Ordered,
              Counted, Apart, Twice
<1> QED
  BY <1>2, <1>3, <1>4, <1>5 DEF Limiter!Next

-----------------------------------------------------------------------------
(* The invariant holds throughout, for a limit of at least 1. *)
THEOREM RateInvariant ==
    ASSUME Positive
    PROVE  Limiter!Spec => []RateInv
<1>1. Limiter!Init => RateInv
  BY InitRate
<1>2. RateInv /\ [Limiter!Next]_Limiter!vars => RateInv'
  BY NextRate
<1> QED
  BY <1>1, <1>2, PTL DEF Limiter!Spec

(* The limiter's buckets stay within the limit (RateLimiter.check). *)
THEOREM RateTypeCorrect ==
    ASSUME Positive
    PROVE  Limiter!Spec => []Limiter!TypeOK
<1>1. RateInv => Limiter!TypeOK
  BY DEF RateInv
<1> QED
  BY <1>1, RateInvariant, PTL

(* For every limit of at least 1 and every window, 2 * MaxRequests + 1      *)
(* requests of a key that check lets through take a whole window or more.   *)
THEOREM RateAtMostTwice ==
    ASSUME Positive
    PROVE  Limiter!Spec => []Limiter!TwiceTheLimit
<1>1. RateInv => Limiter!TwiceTheLimit
  <2> SUFFICES ASSUME RateInv, NEW k \in Limiter!Keys, NEW i \in DOMAIN times[k],
                      i + 2 * MaxRequests <= Len(times[k])
               PROVE  times[k][i] + Window <= times[k][i + 2 * MaxRequests]
    BY DEF Limiter!TwiceTheLimit
  <2>1. times[k] \in Seq(Nat) /\ Twice(times[k])
    BY DEF RateInv, Limiter!TypeOK, Good
  <2>2. i \in 1 .. Len(times[k]) /\ i + 2 * MaxRequests \in 1 .. Len(times[k])
    BY <2>1 DEF Positive
  <2> QED
    BY <2>1, <2>2 DEF Twice
<1> QED
  BY <1>1, RateInvariant, PTL

(* A key is refused only when MaxRequests of its requests were let through  *)
(* less than a window ago.                                                  *)
THEOREM RateRefusedOnlyBeyond ==
    ASSUME Positive
    PROVE  Limiter!Spec => []Limiter!RefusedOnlyBeyond
<1>1. RateInv => Limiter!RefusedOnlyBeyond
  <2> SUFFICES ASSUME RateInv, NEW k \in Limiter!Keys, Limiter!Refused(k)
               PROVE  /\ Len(times[k]) >= MaxRequests
                      /\ \A i \in DOMAIN times[k] :
                             i + MaxRequests > Len(times[k]) => now < times[k][i] + Window
    BY DEF Limiter!RefusedOnlyBeyond
  <2> DEFINE n == Len(times[k])
             b == bucket[k].started
  <2>1. times[k] \in Seq(Nat) /\ n \in Nat /\ now \in Nat /\ b \in Nat
    BY DEF RateInv, Limiter!TypeOK, Limiter!Bucket
  <2>2. DOMAIN times[k] = 1 .. n /\ \A i \in 1 .. n : times[k][i] \in Nat
    BY <2>1
  <2>3. bucket[k].count = MaxRequests
    BY DEF RateInv, Limiter!TypeOK, Limiter!Bucket, Limiter!Refused, Positive
  <2>4. MaxRequests <= n /\ times[k][n - MaxRequests + 1] = b
    BY <2>3 DEF RateInv, Good, Counted, Positive
  <2>5. now < b + Window
    BY <2>1 DEF Limiter!Refused, Limiter!Over, Positive
  <2>6. ASSUME NEW i \in 1 .. n, i + MaxRequests > n
        PROVE  now < times[k][i] + Window
    <3>1. n - MaxRequests + 1 \in 1 .. n /\ n - MaxRequests + 1 <= i
      BY <2>1, <2>4, <2>6 DEF Positive
    <3>2. times[k][n - MaxRequests + 1] <= times[k][i]
      BY <3>1 DEF RateInv, Good, Ordered
    <3>3. b <= times[k][i] /\ times[k][i] \in Nat
      BY <2>2, <2>4, <3>2
    <3> QED
      BY <2>1, <2>5, <3>3 DEF Positive
  <2> QED
    BY <2>1, <2>2, <2>4, <2>6 DEF Positive
<1> QED
  BY <1>1, RateInvariant, PTL
=============================================================================
