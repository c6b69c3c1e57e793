---------------------------- MODULE Watch_proofs -----------------------------
(***************************************************************************)
(* What holds of the drift sweep in one process, for every number of       *)
(* vendors, controls, requests, days, sweeps and crashes.                  *)
(***************************************************************************)
EXTENDS WatchSingle, SequenceTheorems, TLAPS

(* The code between two awaits is entered by one task at a time. *)
OneBusy == \A p, q \in Tasks : task[p].pc \in Busy /\ task[q].pc \in Busy => p = q

(* A drift that stood when the sweep began is found, or lies before it: the *)
(* check that finds its kind is yet to come, or is under way and has yet to *)
(* come to its vendor and control.                                          *)
Ahead(t, s) ==
    \E i \in t.at .. Len(Checks) : s[2] \in Finds(Checks[i]) /\ (i = t.at => s[1] \in t.left)

(* What a task knows while it is between two awaits. *)
Steady(p) ==
    LET t == task[p] IN
    /\ \A x \in t.overdue : x[2] < day
    /\ t.pc # "sweeping" => t.run = 0
    /\ t.pc = "sweeping" =>
           /\ t.run \in DOMAIN runs /\ runs[t.run].status = "running"
           /\ Len(runs[t.run].completed) = t.at - 1
           /\ t.left # {} => t.left \subseteq Pairs /\ t.at <= Len(Checks)
           /\ t.before \subseteq Standing /\ t.found \subseteq Standing
           /\ \A s \in t.before : s \in t.found \/ Ahead(t, s)

WatchInv ==
    /\ TypeOK
    /\ OneBusy
    /\ \A p \in Tasks : Steady(p)
    /\ LedgerTellsProgress

-----------------------------------------------------------------------------
(* The four checks and what they find. *)
LEMMA ChecksAre ==
    /\ Len(Checks) = 4 /\ Checks \in Seq(Range(Checks))
    /\ Range(Checks) = {"check_expiry", "check_evidence_drift", "check_breach_feed",
                        "check_risk_trend"}
    /\ \A i \in 1 .. 4 : Checks[i] \in Range(Checks) /\ Finds(Checks[i]) \subseteq Kinds
    /\ \A i, j \in 1 .. 4 : Checks[i] = Checks[j] => i = j
    /\ \A k \in Kinds : \E i \in 1 .. 4 : i # 1 /\ k \in Finds(Checks[i])
<1>1. Len(Checks) = 4 /\ DOMAIN Checks = 1 .. 4
  BY DEF Checks
<1>2. /\ Checks[1] = "check_expiry" /\ Checks[2] = "check_evidence_drift"
      /\ Checks[3] = "check_breach_feed" /\ Checks[4] = "check_risk_trend"
  BY DEF Checks
<1>3. Range(Checks) = {Checks[i] : i \in 1 .. 4}
  BY <1>1 DEF Range
<1>4. Range(Checks) = {"check_expiry", "check_evidence_drift", "check_breach_feed",
                       "check_risk_trend"}
  BY <1>2, <1>3
<1>5. Checks \in Seq(Range(Checks))
  BY <1>1, <1>4 DEF Checks
<1>6. \A i \in 1 .. 4 : i = 1 \/ i = 2 \/ i = 3 \/ i = 4
  OBVIOUS
<1>7. \A i \in 1 .. 4 : Checks[i] \in Range(Checks)
  BY <1>3
<1>8. \A i \in 1 .. 4 : Finds(Checks[i]) \subseteq Kinds
  BY <1>2, <1>6 DEF Finds, Kinds
<1>9. \A i, j \in 1 .. 4 : Checks[i] = Checks[j] => i = j
  BY <1>2, <1>6
<1>10. \A k \in Kinds : \E i \in 1 .. 4 : i # 1 /\ k \in Finds(Checks[i])
  <2>1. "control_drift" \in Finds(Checks[2]) /\ "risk_trend_rising" \in Finds(Checks[4])
    BY <1>2 DEF Finds
  <2> QED
    BY <2>1 DEF Kinds
<1> QED
  BY <1>1, <1>4, <1>5, <1>7, <1>8, <1>9, <1>10

(* The properties take for a drift what the checks take for a signal. *)
LEMMA StandingShows ==
    ASSUME TypeOK, NEW v \in Vendors, NEW c \in Controls, NEW kind \in Kinds
    PROVE  << <<v, c>>, kind>> \in Standing <=> Shows(v, c, kind) /\ ~Excepted(v, c)
<1> DEFINE s == << <<v, c>>, kind>>
<1> DEFINE reading == evidence[c]
<1> DEFINE risks == history[<<v, c>>]
<1>1. s \in Pairs \X Kinds /\ s[1] = <<v, c>> /\ s[1][2] = c /\ s[2] = kind
      /\ <<v, c>> \in Pairs
  BY DEF Pairs
<1>2. s \in Standing <=>
          /\ \A x \in exceptions : <<v, c>> = <<x[1], x[2]>> => x[3] <= day
          /\ IF kind = "control_drift"
             THEN reading # None /\ (~reading.ok \/ reading.on + FreshDays < day)
             ELSE Len(risks) > 2 /\ \A i \in Len(risks) - 1 .. Len(risks) :
                                        risks[i - 1] < risks[i]
  BY <1>1 DEF Standing
<1>3. (\A x \in exceptions : <<v, c>> = <<x[1], x[2]>> => x[3] <= day) <=> ~Excepted(v, c)
  <2>1. day \in Nat /\ Days \subseteq Nat
    BY WatchAssumption DEF TypeOK, Days
  <2>2. \A x \in exceptions : /\ x = <<x[1], x[2], x[3]>> /\ x[3] \in Days
    BY DEF TypeOK
  <2>3. ASSUME NEW x \in exceptions, <<v, c>> = <<x[1], x[2]>>, ~Excepted(v, c)
        PROVE  x[3] <= day
    <3>1. PICK until \in Days : until = x[3] /\ <<v, c, until>> \in exceptions
      BY <2>2, <2>3
    <3>2. ~(until > day)
      BY <2>3, <3>1 DEF Excepted
    <3> QED
      BY <2>1, <3>1, <3>2
  <2>4. ASSUME \A x \in exceptions : <<v, c>> = <<x[1], x[2]>> => x[3] <= day,
               NEW until \in Days, <<v, c, until>> \in exceptions, until > day
        PROVE  FALSE
    <3>1. until <= day
      BY <2>4
    <3> QED
      BY <2>1, <2>4, <3>1
  <2> QED
    BY <2>3, <2>4 DEF Excepted
<1>4. CASE kind = "control_drift"
  <2>1. reading # None => reading.on \in Nat /\ reading.ok \in BOOLEAN
    BY WatchAssumption DEF TypeOK, Reading, Days
  <2>2. day \in Nat /\ FreshDays \in Nat
    BY WatchAssumption DEF TypeOK, Days
  <2>3. reading # None => (day - reading.on <= FreshDays <=> ~(reading.on + FreshDays < day))
    BY <2>1, <2>2
  <2> QED
    BY <1>2, <1>3, <1>4, <2>1, <2>3 DEF Shows, Satisfied
<1>5. CASE kind = "risk_trend_rising"
  <2>1. risks \in Seq(Nat) /\ Len(risks) \in Nat
    BY <1>1 DEF TypeOK
  <2> DEFINE n == Len(risks)
  <2>2. n > 2 => (\A i \in n - 1 .. n : risks[i - 1] < risks[i]) <=>
                     (risks[n - 2] < risks[n - 1] /\ risks[n - 1] < risks[n])
    <3>1. n \in Nat
      BY <2>1
    <3> HIDE DEF n
    <3>2. n > 2 => n - 1 .. n = {n - 1, n}
      BY <3>1
    <3>3. n > 2 => n - 1 - 1 = n - 2
      BY <3>1
    <3> QED
      BY <3>2, <3>3
  <2>3. Rising(risks) <=> n > 2 /\ \A i \in n - 1 .. n : risks[i - 1] < risks[i]
    <3>1. Rising(risks) <=> n >= 3 /\ risks[n - 2] < risks[n - 1] /\ risks[n - 1] < risks[n]
      BY DEF Rising
    <3>2. n \in Nat
      BY <2>1
    <3> HIDE DEF n
    <3> QED
      BY <2>2, <3>1, <3>2
  <2> QED
    BY <1>2, <1>3, <1>5, <2>3 DEF Shows
<1> QED
  BY <1>4, <1>5 DEF Kinds

(* A drift that stands goes on standing as time passes. *)
LEMMA StandingLasts ==
    ASSUME TypeOK, day' = day + 1,
           evidence' = evidence, exceptions' = exceptions, history' = history
    PROVE  Standing \subseteq Standing'
<1>1. day \in Nat /\ FreshDays \in Nat /\ day' >= day
  BY WatchAssumption DEF TypeOK, Days
<1>2. \A x \in exceptions : x[3] \in Nat
  BY WatchAssumption DEF TypeOK, Days
<1>3. \A c \in Controls : evidence[c] # None => evidence[c].on \in Nat
  BY WatchAssumption DEF TypeOK, Reading, Days
<1> SUFFICES ASSUME NEW s \in Standing PROVE s \in Standing'
  OBVIOUS
<1>4. s \in Pairs \X Kinds /\ s[1][2] \in Controls
  BY DEF Standing, Pairs
<1>5. \A x \in exceptions : s[1] = <<x[1], x[2]>> => x[3] <= day'
  BY <1>1, <1>2 DEF Standing
<1>6. CASE s[2] = "control_drift"
  <2>1. evidence[s[1][2]] # None
        /\ (~evidence[s[1][2]].ok \/ evidence[s[1][2]].on + FreshDays < day)
    BY <1>6 DEF Standing
  <2>2. evidence[s[1][2]].on \in Nat
    BY <1>3, <1>4, <2>1
  <2>3. ~evidence[s[1][2]].ok \/ evidence[s[1][2]].on + FreshDays < day'
    BY <1>1, <2>1, <2>2
  <2> QED
    BY <1>4, <1>5, <1>6, <2>1, <2>3 DEF Standing
<1>7. CASE s[2] # "control_drift"
  <2>1. Len(history[s[1]]) > 2
        /\ \A i \in Len(history[s[1]]) - 1 .. Len(history[s[1]]) :
               history[s[1]][i - 1] < history[s[1]][i]
    BY <1>7 DEF Standing
  <2> QED
    BY <1>4, <1>5, <1>7, <2>1 DEF Standing
<1> QED
  BY <1>6, <1>7

(* A task without work is a local state. *)
LEMMA IdleType ==
    Idle \in Local /\ Idle.pc = "idle" /\ Idle.run = 0 /\ Idle.overdue = {}
<1>1. Len(Checks) = 4
  BY ChecksAre
<1> QED
  BY <1>1 DEF Idle, Local, Busy

(* So is a run of Drift Sentinel that knows of past deadlines. *)
LEMMA RunningType ==
    ASSUME NEW late \in SUBSET (Vendors \X Days)
    PROVE  LET local == [Idle EXCEPT !.pc = "running", !.overdue = late]
           IN /\ local \in Local /\ local.pc = "running" /\ local.run = 0
              /\ local.overdue = late
BY IdleType DEF Local

(* The deadlines that have passed when a run begins. *)
LEMMA SweepingType ==
    ASSUME TypeOK
    PROVE  /\ Sweeping \in Local /\ Sweeping.pc = "running" /\ Sweeping.run = 0
           /\ \A x \in Sweeping.overdue : x[2] < day
<1> DEFINE late == {<<v, due[v]>> : v \in {u \in Vendors : Overdue(u)}}
<1>1. \A v \in Vendors : Overdue(v) => due[v] \in Days /\ due[v] < day
  BY DEF TypeOK, Overdue
<1>2. late \in SUBSET (Vendors \X Days) /\ \A x \in late : x[2] < day
  BY <1>1
<1>3. Sweeping = [Idle EXCEPT !.pc = "running", !.overdue = late]
  BY DEF Sweeping
<1> HIDE DEF late
<1> QED
  BY <1>2, <1>3, RunningType

(* The step of a task is about that task only. *)
LEMMA BecomeType ==
    ASSUME TypeOK, NEW p \in Tasks, NEW local \in Local, Become(p, local)
    PROVE  /\ task' \in [Tasks -> Local]
           /\ task'[p] = local
           /\ \A q \in Tasks \ {p} : task'[q] = task[q]
BY DEF TypeOK, Become

(* In one process a task moves only when no other is between two awaits. *)
LEMMA Alone ==
    ASSUME OneBusy, NEW p \in Tasks, task[p].pc \in Busy \/ LoopFree(p)
    PROVE  \A q \in Tasks \ {p} : task[q].pc \notin Busy
BY OneInstance DEF OneBusy, LoopFree

-----------------------------------------------------------------------------
(* TypeOK but for the tasks. *)
StoreOK ==
    /\ day \in Days
    /\ evidence \in [Controls -> Reading \cup {None}]
    /\ exceptions \subseteq Vendors \X Controls \X Days
    /\ history \in [Pairs -> Seq(Nat)]
    /\ due \in [Vendors -> Days \cup {None}]
    /\ runs \in Seq(Run)
    /\ used \in [snapshots : 0 .. MaxSnapshots, exceptions : 0 .. MaxExceptions,
                 offboardings : 0 .. MaxOffboardings, crashes : 0 .. MaxCrashes]
    /\ reported \subseteq Vendors

LEMMA StoreType == TypeOK <=> StoreOK /\ task \in [Tasks -> Local]
BY DEF TypeOK, StoreOK

(* The other tasks of the process wait, and have no run of theirs. *)
LEMMA OthersWait ==
    ASSUME WatchInv, NEW p \in Tasks, NEW local \in Local, Become(p, local),
           task[p].pc \in Busy \/ LoopFree(p), day' = day
    PROVE  /\ task' \in [Tasks -> Local] /\ task'[p] = local
           /\ OneBusy'
           /\ \A q \in Tasks \ {p} :
                  /\ task'[q] = task[q] /\ task[q].pc \notin Busy /\ task[q].run = 0
                  /\ Steady(q)'
<1>1. TypeOK /\ OneBusy /\ \A q \in Tasks : Steady(q)
  BY DEF WatchInv
<1>2. \A q \in Tasks \ {p} : task[q].pc \notin Busy
  BY <1>1, Alone
<1>3. task' \in [Tasks -> Local] /\ task'[p] = local
      /\ \A q \in Tasks \ {p} : task'[q] = task[q]
  BY <1>1, BecomeType
<1>4. OneBusy'
  BY <1>2, <1>3 DEF OneBusy
<1>5. ASSUME NEW q \in Tasks \ {p}  PROVE task[q].run = 0 /\ Steady(q)'
  <2>1. task'[q] = task[q] /\ task[q].pc # "sweeping" /\ task[q].run = 0
    BY <1>1, <1>2, <1>3, <1>5 DEF Steady, Busy
  <2>2. \A x \in task[q].overdue : x[2] < day
    BY <1>1 DEF Steady
  <2> QED
    BY <2>1, <2>2 DEF Steady
<1> QED
  BY <1>2, <1>3, <1>4, <1>5

(* A step that leaves the ledger and the place of a sweep alone. *)
LEMMA Quiet ==
    ASSUME WatchInv, NEW p \in Tasks, NEW local \in Local, Become(p, local),
           task[p].pc \in Busy \/ LoopFree(p), day' = day,
           runs' = runs, used'.crashes = used.crashes, StoreOK',
           task[p].run # 0 => local.run = task[p].run /\ local.at = task[p].at,
           Steady(p)'
    PROVE  WatchInv'
<1>1. /\ task' \in [Tasks -> Local] /\ task'[p] = local
      /\ OneBusy'
      /\ \A q \in Tasks \ {p} :
             /\ task'[q] = task[q] /\ task[q].pc \notin Busy /\ task[q].run = 0
             /\ Steady(q)'
  BY OthersWait
<1>2. TypeOK'
  BY <1>1 DEF TypeOK, StoreOK
<1>3. runs \in Seq(Run) /\ DOMAIN runs = 1 .. Len(runs)
  BY DEF WatchInv, TypeOK
<1>4. LedgerTellsProgress'
  <2> SUFFICES ASSUME NEW n \in DOMAIN runs
               PROVE  LET done == Len(runs[n].completed) IN
                      /\ runs[n].completed = SubSeq(Checks, 1, done)
                      /\ runs[n].pending = Range(Checks) \ Range(runs[n].completed)
                      /\ IF runs[n].status = "completed" THEN runs[n].pending = {}
                         ELSE \/ used'.crashes > 0
                              \/ \E q \in Tasks : task'[q].run = n /\ task'[q].at = done + 1
    BY DEF LedgerTellsProgress
  <2>1. n # 0
    BY <1>3
  <2>2. \A q \in Tasks : task[q].run = n => task'[q].run = n /\ task'[q].at = task[q].at
    BY <1>1, <2>1
  <2> QED
    BY <2>2 DEF WatchInv, LedgerTellsProgress
<1> QED
  BY <1>1, <1>2, <1>4 DEF WatchInv

(* A step of one request alone, beside which no task is between two awaits. *)
LEMMA Still ==
    ASSUME WatchInv, task' = task, \A q \in Tasks : task[q].pc \notin Busy,
           day' = day, runs' = runs, used'.crashes = used.crashes, StoreOK'
    PROVE  WatchInv'
<1>1. TypeOK'
  BY StoreType DEF WatchInv, TypeOK, StoreOK
<1>2. OneBusy' /\ LedgerTellsProgress'
  BY DEF WatchInv, OneBusy, LedgerTellsProgress
<1>3. \A q \in Tasks : Steady(q)'
  BY DEF WatchInv, Steady, Busy
<1> QED
  BY <1>1, <1>2, <1>3 DEF WatchInv

LEMMA NobodyBusy ==
    ASSUME WatchInv, NEW p \in Tasks, task[p].pc = "idle", LoopFree(p)
    PROVE  \A q \in Tasks : task[q].pc \notin Busy
BY Alone DEF WatchInv, Busy

-----------------------------------------------------------------------------
LEMMA InvInit == Init => WatchInv
<1> SUFFICES ASSUME Init PROVE WatchInv
  OBVIOUS
<1>1. /\ day = 0 /\ exceptions = {} /\ runs = << >> /\ reported = {}
      /\ evidence = [c \in Controls |-> None] /\ due = [v \in Vendors |-> None]
      /\ history \in [Pairs -> Histories] /\ task = [p \in Tasks |-> Idle]
      /\ used = [snapshots |-> 0, exceptions |-> 0, offboardings |-> 0, crashes |-> 0]
  BY DEF Init
<1>2. StoreOK
  <2>1. day \in Days /\ runs \in Seq(Run)
    BY <1>1, WatchAssumption DEF Days
  <2>2. used \in [snapshots : 0 .. MaxSnapshots, exceptions : 0 .. MaxExceptions,
                  offboardings : 0 .. MaxOffboardings, crashes : 0 .. MaxCrashes]
    BY <1>1, WatchAssumption
  <2>3. history \in [Pairs -> Seq(Nat)]
    BY <1>1, WatchAssumption
  <2>4. evidence \in [Controls -> Reading \cup {None}] /\ due \in [Vendors -> Days \cup {None}]
    BY <1>1
  <2>5. exceptions \subseteq Vendors \X Controls \X Days /\ reported \subseteq Vendors
    BY <1>1
  <2> QED
    BY <2>1, <2>2, <2>3, <2>4, <2>5 DEF StoreOK
<1>3. \A p \in Tasks : task[p].pc = "idle" /\ task[p].run = 0 /\ task[p].overdue = {}
  BY <1>1, IdleType
<1>4. TypeOK
  BY <1>1, <1>2, IdleType, StoreType
<1>5. LedgerTellsProgress
  BY <1>1 DEF LedgerTellsProgress
<1> QED
  BY <1>3, <1>4, <1>5 DEF WatchInv, OneBusy, Steady, Busy

LEMMA TickStep ==
    ASSUME WatchInv, NEW p \in Tasks, EvidenceTick(p) \/ DriftTick(p)
    PROVE  WatchInv'
<1>1. TypeOK
  BY DEF WatchInv
<1> DEFINE collect == [Idle EXCEPT !.pc = "collecting", !.left = Controls]
<1>2. /\ task[p].pc = "idle" /\ LoopFree(p) /\ UNCHANGED <<day, store, used, reported>>
      /\ Become(p, collect) \/ Become(p, Sweeping)
  BY DEF EvidenceTick, DriftTick
<1>3. StoreOK' /\ runs' = runs /\ used' = used /\ day' = day
  BY <1>1, <1>2 DEF store, StoreOK, TypeOK
<1>4. collect \in Local /\ collect.pc = "collecting" /\ collect.run = 0 /\ collect.overdue = {}
  BY IdleType DEF Idle, Local, Busy
<1> HIDE DEF collect
<1>5. PICK local \in Local :
          /\ Become(p, local) /\ local.pc \in {"collecting", "running"} /\ local.run = 0
          /\ \A x \in local.overdue : x[2] < day
  BY <1>1, <1>2, <1>4, SweepingType
<1>6. Steady(p)'
  BY <1>1, <1>3, <1>5, BecomeType DEF Steady
<1>7. task[p].run = 0
  BY <1>2 DEF WatchInv, Steady
<1> QED
  BY <1>2, <1>3, <1>5, <1>6, <1>7, Quiet

LEMMA CollectStep ==
    ASSUME WatchInv, NEW p \in Tasks, NEW c \in Controls, NEW ok \in BOOLEAN, NEW on \in 0 .. day,
           Collect(p, c, ok, on)
    PROVE  WatchInv'
<1>1. TypeOK /\ task[p] \in Local
  BY DEF WatchInv, TypeOK
<1> DEFINE local == IF task[p].left = {c} THEN OnEvidenceCollected
                    ELSE [task[p] EXCEPT !.left = @ \ {c}]
<1>2. /\ task[p].pc = "collecting" /\ Become(p, local)
      /\ evidence' = [evidence EXCEPT ![c] = [ok |-> ok, on |-> on]]
      /\ UNCHANGED <<day, exceptions, history, due, runs, used, reported>>
  BY DEF Collect
<1>3. task[p].run = 0 /\ \A x \in task[p].overdue : x[2] < day
  BY <1>2 DEF WatchInv, Steady
<1>4. /\ local \in Local /\ local.pc \in {"collecting", "running"} /\ local.run = 0
      /\ \A x \in local.overdue : x[2] < day
  <2>1. CASE task[p].left = {c}
    BY <1>1, <2>1, SweepingType DEF OnEvidenceCollected
  <2>2. CASE task[p].left # {c}
    BY <1>1, <1>2, <1>3, <2>2 DEF Local
  <2> QED
    BY <2>1, <2>2
<1> HIDE DEF local
<1>5. on \in Days
  BY <1>1, WatchAssumption DEF TypeOK, Days
<1>6. StoreOK' /\ runs' = runs /\ used' = used /\ day' = day
  BY <1>1, <1>2, <1>5 DEF StoreOK, TypeOK, Reading
<1>7. Steady(p)'
  BY <1>1, <1>2, <1>4, <1>6, BecomeType DEF Steady
<1> QED
  BY <1>2, <1>3, <1>4, <1>6, <1>7, Quiet DEF Busy

LEMMA RunEndsStep ==
    ASSUME WatchInv, NEW p \in Tasks, RunEnds(p)
    PROVE  WatchInv'
<1>1. TypeOK
  BY DEF WatchInv
<1>2. /\ task[p].pc = "running" /\ LoopFree(p) /\ Become(p, Idle)
      /\ reported' \in {reported, Named(p)}
      /\ UNCHANGED <<day, store, used>>
  BY DEF RunEnds, RunReturns, RunRaises
<1>3. StoreOK' /\ runs' = runs /\ used' = used /\ day' = day
  BY <1>1, <1>2 DEF store, StoreOK, TypeOK, Named
<1>4. Steady(p)'
  BY <1>1, <1>2, IdleType, BecomeType DEF Steady
<1>5. task[p].run = 0
  BY <1>2 DEF WatchInv, Steady
<1> QED
  BY <1>2, <1>3, <1>4, <1>5, IdleType, Quiet

(* What was overdue when the run began still is when it returns, unless its *)
(* deadline is another one.                                                 *)
LEMMA NamedStep ==
    ASSUME WatchInv, NEW p \in Tasks, RunReturns(p, TRUE)
    PROVE  /\ \A x \in task[p].overdue : due[x[1]] = x[2] => x[1] \in reported'
           /\ \A v \in reported' : due[v] \in Days /\ due[v] < day
<1>1. TypeOK /\ Steady(p) /\ task[p] \in Local
  BY DEF WatchInv, TypeOK
<1>2. reported' = {v \in Vendors : Overdue(v)}
  BY DEF RunReturns, Named
<1>3. ASSUME NEW x \in task[p].overdue, due[x[1]] = x[2]  PROVE x[1] \in reported'
  <2>1. x[1] \in Vendors /\ x[2] \in Days /\ x[2] < day
    BY <1>1 DEF Steady, Local
  <2>2. x[2] # None
    BY <2>1, WatchAssumption
  <2> QED
    BY <1>2, <1>3, <2>1, <2>2 DEF Overdue
<1>4. \A v \in reported' : due[v] \in Days /\ due[v] < day
  BY <1>1, <1>2 DEF Overdue, TypeOK
<1> QED
  BY <1>3, <1>4

(* Requests of one step, to a store that no sweep is looking at. *)
LEMMA RequestStep ==
    ASSUME WatchInv, NEW p \in Tasks, Ask(p), ~EvidenceTick(p), ~DriftTick(p)
    PROVE  WatchInv'
<1>1. StoreOK
  BY StoreType DEF WatchInv
<1>0. /\ used.snapshots \in 0 .. MaxSnapshots /\ MaxSnapshots \in Nat
      /\ used.exceptions \in 0 .. MaxExceptions /\ MaxExceptions \in Nat
      /\ used.offboardings \in 0 .. MaxOffboardings /\ MaxOffboardings \in Nat
  BY <1>1, WatchAssumption DEF StoreOK
<1>2. ASSUME NEW v \in Vendors, NEW c \in Controls, NEW until \in Days,
             AddException(p, v, c, until)
      PROVE  WatchInv'
  <2>1. used' \in [snapshots : 0 .. MaxSnapshots, exceptions : 0 .. MaxExceptions,
                   offboardings : 0 .. MaxOffboardings, crashes : 0 .. MaxCrashes]
        /\ used'.crashes = used.crashes
    <3>1. used.exceptions + 1 \in 0 .. MaxExceptions
      BY <1>0, <1>2 DEF AddException
    <3>2. used' = [used EXCEPT !.exceptions = used.exceptions + 1]
      BY <1>2 DEF AddException
    <3> QED
      BY <1>1, <3>1, <3>2 DEF StoreOK
  <2>2. exceptions' \subseteq Vendors \X Controls \X Days
    BY <1>1, <1>2 DEF AddException, StoreOK
  <2>3. StoreOK'
    BY <1>1, <1>2, <2>1, <2>2 DEF AddException, StoreOK
  <2> QED
    BY <1>2, <2>1, <2>3, NobodyBusy, Still DEF AddException
<1>3. ASSUME NEW v \in Vendors, NEW c \in Controls, NEW risk \in Risks,
             AppendSnapshot(p, v, c, risk)
      PROVE  WatchInv'
  <2>1. used' \in [snapshots : 0 .. MaxSnapshots, exceptions : 0 .. MaxExceptions,
                   offboardings : 0 .. MaxOffboardings, crashes : 0 .. MaxCrashes]
        /\ used'.crashes = used.crashes
    <3>1. used.snapshots + 1 \in 0 .. MaxSnapshots
      BY <1>0, <1>3 DEF AppendSnapshot
    <3>2. used' = [used EXCEPT !.snapshots = used.snapshots + 1]
      BY <1>3 DEF AppendSnapshot
    <3> QED
      BY <1>1, <3>1, <3>2 DEF StoreOK
  <2>2. history' \in [Pairs -> Seq(Nat)]
    <3>1. <<v, c>> \in Pairs /\ history \in [Pairs -> Seq(Nat)] /\ risk \in Nat
      BY <1>1, WatchAssumption DEF StoreOK, Pairs
    <3>2. Append(history[<<v, c>>], risk) \in Seq(Nat)
      BY <3>1
    <3>3. history' = [history EXCEPT ![<<v, c>>] = Append(history[<<v, c>>], risk)]
      BY <1>3 DEF AppendSnapshot
    <3> QED
      BY <3>1, <3>2, <3>3
  <2>3. StoreOK'
    BY <1>1, <1>3, <2>1, <2>2 DEF AppendSnapshot, StoreOK
  <2> QED
    BY <1>3, <2>1, <2>3, NobodyBusy, Still DEF AppendSnapshot
<1>4. ASSUME NEW v \in Vendors, NEW deadline \in Days, Offboard(p, v, deadline)
      PROVE  WatchInv'
  <2>1. used' \in [snapshots : 0 .. MaxSnapshots, exceptions : 0 .. MaxExceptions,
                   offboardings : 0 .. MaxOffboardings, crashes : 0 .. MaxCrashes]
        /\ used'.crashes = used.crashes
    <3>1. used.offboardings + 1 \in 0 .. MaxOffboardings
      BY <1>0, <1>4 DEF Offboard
    <3>2. used' = [used EXCEPT !.offboardings = used.offboardings + 1]
      BY <1>4 DEF Offboard
    <3> QED
      BY <1>1, <3>1, <3>2 DEF StoreOK
  <2>2. StoreOK'
    BY <1>1, <1>4, <2>1 DEF Offboard, StoreOK
  <2> QED
    BY <1>4, <2>1, <2>2, NobodyBusy, Still DEF Offboard
<1>5. ASSUME NEW v \in Vendors, ConfirmDeletion(p, v)
      PROVE  WatchInv'
  <2>1. StoreOK' /\ used'.crashes = used.crashes
    BY <1>1, <1>5 DEF ConfirmDeletion, StoreOK
  <2> QED
    BY <1>5, <2>1, NobodyBusy, Still DEF ConfirmDeletion
<1> QED
  BY <1>2, <1>3, <1>4, <1>5 DEF Ask

-----------------------------------------------------------------------------
(* What a sweep run that has begun to sweep holds. *)
Swept(run, standing, late) ==
    [Idle EXCEPT !.pc = "sweeping", !.run = run, !.before = standing, !.overdue = late]

(* ... and what that is, field by field. *)
SweptIs(local, run, standing, late) ==
    /\ local \in Local /\ local.pc = "sweeping" /\ local.run = run /\ local.at = 1
    /\ local.left = {} /\ local.before = standing /\ local.found = {}
    /\ local.overdue = late

LEMMA SweepType ==
    ASSUME NEW run \in Nat, NEW standing \in SUBSET (Pairs \X Kinds),
           NEW late \in SUBSET (Vendors \X Days)
    PROVE  SweptIs(Swept(run, standing, late), run, standing, late)
<1>1. Idle \in Local
  BY IdleType
<1>2. Idle.at = 1 /\ Idle.left = {} /\ Idle.found = {}
  BY DEF Idle
<1> QED
  BY <1>1, <1>2 DEF Swept, SweptIs, Local, Busy

LEMMA StartSweepStep ==
    ASSUME WatchInv, NEW p \in Tasks, StartSweep(p)
    PROVE  WatchInv'
<1>1. TypeOK /\ StoreOK /\ Steady(p) /\ LedgerTellsProgress
  BY StoreType DEF WatchInv
<1> DEFINE new == [completed |-> << >>, pending |-> Range(Checks), status |-> "running"]
<1> DEFINE local == [Idle EXCEPT !.pc = "sweeping", !.run = Len(runs'), !.before = Standing,
                               !.overdue = task[p].overdue]
<1>2. /\ task[p].pc = "running" /\ LoopFree(p) /\ runs' = Append(runs, new) /\ Become(p, local)
      /\ UNCHANGED <<day, evidence, exceptions, history, due, used, reported>>
  BY DEF StartSweep
<1>3. new \in Run /\ new.completed = << >> /\ new.pending = Range(Checks)
      /\ new.status = "running"
  BY ChecksAre DEF Run
<1> HIDE DEF new
<1>4. runs \in Seq(Run) /\ Len(runs) \in Nat
  BY <1>1 DEF StoreOK
<1>5. /\ runs' \in Seq(Run) /\ Len(runs') = Len(runs) + 1 /\ DOMAIN runs' = 1 .. Len(runs) + 1
      /\ runs'[Len(runs')] = new /\ \A n \in 1 .. Len(runs) : runs'[n] = runs[n]
  BY <1>2, <1>3, <1>4
<1>6. Standing \subseteq Pairs \X Kinds /\ Standing' = Standing
  BY <1>2 DEF Standing
<1>7. /\ local \in Local /\ local.pc = "sweeping" /\ local.run = Len(runs') /\ local.at = 1
      /\ local.left = {} /\ local.before = Standing /\ local.found = {}
      /\ local.overdue = task[p].overdue
  <2> DEFINE run == Len(runs')
  <2> DEFINE standing == Standing
  <2> DEFINE late == task[p].overdue
  <2>1. run \in Nat /\ standing \in SUBSET (Pairs \X Kinds)
    BY <1>4, <1>5, <1>6
  <2>2. late \in SUBSET (Vendors \X Days)
    BY <1>1 DEF TypeOK, Local
  <2>3. local = Swept(run, standing, late)
    BY DEF Swept
  <2> HIDE DEF local, run, standing, late
  <2>4. SweptIs(Swept(run, standing, late), run, standing, late)
    BY ONLY <2>1, <2>2, SweepType
  <2>5. SweptIs(local, run, standing, late)
    BY ONLY <2>3, <2>4
  <2> QED
    BY <2>5 DEF SweptIs, run, standing, late
<1> HIDE DEF local
<1>8. /\ task' \in [Tasks -> Local] /\ task'[p] = local
      /\ OneBusy'
      /\ \A q \in Tasks \ {p} :
             /\ task'[q] = task[q] /\ task[q].pc \notin Busy /\ task[q].run = 0
             /\ Steady(q)'
  BY <1>2, <1>7, OthersWait
<1>9. TypeOK'
  BY <1>1, <1>2, <1>5, <1>8 DEF TypeOK, StoreOK
<1>10. Steady(p)'
  <2>1. \A s \in Standing : Ahead(local, s)
    BY <1>6, <1>7, ChecksAre DEF Ahead
  <2>2. Len(new.completed) = 0
    BY <1>3
  <2>3. Len(runs') \in DOMAIN runs'
    BY <1>4, <1>5
  <2> QED
    BY <1>1, <1>2, <1>3, <1>5, <1>6, <1>7, <1>8, <2>1, <2>2, <2>3 DEF Steady, Ahead
<1>11. LedgerTellsProgress'
  <2> SUFFICES ASSUME NEW n \in DOMAIN runs'
               PROVE  LET done == Len(runs'[n].completed) IN
                      /\ runs'[n].completed = SubSeq(Checks, 1, done)
                      /\ runs'[n].pending = Range(Checks) \ Range(runs'[n].completed)
                      /\ IF runs'[n].status = "completed" THEN runs'[n].pending = {}
                         ELSE \/ used'.crashes > 0
                              \/ \E q \in Tasks : task'[q].run = n /\ task'[q].at = done + 1
    BY DEF LedgerTellsProgress
  <2>1. CASE n = Len(runs')
    <3>1. runs'[n].completed = << >> /\ Len(runs'[n].completed) = 0 /\ Range(<< >>) = {}
      BY <1>3, <1>5, <2>1 DEF Range
    <3>2. SubSeq(Checks, 1, 0) = << >>
      BY SubSeqEmpty
    <3>3. runs'[n].pending = Range(Checks) /\ runs'[n].status = "running"
      BY <1>3, <1>5, <2>1
    <3>4. task'[p].run = n /\ task'[p].at = 0 + 1
      BY <1>7, <1>8, <2>1
    <3>5. runs'[n].completed = SubSeq(Checks, 1, Len(runs'[n].completed))
      BY <3>1, <3>2
    <3>6. runs'[n].pending = Range(Checks) \ Range(runs'[n].completed)
      BY <3>1, <3>3
    <3> QED
      BY <3>1, <3>3, <3>4, <3>5, <3>6
  <2>2. CASE n # Len(runs')
    <3>1. n \in 1 .. Len(runs) /\ n \in DOMAIN runs /\ n # 0 /\ runs'[n] = runs[n]
      BY <1>4, <1>5, <2>2
    <3>2. \A q \in Tasks : task[q].run = n => q # p
      BY <1>1, <1>2, <3>1 DEF Steady
    <3>3. \A q \in Tasks : task[q].run = n => task'[q] = task[q]
      BY <1>8, <3>2
    <3> QED
      BY <1>1, <1>2, <3>1, <3>3 DEF LedgerTellsProgress
  <2> QED
    BY <2>1, <2>2
<1> QED
  BY <1>8, <1>9, <1>10, <1>11 DEF WatchInv

(* A sweep looks at one vendor and control after the other. *)
LEMMA InspectStep ==
    ASSUME WatchInv, NEW p \in Tasks, NEW v \in Vendors, NEW c \in Controls, Inspect(p, v, c)
    PROVE  WatchInv'
<1>1. TypeOK /\ StoreOK /\ Steady(p) /\ task[p] \in Local
  BY StoreType DEF WatchInv, TypeOK
<1> DEFINE t == task[p]
<1> DEFINE seen == {<< <<v, c>>, kind >> : kind \in {k \in Finds(Check(p)) :
                                              Shows(v, c, k) /\ ~Excepted(v, c)}}
<1> DEFINE local == [t EXCEPT !.left = @ \ {<<v, c>>}, !.found = @ \cup seen]
<1>2. /\ t.pc = "sweeping" /\ <<v, c>> \in t.left /\ Become(p, local)
      /\ UNCHANGED <<day, store, used, reported>>
  BY DEF Inspect
<1>3. /\ t.run \in DOMAIN runs /\ runs[t.run].status = "running"
      /\ Len(runs[t.run].completed) = t.at - 1
      /\ t.left \subseteq Pairs /\ t.at <= Len(Checks)
      /\ t.before \subseteq Standing /\ t.found \subseteq Standing
      /\ \A s \in t.before : s \in t.found \/ Ahead(t, s)
      /\ \A x \in t.overdue : x[2] < day
  BY <1>1, <1>2 DEF Steady
<1>4. t.at \in 1 .. 4 /\ Check(p) = Checks[t.at] /\ Finds(Check(p)) \subseteq Kinds
  BY <1>1, <1>3, ChecksAre DEF Local, Check
<1>5. seen \subseteq Standing /\ seen \subseteq Pairs \X Kinds
  <2>1. seen \subseteq Standing
    BY <1>1, <1>4, StandingShows
  <2> QED
    BY <2>1 DEF Standing
<1>6. \A k \in Finds(Check(p)) : << <<v, c>>, k>> \in Standing => << <<v, c>>, k>> \in seen
  BY <1>1, <1>4, StandingShows
<1> HIDE DEF seen
<1>7. /\ local \in Local /\ local.pc = "sweeping" /\ local.run = t.run /\ local.at = t.at
      /\ local.left = t.left \ {<<v, c>>} /\ local.before = t.before
      /\ local.found = t.found \cup seen /\ local.overdue = t.overdue
  BY <1>1, <1>2, <1>5 DEF Local
<1> HIDE DEF local
<1>8. StoreOK' /\ runs' = runs /\ used' = used /\ Standing' = Standing /\ day' = day
  <2>1. runs' = runs /\ used' = used /\ day' = day /\ evidence' = evidence /\ due' = due
        /\ exceptions' = exceptions /\ history' = history /\ reported' = reported
    BY <1>2 DEF store
  <2> QED
    BY <1>1, <2>1 DEF StoreOK, Standing
<1>9. ASSUME NEW s \in t.before  PROVE s \in local.found \/ Ahead(local, s)
  <2>1. CASE s \in t.found
    BY <1>7, <2>1
  <2>2. CASE s \notin t.found
    <3>1. PICK i \in t.at .. Len(Checks) :
              s[2] \in Finds(Checks[i]) /\ (i = t.at => s[1] \in t.left)
      BY <1>3, <2>2 DEF Ahead
    <3>2. CASE i = t.at /\ s[1] = <<v, c>>
      <4>1. s = << <<v, c>>, s[2]>> /\ s \in Standing
        BY <1>3, <3>2 DEF Standing
      <4>2. s[2] \in Finds(Check(p))
        BY <1>4, <3>1, <3>2
      <4> QED
        BY <1>6, <1>7, <4>1, <4>2
    <3>3. CASE ~(i = t.at /\ s[1] = <<v, c>>)
      BY <1>7, <3>1, <3>3 DEF Ahead
    <3> QED
      BY <3>2, <3>3
  <2> QED
    BY <2>1, <2>2
<1>10. task'[p] = local
  BY <1>1, <1>2, <1>7, BecomeType
<1>11. Steady(p)'
  <2>1. local.left # {} => local.left \subseteq Pairs /\ local.at <= Len(Checks)
    BY <1>3, <1>7
  <2>2. local.before \subseteq Standing /\ local.found \subseteq Standing
    BY <1>3, <1>5, <1>7
  <2> QED
    BY <1>3, <1>7, <1>8, <1>9, <1>10, <2>1, <2>2 DEF Steady, Ahead
<1> QED
  BY <1>2, <1>7, <1>8, <1>11, Quiet DEF Busy

(* The ledger takes in one more check, the one that the sweep was at. *)
LEMMA OneMoreCheck ==
    ASSUME NEW run \in Run, NEW at \in 1 .. 4,
           run.completed = SubSeq(Checks, 1, at - 1),
           run.pending = Range(Checks) \ Range(run.completed)
    PROVE  LET next == Checkpointed(run, Checks[at]) IN
           /\ next \in Run /\ next.status = run.status
           /\ Len(next.completed) = at
           /\ next.completed = SubSeq(Checks, 1, at)
           /\ next.pending = Range(Checks) \ Range(next.completed)
<1> DEFINE next == Checkpointed(run, Checks[at])
<1> DEFINE done == run.completed
<1>1. Len(Checks) = 4 /\ Checks \in Seq(Range(Checks)) /\ Checks[at] \in Range(Checks)
  BY ChecksAre
<1>2. done \in Seq(Range(Checks)) /\ run.pending \in SUBSET Range(Checks)
  BY DEF Run
<1>3. Len(done) = at - 1 /\ \A i \in 1 .. at - 1 : done[i] = Checks[i]
  <2>1. 1 \in 1 .. Len(Checks) + 1 /\ at - 1 \in 0 .. Len(Checks)
    BY <1>1
  <2> QED
    BY <1>1, <2>1, SubSeqProperties
<1> DEFINE more == Append(done, Checks[at])
<1>4. next.completed = more /\ next.pending = run.pending \ {Checks[at]}
      /\ next.status = run.status
  BY DEF Checkpointed, Run
<1>5. /\ more \in Seq(Range(Checks)) /\ Len(more) = at
      /\ \A i \in 1 .. at : more[i] = Checks[i]
  <2>1. more \in Seq(Range(Checks)) /\ Len(more) = Len(done) + 1
        /\ more[Len(done) + 1] = Checks[at]
        /\ \A i \in 1 .. Len(done) : more[i] = done[i]
    BY <1>1, <1>2, AppendProperties
  <2> QED
    BY <1>3, <2>1
<1>6. more = SubSeq(Checks, 1, at)
  <2> DEFINE sub == SubSeq(Checks, 1, at)
  <2>1. sub \in Seq(Range(Checks)) /\ Len(sub) = at /\ \A i \in 1 .. at : sub[i] = Checks[i]
    <3>1. 1 \in 1 .. Len(Checks) + 1 /\ at \in 0 .. Len(Checks)
      BY <1>1
    <3> QED
      BY <1>1, <3>1, SubSeqProperties
  <2> HIDE DEF sub, more
  <2>2. more = sub
    BY <1>5, <2>1, SeqEqual
  <2> QED
    BY <2>2 DEF sub
<1>7. Range(more) = Range(done) \cup {Checks[at]}
  <2> HIDE DEF more, done
  <2>1. Range(more) = {more[i] : i \in 1 .. at}
    <3>1. DOMAIN more = 1 .. at
      BY <1>5
    <3> QED
      BY <3>1 DEF Range
  <2>2. Range(done) = {done[i] : i \in 1 .. at - 1}
    <3>1. DOMAIN done = 1 .. at - 1
      BY <1>2, <1>3
    <3> QED
      BY <3>1 DEF Range
  <2>3. 1 .. at = (1 .. at - 1) \cup {at}
    OBVIOUS
  <2> QED
    BY <1>3, <1>5, <2>1, <2>2, <2>3
<1> HIDE DEF more
<1>8. next.pending = Range(Checks) \ Range(more)
  BY <1>4, <1>7
<1>9. next \in Run
  BY <1>1, <1>2, <1>4, <1>5 DEF Run, Checkpointed, more
<1> QED
  BY <1>4, <1>5, <1>6, <1>8, <1>9

(* What the ledger says of the run of a sweep. *)
LEMMA RunOf ==
    ASSUME WatchInv, NEW p \in Tasks, task[p].pc = "sweeping"
    PROVE  LET t == task[p] IN
           /\ t \in Local /\ t.at \in 1 .. 5 /\ t.run \in DOMAIN runs /\ t.run # 0
           /\ runs[t.run] \in Run /\ runs[t.run].status = "running"
           /\ runs[t.run].completed = SubSeq(Checks, 1, t.at - 1)
           /\ runs[t.run].pending = Range(Checks) \ Range(runs[t.run].completed)
<1>1. TypeOK /\ Steady(p) /\ LedgerTellsProgress
  BY DEF WatchInv
<1>2. task[p] \in Local /\ task[p].at \in 1 .. 5
  BY <1>1, ChecksAre DEF TypeOK, Local
<1>3. /\ task[p].run \in DOMAIN runs /\ runs[task[p].run].status = "running"
      /\ Len(runs[task[p].run].completed) = task[p].at - 1
  BY <1>1 DEF Steady
<1>4. DOMAIN runs = 1 .. Len(runs) /\ runs[task[p].run] \in Run
  BY <1>1, <1>3 DEF TypeOK
<1> QED
  BY <1>1, <1>2, <1>3, <1>4 DEF LedgerTellsProgress

(* No two tasks have the same run, and only a sweep has one. *)
LEMMA RunsApart ==
    ASSUME WatchInv, NEW p \in Tasks, task[p].pc = "sweeping", NEW n \in DOMAIN runs,
           n # task[p].run, NEW q \in Tasks, task[q].run = n
    PROVE  FALSE
<1>1. n # 0
  BY DEF WatchInv, TypeOK
<1>2. task[q].pc = "sweeping"
  BY <1>1 DEF WatchInv, Steady
<1> QED
  BY <1>2 DEF WatchInv, OneBusy, Busy

(* The ledger after the sweep of p has written to its own run. *)
LEMMA LedgerMoves ==
    ASSUME WatchInv, NEW p \in Tasks, task[p].pc = "sweeping", NEW next \in Run,
           runs' = [runs EXCEPT ![task[p].run] = next], used' = used,
           next.completed = SubSeq(Checks, 1, Len(next.completed)),
           next.pending = Range(Checks) \ Range(next.completed),
           IF next.status = "completed" THEN next.pending = {}
           ELSE task'[p].run = task[p].run /\ task'[p].at = Len(next.completed) + 1
    PROVE  LedgerTellsProgress' /\ runs' \in Seq(Run)
<1>1. runs \in Seq(Run) /\ task[p].run \in DOMAIN runs
  BY RunOf DEF WatchInv, TypeOK
<1>2. runs' \in Seq(Run) /\ DOMAIN runs' = DOMAIN runs /\ runs'[task[p].run] = next
      /\ \A n \in DOMAIN runs : n # task[p].run => runs'[n] = runs[n]
  BY <1>1
<1> SUFFICES ASSUME NEW n \in DOMAIN runs
             PROVE  LET done == Len(runs'[n].completed) IN
                    /\ runs'[n].completed = SubSeq(Checks, 1, done)
                    /\ runs'[n].pending = Range(Checks) \ Range(runs'[n].completed)
                    /\ IF runs'[n].status = "completed" THEN runs'[n].pending = {}
                       ELSE \/ used'.crashes > 0
                            \/ \E q \in Tasks : task'[q].run = n /\ task'[q].at = done + 1
  BY <1>2 DEF LedgerTellsProgress
<1>3. CASE n = task[p].run
  BY <1>2, <1>3
<1>4. CASE n # task[p].run
  <2>1. \A q \in Tasks : task[q].run # n
    BY <1>4, RunsApart
  <2>2. runs'[n] = runs[n]
    BY <1>2, <1>4
  <2> QED
    BY <2>1, <2>2 DEF WatchInv, LedgerTellsProgress
<1> QED
  BY <1>3, <1>4

LEMMA CheckpointStep ==
    ASSUME WatchInv, NEW p \in Tasks, Checkpoint(p)
    PROVE  WatchInv'
<1>1. TypeOK /\ StoreOK /\ Steady(p) /\ task[p] \in Local
  BY StoreType DEF WatchInv, TypeOK
<1> DEFINE t == task[p]
<1> DEFINE left == IF t.at < Len(Checks) /\ Finds(Checks[t.at + 1]) # {} THEN Pairs ELSE {}
<1> DEFINE local == [t EXCEPT !.at = @ + 1, !.left = left]
<1> DEFINE next == Checkpointed(runs[t.run], Checks[t.at])
<1>2. /\ t.pc = "sweeping" /\ t.left = {} /\ t.at <= Len(Checks) /\ Become(p, local)
      /\ runs' = [runs EXCEPT ![t.run] = next]
      /\ UNCHANGED <<day, evidence, exceptions, history, due, used, reported>>
  BY DEF Checkpoint, Check
<1>3. /\ t.at \in 1 .. 4 /\ t.run \in DOMAIN runs /\ t.run # 0
      /\ runs[t.run] \in Run /\ runs[t.run].status = "running"
      /\ runs[t.run].completed = SubSeq(Checks, 1, t.at - 1)
      /\ runs[t.run].pending = Range(Checks) \ Range(runs[t.run].completed)
  BY <1>2, RunOf, ChecksAre
<1>4. /\ next \in Run /\ next.status = "running" /\ Len(next.completed) = t.at
      /\ next.completed = SubSeq(Checks, 1, t.at)
      /\ next.pending = Range(Checks) \ Range(next.completed)
  BY <1>3, OneMoreCheck
<1> HIDE DEF next
<1>5. left \subseteq Pairs /\ (left # {} => t.at + 1 <= Len(Checks))
      /\ \A k \in Kinds : t.at < Len(Checks) /\ k \in Finds(Checks[t.at + 1]) => left = Pairs
  BY <1>3, ChecksAre
<1> HIDE DEF left
<1>6. /\ local \in Local /\ local.pc = "sweeping" /\ local.run = t.run /\ local.at = t.at + 1
      /\ local.left = left /\ local.before = t.before /\ local.found = t.found
      /\ local.overdue = t.overdue
  <2>1. t.at + 1 \in 1 .. Len(Checks) + 1
    BY <1>3, ChecksAre
  <2> QED
    BY <1>1, <1>2, <1>5, <2>1 DEF Local
<1> HIDE DEF local
<1>7. /\ task' \in [Tasks -> Local] /\ task'[p] = local
      /\ OneBusy'
      /\ \A q \in Tasks \ {p} :
             /\ task'[q] = task[q] /\ task[q].pc \notin Busy /\ task[q].run = 0
             /\ Steady(q)'
  BY <1>2, <1>6, OthersWait DEF Busy
<1>8. LedgerTellsProgress' /\ runs' \in Seq(Run)
  BY <1>2, <1>4, <1>6, <1>7, LedgerMoves
<1>9. TypeOK'
  BY <1>1, <1>2, <1>7, <1>8 DEF TypeOK, StoreOK
<1>10. Standing' = Standing
  BY <1>2 DEF Standing
<1>11. ASSUME NEW s \in t.before  PROVE s \in t.found \/ Ahead(local, s)
  <2>1. CASE s \in t.found
    BY <2>1
  <2>2. CASE s \notin t.found
    <3>1. PICK i \in t.at .. Len(Checks) :
              s[2] \in Finds(Checks[i]) /\ (i = t.at => s[1] \in t.left)
      BY <1>1, <1>2, <2>2 DEF Steady, Ahead
    <3>2. i # t.at /\ i \in t.at + 1 .. Len(Checks)
      BY <1>2, <1>3, <3>1, ChecksAre
    <3>3. s \in Pairs \X Kinds
      BY <1>1 DEF Local
    <3>4. i = t.at + 1 => s[1] \in left
      BY <1>3, <1>5, <3>1, <3>2, <3>3, ChecksAre
    <3> QED
      BY <1>6, <3>1, <3>2, <3>4 DEF Ahead
  <2> QED
    BY <2>1, <2>2
<1>12. Steady(p)'
  <2>1. runs'[t.run] = next /\ t.run \in DOMAIN runs'
    BY <1>2, <1>3
  <2>2. Len(next.completed) = local.at - 1
    BY <1>3, <1>4, <1>6
  <2>3. /\ t.before \subseteq Standing /\ t.found \subseteq Standing
        /\ \A x \in t.overdue : x[2] < day'
    BY <1>1, <1>2 DEF Steady
  <2> QED
    BY <1>4, <1>5, <1>6, <1>7, <1>10, <1>11, <2>1, <2>2, <2>3 DEF Steady, Ahead
<1> QED
  BY <1>7, <1>8, <1>9, <1>12 DEF WatchInv

(* At the end of a sweep nothing lies before it. *)
LEMMA SweepEndsStep ==
    ASSUME WatchInv, NEW p \in Tasks, SweepEnds(p)
    PROVE  /\ WatchInv'
           /\ task[p].before \subseteq task[p].found /\ task[p].found \subseteq Standing
<1>1. TypeOK /\ StoreOK /\ Steady(p)
  BY StoreType DEF WatchInv
<1> DEFINE t == task[p]
<1> DEFINE next == [runs[t.run] EXCEPT !.status = "completed"]
<1> DEFINE late == t.overdue
<1> DEFINE local == [Idle EXCEPT !.pc = "running", !.overdue = late]
<1>2. /\ t.pc = "sweeping" /\ t.at > Len(Checks) /\ Become(p, local)
      /\ runs' = [runs EXCEPT ![t.run].status = "completed"]
      /\ UNCHANGED <<day, evidence, exceptions, history, due, used, reported>>
  BY DEF SweepEnds
<1>3. /\ t.at \in 1 .. 5 /\ t.run \in DOMAIN runs
      /\ runs[t.run] \in Run /\ runs[t.run].status = "running"
      /\ runs[t.run].completed = SubSeq(Checks, 1, t.at - 1)
      /\ runs[t.run].pending = Range(Checks) \ Range(runs[t.run].completed)
  BY <1>2, RunOf
<1>4. t.at = 5
  BY <1>2, <1>3, ChecksAre
<1>5. runs[t.run].completed = Checks /\ Len(Checks) = 4
  <2>1. SubSeq(Checks, 1, Len(Checks)) = Checks
    BY ChecksAre, SubSeqFull
  <2>2. t.at - 1 = Len(Checks)
    BY <1>4, ChecksAre
  <2> QED
    BY <1>3, <2>1, <2>2, ChecksAre
<1>6. runs' = [runs EXCEPT ![t.run] = next]
  BY <1>2
<1>7. /\ next \in Run /\ next.status = "completed" /\ next.completed = Checks
      /\ next.pending = {}
  BY <1>3, <1>5 DEF Run
<1> HIDE DEF next
<1>0. late \in SUBSET (Vendors \X Days) /\ \A x \in late : x[2] < day
  BY <1>1 DEF TypeOK, Local, Steady
<1> HIDE DEF late
<1>14. /\ local \in Local /\ local.pc = "running" /\ local.run = 0 /\ local.overdue = late
  BY <1>0, RunningType
<1> HIDE DEF local
<1>8. /\ task' \in [Tasks -> Local] /\ task'[p] = local
      /\ OneBusy'
      /\ \A q \in Tasks \ {p} :
             /\ task'[q] = task[q] /\ task[q].pc \notin Busy /\ task[q].run = 0
             /\ Steady(q)'
  BY <1>2, <1>14, OthersWait DEF Busy
<1>9. LedgerTellsProgress' /\ runs' \in Seq(Run)
  <2>1. next.completed = SubSeq(Checks, 1, Len(next.completed))
        /\ next.pending = Range(Checks) \ Range(next.completed)
    <3>1. SubSeq(Checks, 1, Len(Checks)) = Checks
      BY ChecksAre, SubSeqFull
    <3> QED
      BY <1>7, <3>1
  <2> QED
    BY <1>2, <1>6, <1>7, <2>1, LedgerMoves
<1>10. TypeOK'
  BY <1>1, <1>2, <1>8, <1>9 DEF TypeOK, StoreOK
<1>11. Steady(p)'
  BY <1>0, <1>2, <1>8, <1>14 DEF Steady
<1>12. t.before \subseteq t.found
  <2>1. \A s : ~Ahead(t, s)
    BY <1>4, <1>5 DEF Ahead
  <2> QED
    BY <1>1, <1>2, <2>1 DEF Steady
<1>13. t.found \subseteq Standing
  BY <1>1, <1>2 DEF Steady
<1> QED
  BY <1>8, <1>9, <1>10, <1>11, <1>12, <1>13 DEF WatchInv

-----------------------------------------------------------------------------
(* Evidence ages and exceptions lapse while a sweep looks. *)
LEMMA DayPassesStep ==
    ASSUME WatchInv, DayPasses
    PROVE  WatchInv'
<1>1. day < MaxDay /\ day' = day + 1 /\ evidence' = evidence /\ exceptions' = exceptions
      /\ history' = history /\ due' = due /\ runs' = runs /\ task' = task /\ used' = used
      /\ reported' = reported
  BY DEF DayPasses, store
<1>2. TypeOK'
  <2>1. day' \in Days
    BY <1>1, WatchAssumption DEF WatchInv, TypeOK, Days
  <2> QED
    BY <1>1, <2>1 DEF WatchInv, TypeOK
<1>3. Standing \subseteq Standing'
  BY <1>1, StandingLasts DEF WatchInv
<1>4. OneBusy' /\ LedgerTellsProgress'
  BY <1>1 DEF WatchInv, OneBusy, LedgerTellsProgress
<1>5. ASSUME NEW p \in Tasks  PROVE Steady(p)'
  <2>1. \A x \in task[p].overdue : x[2] < day'
    <3>1. day \in Nat /\ \A x \in task[p].overdue : x[2] \in Nat /\ x[2] < day
      BY WatchAssumption DEF WatchInv, TypeOK, Local, Steady, Days
    <3> QED
      BY <1>1, <3>1
  <2> QED
    BY <1>1, <1>3, <2>1 DEF WatchInv, Steady, Ahead
<1> QED
  BY <1>2, <1>4, <1>5 DEF WatchInv

LEMMA CrashStep ==
    ASSUME WatchInv, NEW i \in Instances, Crash(i)
    PROVE  WatchInv'
<1>1. StoreOK
  BY StoreType DEF WatchInv
<1>2. used.crashes < MaxCrashes /\ used' = [used EXCEPT !.crashes = @ + 1]
      /\ task' = [p \in Tasks |-> IF Home[p] = i THEN Idle ELSE task[p]]
      /\ UNCHANGED <<day, store, reported>>
  BY DEF Crash
<1>3. task' = [p \in Tasks |-> Idle]
  BY <1>2, OneInstance DEF Crash
<1>4. \A q \in Tasks : task'[q].pc = "idle" /\ task'[q].run = 0 /\ task'[q].overdue = {}
  BY <1>3, IdleType
<1>5. used' \in [snapshots : 0 .. MaxSnapshots, exceptions : 0 .. MaxExceptions,
                 offboardings : 0 .. MaxOffboardings, crashes : 0 .. MaxCrashes]
      /\ used'.crashes > 0
  <2>1. used.crashes \in 0 .. MaxCrashes /\ MaxCrashes \in Nat
    BY <1>1, WatchAssumption DEF StoreOK
  <2>2. used.crashes + 1 \in 0 .. MaxCrashes /\ used.crashes + 1 > 0
    BY <1>2, <2>1
  <2>3. used' = [used EXCEPT !.crashes = used.crashes + 1]
    BY <1>2
  <2> QED
    BY <1>1, <2>2, <2>3 DEF StoreOK
<1>6. runs' = runs
  BY <1>2 DEF store
<1>7. TypeOK'
  <2>1. task' \in [Tasks -> Local]
    BY <1>3, IdleType
  <2>2. StoreOK'
    BY <1>1, <1>2, <1>5 DEF StoreOK, store
  <2> QED
    BY <2>1, <2>2 DEF TypeOK, StoreOK
<1>8. LedgerTellsProgress'
  BY <1>5, <1>6 DEF WatchInv, LedgerTellsProgress
<1> QED
  BY <1>4, <1>7, <1>8 DEF WatchInv, OneBusy, Steady, Busy

LEMMA InvNext == WatchInv /\ [Next]_vars => WatchInv'
<1> SUFFICES ASSUME WatchInv, [Next]_vars  PROVE WatchInv'
  OBVIOUS
<1>1. ASSUME NEW p \in Tasks, Ask(p)  PROVE WatchInv'
  BY <1>1, TickStep, RequestStep
<1>2. ASSUME NEW p \in Tasks, Advance(p)  PROVE WatchInv'
  BY <1>2, CollectStep, InspectStep, CheckpointStep, SweepEndsStep DEF Advance
<1>3. ASSUME NEW p \in Tasks, StartSweep(p) \/ RunEnds(p)  PROVE WatchInv'
  BY <1>3, StartSweepStep, RunEndsStep
<1>4. ASSUME NEW i \in Instances, Crash(i)  PROVE WatchInv'
  BY <1>4, CrashStep
<1>5. CASE UNCHANGED vars
  <2>1. task' = task /\ day' = day /\ evidence' = evidence /\ exceptions' = exceptions
        /\ history' = history /\ due' = due /\ runs' = runs /\ used' = used
        /\ reported' = reported
    BY <1>5 DEF vars, store
  <2>2. TypeOK' /\ OneBusy' /\ LedgerTellsProgress'
    BY <2>1 DEF WatchInv, TypeOK, OneBusy, LedgerTellsProgress
  <2>3. Standing' = Standing
    BY <2>1 DEF Standing
  <2>4. ASSUME NEW p \in Tasks  PROVE Steady(p)'
    BY <2>1, <2>3 DEF WatchInv, Steady, Ahead
  <2> QED
    BY <2>2, <2>4 DEF WatchInv
<1> QED
  BY <1>1, <1>2, <1>3, <1>4, <1>5, DayPassesStep DEF Next

(* The inductive invariant holds in every reachable state. *)
THEOREM WatchInvariant == Spec => []WatchInv
BY InvInit, InvNext, PTL DEF Spec

(* Readings, exceptions, histories, the ledger and the tasks keep their types. *)
THEOREM WatchTypeCorrect == Spec => []TypeOK
<1>1. WatchInv => TypeOK
  BY DEF WatchInv
<1> QED
  BY <1>1, WatchInvariant, PTL

(* The ledger says how far each sweep came: what it names as done are the    *)
(* first checks in their order, and a run that stays open without a task at  *)
(* its next check was cut off by a crash.                                    *)
THEOREM WatchLedgerTellsProgress == Spec => []LedgerTellsProgress
<1>1. WatchInv => LedgerTellsProgress
  BY DEF WatchInv
<1> QED
  BY <1>1, WatchInvariant, PTL

(* A sweep misses no drift that stood when it began, however many days pass  *)
(* while it looks.                                                           *)
THEOREM WatchSweepComplete == Spec => SweepComplete
<1>1. WatchInv /\ [Next]_vars =>
          [\A p \in Tasks : SweepEnds(p) => task[p].before \subseteq task[p].found]_vars
  BY SweepEndsStep
<1> QED
  BY <1>1, WatchInvariant, PTL DEF Spec, SweepComplete

(* A sweep signals no drift that does not stand at its end.                  *)
THEOREM WatchSweepSound == Spec => SweepSound
<1>1. WatchInv /\ [Next]_vars =>
          [\A p \in Tasks : SweepEnds(p) => task[p].found \subseteq Standing]_vars
  BY SweepEndsStep
<1> QED
  BY <1>1, WatchInvariant, PTL DEF Spec, SweepSound

(* The answer to a tick names each deletion that was overdue when its run    *)
(* began and was neither confirmed nor given a new deadline since, and only  *)
(* deletions that are overdue.                                               *)
THEOREM WatchOverdueNamed == Spec => OverdueNamed
<1>1. WatchInv /\ [Next]_vars =>
          [\A p \in Tasks : RunReturns(p, TRUE) =>
              /\ \A x \in task[p].overdue : due[x[1]] = x[2] => x[1] \in reported'
              /\ \A v \in reported' : due[v] \in Days /\ due[v] < day]_vars
  BY NamedStep
<1> QED
  BY <1>1, WatchInvariant, PTL DEF Spec, OverdueNamed
=============================================================================
