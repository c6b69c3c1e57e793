--------------------------- MODULE EventBus_proofs --------------------------
(***************************************************************************)
(* What the bus guarantees in one process, for every number of calls,      *)
(* topics, keys, handlers and crashes.                                     *)
(***************************************************************************)
EXTENDS EventBusSingle, TLAPS

(* The code between the test of event_dedup and the write to it, and the  *)
(* except block, are never inside each other.                             *)
OneBusy == \A c, d \in Calls : pc[c] \in Busy /\ pc[d] \in Busy => c = d

(* Whoever dispatches, or has started a handler, owns its key. *)
Owns ==
    \A c \in Calls :
        /\ pc[c] = "marking" => dedup[Slot(c)] = NoEvent
        /\ pc[c] \in {"dispatching", "handling", "failing", "done"} => dedup[Slot(c)] = c
        /\ (\E h \in HandlerIds : started[c][h] # 0) => dedup[Slot(c)] = c

(* The handlers started so far are those up to next. *)
Expected(c, h) ==
    CASE pc[c] \in {"idle", "marking", "skipped"} -> started[c][h] = 0
      [] pc[c] = "dispatching" -> started[c][h] = IF h < next[c] THEN 1 ELSE 0
      [] pc[c] \in {"handling", "failing"} -> started[c][h] = IF h <= next[c] THEN 1 ELSE 0
      [] pc[c] = "done" -> started[c][h] <= 1 /\ (h \in HandlersOf(c) => started[c][h] = 1)
      [] OTHER -> started[c][h] <= 1

AtHandler(c) ==
    /\ next[c] <= Handlers[env[c].topic] + 1
    /\ pc[c] \in {"idle", "marking"} => next[c] = 1
    /\ pc[c] \in {"handling", "failing"} => next[c] \in HandlersOf(c)

Progress == \A c \in Calls : AtHandler(c) /\ \A h \in HandlerIds : Expected(c, h)

Recorded ==
    \A c \in Calls :
        /\ pc[c] = "failing" => next[c] \in failed[c]
        /\ failed[c] # {} => dlq[c] \in failed[c] \/ pc[c] \in {"failing", "lost"}

BusInv == TypeOK /\ OneBusy /\ Owns /\ Progress /\ Recorded

-----------------------------------------------------------------------------
(* The key of a call is one of the slots event_dedup has room for. *)
LEMMA SlotType == TypeOK => \A c \in Calls : Slot(c) \in Topics \X Keys
BY DEF TypeOK, Envelope, Slot

(* The handlers of a call are among the handler ids, a number of naturals. *)
LEMMA HandlerType ==
    TypeOK => \A c \in Calls :
                /\ Handlers[env[c].topic] \in Nat
                /\ HandlersOf(c) \subseteq HandlerIds
<1>1. SUFFICES ASSUME TypeOK, NEW c \in Calls
               PROVE  /\ Handlers[env[c].topic] \in Nat
                      /\ HandlersOf(c) \subseteq HandlerIds
  OBVIOUS
<1>2. env[c].topic \in Topics
  BY <1>1 DEF TypeOK, Envelope
<1> QED
  BY <1>2, BusAssumption DEF HandlersOf, HandlerIds

(* Handlers are numbered from 1. *)
LEMMA IdsAreNumbers == HandlerIds \subseteq Nat \ {0}
BY BusAssumption DEF HandlerIds

(* Arithmetic for the step from one handler to the next. *)
LEMMA AtMostIsBelow == \A m, n \in Nat : m # n => (m <= n <=> m < n)
OBVIOUS

(* The invariant holds at the start. *)
LEMMA InvInit == Init => BusInv
<1> SUFFICES ASSUME Init
             PROVE  BusInv
  OBVIOUS
<1>1. TypeOK
  BY BusAssumption DEF Init, TypeOK, PC
<1>2. OneBusy
  BY DEF Init, OneBusy, Busy
<1>3. Owns
  BY DEF Init, Owns
<1>4. Progress
  <2>1. ASSUME NEW c \in Calls
        PROVE  AtHandler(c)
    BY <1>1, HandlerType DEF Init, AtHandler
  <2>2. ASSUME NEW c \in Calls, NEW h \in HandlerIds
        PROVE  Expected(c, h)
    BY DEF Init, Expected
  <2> QED
    BY <2>1, <2>2 DEF Progress
<1>5. Recorded
  BY DEF Init, Recorded
<1> QED
  BY <1>1, <1>2, <1>3, <1>4, <1>5 DEF BusInv

(* Every step keeps the types; that a handler which raises is one of the *)
(* handlers takes Progress.                                              *)
LEMMA TypeStep == BusInv /\ [Next]_vars => TypeOK'
<1> SUFFICES ASSUME BusInv, [Next]_vars
             PROVE  TypeOK'
  OBVIOUS
<1> TypeOK
  BY DEF BusInv
<1> USE DEF TypeOK, Go, PC
<1>1. ASSUME NEW c \in Calls, SkipDuplicate(c)
      PROVE  TypeOK'
  BY <1>1 DEF SkipDuplicate
<1>2. ASSUME NEW c \in Calls, Accept(c)
      PROVE  TypeOK'
  BY <1>2 DEF Accept
<1>3. ASSUME NEW c \in Calls, MarkProcessed(c)
      PROVE  TypeOK'
  BY <1>3 DEF MarkProcessed
<1>4. ASSUME NEW c \in Calls, StartHandler(c)
      PROVE  TypeOK'
  <2>1. next[c] \in HandlerIds /\ started[c][next[c]] + 1 \in Nat
    BY <1>4, HandlerType DEF StartHandler
  <2> QED
    BY <1>4, <2>1 DEF StartHandler
<1>5. ASSUME NEW c \in Calls, HandlerReturns(c)
      PROVE  TypeOK'
  BY <1>5 DEF HandlerReturns
<1>6. ASSUME NEW c \in Calls, HandlerRaises(c)
      PROVE  TypeOK'
  <2>1. next[c] \in HandlerIds
    BY <1>6, HandlerType DEF HandlerRaises, BusInv, Progress, AtHandler
  <2> QED
    BY <1>6, <2>1 DEF HandlerRaises
<1>7. ASSUME NEW c \in Calls, SendToDlq(c)
      PROVE  TypeOK'
  BY <1>7 DEF SendToDlq
<1>8. ASSUME NEW c \in Calls, Finish(c)
      PROVE  TypeOK'
  BY <1>8 DEF Finish
<1>9. ASSUME NEW i \in Instances, Crash(i)
      PROVE  TypeOK'
  BY <1>9, BusAssumption DEF Crash
<1> QED
  BY <1>1, <1>2, <1>3, <1>4, <1>5, <1>6, <1>7, <1>8, <1>9 DEF Next, Advance, vars

(* The code between two awaits is entered only when no other is. *)
LEMMA BusyStep == BusInv /\ [Next]_vars => OneBusy'
<1> SUFFICES ASSUME BusInv, [Next]_vars
             PROVE  OneBusy'
  OBVIOUS
<1> TypeOK /\ OneBusy
  BY DEF BusInv
<1> USE DEF TypeOK, OneBusy, Busy, Go
<1>1. ASSUME NEW c \in Calls, LoopFree(c)
      PROVE  \A d \in Calls \ {c} : pc[d] \notin Busy
  <2>1. \A d \in Calls : env[d].inst = env[c].inst
    BY OneInstance DEF Envelope
  <2> QED
    BY <1>1, <2>1 DEF LoopFree
<1>2. ASSUME NEW c \in Calls, SkipDuplicate(c) \/ Accept(c) \/ StartHandler(c) \/ HandlerReturns(c)
                              \/ HandlerRaises(c) \/ Finish(c)
      PROVE  OneBusy'
  <2>1. \A d \in Calls \ {c} : pc[d] \notin Busy /\ pc'[d] = pc[d]
    BY <1>1, <1>2 DEF SkipDuplicate, Accept, StartHandler, HandlerReturns, HandlerRaises, Finish
  <2> QED
    BY <2>1
<1>3. ASSUME NEW c \in Calls, MarkProcessed(c) \/ SendToDlq(c)
      PROVE  OneBusy'
  BY <1>3 DEF MarkProcessed, SendToDlq
<1>4. ASSUME NEW i \in Instances, Crash(i)
      PROVE  OneBusy'
  BY <1>4 DEF Crash
<1>5. CASE UNCHANGED vars
  BY <1>5 DEF vars
<1> QED
  BY <1>2, <1>3, <1>4, <1>5 DEF Next, Advance

(* A step of a call, or of no call, leaves what the other calls are at. *)
Others(c) ==
    \A d \in Calls \ {c} :
        /\ pc'[d] = pc[d] /\ next'[d] = next[d] /\ started'[d] = started[d]
        /\ failed'[d] = failed[d] /\ dlq'[d] = dlq[d]

(* Each of these steps is a move of one call that leaves the others alone. *)
LEMMA OneMoves ==
    ASSUME BusInv, NEW c \in Calls, SkipDuplicate(c) \/ Accept(c) \/ Advance(c)
    PROVE  Others(c) /\ env' = env
BY DEF BusInv, TypeOK, Others, Go, SkipDuplicate, Accept, Advance, MarkProcessed,
       StartHandler, HandlerReturns, HandlerRaises, SendToDlq, Finish

(* Only MarkProcessed writes event_dedup, and only where nothing stood. *)
LEMMA OwnsStep == BusInv /\ [Next]_vars => Owns'
<1> SUFFICES ASSUME BusInv, [Next]_vars
             PROVE  Owns'
  OBVIOUS
<1> TypeOK /\ OneBusy /\ Owns
  BY DEF BusInv
<1>1. ASSUME NEW c \in Calls, Accept(c)
      PROVE  Owns'
  <2>1. dedup[Slot(c)] = NoEvent /\ pc'[c] = "marking"
    BY <1>1 DEF Accept, AlreadyProcessed, Go, TypeOK
  <2>2. Others(c) /\ env' = env /\ dedup' = dedup /\ started' = started
    BY <1>1, OneMoves DEF Accept
  <2>3. \A d \in Calls : Slot(d)' = Slot(d)
    BY <2>2 DEF Slot
  <2> QED
    BY <2>1, <2>2, <2>3 DEF Owns, Others
<1>2. ASSUME NEW c \in Calls, MarkProcessed(c)
      PROVE  Owns'
  <2>1. Slot(c) \in Topics \X Keys /\ dedup[Slot(c)] = NoEvent
    BY <1>2, SlotType DEF Owns, MarkProcessed
  <2>2. dedup'[Slot(c)] = c
    BY <1>2, <2>1 DEF MarkProcessed, TypeOK
  <2>3. ASSUME NEW d \in Calls \ {c}
        PROVE  /\ pc'[d] = pc[d] /\ pc[d] # "marking"
               /\ dedup[Slot(d)] = d => dedup'[Slot(d)] = d
    <3>1. pc'[d] = pc[d] /\ pc[d] # "marking"
      BY <1>2 DEF MarkProcessed, Go, TypeOK, OneBusy, Busy
    <3>2. dedup[Slot(d)] = d => dedup'[Slot(d)] = d
      BY <1>2, <2>1, SlotType, BusAssumption DEF MarkProcessed, TypeOK
    <3> QED
      BY <3>1, <3>2
  <2>4. pc'[c] = "dispatching" /\ env' = env /\ started' = started
    BY <1>2 DEF MarkProcessed, Go, TypeOK
  <2>5. \A d \in Calls : Slot(d)' = Slot(d)
    BY <2>4 DEF Slot
  <2> QED
    BY <2>2, <2>3, <2>4, <2>5 DEF Owns
<1>3. ASSUME NEW c \in Calls, StartHandler(c)
      PROVE  Owns'
  <2>1. dedup[Slot(c)] = c /\ pc'[c] = "handling"
    BY <1>3 DEF StartHandler, Owns, Go, TypeOK
  <2>2. Others(c) /\ dedup' = dedup /\ env' = env
    BY <1>3, OneMoves DEF StartHandler, Advance
  <2>3. \A d \in Calls : Slot(d)' = Slot(d)
    BY <2>2 DEF Slot
  <2> QED
    BY <2>1, <2>2, <2>3 DEF Owns, Others
<1>4. ASSUME NEW c \in Calls,
             SkipDuplicate(c) \/ HandlerReturns(c) \/ HandlerRaises(c) \/ SendToDlq(c) \/ Finish(c)
      PROVE  Owns'
  BY <1>4 DEF TypeOK, Owns, Slot, Go, SkipDuplicate, HandlerReturns, HandlerRaises, SendToDlq, Finish
<1>5. ASSUME NEW i \in Instances, Crash(i)
      PROVE  Owns'
  BY <1>5 DEF TypeOK, Owns, Slot, Crash
<1>6. CASE UNCHANGED vars
  BY <1>6 DEF vars, Owns, Slot
<1> QED
  BY <1>1, <1>2, <1>3, <1>4, <1>5, <1>6 DEF Next, Advance

(* A step that leaves a call alone leaves what the invariant says of it. *)
LEMMA Untouched ==
    ASSUME BusInv, NEW d \in Calls,
           env' = env, pc'[d] = pc[d], next'[d] = next[d], started'[d] = started[d]
    PROVE  AtHandler(d)' /\ \A h \in HandlerIds : Expected(d, h)'
<1>1. AtHandler(d) /\ \A h \in HandlerIds : Expected(d, h)
  BY DEF BusInv, Progress
<1>2. HandlersOf(d)' = HandlersOf(d)
  BY DEF HandlersOf
<1>3. AtHandler(d)'
  BY <1>1, <1>2 DEF AtHandler
<1>4. ASSUME NEW h \in HandlerIds
      PROVE  Expected(d, h)'
  BY <1>1, <1>2 DEF Expected
<1> QED
  BY <1>3, <1>4

(* The handlers are started in their order, each once. *)
LEMMA ProgressStep == BusInv /\ [Next]_vars => Progress'
<1> SUFFICES ASSUME BusInv, [Next]_vars
             PROVE  Progress'
  OBVIOUS
<1> TypeOK /\ Progress
  BY DEF BusInv
<1> USE DEF TypeOK, Go
<1>1. ASSUME NEW c \in Calls, SkipDuplicate(c) \/ Accept(c) \/ Advance(c),
             AtHandler(c)', \A h \in HandlerIds : Expected(c, h)'
      PROVE  Progress'
  BY <1>1, OneMoves, Untouched DEF Others, Progress
<1>2. ASSUME NEW c \in Calls, SkipDuplicate(c)
      PROVE  AtHandler(c)' /\ \A h \in HandlerIds : Expected(c, h)'
  BY <1>2 DEF SkipDuplicate, Progress, AtHandler, Expected
<1>3. ASSUME NEW c \in Calls, Accept(c)
      PROVE  AtHandler(c)' /\ \A h \in HandlerIds : Expected(c, h)'
  BY <1>3 DEF Accept, Progress, AtHandler, Expected
<1>4. ASSUME NEW c \in Calls, MarkProcessed(c)
      PROVE  AtHandler(c)' /\ \A h \in HandlerIds : Expected(c, h)'
  BY <1>4, IdsAreNumbers DEF MarkProcessed, Progress, AtHandler, Expected
<1>5. ASSUME NEW c \in Calls, StartHandler(c)
      PROVE  AtHandler(c)' /\ \A h \in HandlerIds : Expected(c, h)'
  <2>1. next[c] \in HandlerIds /\ next[c] \in HandlersOf(c)
    BY <1>5, HandlerType DEF StartHandler
  <2>2. pc[c] = "dispatching" /\ pc'[c] = "handling" /\ next' = next /\ env' = env
    BY <1>5 DEF StartHandler
  <2>3. \A h \in HandlerIds :
            started'[c][h] = IF h = next[c] THEN started[c][h] + 1 ELSE started[c][h]
    BY <1>5, <2>1 DEF StartHandler
  <2>4. AtHandler(c)'
    BY <2>1, <2>2 DEF Progress, AtHandler, HandlersOf
  <2>5. ASSUME NEW h \in HandlerIds
        PROVE  Expected(c, h)'
    <3>1. h \in Nat /\ next[c] \in Nat
      BY <2>1, IdsAreNumbers
    <3>2. started[c][h] = IF h < next[c] THEN 1 ELSE 0
      BY <2>2 DEF Progress, Expected
    <3>3. started'[c][h] = IF h <= next[c] THEN 1 ELSE 0
      <4>1. CASE h = next[c]
        <5>1. started[c][h] = 0
          BY <3>1, <3>2, <4>1
        <5>2. started'[c][h] = started[c][h] + 1
          BY <2>3, <4>1
        <5> QED
          BY <3>1, <4>1, <5>1, <5>2
      <4>2. CASE h # next[c]
        <5>1. started'[c][h] = started[c][h]
          BY <2>3, <4>2
        <5>2. h <= next[c] <=> h < next[c]
          BY <3>1, <4>2, AtMostIsBelow
        <5> QED
          BY <3>2, <5>1, <5>2
      <4> QED
        BY <4>1, <4>2
    <3> QED
      BY <2>2, <3>3 DEF Expected
  <2> QED
    BY <2>4, <2>5
<1>6. ASSUME NEW c \in Calls, HandlerReturns(c) \/ SendToDlq(c)
      PROVE  AtHandler(c)' /\ \A h \in HandlerIds : Expected(c, h)'
  <2>1. /\ pc[c] \in {"handling", "failing"} /\ pc'[c] = "dispatching"
        /\ next'[c] = next[c] + 1 /\ started' = started /\ env' = env
    BY <1>6 DEF HandlerReturns, SendToDlq
  <2>2. AtHandler(c)'
    BY <2>1, HandlerType DEF Progress, AtHandler, HandlersOf
  <2>3. ASSUME NEW h \in HandlerIds
        PROVE  Expected(c, h)'
    BY <2>1, IdsAreNumbers DEF Progress, Expected
  <2> QED
    BY <2>2, <2>3
<1>7. ASSUME NEW c \in Calls, HandlerRaises(c)
      PROVE  AtHandler(c)' /\ \A h \in HandlerIds : Expected(c, h)'
  BY <1>7 DEF HandlerRaises, Progress, AtHandler, Expected, HandlersOf
<1>8. ASSUME NEW c \in Calls, Finish(c)
      PROVE  AtHandler(c)' /\ \A h \in HandlerIds : Expected(c, h)'
  <2>1. /\ pc[c] = "dispatching" /\ pc'[c] = "done" /\ next[c] \notin HandlersOf(c)
        /\ next' = next /\ started' = started /\ env' = env
    BY <1>8 DEF Finish
  <2>2. \A h \in HandlersOf(c) : h < next[c]
    BY <2>1, HandlerType DEF HandlersOf
  <2>3. AtHandler(c)'
    BY <2>1 DEF Progress, AtHandler
  <2>4. HandlersOf(c)' = HandlersOf(c)
    BY <2>1 DEF HandlersOf
  <2>5. ASSUME NEW h \in HandlerIds
        PROVE  Expected(c, h)'
    BY <2>1, <2>2, <2>4 DEF Progress, Expected
  <2> QED
    BY <2>3, <2>5
<1>9. ASSUME NEW i \in Instances, Crash(i)
      PROVE  Progress'
  <2>1. SUFFICES ASSUME NEW d \in Calls
                 PROVE  AtHandler(d)' /\ \A h \in HandlerIds : Expected(d, h)'
    BY DEF Progress
  <2>2. CASE pc'[d] = pc[d]
    BY <1>9, <2>2, Untouched DEF Crash
  <2>3. CASE pc'[d] = "lost"
    BY <1>9, <2>3 DEF Crash, Progress, AtHandler, Expected
  <2> QED
    BY <1>9, <2>2, <2>3 DEF Crash
<1>10. CASE UNCHANGED vars
  BY <1>10, Untouched DEF vars, Progress
<1> QED
  BY <1>1, <1>2, <1>3, <1>4, <1>5, <1>6, <1>7, <1>8, <1>9, <1>10 DEF Next, Advance

(* A failure is noted when the handler raises and recorded before anything *)
(* else of the call happens.                                               *)
LEMMA RecordedStep == BusInv /\ [Next]_vars => Recorded'
<1> SUFFICES ASSUME BusInv, [Next]_vars
             PROVE  Recorded'
  OBVIOUS
<1> TypeOK /\ Recorded
  BY DEF BusInv
<1> USE DEF TypeOK, Recorded, Go
<1>1. ASSUME NEW c \in Calls, SkipDuplicate(c) \/ Accept(c) \/ MarkProcessed(c)
                              \/ StartHandler(c) \/ HandlerReturns(c) \/ Finish(c)
      PROVE  Recorded'
  BY <1>1 DEF SkipDuplicate, Accept, MarkProcessed, StartHandler, HandlerReturns, Finish
<1>2. ASSUME NEW c \in Calls, HandlerRaises(c)
      PROVE  Recorded'
  BY <1>2 DEF HandlerRaises
<1>3. ASSUME NEW c \in Calls, SendToDlq(c)
      PROVE  Recorded'
  BY <1>3 DEF SendToDlq
<1>4. ASSUME NEW i \in Instances, Crash(i)
      PROVE  Recorded'
  BY <1>4 DEF Crash
<1>5. CASE UNCHANGED vars
  BY <1>5 DEF vars
<1> QED
  BY <1>1, <1>2, <1>3, <1>4, <1>5 DEF Next, Advance

-----------------------------------------------------------------------------
(* BusInv holds in every state: the argument behind all that follows. *)
THEOREM BusInvariant == Spec => []BusInv
<1>1. BusInv /\ [Next]_vars => BusInv'
  BY TypeStep, BusyStep, OwnsStep, ProgressStep, RecordedStep DEF BusInv
<1> QED
  BY <1>1, InvInit, PTL DEF Spec

(* Type correctness of publish and its store. *)
THEOREM BusTypeCorrect == Spec => []TypeOK
<1>1. BusInv => TypeOK
  BY DEF BusInv
<1> QED
  BY <1>1, BusInvariant, PTL

(* Each handler runs at most once for a key of a topic, for the call that   *)
(* owns the key in event_dedup.                                             *)
THEOREM BusAtMostOnce == Spec => []AtMostOnce
<1>1. BusInv => AtMostOnce
  <2> SUFFICES ASSUME BusInv, NEW c \in Calls, NEW d \in Calls, Slot(c) = Slot(d),
                      NEW h \in HandlerIds
               PROVE  IF c = d THEN started[c][h] <= 1
                      ELSE started[c][h] = 0 \/ started[d][h] = 0
    BY DEF AtMostOnce
  <2>1. started[c][h] <= 1
    BY DEF BusInv, TypeOK, Progress, Expected, PC
  <2>2. c # d => started[c][h] = 0 \/ started[d][h] = 0
    BY DEF BusInv, Owns
  <2> QED
    BY <2>1, <2>2
<1> QED
  BY <1>1, BusInvariant, PTL

(* A call that returns has started every handler of its topic. *)
THEOREM BusNoHandlerSkipped == Spec => []NoHandlerSkipped
<1>1. BusInv => NoHandlerSkipped
  BY HandlerType DEF BusInv, Progress, Expected, NoHandlerSkipped
<1> QED
  BY <1>1, BusInvariant, PTL

(* A failure the bus has moved on from has an entry in the dead-letter queue. *)
THEOREM BusFailuresVisible == Spec => []FailuresVisible
<1>1. BusInv => FailuresVisible
  BY DEF BusInv, Recorded, FailuresVisible
<1> QED
  BY <1>1, BusInvariant, PTL

(* The bus implements Delivery: MarkProcessed is its Claim, StartHandler its *)
(* Run, and every other step a stutter.                                      *)
THEOREM BusKeepsPromise == Spec => KeepsPromise
<1>1. Init => Promise!Init
  BY SlotType, InvInit DEF Init, Promise!Init, BusInv
<1>2. BusInv /\ [Next]_vars => [Promise!Next]_(Promise!vars)
  <2> SUFFICES ASSUME BusInv, [Next]_vars
               PROVE  Promise!Next \/ UNCHANGED Promise!vars
    OBVIOUS
  <2> DEFINE slotOf == [c \in Calls |-> Slot(c)]
  <2>1. env' = env => slotOf' = slotOf
    BY DEF Slot
  <2>2. ASSUME NEW c \in Calls, MarkProcessed(c)
        PROVE  Promise!Claim(c)
    BY <2>1, <2>2 DEF MarkProcessed, Promise!Claim, BusInv, Owns
  <2>3. ASSUME NEW c \in Calls, StartHandler(c)
        PROVE  next[c] \in HandlerIds /\ Promise!Run(c, next[c])
    <3>1. next[c] \in HandlerIds
      BY <2>3, HandlerType DEF StartHandler, BusInv
    <3>2. started[c][next[c]] = 0
      BY <2>3, <3>1, IdsAreNumbers DEF StartHandler, BusInv, Progress, Expected
    <3>3. dedup[Slot(c)] = c
      BY <2>3 DEF StartHandler, BusInv, Owns
    <3>4. started' = [started EXCEPT ![c][next[c]] = 1]
      BY <2>3, <3>1, <3>2 DEF StartHandler, BusInv, TypeOK
    <3> QED
      BY <2>1, <2>3, <3>1, <3>2, <3>3, <3>4 DEF StartHandler, Promise!Run
  <2>4. ASSUME NEW c \in Calls,
               SkipDuplicate(c) \/ Accept(c) \/ HandlerReturns(c) \/ HandlerRaises(c)
                 \/ SendToDlq(c) \/ Finish(c)
        PROVE  UNCHANGED Promise!vars
    BY <2>1, <2>4 DEF SkipDuplicate, Accept, HandlerReturns, HandlerRaises, SendToDlq,
                      Finish, Promise!vars
  <2>5. ASSUME NEW i \in Instances, Crash(i)
        PROVE  UNCHANGED Promise!vars
    BY <2>1, <2>5 DEF Crash, Promise!vars
  <2>6. CASE UNCHANGED vars
    BY <2>1, <2>6 DEF vars, Promise!vars
  <2> QED
    BY <2>2, <2>3, <2>4, <2>5, <2>6 DEF Next, Advance, Promise!Next
<1> QED
  BY <1>1, <1>2, BusInvariant, PTL DEF Spec, KeepsPromise, Promise!Spec
=============================================================================
