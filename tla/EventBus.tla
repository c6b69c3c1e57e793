------------------------------ MODULE EventBus ------------------------------
(***************************************************************************)
(* platform/event_bus.py: EventBus.publish with its idempotency dedup, its *)
(* sequential dispatch to the subscribers of a topic, and its dead-letter  *)
(* queue.                                                                  *)
(*                                                                         *)
(* Each element of Calls is one call of publish and the Envelope it is     *)
(* given, so a call also stands for the envelope's event_id.  The          *)
(* collections event_dedup and event_dlq live in the shared store; the     *)
(* calls run on Instances, each of which is one asyncio event loop.  A     *)
(* step is one store operation or one resumption of a coroutine.  Code     *)
(* between two awaits is not interrupted by other calls of its own         *)
(* instance (LoopFree), but another instance may act between any two store *)
(* operations.                                                             *)
(***************************************************************************)
EXTENDS Naturals

CONSTANTS
    Calls,       \* the calls of publish (and their envelopes)
    Topics,      \* the topics
    Keys,        \* the idempotency keys
    Instances,   \* the server processes that share the store
    Handlers,    \* Handlers[t]: how many handlers subscribe to topic t
    MaxCrashes,  \* bound: how often an instance is killed
    NoEvent      \* "there is no such document"

ASSUME BusAssumption ==
    /\ Handlers \in [Topics -> Nat]
    /\ MaxCrashes \in Nat
    /\ NoEvent \notin Calls

VARIABLES
    env,      \* env[c]: topic, key and instance of call c; fixed when it is made
    pc,       \* pc[c]: where call c is in publish
    next,     \* next[c]: index of the handler call c is at
    dedup,    \* event_dedup: the event that claimed <<topic, key>>, or NoEvent
    dlq,      \* event_dlq: the handler whose failure the entry of event c holds, or 0
    started,  \* history: started[c][h], how often call c has started handler h
    failed,   \* history: the handlers of call c that raised
    crashes   \* number of crashes so far

vars == <<env, pc, next, dedup, dlq, started, failed, crashes>>

Envelope == [topic : Topics, key : Keys, inst : Instances]

PC == {"idle", "marking", "dispatching", "handling", "failing", "done", "skipped", "lost"}

(* Inside these the code runs on to its next store operation without an await. *)
Busy == {"marking", "failing"}

Slot(c) == <<env[c].topic, env[c].key>>

HandlerIds == UNION {1 .. Handlers[t] : t \in Topics}

HandlersOf(c) == 1 .. Handlers[env[c].topic]

LoopFree(c) ==
    \A d \in Calls \ {c} : env[d].inst = env[c].inst => pc[d] \notin Busy

Go(c, to) == pc' = [pc EXCEPT ![c] = to]

-----------------------------------------------------------------------------
Init ==
    /\ env \in [Calls -> Envelope]
    /\ pc = [c \in Calls |-> "idle"]
    /\ next = [c \in Calls |-> 1]
    /\ dedup = [s \in Topics \X Keys |-> NoEvent]
    /\ dlq = [c \in Calls |-> 0]
    /\ started = [c \in Calls |-> [h \in HandlerIds |-> 0]]
    /\ failed = [c \in Calls |-> {}]
    /\ crashes = 0

(* Mutant: the duplicate test looks for this very event instead of any event. *)
AlreadyProcessedSameEvent(c) == dedup[Slot(c)] = c

AlreadyProcessed(c) == dedup[Slot(c)] # NoEvent

(* publish finds the key in event_dedup: the event is skipped. *)
SkipDuplicate(c) ==
    /\ pc[c] = "idle" /\ LoopFree(c)
    /\ AlreadyProcessed(c)
    /\ Go(c, "skipped")
    /\ UNCHANGED <<env, next, dedup, dlq, started, failed, crashes>>

(* Mutant: an accepted event is never written to event_dedup. *)
AcceptUnmarked(c) ==
    /\ pc[c] = "idle" /\ LoopFree(c)
    /\ ~AlreadyProcessed(c)
    /\ Go(c, "dispatching")
    /\ UNCHANGED <<env, next, dedup, dlq, started, failed, crashes>>

(* publish finds no document for the key ... *)
Accept(c) ==
    /\ pc[c] = "idle" /\ LoopFree(c)
    /\ ~AlreadyProcessed(c)
    /\ Go(c, "marking")
    /\ UNCHANGED <<env, next, dedup, dlq, started, failed, crashes>>

(* Mutant: the document names the key, not the event. *)
MarkKey(c) ==
    /\ pc[c] = "marking"
    /\ dedup' = [dedup EXCEPT ![Slot(c)] = env[c].key]
    /\ Go(c, "dispatching")
    /\ UNCHANGED <<env, next, dlq, started, failed, crashes>>

(* ... and writes one, before any handler has run. *)
MarkProcessed(c) ==
    /\ pc[c] = "marking"
    /\ dedup' = [dedup EXCEPT ![Slot(c)] = c]
    /\ Go(c, "dispatching")
    /\ UNCHANGED <<env, next, dlq, started, failed, crashes>>

StartHandler(c) ==
    /\ pc[c] = "dispatching" /\ LoopFree(c)
    /\ next[c] \in HandlersOf(c)
    /\ started' = [started EXCEPT ![c][next[c]] = @ + 1]
    /\ Go(c, "handling")
    /\ UNCHANGED <<env, next, dedup, dlq, failed, crashes>>

HandlerReturns(c) ==
    /\ pc[c] = "handling" /\ LoopFree(c)
    /\ next' = [next EXCEPT ![c] = @ + 1]
    /\ Go(c, "dispatching")
    /\ UNCHANGED <<env, dedup, dlq, started, failed, crashes>>

HandlerRaises(c) ==
    /\ pc[c] = "handling" /\ LoopFree(c)
    /\ failed' = [failed EXCEPT ![c] = @ \cup {next[c]}]
    /\ Go(c, "failing")
    /\ UNCHANGED <<env, next, dedup, dlq, started, crashes>>

(* Mutant: the loop over the handlers ends at the first failure. *)
SendToDlqAndStop(c) ==
    /\ pc[c] = "failing"
    /\ dlq' = [dlq EXCEPT ![c] = next[c]]
    /\ Go(c, "done")
    /\ UNCHANGED <<env, next, dedup, started, failed, crashes>>

(* Mutant: the failure is logged, and no entry is written. *)
LogOnly(c) ==
    /\ pc[c] = "failing"
    /\ next' = [next EXCEPT ![c] = @ + 1]
    /\ Go(c, "dispatching")
    /\ UNCHANGED <<env, dedup, dlq, started, failed, crashes>>

(* Mutant: the failure goes on to the publisher once it is recorded. *)
SendToDlqAndRaise(c) ==
    /\ pc[c] = "failing"
    /\ dlq' = [dlq EXCEPT ![c] = next[c]]
    /\ Go(c, "lost")
    /\ UNCHANGED <<env, next, dedup, started, failed, crashes>>

(* The entry is keyed by topic and event_id, so a second failing handler *)
(* of the same event overwrites the entry of the first.                  *)
SendToDlq(c) ==
    /\ pc[c] = "failing"
    /\ dlq' = [dlq EXCEPT ![c] = next[c]]
    /\ next' = [next EXCEPT ![c] = @ + 1]
    /\ Go(c, "dispatching")
    /\ UNCHANGED <<env, dedup, started, failed, crashes>>

Finish(c) ==
    /\ pc[c] = "dispatching" /\ LoopFree(c)
    /\ next[c] \notin HandlersOf(c)
    /\ Go(c, "done")
    /\ UNCHANGED <<env, next, dedup, dlq, started, failed, crashes>>

(* The platform kills an instance: its coroutines are gone, the store stays, *)
(* and nothing republishes what was in flight.                               *)
Crash(i) ==
    /\ crashes < MaxCrashes
    /\ crashes' = crashes + 1
    /\ pc' = [c \in Calls |->
                IF env[c].inst = i /\ pc[c] \notin {"idle", "done", "skipped"}
                THEN "lost" ELSE pc[c]]
    /\ UNCHANGED <<env, next, dedup, dlq, started, failed>>

Advance(c) ==
    \/ MarkProcessed(c) \/ StartHandler(c) \/ HandlerReturns(c)
    \/ HandlerRaises(c) \/ SendToDlq(c) \/ Finish(c)

Next ==
    \/ \E c \in Calls : SkipDuplicate(c) \/ Accept(c) \/ Advance(c)
    \/ \E i \in Instances : Crash(i)

(* A call that was accepted keeps running: the event loop resumes it, and the *)
(* handlers (agent runs and plain functions) return or raise.                 *)
Fairness == \A c \in Calls : WF_vars(Advance(c))

Spec == Init /\ [][Next]_vars /\ Fairness

(* What the publishers rely on: Delivery, where a key is claimed by the event *)
(* event_dedup names.                                                         *)
Promise == INSTANCE Delivery WITH
    Events <- Calls,
    Slots <- Topics \X Keys,
    slotOf <- [c \in Calls |-> Slot(c)],
    claim <- dedup,
    ran <- started

-----------------------------------------------------------------------------
TypeOK ==
    /\ env \in [Calls -> Envelope]
    /\ pc \in [Calls -> PC]
    /\ next \in [Calls -> Nat \ {0}]
    /\ dedup \in [Topics \X Keys -> Calls \cup {NoEvent}]
    /\ dlq \in [Calls -> Nat]
    /\ started \in [Calls -> [HandlerIds -> Nat]]
    /\ failed \in [Calls -> SUBSET HandlerIds]
    /\ crashes \in 0 .. MaxCrashes

(* Of all the calls that publish the same key on the same topic, each       *)
(* handler runs for at most one, and once, whatever the interleaving, the   *)
(* failures and the crashes: the promise of idempotency_key                 *)
(* (tests/test_event_bus.py, test_duplicate_idempotency_key_is_skipped).    *)
AtMostOnce ==
    \A c, d \in Calls :
        Slot(c) = Slot(d) =>
            \A h \in HandlerIds :
                IF c = d THEN started[c][h] <= 1
                ELSE started[c][h] = 0 \/ started[d][h] = 0

(* A handler that raises takes nothing from the handlers after it: a call   *)
(* that returns has started every subscriber of its topic.                  *)
NoHandlerSkipped ==
    \A c \in Calls : pc[c] = "done" => \A h \in HandlersOf(c) : started[c][h] > 0

(* An event one of whose handlers raised is in the dead-letter queue, from  *)
(* the moment the bus moves on; only a crash inside the except block loses  *)
(* the entry.                                                               *)
FailuresVisible ==
    \A c \in Calls :
        failed[c] # {} => dlq[c] \in failed[c] \/ pc[c] \in {"failing", "lost"}

(* A call is told "duplicate" only because another call of the same key     *)
(* does the work: unless an instance crashed, that other call reaches the   *)
(* end of the handlers.                                                     *)
DuplicateImpliesHandled ==
    \A c \in Calls :
        pc[c] = "skipped" ~>
            \/ \E d \in Calls : d # c /\ Slot(d) = Slot(c) /\ pc[d] = "done"
            \/ crashes > 0

(* The bus implements Delivery: the claim on a key is taken once and never  *)
(* moves, and no handler runs for an event that does not hold it, or twice. *)
KeepsPromise == Promise!Spec
=============================================================================
