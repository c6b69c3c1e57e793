---------------------------- MODULE DocumentStore ----------------------------
(***************************************************************************)
(* Lists that only grow, in documents of the store: the audit log, one     *)
(* document per trace, and the memory bank, one per vendor.  The other     *)
(* operations of the store are one step of the modules that use them; to   *)
(* append to a list is several requests to Firestore, and one step, under  *)
(* a lock, in memory.                                                      *)
(*                                                                         *)
(* A task is a call that appends.  A step is one request to Firestore;     *)
(* while a task is at a control point of Busy, no other task of its        *)
(* instance moves.  Entries differ (a random id, a time), so ArrayUnion    *)
(* adds each; every reader sorts or searches them, so a list is a set.     *)
(***************************************************************************)

CONSTANTS
    Logs,                     \* documents of audit_log, by trace
    Banks,                    \* documents of memory_bank_vendor_state, by vendor
    Entries,                  \* entries that may be appended
    Finishing,                \* those of the event agent_finished
    Firestore,                \* the backend is Firestore, not memory
    Tasks, Instances, Home    \* Home[p]: the instance that runs task p

VARIABLES
    exists,      \* the documents there are
    entries,     \* the list in each document
    task,        \* task[p]: control point, document and entry of task p
    taken,       \* entries that were made so far
    appended     \* history: the entries whose append was carried out

store == <<exists, entries>>
vars == <<store, task, taken, appended>>

Docs == Logs \cup Banks

Busy == {"appending", "creating", "uniting"}

Local == [pc : Busy, doc : Docs, entry : Entries] \cup [pc : {"idle"}]

Idle == [pc |-> "idle"]

LoopFree(p) ==
    \A q \in Tasks \ {p} : Home[q] = Home[p] => task[q].pc \notin Busy

Go(p, pc) == task' = [task EXCEPT ![p].pc = pc]

Init ==
    /\ exists = {}
    /\ entries = [d \in Docs |-> {}]
    /\ task = [p \in Tasks |-> Idle]
    /\ taken = {}
    /\ appended = [d \in Docs |-> {}]

Begin(p, d, e) ==
    /\ task[p].pc = "idle" /\ LoopFree(p)
    /\ e \notin taken
    /\ taken' = taken \cup {e}
    /\ task' = [task EXCEPT ![p] = [pc |-> "appending", doc |-> d, entry |-> e]]
    /\ UNCHANGED <<entries, appended>>

(* AuditLog.record appends at once ... *)
Record(p, d, e) == Begin(p, d, e) /\ UNCHANGED exists

(* ... the memory bank first merges the vendor's id into the document, which *)
(* makes it if there is none (DocumentStore.update).                         *)
Merge(p, d, e) == Begin(p, d, e) /\ exists' = exists \cup {d}

(* append_to_list_field: is there a document? *)
Look(p) ==
    /\ Firestore /\ task[p].pc = "appending"
    /\ Go(p, IF task[p].doc \in exists THEN "uniting" ELSE "creating")
    /\ UNCHANGED <<store, taken, appended>>

(* If not, it is set to one with no entries, whatever it is by then. *)
CreateEmpty(p) ==
    /\ task[p].pc = "creating"
    /\ exists' = exists \cup {task[p].doc}
    /\ entries' = [entries EXCEPT ![task[p].doc] = {}]
    /\ Go(p, "uniting")
    /\ UNCHANGED <<taken, appended>>

Appended(p) ==
    /\ entries' = [entries EXCEPT ![task[p].doc] = @ \cup {task[p].entry}]
    /\ appended' = [appended EXCEPT ![task[p].doc] = @ \cup {task[p].entry}]
    /\ task' = [task EXCEPT ![p] = Idle]
    /\ UNCHANGED taken

(* ArrayUnion *)
Unite(p) ==
    /\ task[p].pc = "uniting"
    /\ Appended(p)
    /\ UNCHANGED exists

(* In memory all of it happens under the lock. *)
AppendLocked(p) ==
    /\ ~Firestore /\ task[p].pc = "appending"
    /\ exists' = exists \cup {task[p].doc}
    /\ Appended(p)

(* The platform kills an instance; its tasks are gone, the store stays. *)
Crash(i) ==
    /\ task' = [p \in Tasks |-> IF Home[p] = i THEN Idle ELSE task[p]]
    /\ UNCHANGED <<store, taken, appended>>

Step(p) ==
    \/ \E d \in Logs, e \in Entries : Record(p, d, e)
    \/ \E d \in Banks, e \in Entries : Merge(p, d, e)
    \/ Look(p) \/ CreateEmpty(p) \/ Unite(p) \/ AppendLocked(p)

Next ==
    \/ \E p \in Tasks : Step(p)
    \/ \E i \in Instances : Crash(i)

Spec == Init /\ [][Next]_vars

(* The status of a trace in list_traces and get_assessment_status. *)
Completed(d) == entries[d] \cap Finishing # {}

-----------------------------------------------------------------------------
TypeOK ==
    /\ exists \subseteq Docs
    /\ entries \in [Docs -> SUBSET Entries]
    /\ task \in [Tasks -> Local]
    /\ taken \subseteq Entries
    /\ appended \in [Docs -> SUBSET Entries]

(* No exception or accepted risk that was entered is lost, although others  *)
(* are entered meanwhile, on any number of instances.                       *)
BanksKept == \A d \in Banks : appended[d] \subseteq entries[d]

(* No audit entry is lost ("a queryable, per-trace audit trail"); this needs *)
(* one instance, for CreateEmpty does not look again.                        *)
LogsKept == \A d \in Logs : appended[d] \subseteq entries[d]

(* A trace that was reported completed is not reported running again. *)
CompletedStays == [][\A d \in Logs : Completed(d) => Completed(d)']_vars

OneInstance == \A p, q \in Tasks : Home[p] = Home[q]
=============================================================================
