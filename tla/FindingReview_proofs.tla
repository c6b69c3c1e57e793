------------------------- MODULE FindingReview_proofs -------------------------
(***************************************************************************)
(* What holds of findings, their trend, their explanation, the decisions   *)
(* on them and the emails that rest on these, in one process, for every    *)
(* number of findings, tasks, pieces of evidence and crashes, and every    *)
(* threshold.                                                              *)
(***************************************************************************)
EXTENDS ReviewSingle, TLAPS

(* The code between two awaits is entered by one task at a time. *)
OneBusy == \A p, q \in Tasks : task[p].pc \in Busy /\ task[q].pc \in Busy => p = q

(* The gates that a finding has to have passed when it is written. *)
Gated(f, new, asked) ==
    /\ new.status = "satisfied" => new.cites \cap stale = {}
    /\ f \in Critical \/ new.risk >= Threshold => new.review
    /\ asked # new.status => new.review

(* What a task is going to write, and what it has written so far, in        *)
(* create_finding, in the decision route and in draft_vendor_email.         *)
Steady(p) ==
    LET t == task[p] IN
    /\ t.pc \in {"write_finding", "write_snapshot", "write_reasoning", "write_decision",
                 "write_draft"} => t.id \in Findings
    /\ t.pc \in {"write_finding", "write_snapshot", "write_reasoning"} =>
           t.draft \in Finding /\ t.draft.decision = 0
    /\ t.pc = "write_finding" => Gated(t.id, t.draft, t.asked)
    /\ t.pc \in {"write_snapshot", "write_reasoning", "write_draft"} =>
           finding[t.id] = t.draft
    /\ t.pc \in {"write_decision", "write_draft"} => finding[t.id] \in Finding
    /\ t.pc = "write_draft" => t.draft.decision # 0
    /\ t.pc = "write_snapshot" => crashes > 0 \/ Len(snapshots[t.id]) + 1 = version[t.id]

(* A finding on record was written, and a decision on it is about it as it  *)
(* stands.                                                                  *)
Decided ==
    \A f \in Findings :
        finding[f] # NoFinding => /\ version[f] > 0
                                  /\ finding[f].decision \in {0, version[f]}

ReviewInv ==
    /\ TypeOK
    /\ OneBusy
    /\ \A p \in Tasks : Steady(p)
    /\ Decided
    /\ TrendMatchesFinding
    /\ Explained
    /\ DraftRestsOnDecision

-----------------------------------------------------------------------------
(* A finding is told from no finding by its status. *)
LEMMA FindingIsSome == NoFinding \notin Finding
<1>1. \A x \in Finding : x.status \in FindingStatus
  BY DEF Finding
<1>2. NoFinding.status = None /\ None \notin FindingStatus
  BY ReviewAssumption DEF NoFinding
<1> QED
  BY <1>1, <1>2

(* A task without work is a local state. *)
LEMMA IdleType == Idle \in Local /\ Idle.pc = "idle"
BY DEF Idle, Local, Busy

(* The step of a task is about that task only. *)
LEMMA BecomeType ==
    ASSUME TypeOK, NEW p \in Tasks, NEW local \in Local, Become(p, local)
    PROVE  /\ task' \in [Tasks -> Local]
           /\ task'[p] = local
           /\ \A q \in Tasks \ {p} : task'[q] = task[q]
BY DEF TypeOK, Become

(* Where a task is between two awaits, it only goes on. *)
LEMMA GoType ==
    ASSUME TypeOK, NEW p \in Tasks, NEW pc \in Busy, Go(p, pc)
    PROVE  /\ task' \in [Tasks -> Local]
           /\ task'[p] = [task[p] EXCEPT !.pc = pc]
           /\ \A q \in Tasks \ {p} : task'[q] = task[q]
<1>1. [task[p] EXCEPT !.pc = pc] \in Local
  BY DEF TypeOK, Local
<1> QED
  BY <1>1, BecomeType DEF Go

LEMMA AfterToolType ==
    ASSUME TypeOK, NEW p \in Tasks
    PROVE  AfterTool(p) \in Local /\ AfterTool(p).pc = "running"
<1>1. task[p] \in Local
  BY DEF TypeOK
<1> QED
  BY <1>1, IdleType DEF AfterTool, Local, Busy, Idle

(* What the ends of runs leave of the reasoning records. *)
LEMMA ForgetType ==
    ASSUME TypeOK, NEW ended, Forget(ended)
    PROVE  /\ reasoning' \in [Findings -> Reasoning]
           /\ \A f \in Findings : reasoning'[f].trace = reasoning[f].trace
<1>1. ASSUME NEW f \in Findings
      PROVE  /\ reasoning[f] \in Reasoning
             /\ [reasoning[f] EXCEPT !.maker = None] \in Reasoning
             /\ [reasoning[f] EXCEPT !.maker = None].trace = reasoning[f].trace
  BY DEF TypeOK, Reasoning
<1>2. reasoning' = [f \in Findings |-> IF reasoning[f].maker \in ended
                                       THEN [reasoning[f] EXCEPT !.maker = None]
                                       ELSE reasoning[f]]
  BY DEF Forget
<1> QED
  BY <1>1, <1>2

(* A stamp leaves a record of the same trace. *)
LEMMA StampType ==
    ASSUME TypeOK, NEW p \in Tasks, NEW f \in Findings, StampRecord(p, f)
    PROVE  /\ reasoning' \in [Findings -> Reasoning]
           /\ \A g \in Findings : reasoning'[g].trace = reasoning[g].trace
<1>1. ASSUME NEW telemetry \in {"own", "replaced", "other"}
      PROVE  /\ [reasoning[f] EXCEPT !.telemetry = telemetry] \in Reasoning
             /\ [reasoning[f] EXCEPT !.telemetry = telemetry].trace = reasoning[f].trace
  BY DEF TypeOK, Reasoning
<1> DEFINE telemetry == IF reasoning[f].maker = p THEN "own"
                        ELSE IF reasoning[f].telemetry \in {"own", "replaced"}
                        THEN "replaced" ELSE "other"
<1>2. telemetry \in {"own", "replaced", "other"}
  OBVIOUS
<1>3. reasoning' = [reasoning EXCEPT ![f] = [reasoning[f] EXCEPT !.telemetry = telemetry]]
  BY DEF StampRecord
<1> HIDE DEF telemetry
<1> QED
  BY <1>1, <1>2, <1>3 DEF TypeOK

(* The finding that create_finding is going to write has passed the gates. *)
LEMMA DraftGated ==
    ASSUME TypeOK, NEW p \in Tasks, NEW f \in Findings, NEW status \in Verdicts,
           NEW risk \in Risks, NEW cites \in Citations, NEW t \in Traces,
           CreateFinding(p, f, status, risk, cites, t)
    PROVE  /\ task' \in [Tasks -> Local]
           /\ \A q \in Tasks \ {p} : task'[q] = task[q]
           /\ task'[p].pc = "write_finding" /\ task'[p].id = f
           /\ task'[p].draft \in Finding /\ task'[p].draft.decision = 0
           /\ Gated(f, task'[p].draft, task'[p].asked)
<1> DEFINE downgraded == RestsOnStale(cites) /\ status = "satisfied"
           draft == [status |-> IF downgraded THEN "unknown" ELSE status,
                     risk |-> risk, cites |-> cites, trace |-> t,
                     review |-> downgraded \/ MandatoryReview(f, risk),
                     decision |-> 0]
           local == [task[p] EXCEPT !.pc = "write_finding", !.id = f, !.asked = status,
                                    !.draft = draft]
<1>1. status \in FindingStatus /\ risk \in Nat
  BY ReviewAssumption DEF FindingStatus
<1>2. draft \in Finding /\ draft.decision = 0
  <2>1. (downgraded \/ MandatoryReview(f, risk)) \in BOOLEAN
    BY DEF MandatoryReview
  <2>2. (IF downgraded THEN "unknown" ELSE status) \in FindingStatus
    BY <1>1 DEF FindingStatus
  <2> QED
    BY <2>1, <2>2 DEF Finding
<1>3. Gated(f, draft, status)
  BY DEF Gated, RestsOnStale, MandatoryReview
<1> HIDE DEF draft
<1>4. local \in Local /\ local.pc = "write_finding" /\ local.id = f /\ local.asked = status
        /\ local.draft = draft
  BY <1>1, <1>2 DEF TypeOK, Local, Busy
<1>5. Become(p, local)
  BY DEF CreateFinding, draft
<1> HIDE DEF local
<1> QED
  BY <1>2, <1>3, <1>4, <1>5, BecomeType
-----------------------------------------------------------------------------
(* The invariant holds at the start. *)
LEMMA InvInit == Init => ReviewInv
<1> SUFFICES ASSUME Init
             PROVE  ReviewInv
  OBVIOUS
<1>1. TypeOK
  BY IdleType, ReviewAssumption DEF Init, TypeOK, NoReasoning, Reasoning
<1>2. OneBusy /\ \A p \in Tasks : Steady(p)
  BY DEF Init, OneBusy, Steady, Busy, Idle
<1>3. Decided /\ TrendMatchesFinding /\ Explained /\ DraftRestsOnDecision
  BY DEF Init, Decided, TrendMatchesFinding, Explained, DraftRestsOnDecision
<1> QED
  BY <1>1, <1>2, <1>3 DEF ReviewInv

(* What a task of an assessment or a decision writes keeps the types. *)
LEMMA WritesType ==
    ASSUME TypeOK, NEW p \in Tasks, Steady(p),
           WriteFinding(p) \/ WriteSnapshot(p) \/ WriteReasoning(p) \/ RecordDecision(p)
             \/ WriteDraft(p)
    PROVE  TypeOK'
<1> DEFINE f == task[p].id
<1>1. task[p] \in Local
  BY DEF TypeOK
<1>2. CASE WriteFinding(p)
  <2>1. task[p].pc = "write_finding" /\ f \in Findings /\ task[p].draft \in Finding
    BY <1>2 DEF WriteFinding, Steady
  <2>2. task' \in [Tasks -> Local]
    BY <1>2, GoType DEF WriteFinding, Busy
  <2> QED
    BY <1>2, <2>1, <2>2 DEF WriteFinding, TypeOK
<1>3. CASE WriteSnapshot(p)
  <2>1. task[p].pc = "write_snapshot" /\ f \in Findings /\ task[p].draft \in Finding
    BY <1>3 DEF WriteSnapshot, Steady
  <2>2. [status |-> task[p].draft.status, risk |-> task[p].draft.risk] \in Snapshot
    BY <2>1 DEF Finding, Snapshot
  <2>3. Append(snapshots[f], [status |-> task[p].draft.status, risk |-> task[p].draft.risk])
          \in Seq(Snapshot)
    BY <2>1, <2>2 DEF TypeOK
  <2>4. task' \in [Tasks -> Local]
    BY <1>3, GoType DEF WriteSnapshot, Busy
  <2>5. snapshots' \in [Findings -> Seq(Snapshot)]
    BY <1>3, <2>3 DEF WriteSnapshot, TypeOK
  <2> QED
    BY <1>3, <2>4, <2>5 DEF WriteSnapshot, TypeOK
<1>4. CASE WriteReasoning(p)
  <2>1. task[p].pc = "write_reasoning" /\ f \in Findings /\ task[p].draft \in Finding
    BY <1>4 DEF WriteReasoning, Steady
  <2>2. [trace |-> task[p].draft.trace, telemetry |-> "none", maker |-> p] \in Reasoning
    BY <2>1 DEF Finding, Reasoning
  <2>3. task' \in [Tasks -> Local]
    BY <1>4, AfterToolType, BecomeType DEF WriteReasoning
  <2>4. reasoning' \in [Findings -> Reasoning]
    BY <1>4, <2>1, <2>2 DEF WriteReasoning, TypeOK
  <2> QED
    BY <1>4, <2>3, <2>4 DEF WriteReasoning, TypeOK
<1>5. CASE RecordDecision(p)
  <2>1. task[p].pc = "write_decision" /\ f \in Findings /\ finding[f] \in Finding
    BY <1>5 DEF RecordDecision, Steady
  <2>2. [finding[f] EXCEPT !.decision = version[f]] \in Finding
    BY <2>1 DEF Finding, TypeOK
  <2>3. [Idle EXCEPT !.pc = "running", !.role = "remediate", !.trace = task[p].trace] \in Local
    BY <1>1, IdleType DEF Local, Busy
  <2>4. task' \in [Tasks -> Local]
    BY <1>5, <2>3, BecomeType DEF RecordDecision
  <2>5. finding' \in [Findings -> Finding \cup {NoFinding}]
    BY <1>5, <2>2 DEF RecordDecision, TypeOK
  <2> QED
    BY <1>5, <2>4, <2>5 DEF RecordDecision, TypeOK
<1>6. CASE WriteDraft(p)
  <2>1. task[p].pc = "write_draft" /\ f \in Findings /\ task[p].draft \in Finding
    BY <1>6 DEF WriteDraft, Steady
  <2>2. [id |-> f, decision |-> task[p].draft.decision, version |-> version[f]]
          \in [id : Findings, decision : Nat, version : Nat]
    BY <2>1 DEF Finding, TypeOK
  <2>3. task' \in [Tasks -> Local]
    BY <1>6, AfterToolType, BecomeType DEF WriteDraft
  <2> QED
    BY <1>6, <2>2, <2>3 DEF WriteDraft, TypeOK
<1> QED
  BY <1>2, <1>3, <1>4, <1>5, <1>6

(* So does every other step. *)
LEMMA TypeStep == ReviewInv /\ [Next]_vars => TypeOK'
<1> SUFFICES ASSUME ReviewInv, [Next]_vars
             PROVE  TypeOK'
  OBVIOUS
<1> TypeOK /\ \A p \in Tasks : task[p] \in Local
  BY DEF ReviewInv, TypeOK
<1>1. ASSUME NEW p \in Tasks, NEW local \in Local, Become(p, local),
             UNCHANGED <<store, crashes, version>>
      PROVE  TypeOK'
  BY <1>1, BecomeType DEF TypeOK, store
<1>2. ASSUME NEW p \in Tasks, StartCollecting(p)
      PROVE  TypeOK'
  <2>1. [Idle EXCEPT !.pc = "collecting", !.left = Evidence] \in Local
    BY IdleType DEF Local, Busy
  <2> QED
    BY <1>1, <1>2, <2>1 DEF StartCollecting
<1>3. ASSUME NEW p \in Tasks, NEW e \in Evidence, NEW old \in BOOLEAN,
             CollectReading(p, e, old)
      PROVE  TypeOK'
  <2>1. [task[p] EXCEPT !.left = @ \ {e}] \in Local
    BY DEF Local
  <2>2. task' \in [Tasks -> Local]
    BY <1>3, <2>1, IdleType, BecomeType DEF CollectReading
  <2>3. known' \subseteq Evidence /\ stale' \subseteq known'
    BY <1>3 DEF CollectReading, TypeOK
  <2> QED
    BY <1>3, <2>2, <2>3 DEF CollectReading, TypeOK
<1>4. ASSUME NEW e \in Evidence, GrowStale(e)
      PROVE  TypeOK'
  BY <1>4 DEF GrowStale, TypeOK
<1>5. ASSUME NEW p \in Tasks, NEW t \in Traces, StartAssessment(p, t)
      PROVE  TypeOK'
  <2>1. [Idle EXCEPT !.pc = "running", !.role = "assess", !.trace = t] \in Local
    BY IdleType DEF Local, Busy
  <2> QED
    BY <1>1, <1>5, <2>1 DEF StartAssessment
<1>6. ASSUME NEW p \in Tasks, NEW f \in Findings, NEW s \in Verdicts, NEW r \in Risks,
             NEW c \in Citations, NEW t \in Traces, CreateFinding(p, f, s, r, c, t)
      PROVE  TypeOK'
  <2>1. task' \in [Tasks -> Local]
    BY <1>6, DraftGated
  <2> QED
    BY <1>6, <2>1 DEF CreateFinding, TypeOK, store
<1>7. ASSUME NEW p \in Tasks,
             WriteFinding(p) \/ WriteSnapshot(p) \/ WriteReasoning(p) \/ RecordDecision(p)
               \/ WriteDraft(p)
      PROVE  TypeOK'
  BY <1>7, WritesType DEF ReviewInv
<1>8. ASSUME NEW p \in Tasks, RunEnds(p)
      PROVE  TypeOK'
  <2>1. [task[p] EXCEPT !.pc = "stamping",
                        !.left = {f \in Findings : reasoning[f].trace = task[p].trace}] \in Local
    BY DEF Local, Busy
  <2> QED
    BY <1>1, <1>8, <2>1 DEF RunEnds
<1>9. ASSUME NEW p \in Tasks, NEW f \in Findings, StampRecord(p, f)
      PROVE  TypeOK'
  <2>1. [task[p] EXCEPT !.left = @ \ {f}] \in Local
    BY DEF Local
  <2>2. task' \in [Tasks -> Local]
    BY <1>9, <2>1, BecomeType DEF StampRecord
  <2> QED
    BY <1>9, <2>2, StampType DEF StampRecord, TypeOK
<1>10. ASSUME NEW p \in Tasks, StampingEnds(p)
       PROVE  TypeOK'
  <2>1. ASSUME NEW pc \in {"listing", "announcing"}
        PROVE  [Idle EXCEPT !.pc = pc, !.trace = task[p].trace, !.todo = task[p].todo] \in Local
    BY IdleType DEF Local, Busy
  <2>2. task' \in [Tasks -> Local]
    <3> DEFINE pc == IF task[p].role = "assess" THEN "listing" ELSE "announcing"
               local == [Idle EXCEPT !.pc = pc, !.trace = task[p].trace,
                                     !.todo = task[p].todo]
    <3>1. Become(p, local)
      BY <1>10 DEF StampingEnds
    <3>2. local \in Local
      BY <2>1
    <3> HIDE DEF local
    <3> QED
      BY <3>1, <3>2, BecomeType
  <2> QED
    BY <1>10, <2>2, ForgetType DEF StampingEnds, TypeOK
<1>11. ASSUME NEW p \in Tasks, RunRaises(p)
       PROVE  TypeOK'
  <2>1. [Idle EXCEPT !.pc = "announcing", !.trace = task[p].trace, !.todo = task[p].todo]
          \in Local
    BY IdleType DEF Local, Busy
  <2>2. task' \in [Tasks -> Local]
    BY <1>11, <2>1, IdleType, BecomeType DEF RunRaises
  <2> QED
    BY <1>11, <2>2, ForgetType DEF RunRaises, TypeOK
<1>12. ASSUME NEW p \in Tasks, ListGaps(p)
       PROVE  TypeOK'
  <2>1. [task[p] EXCEPT !.pc = "announcing",
                        !.todo = {f \in Findings : finding[f].status = "gap"
                                      /\ finding[f].trace = task[p].trace}] \in Local
    BY DEF Local, Busy
  <2> QED
    BY <1>1, <1>12, <2>1 DEF ListGaps
<1>13. ASSUME NEW p \in Tasks, NEW f \in Findings, Announce(p, f)
       PROVE  TypeOK'
  <2>1. [task[p] EXCEPT !.todo = @ \ {f}, !.pc = IF f \in announced THEN @ ELSE "running",
                        !.role = IF f \in announced THEN @ ELSE "remediate"] \in Local
    BY DEF Local, Busy
  <2>2. task' \in [Tasks -> Local]
    BY <1>13, <2>1, BecomeType DEF Announce
  <2> QED
    BY <1>13, <2>2 DEF Announce, TypeOK
<1>14. ASSUME NEW p \in Tasks, AnnouncingEnds(p)
       PROVE  TypeOK'
  BY <1>1, <1>14, IdleType DEF AnnouncingEnds
<1>15. ASSUME NEW p \in Tasks, NEW f \in Findings, StartDecision(p, f)
       PROVE  TypeOK'
  <2>1. finding[f] \in Finding
    BY <1>15 DEF StartDecision, TypeOK
  <2>2. [Idle EXCEPT !.pc = "write_decision", !.id = f, !.trace = finding[f].trace] \in Local
    BY <2>1, IdleType DEF Local, Busy, Finding
  <2> QED
    BY <1>1, <1>15, <2>2 DEF StartDecision
<1>16. ASSUME NEW p \in Tasks, NEW f \in Findings, StartDraft(p, f)
       PROVE  TypeOK'
  <2>1. [task[p] EXCEPT !.pc = "write_draft", !.id = f, !.draft = finding[f]] \in Local
    BY DEF Local, Busy, TypeOK
  <2> QED
    BY <1>1, <1>16, <2>1 DEF StartDraft
<1>17. ASSUME NEW i \in Instances, Crash(i)
       PROVE  TypeOK'
  <2>1. task' \in [Tasks -> Local]
    BY <1>17, IdleType DEF Crash, TypeOK
  <2>2. crashes' \in 0 .. MaxCrashes
    BY <1>17, ReviewAssumption DEF Crash, TypeOK
  <2>3. reasoning' \in [Findings -> Reasoning]
    BY <1>17, ForgetType DEF Crash
  <2> QED
    BY <1>17, <2>1, <2>2, <2>3 DEF Crash, TypeOK
<1>18. CASE UNCHANGED vars
  BY <1>18 DEF vars, store, TypeOK
<1> QED
  BY <1>2, <1>3, <1>4, <1>5, <1>6, <1>7, <1>8, <1>9, <1>10, <1>11, <1>12, <1>13, <1>14, <1>15,
     <1>16, <1>17, <1>18 DEF Next, Collector, Assessor, Run, Reviewer
-----------------------------------------------------------------------------
(* In one process a task moves only when no other is between two awaits. *)
LEMMA Alone ==
    ASSUME OneBusy, NEW p \in Tasks, task[p].pc \in Busy \/ LoopFree(p)
    PROVE  \A q \in Tasks \ {p} : task[q].pc \notin Busy
BY OneInstance DEF OneBusy, LoopFree

(* So what it changes disturbs no other task, and the invariant is about    *)
(* this task only.                                                          *)
LEMMA OneMoves ==
    ASSUME OneBusy, NEW p \in Tasks, task[p].pc \in Busy \/ LoopFree(p),
           \A q \in Tasks \ {p} : task'[q] = task[q], Steady(p)'
    PROVE  OneBusy' /\ \A q \in Tasks : Steady(q)'
<1>1. \A q \in Tasks \ {p} : task'[q].pc \notin Busy
  BY Alone
<1>2. OneBusy'
  BY <1>1 DEF OneBusy
<1>3. \A q \in Tasks \ {p} : Steady(q)'
  BY <1>1 DEF Steady, Busy
<1> QED
  BY <1>2, <1>3

(* What a task has to be steady about: the writes it is at. *)
Writing == {"write_finding", "write_snapshot", "write_reasoning", "write_decision",
            "write_draft"}

(* A step of p that writes no finding, no snapshot, no trace and no email. *)
Quiet(p) ==
    /\ UNCHANGED <<finding, snapshots, drafts, version, crashes>>
    /\ \A f \in Findings : reasoning'[f].trace = reasoning[f].trace
    /\ \A q \in Tasks \ {p} : task'[q] = task[q]
    /\ task[p].pc \in Busy \/ LoopFree(p)
    /\ task[p].pc \notin {"write_snapshot", "write_reasoning"}
    /\ Steady(p)'

(* The invariant, but for the types. *)
Records == /\ OneBusy /\ \A p \in Tasks : Steady(p)
           /\ Decided /\ TrendMatchesFinding /\ Explained /\ DraftRestsOnDecision

(* Such a step keeps it. *)
LEMMA QuietKeeps ==
    ASSUME ReviewInv, NEW p \in Tasks, Quiet(p)
    PROVE  Records'
<1>1. OneBusy' /\ \A q \in Tasks : Steady(q)'
  BY OneMoves DEF ReviewInv, Quiet
<1>2. Decided' /\ DraftRestsOnDecision'
  BY DEF ReviewInv, Quiet, Decided, DraftRestsOnDecision
<1>3. TrendMatchesFinding'
  BY DEF ReviewInv, Quiet, TrendMatchesFinding
<1>4. Explained'
  BY DEF ReviewInv, Quiet, Explained
<1> QED
  BY <1>1, <1>2, <1>3, <1>4 DEF Records

(* The steps that take a task to no write are quiet. *)
LEMMA IdlyQuiet ==
    ASSUME ReviewInv, NEW p \in Tasks,
           \A q \in Tasks \ {p} : task'[q] = task[q],
           task'[p].pc \notin Writing, UNCHANGED <<finding, snapshots, drafts, version, crashes>>,
           \A f \in Findings : reasoning'[f].trace = reasoning[f].trace,
           task[p].pc \in Busy \/ LoopFree(p),
           task[p].pc \notin {"write_snapshot", "write_reasoning"}
    PROVE  Quiet(p)
<1>1. Steady(p)'
  BY DEF Steady, Writing
<1> QED
  BY <1>1 DEF Quiet

(* The collector's steps are quiet. *)
LEMMA CollectorQuiet ==
    ASSUME ReviewInv, NEW p \in Tasks, Collector(p)
    PROVE  Quiet(p)
<1> TypeOK /\ task[p] \in Local
  BY DEF ReviewInv, TypeOK
<1>1. CASE StartCollecting(p)
  <2> DEFINE local == [Idle EXCEPT !.pc = "collecting", !.left = Evidence]
  <2>1. local \in Local /\ local.pc = "collecting"
    BY IdleType DEF Local, Busy
  <2>2. Become(p, local)
    BY <1>1 DEF StartCollecting
  <2> HIDE DEF local
  <2>3. task'[p].pc = "collecting" /\ \A q \in Tasks \ {p} : task'[q] = task[q]
    BY <2>1, <2>2, BecomeType
  <2> QED
    BY <1>1, <2>3, IdlyQuiet DEF StartCollecting, store, Writing
<1>2. ASSUME NEW e \in Evidence, NEW old \in BOOLEAN, CollectReading(p, e, old)
      PROVE  Quiet(p)
  <2> DEFINE local == [task[p] EXCEPT !.left = @ \ {e}]
  <2>1. local \in Local /\ local.pc = "collecting"
    BY <1>2 DEF Local, CollectReading
  <2>2. Become(p, Idle) \/ Become(p, local)
    BY <1>2 DEF CollectReading
  <2> HIDE DEF local
  <2>3. task'[p].pc \in {"idle", "collecting"} /\ \A q \in Tasks \ {p} : task'[q] = task[q]
    BY <2>1, <2>2, IdleType, BecomeType
  <2>4. UNCHANGED <<finding, snapshots, drafts, version, crashes>>
          /\ reasoning' = reasoning /\ task[p].pc = "collecting"
    BY <1>2 DEF CollectReading
  <2>5. /\ task[p].pc \in Busy /\ task[p].pc \notin {"write_snapshot", "write_reasoning"}
        /\ task'[p].pc \notin Writing
    BY <2>3, <2>4 DEF Writing, Busy
  <2>6. \A f \in Findings : reasoning'[f].trace = reasoning[f].trace
    BY <2>4
  <2> QED
    BY <2>3, <2>4, <2>5, <2>6, IdlyQuiet
<1> QED
  BY <1>1, <1>2 DEF Collector

(* So are those of a run, apart from the writes of its tools. *)
LEMMA RunQuiet ==
    ASSUME ReviewInv, NEW p \in Tasks, Run(p)
    PROVE  Quiet(p)
<1> TypeOK /\ task[p] \in Local
  BY DEF ReviewInv, TypeOK
<1>1. ASSUME NEW local \in Local, Become(p, local), local.pc \notin Writing,
             UNCHANGED <<finding, snapshots, drafts, version, crashes>>,
             \A f \in Findings : reasoning'[f].trace = reasoning[f].trace,
             task[p].pc \in Busy \/ LoopFree(p),
             task[p].pc \notin {"write_snapshot", "write_reasoning"}
      PROVE  Quiet(p)
  <2>1. task'[p] = local /\ \A q \in Tasks \ {p} : task'[q] = task[q]
    BY <1>1, BecomeType
  <2> QED
    BY <1>1, <2>1, IdlyQuiet
<1>2. CASE RunEnds(p)
  <2> DEFINE local == [task[p] EXCEPT !.pc = "stamping",
                          !.left = {f \in Findings : reasoning[f].trace = task[p].trace}]
  <2>1. local \in Local /\ local.pc = "stamping"
    BY DEF Local, Busy
  <2>2. Become(p, local)
    BY <1>2 DEF RunEnds
  <2> HIDE DEF local
  <2>3. UNCHANGED <<finding, snapshots, drafts, version, crashes>> /\ reasoning' = reasoning
          /\ task[p].pc = "running" /\ LoopFree(p)
    BY <1>2 DEF RunEnds, store
  <2> QED
    BY <1>1, <2>1, <2>2, <2>3 DEF Writing
<1>3. CASE RunRaises(p)
  <2> DEFINE local == [Idle EXCEPT !.pc = "announcing", !.trace = task[p].trace,
                                   !.todo = task[p].todo]
  <2>1. local \in Local /\ local.pc = "announcing"
    BY IdleType DEF Local, Busy
  <2>2. Become(p, Idle) \/ Become(p, local)
    BY <1>3 DEF RunRaises
  <2> HIDE DEF local
  <2>3. UNCHANGED <<finding, snapshots, drafts, version, crashes>>
          /\ task[p].pc = "running" /\ LoopFree(p)
    BY <1>3 DEF RunRaises
  <2>4. \A f \in Findings : reasoning'[f].trace = reasoning[f].trace
    BY <1>3, ForgetType DEF RunRaises
  <2> QED
    BY <1>1, <2>1, <2>2, <2>3, <2>4, IdleType DEF Writing
<1>4. CASE StampingEnds(p)
  <2> DEFINE pc == IF task[p].role = "assess" THEN "listing" ELSE "announcing"
             local == [Idle EXCEPT !.pc = pc, !.trace = task[p].trace, !.todo = task[p].todo]
  <2>1. Become(p, local)
    BY <1>4 DEF StampingEnds
  <2>2. pc \in {"listing", "announcing"}
    OBVIOUS
  <2> HIDE DEF pc
  <2>3. local \in Local /\ local.pc = pc
    BY <2>2, IdleType DEF Local, Busy
  <2> HIDE DEF local
  <2>4. UNCHANGED <<finding, snapshots, drafts, version, crashes>>
          /\ task[p].pc = "stamping" /\ task[p].pc \in Busy
    BY <1>4 DEF StampingEnds, Busy
  <2>5. \A f \in Findings : reasoning'[f].trace = reasoning[f].trace
    BY <1>4, ForgetType DEF StampingEnds
  <2> QED
    BY <1>1, <2>1, <2>2, <2>3, <2>4, <2>5 DEF Writing
<1>5. CASE ListGaps(p)
  <2> DEFINE local == [task[p] EXCEPT !.pc = "announcing",
                          !.todo = {f \in Findings : finding[f].status = "gap"
                                                       /\ finding[f].trace = task[p].trace}]
  <2>1. local \in Local /\ local.pc = "announcing"
    BY DEF Local, Busy
  <2>2. Become(p, local)
    BY <1>5 DEF ListGaps
  <2> HIDE DEF local
  <2>3. UNCHANGED <<finding, snapshots, drafts, version, crashes>> /\ reasoning' = reasoning
          /\ task[p].pc = "listing" /\ task[p].pc \in Busy
    BY <1>5 DEF ListGaps, store, Busy
  <2> QED
    BY <1>1, <2>1, <2>2, <2>3 DEF Writing
<1>6. CASE AnnouncingEnds(p)
  <2>1. UNCHANGED <<finding, snapshots, drafts, version, crashes>> /\ reasoning' = reasoning
          /\ task[p].pc = "announcing" /\ task[p].pc \in Busy /\ Become(p, Idle)
    BY <1>6 DEF AnnouncingEnds, store, Busy
  <2> QED
    BY <1>1, <2>1, IdleType DEF Writing
<1>7. ASSUME NEW f \in Findings, StampRecord(p, f)
      PROVE  Quiet(p)
  <2> DEFINE local == [task[p] EXCEPT !.left = @ \ {f}]
  <2>1. local \in Local /\ local.pc = "stamping"
    BY <1>7 DEF Local, StampRecord
  <2>2. Become(p, local)
    BY <1>7 DEF StampRecord
  <2> HIDE DEF local
  <2>3. UNCHANGED <<finding, snapshots, drafts, version, crashes>>
          /\ task[p].pc = "stamping" /\ task[p].pc \in Busy
    BY <1>7 DEF StampRecord, Busy
  <2>4. \A g \in Findings : reasoning'[g].trace = reasoning[g].trace
    BY <1>7, StampType
  <2> QED
    BY <1>1, <2>1, <2>2, <2>3, <2>4 DEF Writing
<1>8. ASSUME NEW f \in Findings, Announce(p, f)
      PROVE  Quiet(p)
  <2> DEFINE local == [task[p] EXCEPT !.todo = @ \ {f},
                          !.pc = IF f \in announced THEN @ ELSE "running",
                          !.role = IF f \in announced THEN @ ELSE "remediate"]
  <2>1. local \in Local /\ local.pc \in {"announcing", "running"}
    BY <1>8 DEF Local, Busy, Announce
  <2>2. Become(p, local)
    BY <1>8 DEF Announce
  <2> HIDE DEF local
  <2>3. UNCHANGED <<finding, snapshots, drafts, version, crashes>> /\ reasoning' = reasoning
          /\ task[p].pc = "announcing" /\ task[p].pc \in Busy
    BY <1>8 DEF Announce, Busy
  <2> QED
    BY <1>1, <2>1, <2>2, <2>3 DEF Writing
<1> QED
  BY <1>2, <1>3, <1>4, <1>5, <1>6, <1>7, <1>8 DEF Run

(* The calls that open an assessment, a decision or a draft are quiet too, and *)
(* what they leave the task with is what it is going to write.                 *)
LEMMA OpeningQuiet ==
    ASSUME ReviewInv, NEW p \in Tasks,
           \/ \E t \in Traces : StartAssessment(p, t)
           \/ \E f \in Findings, s \in Verdicts, r \in Risks, c \in Citations, t \in Traces :
                 CreateFinding(p, f, s, r, c, t)
           \/ \E f \in Findings : StartDecision(p, f) \/ StartDraft(p, f)
    PROVE  Quiet(p)
<1> TypeOK /\ task[p] \in Local
  BY DEF ReviewInv, TypeOK
<1>1. ASSUME NEW t \in Traces, StartAssessment(p, t)
      PROVE  Quiet(p)
  <2> DEFINE local == [Idle EXCEPT !.pc = "running", !.role = "assess", !.trace = t]
  <2>1. local \in Local /\ local.pc = "running"
    BY IdleType DEF Local, Busy
  <2>2. Become(p, local)
    BY <1>1 DEF StartAssessment
  <2> HIDE DEF local
  <2>3. task'[p].pc = "running" /\ \A q \in Tasks \ {p} : task'[q] = task[q]
    BY <2>1, <2>2, BecomeType
  <2>4. UNCHANGED <<finding, snapshots, drafts, version, crashes>> /\ reasoning' = reasoning
          /\ task[p].pc = "idle" /\ LoopFree(p)
    BY <1>1 DEF StartAssessment, store
  <2> QED
    BY <2>3, <2>4, IdlyQuiet DEF Writing
<1>2. ASSUME NEW f \in Findings, NEW s \in Verdicts, NEW r \in Risks, NEW c \in Citations,
             NEW t \in Traces, CreateFinding(p, f, s, r, c, t)
      PROVE  Quiet(p)
  <2>1. UNCHANGED <<finding, snapshots, stale, drafts, version, crashes>>
          /\ reasoning' = reasoning /\ task[p].pc = "running" /\ LoopFree(p)
    BY <1>2 DEF CreateFinding, store
  <2>2. /\ task'[p].pc = "write_finding" /\ task'[p].id = f
        /\ task'[p].draft \in Finding /\ task'[p].draft.decision = 0
        /\ Gated(f, task'[p].draft, task'[p].asked)
        /\ \A q \in Tasks \ {p} : task'[q] = task[q]
    BY <1>2, DraftGated
  <2>3. Gated(f, task[p].draft, task[p].asked)'
    BY <2>1, <2>2 DEF Gated
  <2>4. Steady(p)'
    BY <2>2, <2>3 DEF Steady
  <2> QED
    BY <2>1, <2>2, <2>4 DEF Quiet
<1>3. ASSUME NEW f \in Findings, StartDecision(p, f)
      PROVE  Quiet(p)
  <2> DEFINE local == [Idle EXCEPT !.pc = "write_decision", !.id = f,
                                   !.trace = finding[f].trace]
  <2>1. UNCHANGED <<finding, snapshots, drafts, version, crashes>>
          /\ reasoning' = reasoning /\ task[p].pc = "idle" /\ LoopFree(p)
          /\ finding[f] \in Finding /\ Become(p, local)
    BY <1>3 DEF StartDecision, store, TypeOK
  <2>2. local \in Local /\ local.pc = "write_decision" /\ local.id = f
    BY <2>1, IdleType DEF Local, Busy, Finding
  <2> HIDE DEF local
  <2>3. task'[p] = local /\ \A q \in Tasks \ {p} : task'[q] = task[q]
    BY <2>1, <2>2, BecomeType
  <2>4. Steady(p)'
    BY <2>1, <2>2, <2>3 DEF Steady
  <2> QED
    BY <2>1, <2>3, <2>4 DEF Quiet
<1>4. ASSUME NEW f \in Findings, StartDraft(p, f)
      PROVE  Quiet(p)
  <2> DEFINE local == [task[p] EXCEPT !.pc = "write_draft", !.id = f, !.draft = finding[f]]
  <2>1. UNCHANGED <<finding, snapshots, drafts, version, crashes>>
          /\ reasoning' = reasoning /\ task[p].pc = "running" /\ LoopFree(p)
          /\ finding[f] \in Finding /\ finding[f].decision # 0 /\ Become(p, local)
    BY <1>4 DEF StartDraft, store, TypeOK
  <2>2. local \in Local /\ local.pc = "write_draft" /\ local.id = f /\ local.draft = finding[f]
    BY <2>1 DEF Local, Busy
  <2> HIDE DEF local
  <2>3. task'[p] = local /\ \A q \in Tasks \ {p} : task'[q] = task[q]
    BY <2>1, <2>2, BecomeType
  <2>4. Steady(p)'
    BY <2>1, <2>2, <2>3 DEF Steady
  <2> QED
    BY <2>1, <2>3, <2>4 DEF Quiet
<1> QED
  BY <1>1, <1>2, <1>3, <1>4

(* The finding is written: nobody else is at it, and its snapshot and its   *)
(* reasoning record are next.                                               *)
LEMMA FindingWritten ==
    ASSUME ReviewInv, NEW p \in Tasks, WriteFinding(p)
    PROVE  Records'
<1> DEFINE f == task[p].id
<1>1. /\ TypeOK /\ task[p] \in Local /\ task[p].pc = "write_finding" /\ task[p].pc \in Busy
      /\ f \in Findings /\ task[p].draft \in Finding /\ task[p].draft.decision = 0
  BY DEF ReviewInv, TypeOK, Steady, WriteFinding, Busy
<1>2. /\ task'[p].pc = "write_snapshot" /\ task'[p].id = f /\ task'[p].draft = task[p].draft
      /\ \A q \in Tasks \ {p} : task'[q] = task[q]
  <2>1. Go(p, "write_snapshot") /\ "write_snapshot" \in Busy
    BY DEF WriteFinding, Busy
  <2>2. /\ task'[p] = [task[p] EXCEPT !.pc = "write_snapshot"]
        /\ \A q \in Tasks \ {p} : task'[q] = task[q]
    BY <1>1, <2>1, GoType
  <2> QED
    BY <1>1, <2>2 DEF Local
<1>3. /\ finding'[f] = task[p].draft /\ version'[f] = version[f] + 1
      /\ \A g \in Findings \ {f} : finding'[g] = finding[g] /\ version'[g] = version[g]
      /\ version[f] \in Nat
      /\ UNCHANGED <<snapshots, reasoning, drafts, crashes>>
  BY <1>1 DEF WriteFinding, TypeOK
<1>4. \A q \in Tasks : task[q].pc \in Busy => q = p
  BY <1>1 DEF ReviewInv, OneBusy
<1>5. crashes > 0 \/ Len(snapshots[f]) = version[f]
  BY <1>1, <1>4 DEF ReviewInv, TrendMatchesFinding, Busy
<1>6. Steady(p)'
  BY <1>1, <1>2, <1>3, <1>5 DEF Steady
<1>7. OneBusy' /\ \A q \in Tasks : Steady(q)'
  BY <1>1, <1>2, <1>6, OneMoves DEF ReviewInv
<1>8. Decided'
  BY <1>1, <1>3 DEF ReviewInv, Decided
<1>9. TrendMatchesFinding'
  <2> SUFFICES ASSUME NEW g \in Findings, g # f, ~(crashes > 0)
               PROVE  /\ Len(snapshots[g]) = version'[g]
                      /\ version'[g] > 0 =>
                            snapshots[g][version'[g]] = [status |-> finding'[g].status,
                                                         risk |-> finding'[g].risk]
    BY <1>1, <1>2, <1>3 DEF TrendMatchesFinding, TypeOK
  <2>1. ~\E q \in Tasks : task[q].pc = "write_snapshot"
    BY <1>1, <1>4 DEF Busy
  <2> QED
    BY <1>3, <2>1 DEF ReviewInv, TrendMatchesFinding
<1>10. Explained'
  <2> SUFFICES ASSUME NEW g \in Findings, g # f, ~(crashes > 0)
               PROVE  finding'[g] = NoFinding \/ reasoning[g].trace = finding'[g].trace
    BY <1>1, <1>2, <1>3 DEF Explained, TypeOK
  <2>1. ~\E q \in Tasks : task[q].pc \in {"write_snapshot", "write_reasoning"}
    BY <1>1, <1>4 DEF Busy
  <2> QED
    BY <1>3, <2>1 DEF ReviewInv, Explained
<1>11. DraftRestsOnDecision'
  BY <1>3 DEF ReviewInv, DraftRestsOnDecision
<1> QED
  BY <1>7, <1>8, <1>9, <1>10, <1>11 DEF Records

(* The snapshot catches the trend up with the finding. *)
LEMMA SnapshotWritten ==
    ASSUME ReviewInv, NEW p \in Tasks, WriteSnapshot(p)
    PROVE  Records'
<1> DEFINE f == task[p].id
           shown == [status |-> task[p].draft.status, risk |-> task[p].draft.risk]
<1>1. /\ TypeOK /\ task[p] \in Local /\ task[p].pc = "write_snapshot" /\ task[p].pc \in Busy
      /\ f \in Findings /\ task[p].draft \in Finding /\ task[p].draft.decision = 0
      /\ finding[f] = task[p].draft
      /\ crashes > 0 \/ Len(snapshots[f]) + 1 = version[f]
  BY DEF ReviewInv, TypeOK, Steady, WriteSnapshot, Busy
<1>2. /\ task'[p].pc = "write_reasoning" /\ task'[p].id = f /\ task'[p].draft = task[p].draft
      /\ \A q \in Tasks \ {p} : task'[q] = task[q]
  <2>1. Go(p, "write_reasoning") /\ "write_reasoning" \in Busy
    BY DEF WriteSnapshot, Busy
  <2>2. /\ task'[p] = [task[p] EXCEPT !.pc = "write_reasoning"]
        /\ \A q \in Tasks \ {p} : task'[q] = task[q]
    BY <1>1, <2>1, GoType
  <2> QED
    BY <1>1, <2>2 DEF Local
<1>3. /\ snapshots'[f] = Append(snapshots[f], shown)
      /\ \A g \in Findings \ {f} : snapshots'[g] = snapshots[g]
      /\ UNCHANGED <<finding, reasoning, drafts, crashes, version>>
  BY <1>1 DEF WriteSnapshot, TypeOK
<1>4. \A q \in Tasks : task[q].pc \in Busy => q = p
  BY <1>1 DEF ReviewInv, OneBusy
<1>5. Steady(p)'
  BY <1>1, <1>2, <1>3 DEF Steady
<1>6. OneBusy' /\ \A q \in Tasks : Steady(q)'
  BY <1>1, <1>2, <1>5, OneMoves DEF ReviewInv
<1>7. Decided' /\ DraftRestsOnDecision'
  BY <1>3 DEF ReviewInv, Decided, DraftRestsOnDecision
<1>8. TrendMatchesFinding'
  <2>1. ASSUME ~(crashes > 0)
        PROVE  Len(snapshots'[f]) = version[f] /\ snapshots'[f][version[f]] = shown
    <3>1. shown \in Snapshot /\ snapshots[f] \in Seq(Snapshot) /\ version[f] \in Nat
      BY <1>1 DEF Finding, Snapshot, TypeOK
    <3> HIDE DEF shown
    <3>2. /\ Len(snapshots'[f]) = Len(snapshots[f]) + 1
          /\ snapshots'[f][Len(snapshots[f]) + 1] = shown
      BY <1>3, <3>1
    <3> QED
      BY <1>1, <2>1, <3>2
  <2>2. ASSUME NEW g \in Findings, g # f, ~(crashes > 0)
        PROVE  /\ Len(snapshots[g]) = version[g]
               /\ version[g] > 0 =>
                     snapshots[g][version[g]] = [status |-> finding[g].status,
                                                 risk |-> finding[g].risk]
    <3>1. ~\E q \in Tasks : task[q].pc = "write_snapshot" /\ task[q].id = g
      BY <1>1, <1>4, <2>2 DEF Busy
    <3> QED
      BY <2>2, <3>1 DEF ReviewInv, TrendMatchesFinding
  <2> QED
    BY <1>1, <1>3, <2>1, <2>2 DEF TrendMatchesFinding
<1>9. Explained'
  <2> SUFFICES ASSUME NEW g \in Findings, g # f, ~(crashes > 0)
               PROVE  finding[g] = NoFinding \/ reasoning[g].trace = finding[g].trace
    BY <1>1, <1>2, <1>3 DEF Explained
  <2>1. ~\E q \in Tasks : /\ task[q].pc \in {"write_snapshot", "write_reasoning"}
                          /\ task[q].id = g
    BY <1>1, <1>4 DEF Busy
  <2> QED
    BY <2>1 DEF ReviewInv, Explained
<1> QED
  BY <1>6, <1>7, <1>8, <1>9 DEF Records

(* The reasoning record explains the finding that was written. *)
LEMMA ReasoningWritten ==
    ASSUME ReviewInv, NEW p \in Tasks, WriteReasoning(p)
    PROVE  Records'
<1> DEFINE f == task[p].id
<1>1. /\ TypeOK /\ task[p] \in Local /\ task[p].pc = "write_reasoning" /\ task[p].pc \in Busy
      /\ f \in Findings /\ finding[f] = task[p].draft
  BY DEF ReviewInv, TypeOK, Steady, WriteReasoning, Busy
<1>2. task'[p].pc = "running" /\ \A q \in Tasks \ {p} : task'[q] = task[q]
  BY <1>1, AfterToolType, BecomeType DEF WriteReasoning
<1>3. /\ reasoning'[f].trace = finding[f].trace
      /\ \A g \in Findings \ {f} : reasoning'[g] = reasoning[g]
      /\ UNCHANGED <<finding, snapshots, drafts, crashes, version>>
  BY <1>1 DEF WriteReasoning, TypeOK
<1>4. \A q \in Tasks : task[q].pc \in Busy => q = p
  BY <1>1 DEF ReviewInv, OneBusy
<1>5. Steady(p)'
  BY <1>2 DEF Steady
<1>6. OneBusy' /\ \A q \in Tasks : Steady(q)'
  BY <1>1, <1>2, <1>5, OneMoves DEF ReviewInv
<1>7. Decided' /\ DraftRestsOnDecision'
  BY <1>3 DEF ReviewInv, Decided, DraftRestsOnDecision
<1>8. TrendMatchesFinding'
  <2>1. ~\E q \in Tasks : task[q].pc = "write_snapshot"
    BY <1>1, <1>4 DEF Busy
  <2> QED
    BY <1>3, <2>1 DEF ReviewInv, TrendMatchesFinding
<1>9. Explained'
  <2>1. ASSUME NEW g \in Findings, g # f, ~(crashes > 0)
        PROVE  finding[g] = NoFinding \/ reasoning[g].trace = finding[g].trace
    <3>1. ~\E q \in Tasks : /\ task[q].pc \in {"write_snapshot", "write_reasoning"}
                            /\ task[q].id = g
      BY <1>1, <1>4, <2>1 DEF Busy
    <3> QED
      BY <2>1, <3>1 DEF ReviewInv, Explained
  <2> QED
    BY <1>1, <1>3, <2>1 DEF Explained
<1> QED
  BY <1>6, <1>7, <1>8, <1>9 DEF Records

(* A decision is recorded on the finding as it stands, and changes nothing  *)
(* else of it.                                                              *)
LEMMA DecisionRecorded ==
    ASSUME ReviewInv, NEW p \in Tasks, RecordDecision(p)
    PROVE  Records'
<1> DEFINE f == task[p].id
<1>1. /\ TypeOK /\ task[p] \in Local /\ task[p].pc = "write_decision" /\ task[p].pc \in Busy
      /\ f \in Findings /\ finding[f] \in Finding
  BY DEF ReviewInv, TypeOK, Steady, RecordDecision, Busy
<1>2. task'[p].pc = "running" /\ \A q \in Tasks \ {p} : task'[q] = task[q]
  <2> DEFINE local == [Idle EXCEPT !.pc = "running", !.role = "remediate",
                                   !.trace = task[p].trace]
  <2>1. local \in Local /\ local.pc = "running"
    BY <1>1, IdleType DEF Local, Busy
  <2>2. Become(p, local)
    BY DEF RecordDecision
  <2> HIDE DEF local
  <2> QED
    BY <1>1, <2>1, <2>2, BecomeType
<1>3. /\ finding'[f].decision = version[f] /\ finding'[f].status = finding[f].status
      /\ finding'[f].risk = finding[f].risk /\ finding'[f].trace = finding[f].trace
      /\ \A g \in Findings \ {f} : finding'[g] = finding[g]
      /\ UNCHANGED <<reasoning, snapshots, drafts, crashes, version>>
  <2> DEFINE new == [finding[f] EXCEPT !.decision = version[f]]
  <2>1. /\ new.decision = version[f] /\ new.status = finding[f].status
        /\ new.risk = finding[f].risk /\ new.trace = finding[f].trace
    BY <1>1 DEF Finding
  <2>2. finding' = [finding EXCEPT ![f] = new]
          /\ UNCHANGED <<reasoning, snapshots, drafts, crashes, version>>
    BY DEF RecordDecision
  <2> HIDE DEF new
  <2> QED
    BY <1>1, <2>1, <2>2 DEF TypeOK
<1>4. finding[f] # NoFinding
  BY <1>1, FindingIsSome
<1>5. Steady(p)'
  BY <1>2 DEF Steady
<1>6. OneBusy' /\ \A q \in Tasks : Steady(q)'
  BY <1>1, <1>2, <1>5, OneMoves DEF ReviewInv
<1>7. Decided'
  BY <1>1, <1>3, <1>4 DEF ReviewInv, Decided
<1>8. DraftRestsOnDecision'
  BY <1>3 DEF ReviewInv, DraftRestsOnDecision
<1>9. ~\E q \in Tasks : task[q].pc \in {"write_snapshot", "write_reasoning"}
  BY <1>1 DEF ReviewInv, OneBusy, Busy
<1>10. TrendMatchesFinding'
  <2>1. \A g \in Findings : finding'[g].status = finding[g].status
                              /\ finding'[g].risk = finding[g].risk
    BY <1>3
  <2> QED
    BY <1>3, <1>9, <2>1 DEF ReviewInv, TrendMatchesFinding
<1>11. Explained'
  <2>1. \A g \in Findings : finding'[g].trace = finding[g].trace
                              /\ (finding[g] = NoFinding => finding'[g] = NoFinding)
    BY <1>3, <1>4
  <2> QED
    BY <1>3, <1>9, <2>1 DEF ReviewInv, Explained
<1> QED
  BY <1>6, <1>7, <1>8, <1>10, <1>11 DEF Records

(* An email rests on the decision that the finding carries. *)
LEMMA DraftWritten ==
    ASSUME ReviewInv, NEW p \in Tasks, WriteDraft(p)
    PROVE  Records'
<1> DEFINE f == task[p].id
           new == [id |-> f, decision |-> task[p].draft.decision, version |-> version[f]]
<1>1. /\ TypeOK /\ task[p] \in Local /\ task[p].pc = "write_draft" /\ task[p].pc \in Busy
      /\ f \in Findings /\ finding[f] \in Finding /\ finding[f] = task[p].draft
      /\ task[p].draft.decision # 0
  BY DEF ReviewInv, TypeOK, Steady, WriteDraft, Busy
<1>2. task'[p].pc = "running" /\ \A q \in Tasks \ {p} : task'[q] = task[q]
  BY <1>1, AfterToolType, BecomeType DEF WriteDraft
<1>3. drafts' = drafts \cup {new} /\ UNCHANGED <<finding, reasoning, snapshots, crashes, version>>
  BY DEF WriteDraft
<1>4. new.decision > 0 /\ new.decision = new.version
  <2>1. finding[f].decision = version[f] /\ version[f] > 0
    BY <1>1, FindingIsSome DEF ReviewInv, Decided
  <2> QED
    BY <1>1, <2>1
<1> HIDE DEF new
<1>5. DraftRestsOnDecision'
  BY <1>3, <1>4 DEF ReviewInv, DraftRestsOnDecision
<1>6. Steady(p)'
  BY <1>2 DEF Steady
<1>7. OneBusy' /\ \A q \in Tasks : Steady(q)'
  BY <1>1, <1>2, <1>6, OneMoves DEF ReviewInv
<1>8. ~\E q \in Tasks : task[q].pc \in {"write_snapshot", "write_reasoning"}
  BY <1>1 DEF ReviewInv, OneBusy, Busy
<1>9. Decided' /\ TrendMatchesFinding' /\ Explained'
  BY <1>3, <1>8 DEF ReviewInv, Decided, TrendMatchesFinding, Explained
<1> QED
  BY <1>5, <1>7, <1>9 DEF Records

(* Every step keeps the invariant. *)
LEMMA RecordsStep == ReviewInv /\ [Next]_vars => Records'
<1> SUFFICES ASSUME ReviewInv, [Next]_vars
             PROVE  Records'
  OBVIOUS
<1>1. ASSUME NEW p \in Tasks, Collector(p) \/ Run(p)
      PROVE  Records'
  BY <1>1, CollectorQuiet, RunQuiet, QuietKeeps
<1>2. ASSUME NEW p \in Tasks, Assessor(p) \/ Reviewer(p)
      PROVE  Records'
  <2>1. CASE WriteFinding(p) \/ WriteSnapshot(p) \/ WriteReasoning(p) \/ RecordDecision(p)
               \/ WriteDraft(p)
    BY <2>1, FindingWritten, SnapshotWritten, ReasoningWritten, DecisionRecorded, DraftWritten
  <2>2. CASE \/ \E t \in Traces : StartAssessment(p, t)
             \/ \E f \in Findings, s \in Verdicts, r \in Risks, c \in Citations, t \in Traces :
                   CreateFinding(p, f, s, r, c, t)
             \/ \E f \in Findings : StartDecision(p, f) \/ StartDraft(p, f)
    BY <2>2, OpeningQuiet, QuietKeeps
  <2> QED
    BY <1>2, <2>1, <2>2 DEF Assessor, Reviewer
<1>3. ASSUME NEW e \in Evidence, GrowStale(e)
      PROVE  Records'
  <2>1. /\ UNCHANGED <<finding, snapshots, reasoning, drafts, task, crashes, version>>
        /\ \A p \in Tasks : task[p].pc \notin Busy
    BY <1>3 DEF GrowStale
  <2>2. \A p \in Tasks : Steady(p)'
    BY <2>1 DEF Steady, Busy
  <2> QED
    BY <2>1, <2>2 DEF ReviewInv, Records, OneBusy, Decided, TrendMatchesFinding, Explained,
       DraftRestsOnDecision
<1>4. ASSUME NEW i \in Instances, Crash(i)
      PROVE  Records'
  <2>1. /\ UNCHANGED <<finding, snapshots, stale, drafts, version>> /\ crashes' > 0
        /\ \A p \in Tasks : task'[p] \in {Idle, task[p]}
    BY <1>4 DEF Crash, ReviewInv, TypeOK
  <2>2. OneBusy'
    BY <2>1, IdleType DEF ReviewInv, OneBusy, Busy
  <2>3. ASSUME NEW p \in Tasks
        PROVE  Steady(p)'
    <3>1. CASE task'[p] = Idle
      BY <3>1, IdleType DEF Steady
    <3>2. CASE task'[p] = task[p]
      BY <2>1, <3>2 DEF ReviewInv, Steady, Gated
    <3> QED
      BY <2>1, <3>1, <3>2
  <2> QED
    BY <2>1, <2>2, <2>3 DEF ReviewInv, Records, Decided, TrendMatchesFinding, Explained,
       DraftRestsOnDecision
<1>5. CASE UNCHANGED vars
  BY <1>5 DEF vars, store, ReviewInv, Records, OneBusy, Steady, Gated, Decided,
     TrendMatchesFinding, Explained, DraftRestsOnDecision
<1> QED
  BY <1>1, <1>2, <1>3, <1>4, <1>5 DEF Next
-----------------------------------------------------------------------------
(* The inductive invariant: the argument behind all that follows. *)
THEOREM ReviewInvariant == Spec => []ReviewInv
<1>1. ReviewInv /\ [Next]_vars => ReviewInv'
  BY TypeStep, RecordsStep DEF ReviewInv, Records
<1> QED
  BY <1>1, InvInit, PTL DEF Spec

(* Type correctness of findings, snapshots, reasoning records, drafts and tasks. *)
THEOREM ReviewTypeCorrect == Spec => []TypeOK
<1>1. ReviewInv => TypeOK
  BY DEF ReviewInv
<1> QED
  BY <1>1, ReviewInvariant, PTL

(* The snapshots that a drift sweep reads show what the findings showed. *)
THEOREM ReviewTrendMatches == Spec => []TrendMatchesFinding
<1>1. ReviewInv => TrendMatchesFinding
  BY DEF ReviewInv
<1> QED
  BY <1>1, ReviewInvariant, PTL

(* GET /findings/{id}/explain explains the finding that stands. *)
THEOREM ReviewExplained == Spec => []Explained
<1>1. ReviewInv => Explained
  BY DEF ReviewInv
<1> QED
  BY <1>1, ReviewInvariant, PTL

(* A vendor email rests on a decision about the finding as it stood when the *)
(* email was drafted.                                                        *)
THEOREM ReviewDraftRests == Spec => []DraftRestsOnDecision
<1>1. ReviewInv => DraftRestsOnDecision
  BY DEF ReviewInv
<1> QED
  BY <1>1, ReviewInvariant, PTL

(* Only the write of a finding makes a version of it. *)
LEMMA OnlyWriteFinding ==
    [Next]_vars => version' = version \/ \E p \in Tasks : WriteFinding(p)
<1>1. ASSUME NEW p \in Tasks, Collector(p) \/ Run(p)
      PROVE  version' = version
  BY <1>1 DEF Collector, Run, StartCollecting, CollectReading, RunEnds, StampRecord,
     StampingEnds, RunRaises, ListGaps, Announce, AnnouncingEnds
<1>2. ASSUME NEW p \in Tasks, Reviewer(p)
      PROVE  version' = version
  BY <1>2 DEF Reviewer, StartDecision, RecordDecision, StartDraft, WriteDraft
<1>3. ASSUME NEW p \in Tasks, Assessor(p)
      PROVE  version' = version \/ WriteFinding(p)
  BY <1>3 DEF Assessor, StartAssessment, CreateFinding, WriteSnapshot, WriteReasoning
<1>4. ASSUME NEW e \in Evidence, GrowStale(e)
      PROVE  version' = version
  BY <1>4 DEF GrowStale
<1>5. ASSUME NEW i \in Instances, Crash(i)
      PROVE  version' = version
  BY <1>5 DEF Crash
<1>6. UNCHANGED vars => version' = version
  BY DEF vars
<1> QED
  BY <1>1, <1>2, <1>3, <1>4, <1>5, <1>6 DEF Next

(* No finding gets past the gates of create_finding, whatever is collected or *)
(* grows stale between the agent's look at its context and its call.          *)
THEOREM ReviewFailClosed == Spec => FailClosed
<1>1. ReviewInv /\ [Next]_vars =>
        \A f \in Findings :
            version'[f] # version[f] =>
                LET new == finding'[f] IN
                /\ new.status = "satisfied" => new.cites \cap stale = {}
                /\ f \in Critical \/ new.risk >= Threshold => new.review
                /\ (\E p \in Tasks : /\ task[p].pc = "write_finding" /\ task[p].id = f
                                     /\ task[p].asked # new.status) => new.review
  <2> SUFFICES ASSUME ReviewInv, [Next]_vars, NEW f \in Findings, version'[f] # version[f]
               PROVE  LET new == finding'[f] IN
                      /\ new.status = "satisfied" => new.cites \cap stale = {}
                      /\ f \in Critical \/ new.risk >= Threshold => new.review
                      /\ (\E p \in Tasks : /\ task[p].pc = "write_finding" /\ task[p].id = f
                                           /\ task[p].asked # new.status) => new.review
    OBVIOUS
  <2>1. PICK p \in Tasks : WriteFinding(p)
    BY OnlyWriteFinding
  <2>2. task[p].pc = "write_finding" /\ task[p].id = f /\ finding'[f] = task[p].draft
    BY <2>1 DEF WriteFinding, ReviewInv, TypeOK, Steady
  <2>3. Gated(f, task[p].draft, task[p].asked)
    BY <2>2 DEF ReviewInv, Steady
  <2>4. \A q \in Tasks : task[q].pc = "write_finding" => q = p
    BY <2>2 DEF ReviewInv, OneBusy, Busy
  <2> QED
    BY <2>2, <2>3, <2>4 DEF Gated
<1> QED
  BY <1>1, ReviewInvariant, PTL DEF Spec, FailClosed
=============================================================================
