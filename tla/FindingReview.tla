---------------------------- MODULE FindingReview ----------------------------
(***************************************************************************)
(* A finding from the Risk Assessor's create_finding, with its snapshot    *)
(* and its reasoning record, over the human decision on it, to the vendor  *)
(* email that Remediation Router may draft.                                *)
(*                                                                         *)
(* A task is a sweep of the Evidence Collector, the handling of one        *)
(* assessment.requested event, or one decision request.  An agent run is a *)
(* long await in which the model calls the tools of its agent with any     *)
(* arguments.  A step is one store operation or one resumption of a        *)
(* coroutine; while a task is at a control point of Busy, no other task of *)
(* its instance moves.  Refused calls change nothing and are no steps.     *)
(***************************************************************************)
EXTENDS Naturals, Sequences

CONSTANTS
    Findings,                \* finding ids: one for each vendor and control
    Critical,                \* those of critical-tier vendors
    Evidence, Claims,        \* evidence ids; assertion ids of the vendor
    Verdicts, Risks,         \* statuses and residual risks an agent may give
    Citations,               \* sets of ids an agent may cite
    Threshold,               \* residual_risk_human_threshold
    Traces,                  \* trace ids
    Tasks, Instances, Home,  \* Home[p]: the instance that runs task p
    MaxVersions,             \* bound: how often a finding is written
    MaxCrashes,              \* bound: how often an instance is killed
    None                     \* no value

(* The type of a status names four of them; create_finding takes any string. *)
FindingStatus == Verdicts \cup {"satisfied", "gap", "exception", "unknown"}

ASSUME ReviewAssumption ==
    /\ Critical \subseteq Findings
    /\ Evidence \cap Claims = {}
    /\ Citations \subseteq SUBSET (Evidence \cup Claims)
    /\ Risks \subseteq Nat /\ Threshold \in Nat
    /\ Home \in [Tasks -> Instances]
    /\ MaxVersions \in Nat /\ MaxCrashes \in Nat
    /\ None \notin Findings \cup Traces \cup Tasks \cup FindingStatus

VARIABLES
    finding,    \* findings
    snapshots,  \* assessment_snapshots of each finding's vendor and control, in order
    reasoning,  \* reasoning_records, one for each finding
    known,      \* evidence: the ids collected so far
    stale,      \* those whose freshness is "stale" by now
    announced,  \* event_dedup, for finding.created
    drafts,     \* vendor_email_drafts
    task,       \* task[p]: control point and local variables of task p
    crashes,    \* number of crashes so far
    version     \* history: how often a finding was written

store == <<finding, snapshots, reasoning, known, stale, announced, drafts>>
vars == <<store, task, crashes, version>>

(* decision is the version it was recorded on, or 0 for none; what the *)
(* human wrote is left out.                                            *)
Finding == [status : FindingStatus, risk : Risks, cites : Citations, trace : Traces,
            review : BOOLEAN, decision : Nat]

NoFinding == [status |-> None]

Snapshot == [status : FindingStatus, risk : Risks]

(* telemetry says whose run stamped the record last: its own, another, or    *)
(* another after its own.  maker is history: the task whose run wrote it, as *)
(* long as that run lasts.                                                   *)
Reasoning == [trace : Traces \cup {None}, telemetry : {"none", "own", "other", "replaced"},
              maker : Tasks \cup {None}]

NoReasoning == [trace |-> None, telemetry |-> "none", maker |-> None]

Busy == {"write_finding", "write_snapshot", "write_reasoning", "stamping", "listing",
         "announcing", "write_decision", "write_draft", "collecting"}

Local == [pc : Busy \cup {"idle", "running"}, role : {"assess", "remediate", None},
          trace : Traces \cup {None}, id : Findings \cup {None},
          draft : Finding \cup {NoFinding}, asked : FindingStatus \cup {None},
          todo : SUBSET Findings, left : SUBSET (Findings \cup Evidence)]

Idle == [pc |-> "idle", role |-> None, trace |-> None, id |-> None, draft |-> NoFinding,
         asked |-> None, todo |-> {}, left |-> {}]

LoopFree(p) ==
    \A q \in Tasks \ {p} : Home[q] = Home[p] => task[q].pc \notin Busy

Become(p, local) == task' = [task EXCEPT ![p] = local]
Go(p, pc) == Become(p, [task[p] EXCEPT !.pc = pc])

Init ==
    /\ finding = [f \in Findings |-> NoFinding]
    /\ snapshots = [f \in Findings |-> << >>]
    /\ reasoning = [f \in Findings |-> NoReasoning]
    /\ known = {} /\ stale = {} /\ announced = {} /\ drafts = {}
    /\ task = [p \in Tasks |-> Idle]
    /\ crashes = 0
    /\ version = [f \in Findings |-> 0]

-----------------------------------------------------------------------------
(* collect_evidence: one document for each reading.  Its id is that of the *)
(* last sweep's reading of the same source, whose document it replaces.    *)
StartCollecting(p) ==
    /\ task[p].pc = "idle" /\ LoopFree(p)
    /\ Become(p, [Idle EXCEPT !.pc = "collecting", !.left = Evidence])
    /\ UNCHANGED <<store, crashes, version>>

(* Mutant: a reading that is old already is not stored. *)
CollectReadingIfFresh(p, e, old) ==
    /\ task[p].pc = "collecting" /\ e \in task[p].left
    /\ known' = IF old THEN known ELSE known \cup {e}
    /\ stale' = IF old THEN stale \cup {e} ELSE stale \ {e}
    /\ Become(p, IF task[p].left = {e} THEN Idle
                 ELSE [task[p] EXCEPT !.left = @ \ {e}])
    /\ UNCHANGED <<finding, snapshots, reasoning, announced, drafts, crashes, version>>

(* The source says when it took the reading, so it may be stale at once. *)
CollectReading(p, e, old) ==
    /\ task[p].pc = "collecting" /\ e \in task[p].left
    /\ known' = known \cup {e}
    /\ stale' = IF old THEN stale \cup {e} ELSE stale \ {e}
    /\ Become(p, IF task[p].left = {e} THEN Idle
                 ELSE [task[p] EXCEPT !.left = @ \ {e}])
    /\ UNCHANGED <<finding, snapshots, reasoning, announced, drafts, crashes, version>>

(* Time passes.  Age counts whole days, and a tool call takes far less. *)
GrowStale(e) ==
    /\ e \in known \ stale
    /\ \A p \in Tasks : task[p].pc \notin Busy
    /\ stale' = stale \cup {e}
    /\ UNCHANGED <<finding, snapshots, reasoning, known, announced, drafts, task, crashes,
                   version>>

-----------------------------------------------------------------------------
(* _on_assessment_requested starts the Supervisor's run under the event's trace. *)
StartAssessment(p, t) ==
    /\ task[p].pc = "idle" /\ LoopFree(p)
    /\ Become(p, [Idle EXCEPT !.pc = "running", !.role = "assess", !.trace = t])
    /\ UNCHANGED <<store, crashes, version>>

(* Mutant: a citation of an assertion makes up for the stale evidence. *)
OnlyStale(cites) == cites # {} /\ cites \subseteq stale

RestsOnStale(cites) == cites \cap stale # {}

MandatoryReview(f, risk) == f \in Critical \/ risk >= Threshold

(* create_finding, which rejects a finding that cites nothing or cites an id *)
(* that does not exist: the finding as it will be written.  The trace is an  *)
(* argument, like the rest.                                                  *)
CreateFinding(p, f, status, risk, cites, t) ==
    LET downgraded == RestsOnStale(cites) /\ status = "satisfied" IN
    /\ task[p].pc = "running" /\ task[p].role = "assess" /\ LoopFree(p)
    /\ version[f] < MaxVersions
    /\ cites # {} /\ cites \subseteq known \cup Claims
    /\ Become(p, [task[p] EXCEPT
            !.pc = "write_finding", !.id = f, !.asked = status,
            !.draft = [status |-> IF downgraded THEN "unknown" ELSE status,
                       risk |-> risk, cites |-> cites, trace |-> t,
                       review |-> downgraded \/ MandatoryReview(f, risk),
                       decision |-> 0]])
    /\ UNCHANGED <<store, crashes, version>>

(* Mutant: a decision made earlier is carried over to the new finding. *)
WriteFindingOverDecision(p) ==
    LET f == task[p].id IN
    /\ task[p].pc = "write_finding"
    /\ finding' = [finding EXCEPT
            ![f] = [task[p].draft EXCEPT
                        !.decision = IF finding[f] = NoFinding THEN 0
                                     ELSE finding[f].decision]]
    /\ version' = [version EXCEPT ![f] = @ + 1]
    /\ Go(p, "write_snapshot")
    /\ UNCHANGED <<snapshots, reasoning, known, stale, announced, drafts, crashes>>

(* The finding of that vendor and control is replaced as a whole, its *)
(* human_decision included.                                           *)
WriteFinding(p) ==
    LET f == task[p].id IN
    /\ task[p].pc = "write_finding"
    /\ finding' = [finding EXCEPT ![f] = task[p].draft]
    /\ version' = [version EXCEPT ![f] = @ + 1]
    /\ Go(p, "write_snapshot")
    /\ UNCHANGED <<snapshots, reasoning, known, stale, announced, drafts, crashes>>

(* Mutant: the snapshot shows the status the agent asked for. *)
WriteSnapshotAsAsked(p) ==
    LET f == task[p].id IN
    /\ task[p].pc = "write_snapshot"
    /\ snapshots' = [snapshots EXCEPT
            ![f] = Append(@, [status |-> task[p].asked, risk |-> task[p].draft.risk])]
    /\ Go(p, "write_reasoning")
    /\ UNCHANGED <<finding, reasoning, known, stale, announced, drafts, crashes, version>>

WriteSnapshot(p) ==
    LET f == task[p].id IN
    /\ task[p].pc = "write_snapshot"
    /\ snapshots' = [snapshots EXCEPT
            ![f] = Append(@, [status |-> task[p].draft.status, risk |-> task[p].draft.risk])]
    /\ Go(p, "write_reasoning")
    /\ UNCHANGED <<finding, reasoning, known, stale, announced, drafts, crashes, version>>

AfterTool(p) == [Idle EXCEPT !.pc = "running", !.role = task[p].role,
                             !.trace = task[p].trace, !.todo = task[p].todo]

(* Mutant: the record of the finding's first assessment is kept. *)
WriteReasoningOnce(p) ==
    LET f == task[p].id IN
    /\ task[p].pc = "write_reasoning"
    /\ reasoning' = [reasoning EXCEPT
            ![f] = IF @ # NoReasoning THEN @
                   ELSE [trace |-> task[p].draft.trace, telemetry |-> "none", maker |-> p]]
    /\ Become(p, AfterTool(p))
    /\ UNCHANGED <<finding, snapshots, known, stale, announced, drafts, crashes, version>>

(* decision_id comes from the finding's id: this record replaces the last. *)
WriteReasoning(p) ==
    LET f == task[p].id IN
    /\ task[p].pc = "write_reasoning"
    /\ reasoning' = [reasoning EXCEPT
            ![f] = [trace |-> task[p].draft.trace, telemetry |-> "none", maker |-> p]]
    /\ Become(p, AfterTool(p))
    /\ UNCHANGED <<finding, snapshots, known, stale, announced, drafts, crashes, version>>

-----------------------------------------------------------------------------
(* A run is over: _run looks for the reasoning records of its trace ... *)
RunEnds(p) ==
    /\ task[p].pc = "running" /\ LoopFree(p)
    /\ Become(p, [task[p] EXCEPT
            !.pc = "stamping",
            !.left = {f \in Findings : reasoning[f].trace = task[p].trace}])
    /\ UNCHANGED <<store, crashes, version>>

(* ... and writes its model, tokens and latency into each. *)
StampRecord(p, f) ==
    /\ task[p].pc = "stamping" /\ f \in task[p].left
    /\ reasoning' = [reasoning EXCEPT
            ![f] = [reasoning[f] EXCEPT
                       !.telemetry = IF reasoning[f].maker = p THEN "own"
                                     ELSE IF reasoning[f].telemetry \in {"own", "replaced"}
                                     THEN "replaced" ELSE "other"]]
    /\ Become(p, [task[p] EXCEPT !.left = @ \ {f}])
    /\ UNCHANGED <<finding, snapshots, known, stale, announced, drafts, crashes, version>>

(* The runs of these tasks are over. *)
Forget(ended) ==
    reasoning' = [f \in Findings |->
        IF reasoning[f].maker \in ended THEN [reasoning[f] EXCEPT !.maker = None]
        ELSE reasoning[f]]

(* An assessment goes on to its gaps, a remediation back to who waits for it. *)
StampingEnds(p) ==
    /\ task[p].pc = "stamping" /\ task[p].left = {}
    /\ Forget({p})
    /\ Become(p, [Idle EXCEPT
            !.pc = IF task[p].role = "assess" THEN "listing" ELSE "announcing",
            !.trace = task[p].trace, !.todo = task[p].todo])
    /\ UNCHANGED <<finding, snapshots, known, stale, announced, drafts, crashes, version>>

(* The bus catches what a run raises.  The handler of an assessment is over; *)
(* an assessment that waits for a remediation goes on.                       *)
RunRaises(p) ==
    /\ task[p].pc = "running" /\ LoopFree(p)
    /\ Forget({p})
    /\ Become(p, IF task[p].role = "assess" THEN Idle
                 ELSE [Idle EXCEPT !.pc = "announcing", !.trace = task[p].trace,
                                   !.todo = task[p].todo])
    /\ UNCHANGED <<finding, snapshots, known, stale, announced, drafts, crashes, version>>

(* The gaps this assessment found, going by the trace the agent gave them. *)
ListGaps(p) ==
    /\ task[p].pc = "listing"
    /\ Become(p, [task[p] EXCEPT
            !.pc = "announcing",
            !.todo = {f \in Findings : finding[f].status = "gap"
                                         /\ finding[f].trace = task[p].trace}])
    /\ UNCHANGED <<store, crashes, version>>

(* finding.created is keyed by the finding's id: the first time,           *)
(* _on_finding_created runs Remediation Router, under the trace of the     *)
(* assessment, while the assessment's handler waits.  Any later time the   *)
(* event is a duplicate.                                                   *)
Announce(p, f) ==
    /\ task[p].pc = "announcing" /\ f \in task[p].todo
    /\ announced' = announced \cup {f}
    /\ Become(p, [task[p] EXCEPT !.todo = @ \ {f},
                                 !.pc = IF f \in announced THEN @ ELSE "running",
                                 !.role = IF f \in announced THEN @ ELSE "remediate"])
    /\ UNCHANGED <<finding, snapshots, reasoning, known, stale, drafts, crashes, version>>

AnnouncingEnds(p) ==
    /\ task[p].pc = "announcing" /\ task[p].todo = {}
    /\ Become(p, Idle)
    /\ UNCHANGED <<store, crashes, version>>

-----------------------------------------------------------------------------
(* POST /findings/{id}/decision: the finding has to exist ... *)
StartDecision(p, f) ==
    /\ task[p].pc = "idle" /\ LoopFree(p)
    /\ finding[f] # NoFinding
    /\ Become(p, [Idle EXCEPT !.pc = "write_decision", !.id = f,
                              !.trace = finding[f].trace])
    /\ UNCHANGED <<store, crashes, version>>

(* ... and human.decision, whose key is new each time, runs Remediation *)
(* Router under the finding's trace.                                    *)
RecordDecision(p) ==
    LET f == task[p].id IN
    /\ task[p].pc = "write_decision"
    /\ finding' = [finding EXCEPT ![f] = [finding[f] EXCEPT !.decision = version[f]]]
    /\ Become(p, [Idle EXCEPT !.pc = "running", !.role = "remediate",
                              !.trace = task[p].trace])
    /\ UNCHANGED <<snapshots, reasoning, known, stale, announced, drafts, crashes, version>>

(* draft_vendor_email, for any finding the agent names.  It is refused unless *)
(* the finding carries a decision.                                            *)
StartDraft(p, f) ==
    /\ task[p].pc = "running" /\ task[p].role = "remediate" /\ LoopFree(p)
    /\ finding[f] # NoFinding
    /\ finding[f].decision # 0
    /\ Become(p, [task[p] EXCEPT !.pc = "write_draft", !.id = f, !.draft = finding[f]])
    /\ UNCHANGED <<store, crashes, version>>

WriteDraft(p) ==
    LET f == task[p].id IN
    /\ task[p].pc = "write_draft"
    /\ drafts' = drafts \cup {[id |-> f, decision |-> task[p].draft.decision,
                               version |-> version[f]]}
    /\ Become(p, AfterTool(p))
    /\ UNCHANGED <<finding, snapshots, reasoning, known, stale, announced, crashes, version>>

-----------------------------------------------------------------------------
(* The platform kills an instance; its tasks are gone, the store stays.  An *)
(* instance that is idle has nothing to lose.                               *)
Crash(i) ==
    /\ crashes < MaxCrashes
    /\ \E p \in Tasks : Home[p] = i /\ task[p].pc # "idle"
    /\ crashes' = crashes + 1
    /\ Forget({p \in Tasks : Home[p] = i})
    /\ task' = [p \in Tasks |-> IF Home[p] = i THEN Idle ELSE task[p]]
    /\ UNCHANGED <<finding, snapshots, known, stale, announced, drafts, version>>

Collector(p) ==
    \/ StartCollecting(p)
    \/ \E e \in Evidence, old \in BOOLEAN : CollectReading(p, e, old)

Assessor(p) ==
    \/ \E t \in Traces : StartAssessment(p, t)
    \/ \E f \in Findings, s \in Verdicts, r \in Risks, c \in Citations, t \in Traces :
          CreateFinding(p, f, s, r, c, t)
    \/ WriteFinding(p) \/ WriteSnapshot(p) \/ WriteReasoning(p)

Run(p) ==
    \/ RunEnds(p) \/ RunRaises(p) \/ StampingEnds(p) \/ ListGaps(p) \/ AnnouncingEnds(p)
    \/ \E f \in Findings : StampRecord(p, f) \/ Announce(p, f)

Reviewer(p) ==
    \/ \E f \in Findings : StartDecision(p, f) \/ StartDraft(p, f)
    \/ RecordDecision(p) \/ WriteDraft(p)

Next ==
    \/ \E p \in Tasks : Collector(p) \/ Assessor(p) \/ Run(p) \/ Reviewer(p)
    \/ \E e \in Evidence : GrowStale(e)
    \/ \E i \in Instances : Crash(i)

Spec == Init /\ [][Next]_vars

-----------------------------------------------------------------------------
TypeOK ==
    /\ finding \in [Findings -> Finding \cup {NoFinding}]
    /\ snapshots \in [Findings -> Seq(Snapshot)]
    /\ reasoning \in [Findings -> Reasoning]
    /\ known \subseteq Evidence /\ stale \subseteq known
    /\ announced \subseteq Findings
    /\ drafts \subseteq [id : Findings, decision : Nat, version : Nat]
    /\ task \in [Tasks -> Local]
    /\ crashes \in 0 .. MaxCrashes
    /\ version \in [Findings -> Nat]

(* Nothing slips through the gates of create_finding, whatever was collected *)
(* or grew stale since the agent looked at its context: a finding written as *)
(* satisfied rests on evidence that is fresh now, and one that is downgraded *)
(* or mandatory to review is marked for a human (docs/architecture.md,       *)
(* "Mandatory human-in-the-loop gates").                                     *)
FailClosed ==
    [][\A f \in Findings :
        version'[f] # version[f] =>
            LET new == finding'[f] IN
            /\ new.status = "satisfied" => new.cites \cap stale = {}
            /\ f \in Critical \/ new.risk >= Threshold => new.review
            /\ (\E p \in Tasks : /\ task[p].pc = "write_finding" /\ task[p].id = f
                                 /\ task[p].asked # new.status) => new.review]_vars

(* The trend a drift sweep reads shows what the findings showed: unless an  *)
(* instance died in create_finding, there is one snapshot for each time a   *)
(* finding was written, and the last says what the finding says.            *)
TrendMatchesFinding ==
    \A f \in Findings :
        \/ \E p \in Tasks : task[p].pc = "write_snapshot" /\ task[p].id = f
        \/ crashes > 0
        \/ /\ Len(snapshots[f]) = version[f]
           /\ version[f] > 0 =>
                 snapshots[f][version[f]] = [status |-> finding[f].status,
                                             risk |-> finding[f].risk]

(* GET /findings/{id}/explain explains the finding that stands: its reasoning *)
(* record is of the same trace, unless an instance died in create_finding.    *)
Explained ==
    \A f \in Findings :
        \/ finding[f] = NoFinding
        \/ \E p \in Tasks : /\ task[p].pc \in {"write_snapshot", "write_reasoning"}
                            /\ task[p].id = f
        \/ crashes > 0
        \/ reasoning[f].trace = finding[f].trace

(* Every vendor email rests on a decision about the finding as it stood when *)
(* the email was drafted, never on one about an earlier assessment.          *)
DraftRestsOnDecision == \A d \in drafts : d.decision > 0 /\ d.decision = d.version

-----------------------------------------------------------------------------
(* The telemetry that the run which wrote a reasoning record put on it stays *)
(* the record's: no other run replaces it (docs/architecture.md, "The        *)
(* reasoning-chain record and /explain";                                     *)
(* ReasoningRecordRepo.stamp_telemetry_for_trace).                           *)
TelemetryOfMaker == \A f \in Findings : reasoning[f].telemetry # "replaced"
=============================================================================
