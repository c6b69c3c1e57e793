----------------------------- MODULE Onboarding ------------------------------
(***************************************************************************)
(* From a vendor's document to what it sets off: process_vendor_artifact   *)
(* with the prescan of Intake, the extraction that asks for an assessment, *)
(* the contract review whose subprocessors Concentration Analyzer clusters *)
(* over the whole portfolio.                                               *)
(*                                                                         *)
(* A task is one request.  An agent run is a long await in which the model *)
(* calls the tools of its agent with any arguments.  A step is one store   *)
(* operation or one resumption of a coroutine; while a task is at a        *)
(* control point of Busy, no other task of its instance moves.  Assertions *)
(* and contract terms are left out: nothing here depends on them.          *)
(***************************************************************************)
EXTENDS Naturals, Sequences, FiniteSets

CONSTANTS
    Names,                    \* vendor names
    Documents,                \* documents that vendors give
    Of, Contracts, Poisoned,  \* a document's vendor name; which are contracts, which
                              \* match an injection pattern
    Artifacts, Sha,           \* artifact ids, and the one a document's own hash gives
    Uploaded,                 \* the one that the hash "uploaded" gives
    Subprocessors,            \* names of subprocessors, normalized
    Tasks, Instances, Home,   \* Home[p]: the instance that runs task p
    MaxListed,                \* bound: subprocessors one call of the tool lists
    MaxDocuments,             \* bound: documents handed in
    MaxCrashes,               \* bound: how often an instance is killed
    None                      \* no value

ASSUME OnboardingAssumption ==
    /\ Of \in [Documents -> Names]
    /\ Contracts \subseteq Documents /\ Poisoned \subseteq Documents
    /\ Sha \in [Documents -> Artifacts] /\ Uploaded \in Artifacts
    /\ Home \in [Tasks -> Instances]
    /\ MaxListed \in Nat /\ MaxDocuments \in Nat /\ MaxCrashes \in Nat
    /\ None \notin Documents \cup Names \cup Artifacts

VARIABLES
    vendors,    \* vendors[n]: how many vendor documents carry name n
    artifact,   \* artifacts: the vendor and the verdict of the prescan
    subs,       \* subprocessors: the document at an artifact and a place in its list
    risks,      \* concentration_risks: the vendors of each cluster, {} for none
    extracted,  \* event_dedup, for assertion.extracted
    disclosed,  \* event_dedup, for subprocessors.extracted
    task,       \* task[p]: control point and local variables of task p
    crashes,    \* number of crashes so far
    handed,     \* number of documents handed in so far
    read,       \* history: the vendors whose evidence was read and acted upon
    requests    \* history: the vendors whose assessment artifact a asked for, in order

store == <<vendors, artifact, subs, risks, extracted, disclosed>>
vars == <<store, task, crashes, handed, read, requests>>

VendorIds == Names \X (Nat \ {0})

Artifact == [vendor : VendorIds, verdict : {"clean", "blocked"}]

Subprocessor == [vendor : VendorIds, name : Subprocessors]

Places == Artifacts \X (1 .. MaxListed)

Nothing == [at \in Places |-> None]

Lists == UNION {[1 .. n -> Subprocessors] : n \in 0 .. MaxListed}

(* The clusters of a portfolio: subprocessors that two vendors depend on. *)
Clusters(portfolio) ==
    [s \in Subprocessors |->
        LET users == {portfolio[at].vendor : at \in {x \in Places :
                         portfolio[x] # None /\ portfolio[x].name = s}}
        IN IF Cardinality(users) < 2 THEN {} ELSE users]

Busy == {"create_vendor", "write_artifact", "requesting", "recording", "clearing", "writing"}

Local == [pc : Busy \cup {"idle", "extracting", "reviewing", "assessing"},
          doc : Documents \cup {None}, name : Names \cup {None},
          vendor : VendorIds \cup {None}, artifact : Artifacts \cup {None},
          argument : Artifacts \cup {None}, list : Lists, place : Nat,
          left : SUBSET Subprocessors, found : [Subprocessors -> SUBSET VendorIds]]

Idle == [pc |-> "idle", doc |-> None, name |-> None, vendor |-> None, artifact |-> None,
         argument |-> None, list |-> << >>, place |-> 1,
         left |-> {}, found |-> Clusters(Nothing)]

(* Mutant: the routes are plain functions, which FastAPI runs in threads. *)
ThreadPool(p) == TRUE

LoopFree(p) ==
    \A q \in Tasks \ {p} : Home[q] = Home[p] => task[q].pc \notin Busy

Become(p, local) == task' = [task EXCEPT ![p] = local]

Init ==
    /\ vendors = [n \in Names |-> 0]
    /\ artifact = [a \in Artifacts |-> None]
    /\ subs = Nothing
    /\ risks = Clusters(Nothing)
    /\ extracted = {} /\ disclosed = {}
    /\ task = [p \in Tasks |-> Idle]
    /\ crashes = 0 /\ handed = 0
    /\ read = {}
    /\ requests = [a \in Artifacts |-> << >>]

-----------------------------------------------------------------------------
(* VendorRepo.get_or_create looks the name up; with an artifact to write *)
(* for the vendor or, for POST /vendors, without.                        *)
LookUp(p, n, d, a) ==
    LET local == [Idle EXCEPT !.doc = d, !.name = n, !.artifact = a] IN
    \/ /\ vendors[n] = 0
       /\ Become(p, [local EXCEPT !.pc = "create_vendor"])
    \/ \E i \in 1 .. vendors[n] :
          Become(p, IF d = None THEN Idle
                    ELSE [local EXCEPT !.pc = "write_artifact", !.vendor = <<n, i>>])

RegisterVendor(p, n) ==
    /\ task[p].pc = "idle" /\ LoopFree(p)
    /\ LookUp(p, n, None, None)
    /\ UNCHANGED <<store, crashes, handed, read, requests>>

(* POST /vendors/artifacts names the hash of the document; the upload route *)
(* names every document "uploaded".                                         *)
HandIn(p, d, a) ==
    /\ task[p].pc = "idle" /\ LoopFree(p)
    /\ handed < MaxDocuments
    /\ handed' = handed + 1
    /\ LookUp(p, Of[d], d, a)
    /\ UNCHANGED <<store, crashes, read, requests>>

SubmitArtifact(p, d) == HandIn(p, d, Sha[d])

UploadArtifact(p, d) == HandIn(p, d, Uploaded)

CreateVendor(p) ==
    LET n == task[p].name IN
    /\ task[p].pc = "create_vendor"
    /\ vendors' = [vendors EXCEPT ![n] = @ + 1]
    /\ Become(p, IF task[p].doc = None THEN Idle
                 ELSE [task[p] EXCEPT !.pc = "write_artifact",
                                      !.vendor = <<n, vendors'[n]>>])
    /\ UNCHANGED <<artifact, subs, risks, extracted, disclosed, crashes, handed, read,
                   requests>>

(* Mutant: the verdict on an artifact id that was scanned before is reused. *)
VerdictOnRecord(p) ==
    LET t == task[p] IN
    IF artifact[t.artifact] # None THEN artifact[t.artifact].verdict
    ELSE IF t.doc \in Poisoned THEN "blocked" ELSE "clean"

(* Mutant: the pattern that matched is recorded in place of the verdict. *)
MatchedPattern(p) == IF task[p].doc \in Poisoned THEN "matched" ELSE "clean"

(* guardrails.scan_for_injection on the text that was handed in. *)
Verdict(p) == IF task[p].doc \in Poisoned THEN "blocked" ELSE "clean"

(* prescan_artifact writes the artifact, over one of the same id, and      *)
(* process_vendor_artifact goes on to the agent for the type of document.  *)
WriteArtifact(p) ==
    LET t == task[p] IN
    /\ t.pc = "write_artifact"
    /\ artifact' = [artifact EXCEPT
            ![t.artifact] = [vendor |-> t.vendor, verdict |-> Verdict(p)]]
    /\ Become(p, IF Verdict(p) = "blocked" THEN Idle
                 ELSE [t EXCEPT !.pc = IF t.doc \in Contracts THEN "reviewing"
                                       ELSE "extracting"])
    /\ UNCHANGED <<vendors, subs, risks, extracted, disclosed, crashes, handed, read,
                   requests>>

-----------------------------------------------------------------------------
(* Mutant: assertion.extracted has a key of its own each time. *)
ExtractionEndsUnkeyed(p) ==
    /\ task[p].pc = "extracting" /\ LoopFree(p)
    /\ extracted' = extracted \cup {task[p].artifact}
    /\ Become(p, [task[p] EXCEPT !.pc = "requesting"])
    /\ UNCHANGED <<vendors, artifact, subs, risks, disclosed, crashes, handed, read,
                   requests>>

(* The run is over, and assertion.extracted is published under a key made of *)
(* the artifact's id; a key that was there before ends the request.          *)
ExtractionEnds(p) ==
    LET t == task[p] IN
    /\ t.pc = "extracting" /\ LoopFree(p)
    /\ IF t.artifact \in extracted
       THEN /\ Become(p, Idle)
            /\ read' = read \cup {t.vendor}
            /\ UNCHANGED extracted
       ELSE /\ extracted' = extracted \cup {t.artifact}
            /\ Become(p, [t EXCEPT !.pc = "requesting"])
            /\ UNCHANGED read
    /\ UNCHANGED <<vendors, artifact, subs, risks, disclosed, crashes, handed, requests>>

(* _on_assertion_extracted asks for an assessment of the vendor, under a key *)
(* made of the event's id, and the request waits for it.                     *)
RequestAssessment(p) ==
    LET t == task[p] IN
    /\ t.pc = "requesting"
    /\ requests' = [requests EXCEPT ![t.artifact] = Append(@, t.vendor)]
    /\ read' = read \cup {t.vendor}
    /\ Become(p, [Idle EXCEPT !.pc = "assessing", !.vendor = t.vendor])
    /\ UNCHANGED <<store, crashes, handed>>

(* An assessment ends, by itself or in the dead-letter queue; a contract     *)
(* review ends with contract.terms_extracted, which has no consumer; and a   *)
(* run that raises ends its request.                                         *)
RequestEnds(p) ==
    /\ task[p].pc \in {"extracting", "reviewing", "assessing"} /\ LoopFree(p)
    /\ Become(p, Idle)
    /\ UNCHANGED <<store, crashes, handed, read, requests>>

-----------------------------------------------------------------------------
(* The agent's run goes on after a call of its tool. *)
Reviewing(t) ==
    [Idle EXCEPT !.pc = "reviewing", !.doc = t.doc, !.artifact = t.artifact]

(* extract_subprocessors, for a vendor and an artifact on record that the   *)
(* agent names; with an empty list it does nothing.                         *)
ExtractSubprocessors(p, v, a, list) ==
    /\ task[p].pc = "reviewing" /\ LoopFree(p)
    /\ artifact[a] # None /\ list # << >>
    /\ Become(p, [task[p] EXCEPT !.pc = "recording", !.vendor = v, !.argument = a,
                                 !.list = list, !.place = 1])
    /\ UNCHANGED <<store, crashes, handed, read, requests>>

(* The id of the document is made of the artifact and the place in the list. *)
RecordSubprocessor(p) ==
    LET t == task[p] IN
    /\ t.pc = "recording" /\ t.place <= Len(t.list)
    /\ subs' = [subs EXCEPT
            ![<<t.argument, t.place>>] = [vendor |-> t.vendor, name |-> t.list[t.place]]]
    /\ Become(p, [t EXCEPT !.place = @ + 1])
    /\ UNCHANGED <<vendors, artifact, risks, extracted, disclosed, crashes, handed, read,
                   requests>>

(* Mutant: the clusters found before are not cleared away. *)
AnalysisOverOld(local) == [local EXCEPT !.pc = "clearing", !.left = {}]

(* analyze_concentration_risk: clear_all lists the risks there are ... *)
Analysis(local) ==
    [local EXCEPT !.pc = "clearing", !.left = {s \in Subprocessors : risks[s] # {}}]

(* subprocessors.extracted is keyed by the artifact: the analysis runs the *)
(* first time only.                                                        *)
RecordingEnds(p) ==
    LET t == task[p] IN
    /\ t.pc = "recording" /\ t.place > Len(t.list)
    /\ disclosed' = disclosed \cup {t.argument}
    /\ Become(p, IF t.argument \in disclosed THEN Reviewing(t) ELSE Analysis(t))
    /\ UNCHANGED <<vendors, artifact, subs, risks, extracted, crashes, handed, read,
                   requests>>

(* POST /concentration-analyzer/tick *)
AnalysisTick(p) ==
    /\ task[p].pc = "idle" /\ LoopFree(p)
    /\ Become(p, Analysis(Idle))
    /\ UNCHANGED <<store, crashes, handed, read, requests>>

(* ... and deletes them one by one. *)
ClearRisk(p, s) ==
    /\ task[p].pc = "clearing" /\ s \in task[p].left
    /\ risks' = [risks EXCEPT ![s] = {}]
    /\ Become(p, [task[p] EXCEPT !.left = @ \ {s}])
    /\ UNCHANGED <<vendors, artifact, subs, extracted, disclosed, crashes, handed, read,
                   requests>>

(* Then the portfolio is read and clustered ... *)
FindClusters(p) ==
    LET found == Clusters(subs) IN
    /\ task[p].pc = "clearing" /\ task[p].left = {}
    /\ Become(p, [task[p] EXCEPT !.pc = "writing", !.found = found,
                                 !.left = {s \in Subprocessors : found[s] # {}}])
    /\ UNCHANGED <<store, crashes, handed, read, requests>>

(* ... and each cluster is written. *)
WriteRisk(p, s) ==
    /\ task[p].pc = "writing" /\ s \in task[p].left
    /\ risks' = [risks EXCEPT ![s] = task[p].found[s]]
    /\ Become(p, [task[p] EXCEPT !.left = @ \ {s}])
    /\ UNCHANGED <<vendors, artifact, subs, extracted, disclosed, crashes, handed, read,
                   requests>>

AnalysisEnds(p) ==
    /\ task[p].pc = "writing" /\ task[p].left = {}
    /\ Become(p, IF task[p].doc = None THEN Idle ELSE Reviewing(task[p]))
    /\ UNCHANGED <<store, crashes, handed, read, requests>>

-----------------------------------------------------------------------------
(* The platform kills an instance; its tasks are gone, the store stays.  An *)
(* instance that is idle has nothing to lose.                               *)
Crash(i) ==
    /\ crashes < MaxCrashes
    /\ \E p \in Tasks : Home[p] = i /\ task[p].pc # "idle"
    /\ crashes' = crashes + 1
    /\ task' = [p \in Tasks |-> IF Home[p] = i THEN Idle ELSE task[p]]
    /\ UNCHANGED <<store, handed, read, requests>>

Start(p) ==
    \/ \E n \in Names : RegisterVendor(p, n)
    \/ \E d \in Documents : SubmitArtifact(p, d) \/ UploadArtifact(p, d)
    \/ AnalysisTick(p)

Continue(p) ==
    \/ CreateVendor(p) \/ WriteArtifact(p)
    \/ ExtractionEnds(p) \/ RequestAssessment(p) \/ RequestEnds(p)
    \/ \E n \in Names, a \in Artifacts, list \in Lists :
          \E i \in 1 .. vendors[n] : ExtractSubprocessors(p, <<n, i>>, a, list)
    \/ RecordSubprocessor(p) \/ RecordingEnds(p)
    \/ \E s \in Subprocessors : ClearRisk(p, s) \/ WriteRisk(p, s)
    \/ FindClusters(p) \/ AnalysisEnds(p)

Next ==
    \/ \E p \in Tasks : Start(p) \/ Continue(p)
    \/ \E i \in Instances : Crash(i)

Spec == Init /\ [][Next]_vars

-----------------------------------------------------------------------------
TypeOK ==
    /\ vendors \in [Names -> Nat]
    /\ artifact \in [Artifacts -> Artifact \cup {None}]
    /\ subs \in [Places -> Subprocessor \cup {None}]
    /\ risks \in [Subprocessors -> SUBSET VendorIds]
    /\ extracted \subseteq Artifacts /\ disclosed \subseteq Artifacts
    /\ task \in [Tasks -> Local]
    /\ crashes \in 0 .. MaxCrashes /\ handed \in 0 .. MaxDocuments
    /\ read \subseteq VendorIds
    /\ requests \in [Artifacts -> Seq(VendorIds)]

(* A vendor is created once, however many requests bring its first document *)
(* or register it (VendorRepo.get_or_create,                                *)
(* tests/test_models.py, test_vendor_get_or_create_is_idempotent_by_name).  *)
OneVendorPerName == \A n \in Names : vendors[n] <= 1

(* A document that matches an injection pattern never reaches a model, also *)
(* when its artifact id belongs to a clean document ("the LLM is never      *)
(* invoked on its content at all", prescan_artifact).                       *)
Quarantine ==
    \A p \in Tasks :
        task[p].pc \in {"extracting", "reviewing", "recording"} =>
            task[p].doc \notin Poisoned

(* However often a document comes in, an assessment is requested for it at  *)
(* most once, and it is not forgotten: the request was sent, or is about to *)
(* be, or an instance was killed between the key and the request.           *)
OneAssessmentPerArtifact ==
    \A a \in Artifacts :
        /\ Len(requests[a]) <= IF a \in extracted THEN 1 ELSE 0
        /\ a \in extracted /\ requests[a] = << >> =>
              \/ crashes > 0
              \/ \E p \in Tasks : task[p].pc = "requesting" /\ task[p].artifact = a

(* When an analysis has ended, the risks on record are exactly the clusters  *)
(* of the portfolio as it is then ("this always reflects current portfolio   *)
(* state", analyze_concentration_risk), whatever was on record before and    *)
(* also after one that a crash cut off.                                      *)
AnalysisExact ==
    [][\A p \in Tasks :
        task[p].pc = "writing" /\ task'[p].pc # "writing" /\ crashes' = crashes
            => risks' = Clusters(subs')]_vars

-----------------------------------------------------------------------------
(* "An extraction finishing is what actually *requests* a fresh assessment" *)
(* (_on_assertion_extracted): a vendor whose evidence was read without an   *)
(* instance being killed meanwhile has had an assessment requested for it.  *)
ReadMeansRequested ==
    \A v \in read : \E a \in Artifacts : \E i \in DOMAIN requests[a] : requests[a][i] = v
=============================================================================
