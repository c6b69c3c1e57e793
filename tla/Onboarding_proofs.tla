-------------------------- MODULE Onboarding_proofs --------------------------
(***************************************************************************)
(* What holds of onboarding in one process, for every number of vendors,   *)
(* documents, artifacts, subprocessors, requests and crashes.              *)
(***************************************************************************)
EXTENDS OnboardingSingle, FiniteSetTheorems, TLAPS

(* The code between two awaits is entered by one task at a time. *)
OneBusy == \A p, q \in Tasks : task[p].pc \in Busy /\ task[q].pc \in Busy => p = q

(* A document that the prescan let through. *)
Scanned(t) == t.doc \in Documents /\ t.doc \notin Poisoned

(* What a task knows, of the store while it is between two awaits only. *)
Steady(p) ==
    LET t == task[p] IN
    /\ t.pc = "create_vendor" =>
           /\ t.name \in Names /\ vendors[t.name] = 0
           /\ t.doc # None => t.doc \in Documents /\ t.artifact \in Artifacts
    /\ t.pc = "write_artifact" =>
           t.doc \in Documents /\ t.artifact \in Artifacts /\ t.vendor \in VendorIds
    /\ t.pc = "extracting" =>
           Scanned(t) /\ t.artifact \in Artifacts /\ t.vendor \in VendorIds
    /\ t.pc = "requesting" =>
           /\ t.artifact \in Artifacts /\ t.vendor \in VendorIds
           /\ t.artifact \in extracted /\ requests[t.artifact] = << >>
    /\ t.pc = "reviewing" => Scanned(t)
    /\ t.pc = "recording" =>
           /\ Scanned(t) /\ t.argument \in Artifacts /\ t.vendor \in VendorIds
           /\ t.place >= 1
    /\ t.pc = "clearing" =>
           /\ t.doc # None => Scanned(t)
           /\ \A s \in Subprocessors : s \notin t.left => risks[s] = {}
    /\ t.pc = "writing" =>
           /\ t.doc # None => Scanned(t)
           /\ t.found = Clusters(subs)
           /\ \A s \in Subprocessors : risks[s] = IF s \in t.left THEN {} ELSE t.found[s]

OnboardingInv ==
    /\ TypeOK
    /\ OneBusy
    /\ \A p \in Tasks : Steady(p)
    /\ OneVendorPerName
    /\ OneAssessmentPerArtifact

(* TypeOK but for the tasks. *)
StoreOK ==
    /\ vendors \in [Names -> Nat]
    /\ artifact \in [Artifacts -> Artifact \cup {None}]
    /\ subs \in [Places -> Subprocessor \cup {None}]
    /\ risks \in [Subprocessors -> SUBSET VendorIds]
    /\ extracted \subseteq Artifacts /\ disclosed \subseteq Artifacts
    /\ crashes \in 0 .. MaxCrashes /\ handed \in 0 .. MaxDocuments
    /\ read \subseteq VendorIds
    /\ requests \in [Artifacts -> Seq(VendorIds)]

LEMMA StoreType == TypeOK <=> StoreOK /\ task \in [Tasks -> Local]
BY DEF TypeOK, StoreOK

-----------------------------------------------------------------------------
(* Clusters are sets of vendors. *)
LEMMA ClustersType ==
    ASSUME NEW portfolio \in [Places -> Subprocessor \cup {None}]
    PROVE  Clusters(portfolio) \in [Subprocessors -> SUBSET VendorIds]
<1> DEFINE Users(s) == {portfolio[at].vendor : at \in {x \in Places :
                           portfolio[x] # None /\ portfolio[x].name = s}}
<1>1. ASSUME NEW s \in Subprocessors  PROVE Users(s) \subseteq VendorIds
  BY DEF Subprocessor
<1> HIDE DEF Users
<1>2. \A s \in Subprocessors :
          (IF Cardinality(Users(s)) < 2 THEN {} ELSE Users(s)) \in SUBSET VendorIds
  BY <1>1
<1>3. Clusters(portfolio) =
          [s \in Subprocessors |-> IF Cardinality(Users(s)) < 2 THEN {} ELSE Users(s)]
  BY DEF Clusters, Users
<1> QED
  BY <1>2, <1>3

(* A task without work is a local state. *)
LEMMA IdleType == Idle \in Local /\ Idle.pc = "idle" /\ Idle.doc = None
<1>1. Clusters(Nothing) \in [Subprocessors -> SUBSET VendorIds]
  BY ClustersType DEF Nothing
<1>2. << >> \in Lists
  <2>1. << >> \in [1 .. 0 -> Subprocessors] /\ 0 \in 0 .. MaxListed
    BY OnboardingAssumption
  <2> QED
    BY <2>1 DEF Lists
<1> HIDE DEF Nothing
<1> QED
  BY <1>1, <1>2 DEF Idle, Local, Busy

(* A list names subprocessors at its places. *)
LEMMA ListType ==
    ASSUME NEW list \in Lists
    PROVE  /\ Len(list) \in Nat /\ Len(list) <= MaxListed
           /\ \A i \in 1 .. Len(list) : list[i] \in Subprocessors
<1>1. PICK n \in 0 .. MaxListed : list \in [1 .. n -> Subprocessors]
  BY DEF Lists
<1>2. n \in Nat /\ list \in Seq(Subprocessors) /\ Len(list) = n
  BY <1>1, OnboardingAssumption
<1> QED
  BY <1>1, <1>2, OnboardingAssumption

(* The step of a task is about that task only. *)
LEMMA BecomeType ==
    ASSUME TypeOK, NEW p \in Tasks, NEW local \in Local, Become(p, local)
    PROVE  /\ task' \in [Tasks -> Local]
           /\ task'[p] = local
           /\ \A q \in Tasks \ {p} : task'[q] = task[q]
BY DEF TypeOK, Become

(* In one process a task moves only when no other is between two awaits. *)
LEMMA Alone ==
    ASSUME OneBusy, NEW p \in Tasks, task[p].pc \in Busy \/ LoopFree(p)
    PROVE  \A q \in Tasks \ {p} : task[q].pc \notin Busy
BY OneInstance DEF OneBusy, LoopFree

(* The other tasks of the process wait, and know nothing of the store. *)
LEMMA OthersWait ==
    ASSUME OnboardingInv, NEW p \in Tasks, NEW local \in Local, Become(p, local),
           task[p].pc \in Busy \/ LoopFree(p)
    PROVE  /\ task' \in [Tasks -> Local] /\ task'[p] = local
           /\ OneBusy'
           /\ \A q \in Tasks \ {p} :
                  task'[q] = task[q] /\ task[q].pc \notin Busy /\ Steady(q)'
<1>1. TypeOK /\ OneBusy /\ \A q \in Tasks : Steady(q)
  BY DEF OnboardingInv
<1>2. \A q \in Tasks \ {p} : task[q].pc \notin Busy
  BY <1>1, Alone
<1>3. task' \in [Tasks -> Local] /\ task'[p] = local
      /\ \A q \in Tasks \ {p} : task'[q] = task[q]
  BY <1>1, BecomeType
<1>4. OneBusy'
  BY <1>2, <1>3 DEF OneBusy
<1>5. ASSUME NEW q \in Tasks \ {p}  PROVE Steady(q)'
  <2>1. task'[q] = task[q] /\ task[q].pc \notin Busy
    BY <1>2, <1>3
  <2>2. Steady(q)
    BY <1>1
  <2> QED
    BY <2>1, <2>2 DEF Steady, Busy, Scanned
<1> QED
  BY <1>2, <1>3, <1>4, <1>5

(* A step that asks for no assessment. *)
LEMMA Quiet ==
    ASSUME OnboardingInv, NEW p \in Tasks, NEW local \in Local, Become(p, local),
           task[p].pc \in Busy \/ LoopFree(p), task[p].pc # "requesting",
           vendors' = vendors \/ OneVendorPerName', extracted' = extracted, requests' = requests,
           crashes' = crashes, StoreOK', Steady(p)'
    PROVE  OnboardingInv'
<1>1. /\ task' \in [Tasks -> Local] /\ task'[p] = local
      /\ OneBusy'
      /\ \A q \in Tasks \ {p} : task'[q] = task[q] /\ task[q].pc \notin Busy /\ Steady(q)'
  BY OthersWait
<1>2. TypeOK'
  BY <1>1 DEF TypeOK, StoreOK
<1>3. OneVendorPerName'
  BY DEF OnboardingInv, OneVendorPerName
<1>4. OneAssessmentPerArtifact'
  BY <1>1 DEF OnboardingInv, OneAssessmentPerArtifact
<1> QED
  BY <1>1, <1>2, <1>3, <1>4 DEF OnboardingInv

-----------------------------------------------------------------------------
LEMMA InvInit == Init => OnboardingInv
<1> SUFFICES ASSUME Init PROVE OnboardingInv
  OBVIOUS
<1>1. StoreOK
  <2>1. risks \in [Subprocessors -> SUBSET VendorIds] /\ subs \in [Places -> Subprocessor \cup {None}]
    BY ClustersType DEF Init, Nothing
  <2>2. crashes \in 0 .. MaxCrashes /\ handed \in 0 .. MaxDocuments
    BY OnboardingAssumption DEF Init
  <2>3. vendors \in [Names -> Nat] /\ artifact \in [Artifacts -> Artifact \cup {None}]
    BY DEF Init
  <2>4. requests \in [Artifacts -> Seq(VendorIds)]
    BY DEF Init
  <2>5. extracted \subseteq Artifacts /\ disclosed \subseteq Artifacts /\ read \subseteq VendorIds
    BY DEF Init
  <2> QED
    BY <2>1, <2>2, <2>3, <2>4, <2>5 DEF StoreOK
<1>2. task \in [Tasks -> Local] /\ \A p \in Tasks : task[p].pc = "idle"
  BY IdleType DEF Init
<1>3. OneVendorPerName
  BY DEF Init, OneVendorPerName
<1>4. OneAssessmentPerArtifact
  BY DEF Init, OneAssessmentPerArtifact
<1> QED
  BY <1>1, <1>2, <1>3, <1>4, StoreType DEF OnboardingInv, OneBusy, Steady, Busy

(* get_or_create finds no vendor of the name, or one that exists. *)
LEMMA LookUpStep ==
    ASSUME OnboardingInv, NEW p \in Tasks, NEW n \in Names, NEW d, NEW a,
           d = None \/ (d \in Documents /\ a \in Artifacts), a \in Artifacts \cup {None},
           task[p].pc = "idle", LoopFree(p), LookUp(p, n, d, a),
           UNCHANGED <<store, crashes, read, requests>>, handed' \in 0 .. MaxDocuments
    PROVE  OnboardingInv'
<1>1. TypeOK /\ StoreOK
  BY StoreType DEF OnboardingInv
<1>2. StoreOK' /\ vendors' = vendors /\ extracted' = extracted /\ requests' = requests
      /\ crashes' = crashes
  BY <1>1 DEF StoreOK, store
<1> DEFINE base == [Idle EXCEPT !.doc = d, !.name = n, !.artifact = a]
<1>3. base \in Local /\ base.doc = d /\ base.name = n /\ base.artifact = a
  BY IdleType DEF Local
<1>4. CASE vendors[n] = 0 /\ Become(p, [base EXCEPT !.pc = "create_vendor"])
  <2> DEFINE local == [base EXCEPT !.pc = "create_vendor"]
  <2>1. local \in Local /\ local.pc = "create_vendor" /\ local.doc = d /\ local.name = n
        /\ local.artifact = a
    BY <1>3 DEF Local, Busy
  <2>2. Become(p, local)
    BY <1>4
  <2> HIDE DEF local
  <2>3. task'[p] = local
    BY <1>1, <2>1, <2>2, BecomeType
  <2>4. Steady(p)'
    BY <1>2, <1>4, <2>1, <2>3 DEF Steady
  <2> QED
    BY <1>2, <2>1, <2>2, <2>4, Quiet
<1>5. ASSUME NEW i \in 1 .. vendors[n],
             Become(p, IF d = None THEN Idle
                       ELSE [base EXCEPT !.pc = "write_artifact", !.vendor = <<n, i>>])
      PROVE  OnboardingInv'
  <2>1. CASE d = None
    <3>1. Become(p, Idle)
      BY <1>5, <2>1
    <3>2. Steady(p)'
      BY <1>1, <3>1, IdleType, BecomeType DEF Steady
    <3> QED
      BY <1>2, <3>1, <3>2, IdleType, Quiet
  <2>2. CASE d # None
    <3> DEFINE local == [base EXCEPT !.pc = "write_artifact", !.vendor = <<n, i>>]
    <3>1. <<n, i>> \in VendorIds
      BY <1>1 DEF StoreOK, VendorIds
    <3>2. local \in Local /\ local.pc = "write_artifact" /\ local.doc = d
          /\ local.artifact = a /\ local.vendor = <<n, i>>
      BY <1>3, <3>1 DEF Local, Busy
    <3>3. Become(p, local)
      BY <1>5, <2>2
    <3> HIDE DEF local
    <3>4. task'[p] = local
      BY <1>1, <3>2, <3>3, BecomeType
    <3>5. Steady(p)'
      BY <2>2, <3>1, <3>2, <3>4 DEF Steady
    <3> QED
      BY <1>2, <3>2, <3>3, <3>5, Quiet
  <2> QED
    BY <2>1, <2>2
<1> QED
  BY <1>4, <1>5 DEF LookUp

(* ... and after which the task has no more work. *)
LEMMA Rests ==
    ASSUME OnboardingInv, NEW p \in Tasks, Become(p, Idle),
           task[p].pc \in Busy \/ LoopFree(p), task[p].pc # "requesting",
           vendors' = vendors \/ OneVendorPerName', extracted' = extracted,
           requests' = requests, crashes' = crashes, StoreOK'
    PROVE  OnboardingInv'
<1>1. Steady(p)'
  BY IdleType, BecomeType DEF Steady, OnboardingInv
<1> QED
  BY <1>1, IdleType, Quiet

(* What the invariant says of the task that is about to move. *)
LEMMA Mine ==
    ASSUME OnboardingInv, NEW p \in Tasks
    PROVE  /\ TypeOK /\ StoreOK /\ Steady(p)
           /\ task[p] \in Local
           /\ OneVendorPerName /\ OneAssessmentPerArtifact
BY StoreType DEF OnboardingInv

LEMMA RegisterVendorStep ==
    ASSUME OnboardingInv, NEW p \in Tasks, NEW n \in Names, RegisterVendor(p, n)
    PROVE  OnboardingInv'
<1>1. handed' \in 0 .. MaxDocuments
  BY Mine DEF RegisterVendor, StoreOK
<1>2. /\ task[p].pc = "idle" /\ LoopFree(p) /\ LookUp(p, n, None, None)
      /\ UNCHANGED <<store, crashes, read, requests>>
  BY DEF RegisterVendor
<1> QED
  BY <1>1, <1>2, LookUpStep

LEMMA HandInStep ==
    ASSUME OnboardingInv, NEW p \in Tasks, NEW d \in Documents, NEW a \in Artifacts,
           HandIn(p, d, a)
    PROVE  OnboardingInv'
<1>1. handed' \in 0 .. MaxDocuments
  BY Mine, OnboardingAssumption DEF HandIn, StoreOK
<1>2. /\ task[p].pc = "idle" /\ LoopFree(p) /\ LookUp(p, Of[d], d, a)
      /\ UNCHANGED <<store, crashes, read, requests>>
  BY DEF HandIn
<1>3. Of[d] \in Names
  BY OnboardingAssumption
<1> QED
  BY <1>1, <1>2, <1>3, LookUpStep

(* get_or_create creates a vendor of a name that has none. *)
LEMMA CreateVendorStep ==
    ASSUME OnboardingInv, NEW p \in Tasks, CreateVendor(p)
    PROVE  OnboardingInv'
<1> DEFINE t == task[p]
           n == t.name
<1>1. /\ TypeOK /\ StoreOK /\ t \in Local /\ OneVendorPerName
      /\ t.pc = "create_vendor" /\ n \in Names /\ vendors[n] = 0
      /\ t.doc # None => t.doc \in Documents /\ t.artifact \in Artifacts
  BY Mine DEF CreateVendor, Steady
<1>2. vendors' = [vendors EXCEPT ![n] = vendors[n] + 1]
  BY DEF CreateVendor
<1>3. vendors' \in [Names -> Nat] /\ vendors'[n] = 1 /\ OneVendorPerName'
  BY <1>1, <1>2 DEF StoreOK, OneVendorPerName
<1>4. StoreOK' /\ extracted' = extracted /\ requests' = requests /\ crashes' = crashes
  BY <1>1, <1>3 DEF StoreOK, CreateVendor
<1>5. t.pc \in Busy /\ t.pc # "requesting"
  BY <1>1 DEF Busy
<1>6. CASE t.doc = None
  <2>1. Become(p, Idle)
    BY <1>6 DEF CreateVendor
  <2> QED
    BY <1>3, <1>4, <1>5, <2>1, Rests
<1>7. CASE t.doc # None
  <2> DEFINE local == [t EXCEPT !.pc = "write_artifact", !.vendor = <<n, 1>>]
  <2>1. Become(p, local)
    BY <1>3, <1>7 DEF CreateVendor
  <2>2. <<n, 1>> \in VendorIds
    BY <1>1 DEF VendorIds
  <2>3. /\ local \in Local /\ local.pc = "write_artifact" /\ local.doc = t.doc
        /\ local.artifact = t.artifact /\ local.vendor = <<n, 1>>
    BY <1>1, <2>2 DEF Local, Busy
  <2> HIDE DEF local, t
  <2>4. task'[p] = local
    BY <1>1, <2>1, <2>3, BecomeType
  <2>5. Steady(p)'
    BY <1>1, <1>7, <2>2, <2>3, <2>4 DEF Steady
  <2> QED
    BY <1>3, <1>4, <1>5, <2>1, <2>3, <2>5, Quiet DEF t
<1> QED
  BY <1>6, <1>7

(* The prescan lets a document through or ends the request. *)
LEMMA WriteArtifactStep ==
    ASSUME OnboardingInv, NEW p \in Tasks, WriteArtifact(p)
    PROVE  OnboardingInv'
<1> DEFINE t == task[p]
<1>1. /\ TypeOK /\ StoreOK /\ t \in Local
      /\ t.pc = "write_artifact"
      /\ t.doc \in Documents /\ t.artifact \in Artifacts /\ t.vendor \in VendorIds
  BY Mine DEF WriteArtifact, Steady
<1>2. [vendor |-> t.vendor, verdict |-> Verdict(p)] \in Artifact
  BY <1>1 DEF Artifact, Verdict
<1>3. artifact' \in [Artifacts -> Artifact \cup {None}]
  BY <1>1, <1>2 DEF WriteArtifact, StoreOK
<1>4. /\ StoreOK' /\ vendors' = vendors /\ extracted' = extracted
      /\ requests' = requests /\ crashes' = crashes
  BY <1>1, <1>3 DEF StoreOK, WriteArtifact
<1>5. t.pc \in Busy /\ t.pc # "requesting"
  BY <1>1 DEF Busy
<1>6. CASE Verdict(p) = "blocked"
  <2>1. Become(p, Idle)
    BY <1>6 DEF WriteArtifact
  <2> QED
    BY <1>4, <1>5, <2>1, Rests
<1>7. CASE Verdict(p) # "blocked"
  <2> DEFINE next == IF t.doc \in Contracts THEN "reviewing" ELSE "extracting"
             local == [t EXCEPT !.pc = next]
  <2>1. Become(p, local)
    BY <1>7 DEF WriteArtifact
  <2>2. next \in {"reviewing", "extracting"}
    OBVIOUS
  <2> HIDE DEF next
  <2>3. /\ local \in Local /\ local.pc = next /\ local.doc = t.doc
        /\ local.artifact = t.artifact /\ local.vendor = t.vendor
    BY <1>1, <2>2 DEF Local
  <2>4. Scanned(t)
    BY <1>1, <1>7 DEF Scanned, Verdict
  <2> HIDE DEF local, t
  <2>5. task'[p] = local
    BY <1>1, <2>1, <2>3, BecomeType
  <2>6. Steady(p)'
    BY <1>1, <2>2, <2>3, <2>4, <2>5 DEF Steady, Scanned
  <2> QED
    BY <1>4, <1>5, <2>1, <2>3, <2>6, Quiet DEF t
<1> QED
  BY <1>6, <1>7

(* A key that is new is still without a request. *)
LEMMA ExtractionEndsStep ==
    ASSUME OnboardingInv, NEW p \in Tasks, ExtractionEnds(p)
    PROVE  OnboardingInv'
<1> DEFINE t == task[p]
           a == t.artifact
<1>1. /\ TypeOK /\ StoreOK /\ t \in Local /\ OneAssessmentPerArtifact /\ OneVendorPerName
      /\ t.pc = "extracting" /\ LoopFree(p)
      /\ a \in Artifacts /\ t.vendor \in VendorIds
  BY Mine DEF ExtractionEnds, Steady
<1>2. /\ vendors' = vendors /\ requests' = requests /\ crashes' = crashes
      /\ UNCHANGED <<artifact, subs, risks, disclosed, handed>>
  BY DEF ExtractionEnds
<1>3. CASE a \in extracted
  <2>1. Become(p, Idle) /\ read' = read \cup {t.vendor} /\ extracted' = extracted
    BY <1>3 DEF ExtractionEnds
  <2>2. StoreOK'
    BY <1>1, <1>2, <2>1 DEF StoreOK
  <2> QED
    BY <1>1, <1>2, <2>1, <2>2, Rests
<1>4. CASE a \notin extracted
  <2> DEFINE local == [t EXCEPT !.pc = "requesting"]
  <2>1. Become(p, local) /\ extracted' = extracted \cup {a} /\ read' = read
    BY <1>4 DEF ExtractionEnds
  <2>2. StoreOK'
    BY <1>1, <1>2, <2>1 DEF StoreOK
  <2>3. /\ local \in Local /\ local.pc = "requesting"
        /\ local.artifact = a /\ local.vendor = t.vendor
    BY <1>1 DEF Local, Busy
  <2> HIDE DEF local
  <2>4. /\ task' \in [Tasks -> Local] /\ task'[p] = local /\ OneBusy'
        /\ \A q \in Tasks \ {p} : task'[q] = task[q] /\ Steady(q)'
    BY <1>1, <2>1, <2>3, OthersWait
  <2>5. requests[a] = << >>
    <3>1. requests[a] \in Seq(VendorIds) /\ Len(requests[a]) <= 0
      BY <1>1, <1>4 DEF StoreOK, OneAssessmentPerArtifact
    <3> QED
      BY <3>1
  <2>6. Steady(p)'
    BY <1>1, <1>2, <2>1, <2>3, <2>4, <2>5 DEF Steady
  <2>7. OneAssessmentPerArtifact'
    <3> SUFFICES ASSUME NEW b \in Artifacts
                 PROVE  /\ Len(requests[b]) <= IF b \in extracted' THEN 1 ELSE 0
                        /\ b \in extracted' /\ requests[b] = << >> =>
                              \/ crashes > 0
                              \/ \E q \in Tasks : task'[q].pc = "requesting"
                                                  /\ task'[q].artifact = b
      BY <1>2 DEF OneAssessmentPerArtifact
    <3>1. CASE b = a
      BY <2>1, <2>3, <2>4, <2>5, <3>1
    <3>2. CASE b # a
      <4>1. b \in extracted' <=> b \in extracted
        BY <2>1, <3>2
      <4>2. ASSUME NEW q \in Tasks, task[q].pc = "requesting"
            PROVE  task'[q] = task[q]
        BY <1>1, <2>4, <4>2
      <4> QED
        BY <1>1, <4>1, <4>2 DEF OneAssessmentPerArtifact
    <3> QED
      BY <3>1, <3>2
  <2>8. TypeOK' /\ OneVendorPerName'
    BY <1>1, <1>2, <2>2, <2>4 DEF TypeOK, StoreOK, OneVendorPerName
  <2> QED
    BY <2>4, <2>6, <2>7, <2>8 DEF OnboardingInv
<1> QED
  BY <1>3, <1>4

(* The one request of an artifact. *)
LEMMA RequestAssessmentStep ==
    ASSUME OnboardingInv, NEW p \in Tasks, RequestAssessment(p)
    PROVE  OnboardingInv'
<1> DEFINE t == task[p]
           a == t.artifact
           local == [Idle EXCEPT !.pc = "assessing", !.vendor = t.vendor]
<1>1. /\ TypeOK /\ StoreOK /\ OneAssessmentPerArtifact /\ OneVendorPerName
      /\ t.pc = "requesting" /\ a \in Artifacts /\ t.vendor \in VendorIds
      /\ a \in extracted /\ requests[a] = << >>
  BY Mine DEF RequestAssessment, Steady
<1>2. /\ Become(p, local) /\ requests' = [requests EXCEPT ![a] = Append(requests[a], t.vendor)]
      /\ read' = read \cup {t.vendor}
      /\ UNCHANGED <<vendors, artifact, subs, risks, extracted, disclosed, crashes, handed>>
  BY DEF RequestAssessment, store
<1>3. local \in Local /\ local.pc = "assessing"
  BY <1>1, IdleType DEF Local
<1> HIDE DEF local
<1>4. t.pc \in Busy
  BY <1>1 DEF Busy
<1>5. /\ task' \in [Tasks -> Local] /\ task'[p] = local /\ OneBusy'
      /\ \A q \in Tasks \ {p} : task'[q] = task[q] /\ Steady(q)'
  BY <1>2, <1>3, <1>4, OthersWait
<1>6. Append(requests[a], t.vendor) \in Seq(VendorIds) /\ Append(requests[a], t.vendor) # << >>
      /\ Len(Append(requests[a], t.vendor)) = 1
  BY <1>1
<1>7. /\ requests'[a] = Append(requests[a], t.vendor)
      /\ \A b \in Artifacts \ {a} : requests'[b] = requests[b]
      /\ requests' \in [Artifacts -> Seq(VendorIds)]
  BY <1>1, <1>2, <1>6 DEF StoreOK
<1>8. StoreOK'
  BY <1>1, <1>2, <1>7 DEF StoreOK
<1>9. Steady(p)'
  BY <1>3, <1>5 DEF Steady
<1>10. OneAssessmentPerArtifact'
  <2> SUFFICES ASSUME NEW b \in Artifacts
               PROVE  /\ Len(requests'[b]) <= IF b \in extracted THEN 1 ELSE 0
                      /\ b \in extracted /\ requests'[b] = << >> =>
                            \/ crashes > 0
                            \/ \E q \in Tasks : task'[q].pc = "requesting"
                                                /\ task'[q].artifact = b
    BY <1>2 DEF OneAssessmentPerArtifact
  <2>1. CASE b = a
    <3>1. requests'[b] # << >> /\ Len(requests'[b]) = 1
      BY <1>6, <1>7, <2>1
    <3> HIDE DEF t, a
    <3> QED
      BY <1>1, <2>1, <3>1
  <2>2. CASE b # a
    <3>1. requests'[b] = requests[b]
      BY <1>7, <2>2
    <3>2. ASSUME NEW q \in Tasks, task[q].artifact = b
          PROVE  task'[q] = task[q]
      BY <1>5, <2>2, <3>2
    <3> QED
      BY <1>1, <3>1, <3>2 DEF OneAssessmentPerArtifact
  <2> QED
    BY <2>1, <2>2
<1>11. TypeOK' /\ OneVendorPerName'
  BY <1>1, <1>2, <1>5, <1>8 DEF TypeOK, StoreOK, OneVendorPerName
<1> QED
  BY <1>5, <1>9, <1>10, <1>11 DEF OnboardingInv

LEMMA RequestEndsStep ==
    ASSUME OnboardingInv, NEW p \in Tasks, RequestEnds(p)
    PROVE  OnboardingInv'
<1>1. /\ StoreOK' /\ vendors' = vendors /\ extracted' = extracted
      /\ requests' = requests /\ crashes' = crashes
  BY Mine DEF StoreOK, RequestEnds, store
<1>2. Become(p, Idle) /\ LoopFree(p) /\ task[p].pc # "requesting"
  BY DEF RequestEnds
<1> QED
  BY <1>1, <1>2, Rests

-----------------------------------------------------------------------------
(* The agent's run goes on. *)
LEMMA ReviewingType ==
    ASSUME NEW t \in Local
    PROVE  /\ Reviewing(t) \in Local /\ Reviewing(t).pc = "reviewing"
           /\ Reviewing(t).doc = t.doc
BY IdleType DEF Reviewing, Local

(* An analysis begins with the risks that are on record. *)
LEMMA AnalysisType ==
    ASSUME NEW t \in Local
    PROVE  /\ Analysis(t) \in Local /\ Analysis(t).pc = "clearing"
           /\ Analysis(t).doc = t.doc
           /\ Analysis(t).left = {s \in Subprocessors : risks[s] # {}}
BY DEF Analysis, Local, Busy

LEMMA AnalysisTickStep ==
    ASSUME OnboardingInv, NEW p \in Tasks, AnalysisTick(p)
    PROVE  OnboardingInv'
<1> DEFINE local == Analysis(Idle)
<1>1. /\ StoreOK' /\ vendors' = vendors /\ extracted' = extracted /\ risks' = risks
      /\ requests' = requests /\ crashes' = crashes
  BY Mine DEF StoreOK, AnalysisTick, store
<1>2. Become(p, local) /\ LoopFree(p) /\ task[p].pc # "requesting"
  BY DEF AnalysisTick
<1>3. /\ local \in Local /\ local.pc = "clearing" /\ local.doc = None
      /\ local.left = {s \in Subprocessors : risks[s] # {}}
  BY IdleType, AnalysisType
<1> HIDE DEF local
<1>4. task'[p] = local
  BY <1>2, <1>3, Mine, BecomeType
<1>5. Steady(p)'
  BY <1>1, <1>3, <1>4 DEF Steady
<1> QED
  BY <1>1, <1>2, <1>3, <1>5, Quiet

LEMMA ExtractSubprocessorsStep ==
    ASSUME OnboardingInv, NEW p \in Tasks, NEW v \in VendorIds, NEW a \in Artifacts,
           NEW list \in Lists, ExtractSubprocessors(p, v, a, list)
    PROVE  OnboardingInv'
<1> DEFINE t == task[p]
           local == [t EXCEPT !.pc = "recording", !.vendor = v, !.argument = a,
                              !.list = list, !.place = 1]
<1>1. /\ StoreOK' /\ vendors' = vendors /\ extracted' = extracted
      /\ requests' = requests /\ crashes' = crashes
  BY Mine DEF StoreOK, ExtractSubprocessors, store
<1>2. Become(p, local) /\ LoopFree(p) /\ t.pc = "reviewing"
  BY DEF ExtractSubprocessors
<1>3. t \in Local /\ Scanned(t)
  BY <1>2, Mine DEF Steady
<1>4. /\ local \in Local /\ local.pc = "recording" /\ local.doc = t.doc
      /\ local.vendor = v /\ local.argument = a /\ local.place = 1
  BY <1>3 DEF Local, Busy
<1> HIDE DEF local, t
<1>5. task'[p] = local
  BY <1>2, <1>4, Mine, BecomeType
<1>6. Steady(p)'
  BY <1>3, <1>4, <1>5 DEF Steady, Scanned
<1> QED
  BY <1>1, <1>2, <1>4, <1>6, Quiet DEF t

LEMMA RecordSubprocessorStep ==
    ASSUME OnboardingInv, NEW p \in Tasks, RecordSubprocessor(p)
    PROVE  OnboardingInv'
<1> DEFINE t == task[p]
           local == [t EXCEPT !.place = t.place + 1]
           entry == [vendor |-> t.vendor, name |-> t.list[t.place]]
<1>1. /\ TypeOK /\ StoreOK /\ t \in Local /\ t.pc = "recording" /\ t.place <= Len(t.list)
      /\ Scanned(t) /\ t.argument \in Artifacts /\ t.vendor \in VendorIds /\ t.place >= 1
  BY Mine DEF RecordSubprocessor, Steady
<1>2. t.list \in Lists /\ t.place \in Nat
  BY <1>1 DEF Local
<1>3. t.list[t.place] \in Subprocessors /\ t.place \in 1 .. MaxListed
  BY <1>1, <1>2, ListType, OnboardingAssumption
<1>4. entry \in Subprocessor /\ <<t.argument, t.place>> \in Places
  BY <1>1, <1>3 DEF Subprocessor, Places
<1>5. subs' = [subs EXCEPT ![<<t.argument, t.place>>] = entry]
  BY DEF RecordSubprocessor
<1>6. subs' \in [Places -> Subprocessor \cup {None}]
  BY <1>1, <1>4, <1>5 DEF StoreOK
<1>7. /\ StoreOK' /\ vendors' = vendors /\ extracted' = extracted
      /\ requests' = requests /\ crashes' = crashes
  BY <1>1, <1>6 DEF StoreOK, RecordSubprocessor
<1>8. Become(p, local)
  BY DEF RecordSubprocessor
<1>9. /\ local \in Local /\ local.pc = "recording" /\ local.doc = t.doc
      /\ local.vendor = t.vendor /\ local.argument = t.argument /\ local.place = t.place + 1
  BY <1>1, <1>2 DEF Local
<1>10. t.pc \in Busy /\ t.pc # "requesting"
  BY <1>1 DEF Busy
<1> HIDE DEF local, t, entry
<1>11. task'[p] = local
  BY <1>1, <1>8, <1>9, BecomeType
<1>12. Steady(p)'
  BY <1>1, <1>2, <1>9, <1>11 DEF Steady, Scanned
<1> QED
  BY <1>7, <1>8, <1>9, <1>10, <1>12, Quiet DEF t

(* The first time for an artifact the analysis follows. *)
LEMMA RecordingEndsStep ==
    ASSUME OnboardingInv, NEW p \in Tasks, RecordingEnds(p)
    PROVE  OnboardingInv'
<1> DEFINE t == task[p]
<1>1. /\ TypeOK /\ StoreOK /\ t \in Local /\ t.pc = "recording"
      /\ Scanned(t) /\ t.argument \in Artifacts
  BY Mine DEF RecordingEnds, Steady
<1>2. /\ StoreOK' /\ vendors' = vendors /\ extracted' = extracted /\ risks' = risks
      /\ requests' = requests /\ crashes' = crashes
  BY <1>1 DEF StoreOK, RecordingEnds
<1>3. t.pc \in Busy /\ t.pc # "requesting"
  BY <1>1 DEF Busy
<1>4. ASSUME NEW local \in Local, Become(p, local), local.doc = t.doc,
             \/ local.pc = "reviewing"
             \/ local.pc = "clearing"
                /\ local.left = {s \in Subprocessors : risks[s] # {}}
      PROVE  OnboardingInv'
  <2> HIDE DEF t
  <2>1. task'[p] = local
    BY <1>1, <1>4, BecomeType
  <2>2. Scanned(local)
    BY <1>1, <1>4 DEF Scanned
  <2>3. Steady(p)'
    BY <1>2, <1>4, <2>1, <2>2 DEF Steady
  <2> QED
    BY <1>2, <1>3, <1>4, <2>3, Quiet DEF t
<1>5. Become(p, Reviewing(t)) \/ Become(p, Analysis(t))
  BY DEF RecordingEnds
<1> QED
  BY <1>1, <1>4, <1>5, ReviewingType, AnalysisType

LEMMA ClearRiskStep ==
    ASSUME OnboardingInv, NEW p \in Tasks, NEW s \in Subprocessors, ClearRisk(p, s)
    PROVE  OnboardingInv'
<1> DEFINE t == task[p]
           local == [t EXCEPT !.left = t.left \ {s}]
<1>1. /\ TypeOK /\ StoreOK /\ t \in Local /\ t.pc = "clearing"
      /\ t.doc # None => Scanned(t)
      /\ \A x \in Subprocessors : x \notin t.left => risks[x] = {}
  BY Mine DEF ClearRisk, Steady
<1>2. risks' = [risks EXCEPT ![s] = {}]
  BY DEF ClearRisk
<1>3. /\ risks' \in [Subprocessors -> SUBSET VendorIds] /\ risks'[s] = {}
      /\ \A x \in Subprocessors \ {s} : risks'[x] = risks[x]
  BY <1>1, <1>2 DEF StoreOK
<1>4. /\ StoreOK' /\ vendors' = vendors /\ extracted' = extracted
      /\ requests' = requests /\ crashes' = crashes
  BY <1>1, <1>3 DEF StoreOK, ClearRisk
<1>5. Become(p, local)
  BY DEF ClearRisk
<1>6. /\ local \in Local /\ local.pc = "clearing" /\ local.doc = t.doc
      /\ local.left = t.left \ {s}
  BY <1>1 DEF Local
<1>7. t.pc \in Busy /\ t.pc # "requesting"
  BY <1>1 DEF Busy
<1> HIDE DEF local, t
<1>8. task'[p] = local
  BY <1>1, <1>5, <1>6, BecomeType
<1>9. Steady(p)'
  BY <1>1, <1>3, <1>6, <1>8 DEF Steady, Scanned
<1> QED
  BY <1>4, <1>5, <1>6, <1>7, <1>9, Quiet DEF t

(* When every risk is cleared, the clusters that are found are all missing. *)
LEMMA FindClustersStep ==
    ASSUME OnboardingInv, NEW p \in Tasks, FindClusters(p)
    PROVE  OnboardingInv'
<1> DEFINE t == task[p]
           found == Clusters(subs)
           some == {s \in Subprocessors : found[s] # {}}
           local == [t EXCEPT !.pc = "writing", !.found = found, !.left = some]
<1>1. /\ TypeOK /\ StoreOK /\ t \in Local /\ t.pc = "clearing" /\ t.left = {}
      /\ t.doc # None => Scanned(t)
      /\ \A x \in Subprocessors : risks[x] = {}
  BY Mine DEF FindClusters, Steady
<1>2. found \in [Subprocessors -> SUBSET VendorIds]
  BY <1>1, ClustersType DEF StoreOK
<1>3. /\ StoreOK' /\ vendors' = vendors /\ extracted' = extracted
      /\ requests' = requests /\ crashes' = crashes /\ subs' = subs /\ risks' = risks
  BY <1>1 DEF StoreOK, FindClusters, store
<1>4. Become(p, local)
  BY DEF FindClusters
<1>5. /\ local \in Local /\ local.pc = "writing" /\ local.doc = t.doc
      /\ local.left = some /\ local.found = found
  <2> HIDE DEF found
  <2> QED
    BY <1>1, <1>2 DEF Local, Busy
<1>6. t.pc \in Busy /\ t.pc # "requesting"
  BY <1>1 DEF Busy
<1>7. found = Clusters(subs)' /\ \A s \in Subprocessors : s \in some <=> found[s] # {}
  BY <1>3 DEF Clusters
<1> HIDE DEF local, t, found, some
<1>8. task'[p] = local
  BY <1>1, <1>4, <1>5, BecomeType
<1>9. Steady(p)'
  BY <1>1, <1>3, <1>5, <1>7, <1>8 DEF Steady, Scanned
<1> QED
  BY <1>3, <1>4, <1>5, <1>6, <1>9, Quiet DEF t

LEMMA WriteRiskStep ==
    ASSUME OnboardingInv, NEW p \in Tasks, NEW s \in Subprocessors, WriteRisk(p, s)
    PROVE  OnboardingInv'
<1> DEFINE t == task[p]
           local == [t EXCEPT !.left = t.left \ {s}]
<1>1. /\ TypeOK /\ StoreOK /\ t \in Local /\ t.pc = "writing" /\ s \in t.left
      /\ t.doc # None => Scanned(t)
      /\ t.found = Clusters(subs)
      /\ \A x \in Subprocessors : risks[x] = IF x \in t.left THEN {} ELSE t.found[x]
  BY Mine DEF WriteRisk, Steady
<1>2. risks' = [risks EXCEPT ![s] = t.found[s]] /\ t.found[s] \in SUBSET VendorIds
  BY <1>1 DEF WriteRisk, Local
<1>3. /\ risks' \in [Subprocessors -> SUBSET VendorIds] /\ risks'[s] = t.found[s]
      /\ \A x \in Subprocessors \ {s} : risks'[x] = risks[x]
  BY <1>1, <1>2 DEF StoreOK
<1>4. /\ StoreOK' /\ vendors' = vendors /\ extracted' = extracted /\ subs' = subs
      /\ requests' = requests /\ crashes' = crashes
  BY <1>1, <1>3 DEF StoreOK, WriteRisk
<1>5. Become(p, local)
  BY DEF WriteRisk
<1>6. /\ local \in Local /\ local.pc = "writing" /\ local.doc = t.doc
      /\ local.left = t.left \ {s} /\ local.found = t.found
  BY <1>1 DEF Local
<1>7. t.pc \in Busy /\ t.pc # "requesting"
  BY <1>1 DEF Busy
<1>8. local.found = Clusters(subs)'
  BY <1>1, <1>4, <1>6 DEF Clusters
<1> HIDE DEF local, t
<1>9. task'[p] = local
  BY <1>1, <1>5, <1>6, BecomeType
<1>10. Steady(p)'
  BY <1>1, <1>3, <1>4, <1>6, <1>8, <1>9 DEF Steady, Scanned
<1> QED
  BY <1>4, <1>5, <1>6, <1>7, <1>10, Quiet DEF t

LEMMA AnalysisEndsStep ==
    ASSUME OnboardingInv, NEW p \in Tasks, AnalysisEnds(p)
    PROVE  OnboardingInv'
<1> DEFINE t == task[p]
<1>1. /\ TypeOK /\ StoreOK /\ t \in Local /\ t.pc = "writing"
      /\ t.doc # None => Scanned(t)
  BY Mine DEF AnalysisEnds, Steady
<1>2. /\ StoreOK' /\ vendors' = vendors /\ extracted' = extracted
      /\ requests' = requests /\ crashes' = crashes
  BY <1>1 DEF StoreOK, AnalysisEnds, store
<1>3. t.pc \in Busy /\ t.pc # "requesting"
  BY <1>1 DEF Busy
<1>4. CASE t.doc = None
  <2>1. Become(p, Idle)
    BY <1>4 DEF AnalysisEnds
  <2> QED
    BY <1>2, <1>3, <2>1, Rests
<1>5. CASE t.doc # None
  <2>1. Become(p, Reviewing(t))
    BY <1>5 DEF AnalysisEnds
  <2>2. Reviewing(t) \in Local /\ Reviewing(t).pc = "reviewing" /\ Reviewing(t).doc = t.doc
    BY <1>1, ReviewingType
  <2>3. task'[p] = Reviewing(t)
    BY <1>1, <2>1, <2>2, BecomeType
  <2> HIDE DEF t
  <2>4. Steady(p)'
    BY <1>1, <1>5, <2>2, <2>3 DEF Steady, Scanned
  <2> QED
    BY <1>2, <1>3, <2>1, <2>2, <2>4, Quiet DEF t
<1> QED
  BY <1>4, <1>5

(* The process is killed: every task is gone. *)
LEMMA CrashStep ==
    ASSUME OnboardingInv, NEW i \in Instances, Crash(i)
    PROVE  OnboardingInv'
<1>1. TypeOK /\ StoreOK /\ OneVendorPerName /\ OneAssessmentPerArtifact
  BY StoreType DEF OnboardingInv
<1>2. \A p \in Tasks : Home[p] = i
  BY OneInstance DEF Crash
<1>3. task' = [p \in Tasks |-> IF Home[p] = i THEN Idle ELSE task[p]]
      /\ crashes' = crashes + 1 /\ crashes < MaxCrashes
      /\ UNCHANGED <<store, handed, read, requests>>
  BY DEF Crash
<1>4. task' \in [Tasks -> Local] /\ \A p \in Tasks : task'[p].pc = "idle"
  BY <1>2, <1>3, IdleType
<1>5. crashes' \in 0 .. MaxCrashes /\ crashes' > 0
  BY <1>1, <1>3, OnboardingAssumption DEF StoreOK
<1>6. TypeOK' /\ OneVendorPerName'
  BY <1>1, <1>3, <1>4, <1>5 DEF TypeOK, StoreOK, store, OneVendorPerName
<1>7. OneAssessmentPerArtifact'
  BY <1>1, <1>3, <1>5 DEF OneAssessmentPerArtifact, store
<1>8. OneBusy' /\ \A p \in Tasks : Steady(p)'
  BY <1>4 DEF OneBusy, Steady, Busy
<1> QED
  BY <1>6, <1>7, <1>8 DEF OnboardingInv

LEMMA InvNext == OnboardingInv /\ [Next]_vars => OnboardingInv'
<1> SUFFICES ASSUME OnboardingInv, [Next]_vars PROVE OnboardingInv'
  OBVIOUS
<1>1. ASSUME NEW p \in Tasks, Start(p)  PROVE OnboardingInv'
  <2>1. Uploaded \in Artifacts /\ \A d \in Documents : Sha[d] \in Artifacts
    BY OnboardingAssumption
  <2> QED
    BY <1>1, <2>1, RegisterVendorStep, HandInStep, AnalysisTickStep
    DEF Start, SubmitArtifact, UploadArtifact
<1>2. ASSUME NEW p \in Tasks, NEW n \in Names, NEW a \in Artifacts, NEW list \in Lists,
             NEW i \in 1 .. vendors[n], ExtractSubprocessors(p, <<n, i>>, a, list)
      PROVE  OnboardingInv'
  <2>1. <<n, i>> \in VendorIds
    BY Mine DEF StoreOK, VendorIds
  <2> QED
    BY <1>2, <2>1, ExtractSubprocessorsStep
<1>3. ASSUME NEW p \in Tasks, Continue(p)  PROVE OnboardingInv'
  BY <1>2, <1>3, CreateVendorStep, WriteArtifactStep, ExtractionEndsStep,
     RequestAssessmentStep, RequestEndsStep, RecordSubprocessorStep, RecordingEndsStep,
     ClearRiskStep, WriteRiskStep, FindClustersStep, AnalysisEndsStep DEF Continue
<1>4. CASE UNCHANGED vars
  <2>1. UNCHANGED <<store, task, crashes, handed, read, requests>>
    BY <1>4 DEF vars
  <2>2. TypeOK' /\ OneBusy' /\ OneVendorPerName' /\ OneAssessmentPerArtifact'
    BY <2>1 DEF OnboardingInv, TypeOK, OneBusy, OneVendorPerName, OneAssessmentPerArtifact,
                store
  <2>3. Clusters(subs)' = Clusters(subs)
    BY <2>1 DEF Clusters, store
  <2>4. \A p \in Tasks : Steady(p)'
    BY <2>1, <2>3 DEF OnboardingInv, Steady, Scanned, store
  <2> QED
    BY <2>2, <2>4 DEF OnboardingInv
<1> QED
  BY <1>1, <1>3, <1>4, CrashStep DEF Next

-----------------------------------------------------------------------------
(* The invariant of onboarding: vendors, requests and clusters follow from *)
(* what every task between two awaits knows of the store.                  *)
THEOREM OnboardingInvariant == Spec => []OnboardingInv
BY InvInit, InvNext, PTL DEF Spec

(* What is recorded has its type (the tables and local variables of         *)
(* process_vendor_artifact and of the topics that it starts).               *)
THEOREM OnboardingTypeCorrect == Spec => []TypeOK
BY OnboardingInvariant, PTL DEF OnboardingInv

(* A name has one vendor, however many requests bring its first document *)
(* (VendorRepo.get_or_create).                                           *)
THEOREM OnboardingOneVendor == Spec => []OneVendorPerName
BY OnboardingInvariant, PTL DEF OnboardingInv

(* A document that matches an injection pattern reaches no model, whichever *)
(* artifact id it comes under (prescan_artifact).                           *)
THEOREM OnboardingQuarantine == Spec => []Quarantine
<1>1. OnboardingInv => Quarantine
  BY DEF OnboardingInv, Quarantine, Steady, Scanned
<1> QED
  BY <1>1, OnboardingInvariant, PTL

(* An artifact is assessed at most once and forgotten only in a crash *)
(* (_on_assertion_extracted).                                         *)
THEOREM OnboardingOneAssessment == Spec => []OneAssessmentPerArtifact
BY OnboardingInvariant, PTL DEF OnboardingInv

-----------------------------------------------------------------------------
(* Only the task that moves changes. *)
LEMMA OneMoves ==
    ASSUME TypeOK, NEW q \in Tasks, Start(q) \/ Continue(q), NEW p \in Tasks \ {q}
    PROVE  task'[p] = task[p]
<1>1. \E local : Become(q, local)
  BY DEF Start, Continue, RegisterVendor, SubmitArtifact, UploadArtifact, HandIn, LookUp,
         AnalysisTick, CreateVendor, WriteArtifact, ExtractionEnds, RequestAssessment,
         RequestEnds, ExtractSubprocessors, RecordSubprocessor, RecordingEnds, ClearRisk,
         WriteRisk, FindClusters, AnalysisEnds
<1> QED
  BY <1>1 DEF TypeOK, Become

(* An analysis under way writes until its clusters are on record. *)
LEMMA WritingGoesOn ==
    ASSUME TypeOK, NEW p \in Tasks, task[p].pc = "writing", Start(p) \/ Continue(p),
           task'[p].pc # "writing"
    PROVE  task[p].left = {} /\ UNCHANGED store
<1>1. ASSUME NEW s \in Subprocessors, WriteRisk(p, s)  PROVE FALSE
  <2>1. task'[p] = [task[p] EXCEPT !.left = task[p].left \ {s}]
    BY <1>1 DEF TypeOK, WriteRisk, Become
  <2>2. task[p] \in Local
    BY DEF TypeOK
  <2> QED
    BY <2>1, <2>2 DEF Local
<1>2. AnalysisEnds(p)
  BY <1>1 DEF Start, Continue, RegisterVendor, SubmitArtifact, UploadArtifact, HandIn,
         AnalysisTick, CreateVendor, WriteArtifact, ExtractionEnds, RequestAssessment,
         RequestEnds, ExtractSubprocessors, RecordSubprocessor, RecordingEnds, ClearRisk,
         FindClusters
<1> QED
  BY <1>2 DEF AnalysisEnds

(* An analysis ends with the clusters of the portfolio as it is then,        *)
(* whatever earlier ones or a crash left on record                           *)
(* (analyze_concentration_risk).                                             *)
THEOREM OnboardingAnalysisExact == Spec => AnalysisExact
<1>1. ASSUME OnboardingInv, Next, NEW p \in Tasks, task[p].pc = "writing",
             task'[p].pc # "writing", crashes' = crashes
      PROVE  risks' = Clusters(subs')
  <2>1. TypeOK /\ StoreOK /\ Steady(p)
    BY <1>1, Mine
  <2>2. PICK q \in Tasks : Start(q) \/ Continue(q)
    <3>1. ASSUME NEW i \in Instances, Crash(i)  PROVE FALSE
      BY <1>1, <2>1, <3>1 DEF Crash, StoreOK
    <3> QED
      BY <1>1, <3>1 DEF Next
  <2>3. q = p
    BY <1>1, <2>1, <2>2, OneMoves
  <2>4. task[p].left = {} /\ UNCHANGED store
    BY <1>1, <2>1, <2>2, <2>3, WritingGoesOn
  <2>5. \A s \in Subprocessors : risks[s] = Clusters(subs)[s]
    BY <1>1, <2>1, <2>4 DEF Steady
  <2>6. risks = Clusters(subs)
    <3>1. risks \in [Subprocessors -> SUBSET VendorIds]
          /\ Clusters(subs) \in [Subprocessors -> SUBSET VendorIds]
      BY <2>1, ClustersType DEF StoreOK
    <3> QED
      BY <2>5, <3>1
  <2> QED
    BY <2>4, <2>6 DEF store
<1>2. OnboardingInv /\ [Next]_vars =>
          [\A p \in Tasks :
              task[p].pc = "writing" /\ task'[p].pc # "writing" /\ crashes' = crashes
                  => risks' = Clusters(subs')]_vars
  BY <1>1
<1> QED
  BY <1>2, OnboardingInvariant, PTL DEF Spec, AnalysisExact
=============================================================================
