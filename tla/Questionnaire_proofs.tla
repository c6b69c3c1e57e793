------------------------ MODULE Questionnaire_proofs -------------------------
(***************************************************************************)
(* What holds of a questionnaire in one process, for every number of       *)
(* questions, requests, drafts, edits, exports and crashes.                *)
(***************************************************************************)
EXTENDS QuestionnaireSingle, FiniteSetTheorems, TLAPS

(* The code between two awaits is entered by one task at a time. *)
OneBusy == \A p, q \in Tasks : task[p].pc \in Busy /\ task[q].pc \in Busy => p = q

(* An answer that may leave, or has left, was let through by both gates. *)
Passed(a) == a.status \in {"auto", "approved"} => a.quality = "sound"

(* The questions that a PATCH has added so far, and those it has yet to add. *)
Added(t) == {t.edit[i] : i \in 1 .. t.place - 1} \ QuestionsOf(t.found)
ToAdd(t) == {i \in t.place .. Len(t.edit) : t.edit[i] \notin QuestionsOf(t.found)}

(* How far a PATCH has come: of the answers it found, it keeps those to the *)
(* questions of the payload, has deleted the others but for those left, and *)
(* has added answers to questions that had none.                            *)
Edited(t) ==
    /\ t.edit \in Edits /\ t.place \in 1 .. Len(t.edit) + 1
    /\ used.manual + Cardinality(ToAdd(t)) <= MaxManual
    /\ \A id \in Ids :
           /\ t.found[id] # None /\ t.found[id].question \in Asked(t.edit) =>
                  id \notin t.left /\ answers[id] = t.found[id]
           /\ t.found[id] # None /\ t.found[id].question \notin Asked(t.edit) =>
                  answers[id] = IF id \in t.left THEN t.found[id] ELSE None
           /\ t.found[id] = None =>
                  /\ id \notin t.left
                  /\ answers[id] = None \/ answers[id].question \in Added(t)
    /\ \A q \in Added(t) : \E id \in Ids : answers[id] # None /\ answers[id].question = q
    /\ \A n \in 0 .. MaxDrafts + MaxManual : used.manual <= n => t.found[Manual(n)] = None

(* What a task knows of the answers while it is between two awaits. *)
Steady(p) ==
    LET t == task[p] IN
    /\ t.pc # "idle" => counts # None
    /\ t.pc \in {"creating", "listing"} => ~t.patch
    /\ t.pc = "creating" =>
           /\ t.id = NextDrafted /\ t.id \in Ids
           /\ t.draft \in Answer /\ Passed(t.draft)
    /\ t.pc = "updating" => t.found = answers
    /\ t.pc = "editing" => Edited(t)
    /\ t.pc = "stamping" =>
           \A id \in t.left :
               /\ answers[id] # None /\ answers[id].status = "auto"
               /\ t.found[id] = answers[id]

(* What is on record: nothing before the POST, nothing that got past the    *)
(* gates, and ids that are free for what is drafted and added next.         *)
OnRecord ==
    /\ counts = None => Listed = {}
    /\ \A id \in Listed : Passed(answers[id])
    /\ Cardinality(Listed) <= used.drafted + used.manual
    /\ (\E p \in Tasks : task[p].pc = "creating") =>
           Cardinality(Listed) < used.drafted + used.manual
    /\ \A n \in 0 .. MaxDrafts + MaxManual : used.manual <= n => Manual(n) \notin Listed
    /\ ~removed => \A n \in 0 .. MaxDrafts + MaxManual :
                     Drafted(n) \in Listed => n < Cardinality(Listed)

(* What the counter of abstained answers counts. *)
Abstained == Having(answers, {"needs_human"} \cup (IF tally.edited THEN {} ELSE {"blocked_dlp"}))

(* The counters are those of the answers, unless a task is about to count. *)
Counted ==
    \/ crashes > 0
    \/ counts = None
    \/ \E p \in Tasks : task[p].pc \in {"listing", "updating", "editing"}
    \/ Agree

QuestionnaireInv ==
    /\ TypeOK
    /\ OneBusy
    /\ \A p \in Tasks : Steady(p)
    /\ OnRecord
    /\ Counted

-----------------------------------------------------------------------------
LEMMA AgreeIs ==
    Agree <=> /\ counts.total = Cardinality(Listed)
              /\ counts.auto = Cardinality(Exportable) + tally.stamped
              /\ counts.abstained = Cardinality(Abstained)
BY DEF Agree, Abstained

(* The ids are finitely many. *)
LEMMA IdsFinite == IsFiniteSet(Ids)
<1>1. IsFiniteSet({"drafted", "manual"})
  <2>1. {"drafted", "manual"} = {"drafted"} \cup {"manual"}
    OBVIOUS
  <2>2. IsFiniteSet({"drafted"}) /\ IsFiniteSet({"manual"})
    BY FS_Singleton
  <2> QED
    BY <2>1, <2>2, FS_Union
<1>2. IsFiniteSet(0 .. MaxDrafts + MaxManual)
  BY QuestionnaireAssumption, FS_Interval
<1> QED
  BY <1>1, <1>2, FS_Product DEF Ids

(* So the answers with a status can be counted. *)
LEMMA HavingFinite ==
    ASSUME NEW found, NEW statuses
    PROVE  /\ Having(found, statuses) \subseteq Ids
           /\ IsFiniteSet(Having(found, statuses))
           /\ Cardinality(Having(found, statuses)) \in Nat
<1>1. Having(found, statuses) \subseteq Ids
  BY DEF Having
<1>2. IsFiniteSet(Having(found, statuses))
  BY <1>1, IdsFinite, FS_Subset
<1> QED
  BY <1>1, <1>2, FS_CardinalityType

(* list_for_questionnaire lists the answers there are. *)
LEMMA HavingAll ==
    ASSUME NEW found \in [Ids -> Answer \cup {None}]
    PROVE  Having(found, Status) = {id \in Ids : found[id] # None}
BY DEF Having, Answer

LEMMA ListedAll ==
    ASSUME TypeOK
    PROVE  /\ Listed = {id \in Ids : answers[id] # None}
           /\ IsFiniteSet(Listed) /\ Cardinality(Listed) \in Nat
BY HavingAll, HavingFinite DEF Listed, TypeOK

(* An answer that is written is listed. *)
LEMMA ListedMore ==
    ASSUME TypeOK, TypeOK', NEW id \in Ids, NEW a \in Answer,
           answers' = [answers EXCEPT ![id] = a]
    PROVE  /\ Listed' = Listed \cup {id}
           /\ Cardinality(Listed)' = IF id \in Listed THEN Cardinality(Listed)
                                     ELSE Cardinality(Listed) + 1
<1>1. Listed' = {i \in Ids : answers'[i] # None}
  <2>1. answers' \in [Ids -> Answer \cup {None}]
    BY DEF TypeOK
  <2> QED
    BY <2>1, HavingAll DEF Listed, Having
<1>2. Listed' = Listed \cup {id}
  BY <1>1, ListedAll, NoDocument DEF TypeOK
<1> QED
  <2>1. Cardinality(Listed \cup {id}) = IF id \in Listed THEN Cardinality(Listed)
                                         ELSE Cardinality(Listed) + 1
    BY ListedAll, FS_AddElement
  <2> QED
    BY <1>2, <2>1

(* A drafted id is none of an answer added by hand, and numbers tell ids apart. *)
LEMMA IdsDiffer ==
    /\ \A m, n \in Nat : Drafted(m) # Manual(n)
    /\ \A m, n \in Nat : Manual(m) = Manual(n) => m = n
    /\ \A m, n \in Nat : Drafted(m) = Drafted(n) => m = n
    /\ \A n \in 0 .. MaxDrafts + MaxManual : Drafted(n) \in Ids /\ Manual(n) \in Ids
BY DEF Drafted, Manual, Ids

(* A payload is a sequence of questions. *)
LEMMA EditType ==
    ASSUME NEW edit \in Edits
    PROVE  /\ edit \in Seq(Questions) /\ Len(edit) \in Nat /\ Len(edit) >= 1
           /\ DOMAIN edit = 1 .. Len(edit)
           /\ Asked(edit) = {edit[i] : i \in 1 .. Len(edit)}
<1>1. PICK n \in 1 .. MaxListed : edit \in [1 .. n -> Questions]
  BY DEF Edits
<1>2. n \in Nat /\ n >= 1
  BY <1>1, QuestionnaireAssumption
<1>3. edit \in Seq(Questions) /\ Len(edit) = n
  BY <1>1, <1>2
<1> QED
  BY <1>1, <1>2, <1>3 DEF Asked

(* A task without work is a local state. *)
LEMMA IdleType == Idle \in Local /\ Idle.pc = "idle" /\ ~Idle.patch
BY DEF Idle, Local, Busy, Nothing

(* The step of a task is about that task only. *)
LEMMA BecomeType ==
    ASSUME TypeOK, NEW p \in Tasks, NEW local \in Local, Become(p, local)
    PROVE  /\ task' \in [Tasks -> Local]
           /\ task'[p] = local
           /\ \A q \in Tasks \ {p} : task'[q] = task[q]
BY DEF TypeOK, Become

(* In one process a task moves only when no other is between two awaits. *)
LEMMA Alone ==
    ASSUME OneBusy, NEW p \in Tasks, task[p].pc \in Busy \/ LoopFree(p)
    PROVE  \A q \in Tasks \ {p} : task[q].pc \notin Busy
BY OneInstance DEF OneBusy, LoopFree

(* The other tasks of the process wait, and know nothing of the answers. *)
LEMMA OthersWait ==
    ASSUME QuestionnaireInv, NEW p \in Tasks, NEW local \in Local, Become(p, local),
           task[p].pc \in Busy \/ LoopFree(p), counts # None => counts' # None
    PROVE  /\ task' \in [Tasks -> Local] /\ task'[p] = local
           /\ OneBusy'
           /\ \A q \in Tasks \ {p} :
                  task'[q] = task[q] /\ task[q].pc \notin Busy /\ Steady(q)'
<1>1. TypeOK /\ OneBusy /\ \A q \in Tasks : Steady(q)
  BY DEF QuestionnaireInv
<1>2. \A q \in Tasks \ {p} : task[q].pc \notin Busy
  BY <1>1, Alone
<1>3. task' \in [Tasks -> Local] /\ task'[p] = local
      /\ \A q \in Tasks \ {p} : task'[q] = task[q]
  BY <1>1, BecomeType
<1>4. OneBusy'
  BY <1>2, <1>3 DEF OneBusy
<1>5. ASSUME NEW q \in Tasks \ {p}  PROVE Steady(q)'
  <2>1. task'[q].pc \notin Busy /\ (task'[q].pc # "idle" => counts' # None)
    BY <1>1, <1>2, <1>3, <1>5 DEF Steady
  <2> QED
    BY <2>1 DEF Steady, Busy
<1> QED
  BY <1>2, <1>3, <1>4, <1>5

(* A step that leaves the answers and the counters alone. *)
LEMMA Quiet ==
    ASSUME QuestionnaireInv, NEW p \in Tasks, NEW local \in Local, Become(p, local),
           task[p].pc \in Busy \/ LoopFree(p),
           UNCHANGED <<store, crashes, removed, tally>>,
           used' \in [drafted : 0 .. MaxDrafts, manual : 0 .. MaxManual,
                      exports : 0 .. MaxExports],
           used'.drafted = used.drafted, used'.manual = used.manual,
           local.pc # "creating",
           task[p].pc \in {"listing", "updating", "editing"} =>
               local.pc \in {"listing", "updating", "editing"},
           Steady(p)'
    PROVE  QuestionnaireInv'
<1>0. answers' = answers /\ counts' = counts
      /\ crashes' = crashes /\ removed' = removed /\ tally' = tally
  BY DEF store
<1>1. TypeOK /\ OnRecord /\ Counted
  BY DEF QuestionnaireInv
<1>2. /\ task' \in [Tasks -> Local] /\ task'[p] = local
      /\ OneBusy'
      /\ \A q \in Tasks \ {p} : task'[q] = task[q] /\ task[q].pc \notin Busy /\ Steady(q)'
  BY <1>0, OthersWait
<1>3. TypeOK'
  BY <1>0, <1>1, <1>2 DEF TypeOK
<1>4. Listed' = Listed /\ Agree' = Agree
  BY <1>0 DEF Listed, Exportable, Having, Agree
<1>5. \A q \in Tasks : task'[q].pc # "creating"
  BY <1>2 DEF Busy
<1>6. OnRecord'
  BY <1>0, <1>1, <1>4, <1>5 DEF OnRecord
<1>7. Counted'
  <2>1. CASE \E q \in Tasks : task[q].pc \in {"listing", "updating", "editing"}
    <3>1. task'[p].pc \in {"listing", "updating", "editing"}
      BY <1>2, <2>1 DEF Busy
    <3> QED
      BY <3>1 DEF Counted
  <2>2. CASE ~ \E q \in Tasks : task[q].pc \in {"listing", "updating", "editing"}
    BY <1>0, <1>1, <1>4, <2>2 DEF Counted
  <2> QED
    BY <2>1, <2>2
<1> QED
  BY <1>2, <1>3, <1>6, <1>7 DEF QuestionnaireInv

(* Who is on the way with answers that are not counted yet. *)
LEMMA NobodyCounts ==
    ASSUME QuestionnaireInv, NEW p \in Tasks, task[p].pc \in Busy \/ LoopFree(p),
           task[p].pc \notin {"listing", "updating", "editing"}
    PROVE  \/ crashes > 0
           \/ counts = None
           \/ Agree
<1>1. \A q \in Tasks : task[q].pc \notin {"listing", "updating", "editing"}
  BY Alone DEF QuestionnaireInv, Busy
<1> QED
  BY <1>1 DEF QuestionnaireInv, Counted

-----------------------------------------------------------------------------
LEMMA InvInit == Init => QuestionnaireInv
<1> SUFFICES ASSUME Init PROVE QuestionnaireInv
  OBVIOUS
<1>1. answers = Nothing /\ counts = None /\ crashes = 0 /\ removed = FALSE
      /\ tally = [edited |-> FALSE, stamped |-> 0]
      /\ used = [drafted |-> 0, manual |-> 0, exports |-> 0]
      /\ task = [p \in Tasks |-> Idle]
  BY DEF Init
<1>2. TypeOK
  <2>1. answers \in [Ids -> Answer \cup {None}]
    BY <1>1 DEF Nothing
  <2>2. used \in [drafted : 0 .. MaxDrafts, manual : 0 .. MaxManual, exports : 0 .. MaxExports]
    BY <1>1, QuestionnaireAssumption
  <2>3. task \in [Tasks -> Local]
    BY <1>1, IdleType
  <2>4. crashes \in 0 .. MaxCrashes
    BY <1>1, QuestionnaireAssumption
  <2>5. counts \in Counters \cup {None} /\ removed \in BOOLEAN
    BY <1>1
  <2>6. tally \in [edited : BOOLEAN, stamped : Nat]
    BY <1>1
  <2> QED
    BY <2>1, <2>2, <2>3, <2>4, <2>5, <2>6 DEF TypeOK
<1>3. \A p \in Tasks : task[p].pc = "idle"
  BY <1>1, IdleType
<1>4. Listed = {}
  BY <1>1, <1>2, ListedAll DEF Nothing
<1>5. OnRecord
  BY <1>1, <1>3, <1>4, FS_EmptySet DEF OnRecord
<1> QED
  BY <1>1, <1>2, <1>3, <1>5 DEF QuestionnaireInv, OneBusy, Steady, Counted, Busy

LEMMA SubmitStep ==
    ASSUME QuestionnaireInv, NEW p \in Tasks, Submit(p)
    PROVE  QuestionnaireInv'
<1>1. TypeOK /\ OnRecord
  BY DEF QuestionnaireInv
<1>2. task[p].pc = "idle" /\ LoopFree(p) /\ counts = None
      /\ counts' = [total |-> 0, auto |-> 0, abstained |-> 0, status |-> "processing"]
      /\ tally' = [edited |-> FALSE, stamped |-> 0]
      /\ answers' = answers /\ used' = used /\ crashes' = crashes /\ removed' = removed
  BY DEF Submit
<1> DEFINE local == [Idle EXCEPT !.pc = "drafting"]
<1>3. local \in Local /\ local.pc = "drafting"
  BY DEF Idle, Local, Busy, Nothing
<1>4. Become(p, local)
  BY DEF Submit
<1> HIDE DEF local
<1>5. /\ task' \in [Tasks -> Local] /\ task'[p] = local
      /\ OneBusy'
      /\ \A q \in Tasks \ {p} : task'[q] = task[q] /\ task[q].pc \notin Busy /\ Steady(q)'
  BY <1>2, <1>3, <1>4, OthersWait
<1>6. counts' \in Counters /\ counts' # None
  BY <1>2, NoDocument DEF Counters
<1>7. TypeOK'
  BY <1>1, <1>2, <1>5, <1>6 DEF TypeOK
<1>8. Steady(p)'
  BY <1>3, <1>5, <1>6 DEF Steady
<1>9. Listed' = {} /\ Listed = {} /\ Exportable' = {} /\ Abstained' = {}
  BY <1>1, <1>2 DEF OnRecord, Listed, Exportable, Abstained, Having, Status
<1>10. OnRecord'
  BY <1>1, <1>2, <1>3, <1>5, <1>6, <1>9 DEF OnRecord, Busy
<1>11. Counted'
  <2>1. Cardinality({}) = 0
    BY FS_EmptySet
  <2>2. Agree'
    BY <1>2, <1>9, <2>1 DEF Agree, Abstained
  <2> QED
    BY <2>2 DEF Counted
<1> QED
  BY <1>5, <1>7, <1>8, <1>10, <1>11 DEF QuestionnaireInv

(* The gates let through what is confident, cited and clean. *)
LEMMA Gates ==
    ASSUME NEW q \in Questions, NEW quality \in Quality
    PROVE  LET a == [question |-> q, quality |-> quality, status |-> StatusOf(quality)]
           IN a \in Answer /\ Passed(a)
BY DEF Quality, StatusOf, Answer, Status, Passed

LEMMA StartDraftStep ==
    ASSUME QuestionnaireInv, NEW p \in Tasks, NEW q \in Questions, NEW quality \in Quality,
           StartDraft(p, q, quality)
    PROVE  QuestionnaireInv'
<1>1. TypeOK /\ OnRecord /\ Steady(p)
  BY DEF QuestionnaireInv
<1> DEFINE draft == [question |-> q, quality |-> quality, status |-> StatusOf(quality)]
<1> DEFINE local == [Idle EXCEPT !.pc = "creating", !.id = NextDrafted, !.draft = draft]
<1>2. task[p].pc = "drafting" /\ LoopFree(p)
      /\ used.drafted < MaxDrafts /\ used' = [used EXCEPT !.drafted = @ + 1]
      /\ Become(p, local)
      /\ answers' = answers /\ counts' = counts
      /\ crashes' = crashes /\ removed' = removed /\ tally' = tally
  BY DEF StartDraft, store
<1>3. draft \in Answer /\ Passed(draft)
  BY Gates
<1> HIDE DEF draft
<1>4. used.drafted \in 0 .. MaxDrafts /\ used.manual \in 0 .. MaxManual
      /\ MaxDrafts \in Nat /\ MaxManual \in Nat
  BY <1>1, QuestionnaireAssumption DEF TypeOK
<1>5. /\ used' \in [drafted : 0 .. MaxDrafts, manual : 0 .. MaxManual, exports : 0 .. MaxExports]
      /\ used'.drafted = used.drafted + 1 /\ used'.manual = used.manual
  BY <1>1, <1>2, <1>4 DEF TypeOK
<1>6. Cardinality(Listed) \in Nat /\ Cardinality(Listed) <= used.drafted + used.manual
  BY <1>1, ListedAll DEF OnRecord
<1>7. NextDrafted \in Ids
  <2>1. Cardinality(Listed) \in 0 .. MaxDrafts + MaxManual
    BY <1>2, <1>4, <1>6
  <2> QED
    BY <2>1, IdsDiffer DEF NextDrafted
<1>8. /\ local \in Local /\ local.pc = "creating" /\ local.id = NextDrafted
      /\ local.draft = draft /\ ~local.patch
  BY <1>3, <1>7 DEF Idle, Local, Busy, Nothing
<1> HIDE DEF local
<1>9. /\ task' \in [Tasks -> Local] /\ task'[p] = local
      /\ OneBusy'
      /\ \A r \in Tasks \ {p} : task'[r] = task[r] /\ task[r].pc \notin Busy /\ Steady(r)'
  BY <1>2, <1>8, OthersWait
<1>10. Listed' = Listed /\ Agree' = Agree /\ NextDrafted' = NextDrafted
  BY <1>2 DEF Listed, Exportable, Having, NextDrafted, Agree
<1>11. TypeOK'
  BY <1>1, <1>2, <1>5, <1>9 DEF TypeOK
<1>12. Steady(p)'
  <2>1. counts # None
    BY <1>1, <1>2 DEF Steady
  <2> QED
    BY <1>2, <1>3, <1>7, <1>8, <1>9, <1>10, <2>1 DEF Steady
<1>13. OnRecord'
  BY <1>1, <1>2, <1>4, <1>5, <1>6, <1>10 DEF OnRecord
<1>14. Counted'
  BY <1>2, <1>10, NobodyCounts DEF Counted
<1> QED
  BY <1>9, <1>11, <1>12, <1>13, <1>14 DEF QuestionnaireInv

LEMMA CreateAnswerStep ==
    ASSUME QuestionnaireInv, NEW p \in Tasks, CreateAnswer(p)
    PROVE  QuestionnaireInv' /\ (~removed => task[p].id \notin Listed)
<1>1. TypeOK /\ OnRecord /\ Steady(p) /\ task[p] \in Local
  BY DEF QuestionnaireInv, TypeOK
<1> DEFINE local == [task[p] EXCEPT !.pc = "listing"]
<1> DEFINE id == task[p].id
<1> DEFINE draft == task[p].draft
<1>2. task[p].pc = "creating"
      /\ answers' = [answers EXCEPT ![id] = draft]
      /\ Become(p, local)
      /\ counts' = counts /\ used' = used
      /\ crashes' = crashes /\ removed' = removed /\ tally' = tally
  BY DEF CreateAnswer
<1>3. /\ id = NextDrafted /\ id \in Ids /\ draft \in Answer /\ Passed(draft)
      /\ counts # None /\ ~task[p].patch
  BY <1>1, <1>2 DEF Steady
<1>4. local \in Local /\ local.pc = "listing" /\ ~local.patch
  BY <1>1, <1>3 DEF Local, Busy
<1> HIDE DEF local, id, draft
<1>5. /\ task' \in [Tasks -> Local] /\ task'[p] = local
      /\ OneBusy'
      /\ \A r \in Tasks \ {p} : task'[r] = task[r] /\ task[r].pc \notin Busy /\ Steady(r)'
  BY <1>2, <1>3, <1>4, OthersWait DEF Busy
<1>6. TypeOK'
  BY <1>1, <1>2, <1>3, <1>5 DEF TypeOK
<1>7. /\ Listed' = Listed \cup {id}
      /\ Cardinality(Listed)' = IF id \in Listed THEN Cardinality(Listed)
                                ELSE Cardinality(Listed) + 1
  BY <1>1, <1>2, <1>3, <1>6, ListedMore
<1>8. Cardinality(Listed) \in Nat /\ Cardinality(Listed) < used.drafted + used.manual
  BY <1>1, <1>2, ListedAll DEF OnRecord
<1>9. /\ used.drafted \in 0 .. MaxDrafts /\ used.manual \in 0 .. MaxManual
      /\ MaxDrafts \in Nat /\ MaxManual \in Nat
  BY <1>1, QuestionnaireAssumption DEF TypeOK
<1>10. ~removed => id \notin Listed
  <2>1. Cardinality(Listed) \in 0 .. MaxDrafts + MaxManual
    BY <1>8, <1>9
  <2> QED
    BY <1>1, <1>3, <1>8, <2>1 DEF OnRecord, NextDrafted
<1>11. Steady(p)'
  BY <1>2, <1>3, <1>4, <1>5 DEF Steady
<1>12. OnRecord'
  <2>1. \A i \in Listed' : Passed(answers'[i])
    BY <1>1, <1>2, <1>3, <1>7, ListedAll DEF OnRecord, TypeOK
  <2>2. Cardinality(Listed)' <= used'.drafted + used'.manual
    BY <1>2, <1>7, <1>8, <1>9
  <2>3. \A r \in Tasks : task'[r].pc # "creating"
    BY <1>4, <1>5 DEF Busy
  <2>4. \A n \in 0 .. MaxDrafts + MaxManual : used'.manual <= n => Manual(n) \notin Listed'
    BY <1>1, <1>2, <1>3, <1>7, <1>8, <1>9, IdsDiffer DEF OnRecord, NextDrafted
  <2>5. ~removed' => \A n \in 0 .. MaxDrafts + MaxManual :
                         Drafted(n) \in Listed' => n < Cardinality(Listed)'
    <3> SUFFICES ASSUME ~removed, NEW n \in 0 .. MaxDrafts + MaxManual, Drafted(n) \in Listed'
                 PROVE  n < Cardinality(Listed)'
      BY <1>2
    <3>1. Cardinality(Listed)' = Cardinality(Listed) + 1
      BY <1>7, <1>10
    <3>2. CASE Drafted(n) \in Listed
      BY <1>1, <1>8, <3>1, <3>2 DEF OnRecord
    <3>3. CASE Drafted(n) = id
      BY <1>3, <1>8, <1>9, <3>1, <3>3, IdsDiffer DEF NextDrafted
    <3> QED
      BY <1>7, <3>2, <3>3
  <2> QED
    BY <1>2, <1>3, <2>1, <2>2, <2>3, <2>4, <2>5 DEF OnRecord
<1>13. Counted'
  BY <1>4, <1>5 DEF Counted
<1> QED
  BY <1>5, <1>6, <1>10, <1>11, <1>12, <1>13 DEF QuestionnaireInv, id

(* When a PATCH is through, the questions answered are those of its payload, *)
(* and the answers that it kept are as it found them.                        *)
LEMMA EditDone ==
    ASSUME TypeOK, NEW p \in Tasks, Edited(task[p]), task[p].left = {},
           task[p].place > Len(task[p].edit)
    PROVE  LET before == task[p].found
               Kept(id, found) == found[id] # None /\ found[id].question \in
                                      Asked(task[p].edit) \cap QuestionsOf(before)
           IN /\ QuestionsOf(answers) = Asked(task[p].edit)
              /\ \A id \in Ids : Kept(id, before) \/ Kept(id, answers) =>
                     answers[id] = before[id]
<1> DEFINE t == task[p]
<1> DEFINE asked == Asked(t.edit)
<1> DEFINE before == t.found
<1>1. before \in [Ids -> Answer \cup {None}] /\ answers \in [Ids -> Answer \cup {None}]
  BY DEF TypeOK, Local
<1>2. t.edit \in Edits /\ t.place = Len(t.edit) + 1 /\ Len(t.edit) \in Nat
      /\ asked = {t.edit[i] : i \in 1 .. Len(t.edit)}
  BY EditType DEF Edited
<1>3. /\ QuestionsOf(before) = {before[id].question : id \in {i \in Ids : before[i] # None}}
      /\ QuestionsOf(answers) = {answers[id].question : id \in {i \in Ids : answers[i] # None}}
  BY <1>1, HavingAll DEF QuestionsOf
<1>4. Added(t) = asked \ QuestionsOf(before)
  BY <1>2 DEF Added
<1>5. \A id \in Ids :
          /\ before[id] # None /\ before[id].question \in asked => answers[id] = before[id]
          /\ before[id] # None /\ before[id].question \notin asked => answers[id] = None
          /\ before[id] = None =>
                 answers[id] = None \/ answers[id].question \in asked \ QuestionsOf(before)
  BY <1>4 DEF Edited
<1>6. \A q \in asked \ QuestionsOf(before) :
          \E id \in Ids : answers[id] # None /\ answers[id].question = q
  BY <1>4 DEF Edited
<1> HIDE DEF asked, before
<1>7. QuestionsOf(answers) \subseteq asked
  BY <1>3, <1>5
<1>8. asked \subseteq QuestionsOf(answers)
  <2> SUFFICES ASSUME NEW q \in asked PROVE q \in QuestionsOf(answers)
    OBVIOUS
  <2>1. CASE q \in QuestionsOf(before)
    <3>1. PICK id \in Ids : before[id] # None /\ before[id].question = q
      BY <1>3, <2>1
    <3> QED
      BY <1>3, <1>5, <3>1
  <2>2. CASE q \notin QuestionsOf(before)
    BY <1>3, <1>6, <2>2
  <2> QED
    BY <2>1, <2>2
<1>9. ASSUME NEW id \in Ids,
             \/ before[id] # None /\ before[id].question \in asked \cap QuestionsOf(before)
             \/ answers[id] # None /\ answers[id].question \in asked \cap QuestionsOf(before)
      PROVE  answers[id] = before[id]
  BY <1>5, <1>9
<1> QED
  BY <1>7, <1>8, <1>9 DEF asked, before

LEMMA ListAnswersStep ==
    ASSUME QuestionnaireInv, NEW p \in Tasks, ListAnswers(p)
    PROVE  QuestionnaireInv'
<1>1. TypeOK /\ Steady(p) /\ task[p] \in Local
  BY DEF QuestionnaireInv, TypeOK
<1> DEFINE local == [task[p] EXCEPT !.pc = "updating", !.found = answers]
<1>2. task[p].pc \in {"listing", "editing"} /\ Become(p, local)
      /\ UNCHANGED <<store, used, crashes, removed, tally>>
  BY DEF ListAnswers
<1>3. local \in Local /\ local.pc = "updating" /\ local.found = answers
  BY <1>1 DEF TypeOK, Local, Busy
<1> HIDE DEF local
<1>4. task'[p] = local
  BY <1>1, <1>2, <1>3, BecomeType
<1>5. Steady(p)'
  <2>1. counts' # None /\ answers' = answers
    BY <1>1, <1>2 DEF Steady, store
  <2> QED
    BY <1>3, <1>4, <2>1 DEF Steady
<1>6. used' = used /\ UNCHANGED <<store, crashes, removed, tally>>
  BY <1>2
<1> QED
  BY <1>1, <1>2, <1>3, <1>5, <1>6, Quiet DEF Busy, TypeOK

LEMMA RunEndsStep ==
    ASSUME QuestionnaireInv, NEW p \in Tasks, RunEnds(p)
    PROVE  QuestionnaireInv'
<1>1. TypeOK /\ task[p].pc = "drafting" /\ LoopFree(p) /\ Become(p, Idle)
      /\ used' = used /\ UNCHANGED <<store, crashes, removed, tally>>
  BY DEF QuestionnaireInv, RunEnds
<1>2. task'[p] = Idle
  BY <1>1, IdleType, BecomeType
<1>3. Steady(p)'
  BY <1>2, IdleType DEF Steady
<1> QED
  BY <1>1, <1>3, IdleType, Quiet DEF TypeOK

LEMMA ExportEndsStep ==
    ASSUME QuestionnaireInv, NEW p \in Tasks, ExportEnds(p)
    PROVE  QuestionnaireInv'
<1>1. TypeOK /\ task[p].pc = "stamping" /\ Become(p, Idle)
      /\ used' = used /\ UNCHANGED <<store, crashes, removed, tally>>
  BY DEF QuestionnaireInv, ExportEnds
<1>2. task'[p] = Idle
  BY <1>1, IdleType, BecomeType
<1>3. Steady(p)'
  BY <1>2, IdleType DEF Steady
<1> QED
  BY <1>1, <1>3, IdleType, Quiet DEF TypeOK, Busy

LEMMA StartExportStep ==
    ASSUME QuestionnaireInv, NEW p \in Tasks, StartExport(p)
    PROVE  QuestionnaireInv'
<1>1. TypeOK
  BY DEF QuestionnaireInv
<1> DEFINE local == [Idle EXCEPT !.pc = "stamping", !.left = Exportable, !.found = answers]
<1>2. task[p].pc = "idle" /\ LoopFree(p) /\ counts # None
      /\ used.exports < MaxExports /\ used' = [used EXCEPT !.exports = @ + 1]
      /\ Become(p, local) /\ UNCHANGED <<store, crashes, removed, tally>>
  BY DEF StartExport
<1>3. local \in Local /\ local.pc = "stamping" /\ local.left = Exportable /\ local.found = answers
      /\ ~local.patch
  BY <1>1 DEF TypeOK, Idle, Local, Busy, Nothing, Exportable, Having
<1> HIDE DEF local
<1>4. task'[p] = local /\ answers' = answers /\ counts' = counts
  BY <1>1, <1>2, <1>3, BecomeType DEF store
<1>5. Steady(p)'
  BY <1>2, <1>3, <1>4 DEF Steady, Exportable, Having
<1>6. /\ used' \in [drafted : 0 .. MaxDrafts, manual : 0 .. MaxManual, exports : 0 .. MaxExports]
      /\ used'.drafted = used.drafted /\ used'.manual = used.manual
  BY <1>1, <1>2, QuestionnaireAssumption DEF TypeOK
<1> QED
  BY <1>2, <1>3, <1>5, <1>6, Quiet

LEMMA UpdateCountsStep ==
    ASSUME QuestionnaireInv, NEW p \in Tasks, UpdateCounts(p)
    PROVE  QuestionnaireInv'
<1>1. TypeOK /\ OnRecord /\ Steady(p)
  BY DEF QuestionnaireInv
<1> DEFINE t == task[p]
<1> DEFINE gated == {"needs_human"} \cup (IF t.patch THEN {} ELSE {"blocked_dlp"})
<1> DEFINE local == IF t.patch THEN Idle ELSE [Idle EXCEPT !.pc = "drafting"]
<1>2. task[p].pc = "updating" /\ Become(p, local)
      /\ answers' = answers /\ used' = used /\ crashes' = crashes /\ removed' = removed
      /\ tally' = [edited |-> t.patch, stamped |-> 0]
      /\ counts' = [total |-> Cardinality(Having(t.found, Status)),
                    auto |-> Cardinality(Having(t.found, {"auto"})),
                    abstained |-> Cardinality(Having(t.found, gated)),
                    status |-> IF t.patch THEN counts.status ELSE "ready_for_review"]
  BY DEF UpdateCounts, Total
<1>3. t.found = answers /\ counts \in Counters /\ t.patch \in BOOLEAN
  BY <1>1, <1>2 DEF Steady, TypeOK, Local
<1>4. local \in Local /\ local.pc \in {"idle", "drafting"}
  BY IdleType DEF Idle, Local, Busy, Nothing
<1>5. Abstained' = Having(answers, gated)
  BY <1>2 DEF Abstained, Having
<1> HIDE DEF local, gated
<1>6. /\ counts'.total = Cardinality(Listed)
      /\ counts'.auto = Cardinality(Exportable)
      /\ counts'.abstained = Cardinality(Having(answers, gated))
  BY <1>2, <1>3 DEF Listed, Exportable
<1>7. counts' \in Counters
  BY <1>2, <1>3, HavingFinite DEF Counters
<1>8. /\ task' \in [Tasks -> Local] /\ task'[p] = local
      /\ OneBusy'
      /\ \A r \in Tasks \ {p} : task'[r] = task[r] /\ task[r].pc \notin Busy /\ Steady(r)'
  BY <1>2, <1>4, <1>7, NoDocument, OthersWait DEF Busy
<1>9. TypeOK'
  <2>1. tally' \in [edited : BOOLEAN, stamped : Nat]
    BY <1>2, <1>3
  <2> QED
    BY <1>1, <1>2, <1>7, <1>8, <2>1 DEF TypeOK
<1>10. Steady(p)'
  BY <1>4, <1>7, <1>8, NoDocument DEF Steady
<1>11. Listed' = Listed /\ Exportable' = Exportable /\ tally'.stamped = 0
  BY <1>2 DEF Listed, Exportable, Having
<1>12. OnRecord'
  BY <1>1, <1>2, <1>4, <1>7, <1>8, <1>11, NoDocument DEF OnRecord, Busy
<1>13. Counted'
  <2>1. Cardinality(Exportable) \in Nat
    BY HavingFinite DEF Exportable
  <2>2. counts'.auto = Cardinality(Exportable) + tally'.stamped
    BY <1>6, <1>11, <2>1
  <2>3. Agree'
    BY <1>5, <1>6, <1>11, <2>2 DEF Agree, Abstained
  <2> QED
    BY <2>3 DEF Counted
<1> QED
  BY <1>8, <1>9, <1>10, <1>12, <1>13 DEF QuestionnaireInv

LEMMA StampAnswerStep ==
    ASSUME QuestionnaireInv, NEW p \in Tasks, NEW id \in Ids, StampAnswer(p, id)
    PROVE  /\ QuestionnaireInv'
           /\ answers[id] # None /\ answers[id].status = "auto"
           /\ answers'[id].question = answers[id].question
<1>1. TypeOK /\ OnRecord /\ Steady(p) /\ task[p] \in Local
  BY DEF QuestionnaireInv, TypeOK
<1> DEFINE stamped == [answers[id] EXCEPT !.status = "approved"]
<1> DEFINE local == [task[p] EXCEPT !.left = @ \ {id}]
<1>2. task[p].pc = "stamping" /\ id \in task[p].left /\ Become(p, local)
      /\ answers' = [answers EXCEPT ![id] = [task[p].found[id] EXCEPT !.status = "approved"]]
      /\ tally' = [tally EXCEPT !.stamped = @ + 1]
      /\ counts' = counts /\ used' = used /\ crashes' = crashes /\ removed' = removed
  BY DEF StampAnswer
<1>3. /\ answers[id] \in Answer /\ answers[id] # None /\ answers[id].status = "auto"
      /\ task[p].found[id] = answers[id] /\ counts # None
  BY <1>1, <1>2 DEF Steady, TypeOK
<1>4. answers' = [answers EXCEPT ![id] = stamped]
  BY <1>2, <1>3
<1>5. /\ stamped \in Answer /\ stamped.status = "approved"
      /\ stamped.question = answers[id].question /\ stamped.quality = answers[id].quality
  BY <1>3 DEF Answer, Status
<1> HIDE DEF stamped
<1>6. local \in Local /\ local.pc = "stamping" /\ local.left = task[p].left \ {id}
      /\ local.found = task[p].found
  BY <1>1, <1>2 DEF Local
<1> HIDE DEF local
<1>7. /\ task' \in [Tasks -> Local] /\ task'[p] = local
      /\ OneBusy'
      /\ \A r \in Tasks \ {p} : task'[r] = task[r] /\ task[r].pc \notin Busy /\ Steady(r)'
  BY <1>2, <1>6, OthersWait DEF Busy
<1>16. /\ tally' \in [edited : BOOLEAN, stamped : Nat] /\ tally.stamped \in Nat
       /\ tally'.stamped = tally.stamped + 1 /\ tally'.edited = tally.edited
  BY <1>1, <1>2 DEF TypeOK
<1>8. TypeOK'
  BY <1>1, <1>2, <1>4, <1>5, <1>7, <1>16 DEF TypeOK
<1>9. Steady(p)'
  BY <1>1, <1>2, <1>3, <1>4, <1>6, <1>7 DEF Steady, TypeOK
<1>10. Listed' = Listed /\ Cardinality(Listed)' = Cardinality(Listed)
  <2>1. /\ Listed' = Listed \cup {id}
        /\ Cardinality(Listed)' = IF id \in Listed THEN Cardinality(Listed)
                                  ELSE Cardinality(Listed) + 1
    BY <1>1, <1>4, <1>5, <1>8, ListedMore
  <2> QED
    BY <1>1, <1>3, <2>1, ListedAll
<1>11. \A i \in Listed' : Passed(answers'[i])
  BY <1>1, <1>3, <1>4, <1>5, <1>10, ListedAll DEF OnRecord, Passed, TypeOK
<1>12. \A r \in Tasks : task'[r].pc # "creating"
  BY <1>6, <1>7 DEF Busy
<1>13. OnRecord'
  BY <1>1, <1>2, <1>3, <1>10, <1>11, <1>12 DEF OnRecord
<1>14. Counted'
  <2>1. \A i \in Ids : answers'[i] = IF i = id THEN stamped ELSE answers[i]
    BY <1>1, <1>4 DEF TypeOK
  <2>2. id \in Exportable /\ Exportable' = Exportable \ {id}
    BY <1>3, <1>5, <2>1 DEF Exportable, Having
  <2>3. Abstained' = Abstained
    BY <1>3, <1>5, <1>16, <2>1, NoDocument DEF Abstained, Having
  <2>4. Cardinality(Exportable') = Cardinality(Exportable) - 1
        /\ Cardinality(Exportable) \in Nat
    <3> DEFINE S == Exportable
    <3>1. IsFiniteSet(S) /\ Cardinality(S) \in Nat
      BY HavingFinite DEF Exportable
    <3>2. id \in S /\ Exportable' = S \ {id}
      BY <2>2
    <3> HIDE DEF S
    <3>3. Cardinality(S \ {id}) = Cardinality(S) - 1
      BY <3>1, <3>2, FS_RemoveElement
    <3> QED
      BY <3>1, <3>2, <3>3 DEF S
  <2>5. crashes > 0 \/ Agree
    BY <1>2, <1>3, NobodyCounts DEF Busy
  <2>6. ASSUME Agree  PROVE Agree'
    <3>1. counts.auto = Cardinality(Exportable') + tally'.stamped
      BY <1>16, <2>4, <2>6, AgreeIs
    <3>2. counts'.total = Cardinality(Listed') /\ counts'.abstained = Cardinality(Abstained')
      BY <1>2, <1>10, <2>3, <2>6, AgreeIs
    <3> QED
      BY <1>2, <3>1, <3>2 DEF Agree, Abstained
  <2> QED
    BY <1>2, <2>5, <2>6 DEF Counted
<1>15. answers'[id].question = answers[id].question
  BY <1>1, <1>4, <1>5 DEF TypeOK
<1> QED
  BY <1>3, <1>7, <1>8, <1>9, <1>13, <1>14, <1>15 DEF QuestionnaireInv

(* The places of a payload that are still to be looked at are finitely many. *)
LEMMA ToAddFinite ==
    ASSUME NEW t, t.edit \in Edits, t.place \in 1 .. Len(t.edit) + 1
    PROVE  IsFiniteSet(ToAdd(t)) /\ Cardinality(ToAdd(t)) \in Nat
<1>1. ToAdd(t) \subseteq 1 .. Len(t.edit) /\ Len(t.edit) \in Nat
  BY EditType DEF ToAdd
<1>2. IsFiniteSet(1 .. Len(t.edit))
  BY <1>1, FS_Interval
<1> QED
  BY <1>1, <1>2, FS_Subset, FS_CardinalityType

LEMMA StartPatchStep ==
    ASSUME QuestionnaireInv, NEW p \in Tasks, NEW edit \in Edits, StartPatch(p, edit)
    PROVE  QuestionnaireInv'
<1>1. TypeOK /\ OnRecord
  BY DEF QuestionnaireInv
<1> DEFINE gone == {id \in Listed : answers[id].question \notin Asked(edit)}
<1> DEFINE new == {i \in DOMAIN edit : edit[i] \notin QuestionsOf(answers)}
<1> DEFINE local == [Idle EXCEPT !.pc = "editing", !.patch = TRUE, !.edit = edit,
                                 !.left = gone, !.found = answers]
<1>2. task[p].pc = "idle" /\ LoopFree(p) /\ counts # None
      /\ used.manual + Cardinality(new) <= MaxManual
      /\ Become(p, local) /\ used' = used /\ UNCHANGED <<store, crashes, removed, tally>>
  BY DEF StartPatch
<1>3. /\ local \in Local /\ local.pc = "editing" /\ local.edit = edit /\ local.place = 1
      /\ local.left = gone /\ local.found = answers
  BY <1>1 DEF TypeOK, Idle, Local, Busy, Nothing, Listed, Having
<1> HIDE DEF local
<1>4. task'[p] = local /\ answers' = answers /\ counts' = counts
  BY <1>1, <1>2, <1>3, BecomeType DEF store
<1>5. Len(edit) \in Nat /\ Len(edit) >= 1 /\ DOMAIN edit = 1 .. Len(edit)
  BY EditType
<1>6. ToAdd(local) = new
  BY <1>3, <1>5 DEF ToAdd
<1>7. Added(local) = {}
  <2>1. 1 .. local.place - 1 = {}
    BY <1>3
  <2> QED
    BY <2>1 DEF Added
<1>8. Edited(task[p])'
  <2>1. local.edit \in Edits /\ local.place \in 1 .. Len(local.edit) + 1
    BY <1>3, <1>5
  <2>2. used'.manual + Cardinality(ToAdd(local)) <= MaxManual
    BY <1>2, <1>6
  <2>3. \A id \in Ids : id \in gone <=> answers[id] # None /\ answers[id].question \notin Asked(edit)
    BY <1>1, ListedAll
  <2>4. \A n \in 0 .. MaxDrafts + MaxManual :
            used.manual <= n => answers[Manual(n)] = None
    BY <1>1, ListedAll, IdsDiffer DEF OnRecord
  <2> HIDE DEF gone
  <2> QED
    BY <1>2, <1>3, <1>4, <1>7, <2>1, <2>2, <2>3, <2>4 DEF Edited, ToAdd, Added
<1>9. Steady(p)'
  BY <1>2, <1>3, <1>4, <1>8 DEF Steady
<1> QED
  BY <1>1, <1>2, <1>3, <1>9, Quiet DEF TypeOK

LEMMA DeleteAnswerStep ==
    ASSUME QuestionnaireInv, NEW p \in Tasks, NEW id \in Ids, DeleteAnswer(p, id)
    PROVE  QuestionnaireInv'
<1>1. TypeOK /\ OnRecord /\ Steady(p) /\ task[p] \in Local
  BY DEF QuestionnaireInv, TypeOK
<1> DEFINE t == task[p]
<1> DEFINE local == [t EXCEPT !.left = @ \ {id}]
<1>2. t.pc = "editing" /\ id \in t.left /\ Become(p, local)
      /\ answers' = [answers EXCEPT ![id] = None] /\ removed' = TRUE
      /\ counts' = counts /\ used' = used /\ crashes' = crashes /\ tally' = tally
  BY DEF DeleteAnswer
<1>3. Edited(t) /\ counts # None
  BY <1>1, <1>2 DEF Steady
<1>4. /\ local \in Local /\ local.pc = "editing" /\ local.left = t.left \ {id}
      /\ local.edit = t.edit /\ local.place = t.place /\ local.found = t.found
  BY <1>1, <1>2 DEF Local
<1> HIDE DEF local
<1>5. /\ task' \in [Tasks -> Local] /\ task'[p] = local
      /\ OneBusy'
      /\ \A r \in Tasks \ {p} : task'[r] = task[r] /\ task[r].pc \notin Busy /\ Steady(r)'
  BY <1>2, <1>3, <1>4, OthersWait DEF Busy
<1>6. answers' \in [Ids -> Answer \cup {None}]
  BY <1>1, <1>2 DEF TypeOK
<1>7. TypeOK'
  BY <1>1, <1>2, <1>5, <1>6 DEF TypeOK
<1>8. Listed' = Listed \ {id}
  BY <1>1, <1>2, <1>6, HavingAll DEF Listed, TypeOK
<1>9. Cardinality(Listed') <= Cardinality(Listed)
      /\ Cardinality(Listed') \in Nat /\ Cardinality(Listed) \in Nat
  BY <1>8, HavingFinite, FS_Subset DEF Listed
<1>10. \A r \in Tasks : task'[r].pc # "creating"
  BY <1>4, <1>5 DEF Busy
<1>11. OnRecord'
  <2>1. \A i \in Listed' : Passed(answers'[i])
    BY <1>1, <1>2, <1>8, ListedAll DEF OnRecord, TypeOK
  <2>2. Cardinality(Listed') <= used'.drafted + used'.manual
    BY <1>1, <1>2, <1>9 DEF OnRecord, TypeOK
  <2>3. \A n \in 0 .. MaxDrafts + MaxManual : used'.manual <= n => Manual(n) \notin Listed'
    BY <1>1, <1>2, <1>8 DEF OnRecord
  <2> QED
    BY <1>2, <1>3, <1>10, <2>1, <2>2, <2>3 DEF OnRecord
<1>12. t.found[id] # None /\ t.found[id].question \notin Asked(t.edit)
  BY <1>2, <1>3 DEF Edited
<1>13. Edited(task[p])'
  <2>1. ToAdd(local) = ToAdd(t) /\ Added(local) = Added(t)
    BY <1>4 DEF ToAdd, Added
  <2>2. used'.manual + Cardinality(ToAdd(local)) <= MaxManual
    BY <1>2, <1>3, <2>1 DEF Edited
  <2>3. \A i \in Ids : answers'[i] = IF i = id THEN None ELSE answers[i]
    BY <1>1, <1>2 DEF TypeOK
  <2>4. \A i \in Ids :
            /\ local.found[i] # None /\ local.found[i].question \in Asked(local.edit) =>
                   i \notin local.left /\ answers'[i] = local.found[i]
            /\ local.found[i] # None /\ local.found[i].question \notin Asked(local.edit) =>
                   answers'[i] = IF i \in local.left THEN local.found[i] ELSE None
            /\ local.found[i] = None =>
                   /\ i \notin local.left
                   /\ answers'[i] = None \/ answers'[i].question \in Added(local)
    BY <1>2, <1>3, <1>4, <1>12, <2>1, <2>3 DEF Edited
  <2>5. ASSUME NEW q \in Added(local)
        PROVE  \E i \in Ids : answers'[i] # None /\ answers'[i].question = q
    <3>1. PICK i \in Ids : answers[i] # None /\ answers[i].question = q
      BY <1>3, <2>1 DEF Edited
    <3>2. q \in Asked(t.edit) /\ q \notin QuestionsOf(t.found)
      BY <1>3, <2>1, EditType DEF Added, Edited
    <3>3. i # id
      <4>1. answers[id] = t.found[id]
        BY <1>2, <1>3, <1>12 DEF Edited
      <4> QED
        BY <1>12, <3>1, <3>2, <4>1
    <3> QED
      BY <2>3, <3>1, <3>3
  <2>6. /\ local.edit \in Edits /\ local.place \in 1 .. Len(local.edit) + 1
        /\ \A n \in 0 .. MaxDrafts + MaxManual :
               used'.manual <= n => local.found[Manual(n)] = None
    BY <1>2, <1>3, <1>4 DEF Edited
  <2> QED
    BY <1>5, <2>2, <2>4, <2>5, <2>6 DEF Edited, ToAdd, Added
<1>14. Steady(p)'
  BY <1>2, <1>3, <1>4, <1>5, <1>13 DEF Steady
<1>15. Counted'
  BY <1>4, <1>5 DEF Counted
<1> QED
  BY <1>5, <1>7, <1>11, <1>14, <1>15 DEF QuestionnaireInv

(* An answer is added under an id that was never used. *)
LEMMA AddQuestionStep ==
    ASSUME QuestionnaireInv, NEW p \in Tasks, AddQuestion(p)
    PROVE  QuestionnaireInv'
<1>1. TypeOK /\ OnRecord /\ Steady(p) /\ task[p] \in Local
  BY DEF QuestionnaireInv, TypeOK
<1> DEFINE t == task[p]
<1> DEFINE local == [t EXCEPT !.place = @ + 1]
<1> DEFINE id == Manual(used.manual)
<1> DEFINE a == [question |-> t.edit[t.place], quality |-> "unsure", status |-> "needs_human"]
<1>2. t.pc = "editing" /\ t.left = {} /\ t.place <= Len(t.edit) /\ Become(p, local)
      /\ counts' = counts
      /\ crashes' = crashes /\ removed' = removed /\ tally' = tally
  BY DEF AddQuestion
<1>3. IF New(t) THEN used' = [used EXCEPT !.manual = @ + 1]
                     /\ answers' = [answers EXCEPT ![id] = a]
      ELSE used' = used /\ answers' = answers
  BY DEF AddQuestion
<1>4. Edited(t) /\ counts # None
  BY <1>1, <1>2 DEF Steady
<1>5. /\ t.edit \in Edits /\ Len(t.edit) \in Nat /\ t.place \in 1 .. Len(t.edit)
      /\ t.edit[t.place] \in Questions /\ t.edit[t.place] \in Asked(t.edit)
  BY <1>2, <1>4, EditType DEF Edited
<1>6. /\ local \in Local /\ local.pc = "editing" /\ local.left = {} /\ local.edit = t.edit
      /\ local.place = t.place + 1 /\ local.found = t.found
  BY <1>1, <1>2 DEF Local
<1> HIDE DEF local
<1>7. /\ task' \in [Tasks -> Local] /\ task'[p] = local
      /\ OneBusy'
      /\ \A r \in Tasks \ {p} : task'[r] = task[r] /\ task[r].pc \notin Busy /\ Steady(r)'
  BY <1>2, <1>4, <1>6, OthersWait DEF Busy
<1>8. Counted'
  BY <1>6, <1>7 DEF Counted
<1>9. \A r \in Tasks : task'[r].pc # "creating"
  BY <1>6, <1>7 DEF Busy
<1>10. /\ used.drafted \in 0 .. MaxDrafts /\ used.manual \in 0 .. MaxManual
       /\ MaxDrafts \in Nat /\ MaxManual \in Nat
  BY <1>1, QuestionnaireAssumption DEF TypeOK
<1>11. CASE ~New(t)
  <2>1. used' = used /\ answers' = answers
    BY <1>3, <1>11
  <2>2. TypeOK'
    BY <1>1, <1>2, <1>7, <2>1 DEF TypeOK
  <2>3. Listed' = Listed
    BY <2>1 DEF Listed, Having
  <2>4. OnRecord'
    BY <1>1, <1>2, <1>9, <2>1, <2>3 DEF OnRecord
  <2>5. t.edit[t.place] \in QuestionsOf(t.found)
    BY <1>11 DEF New
  <2>6. ToAdd(local) = ToAdd(t)
    BY <1>5, <1>6, <2>5 DEF ToAdd
  <2>7. Added(local) = Added(t)
    BY <1>5, <1>6, <2>5 DEF Added
  <2>8. Edited(local)
    BY <1>2, <1>4, <1>5, <1>6, <2>6, <2>7 DEF Edited
  <2>9. Edited(task[p])'
    BY <1>7, <2>1, <2>8 DEF Edited, ToAdd, Added
  <2>10. Steady(p)'
    BY <1>2, <1>4, <1>6, <1>7, <2>9 DEF Steady
  <2> QED
    BY <1>7, <1>8, <2>2, <2>4, <2>10 DEF QuestionnaireInv
<1>12. CASE New(t)
  <2>1. used' = [used EXCEPT !.manual = @ + 1] /\ answers' = [answers EXCEPT ![id] = a]
    BY <1>3, <1>12
  <2>2. a \in Answer /\ Passed(a) /\ a.question = t.edit[t.place]
    BY <1>5 DEF Answer, Quality, Status, Passed
  <2> HIDE DEF a
  <2>3. t.edit[t.place] \notin QuestionsOf(t.found)
    BY <1>12 DEF New
  <2>4. IsFiniteSet(ToAdd(t)) /\ Cardinality(ToAdd(t)) \in Nat
    BY <1>4, ToAddFinite DEF Edited
  <2>5. t.place \in ToAdd(t) /\ ToAdd(local) = ToAdd(t) \ {t.place}
    BY <1>5, <1>6, <2>3 DEF ToAdd
  <2>6. Cardinality(ToAdd(local)) = Cardinality(ToAdd(t)) - 1
        /\ Cardinality(ToAdd(local)) \in Nat
    <3>1. Cardinality(ToAdd(local)) = Cardinality(ToAdd(t)) - 1
      <4> DEFINE S == ToAdd(t)
      <4>1. IsFiniteSet(S) /\ t.place \in S
        BY <2>4, <2>5
      <4> HIDE DEF S
      <4>2. Cardinality(S \ {t.place}) = Cardinality(S) - 1
        BY <4>1, FS_RemoveElement
      <4> QED
        BY <2>5, <4>2 DEF S
    <3>2. IsFiniteSet(ToAdd(local))
      BY <2>4, <2>5, FS_Subset
    <3> QED
      BY <3>1, <3>2, FS_CardinalityType
  <2>7. used.manual + Cardinality(ToAdd(t)) <= MaxManual
    BY <1>4 DEF Edited
  <2>8. /\ used'.manual = used.manual + 1 /\ used'.drafted = used.drafted
        /\ used' \in [drafted : 0 .. MaxDrafts, manual : 0 .. MaxManual, exports : 0 .. MaxExports]
    BY <1>1, <1>10, <2>1, <2>4, <2>6, <2>7 DEF TypeOK
  <2>9. id \in Ids /\ id \notin Listed /\ answers[id] = None /\ t.found[id] = None
    <3>1. used.manual \in 0 .. MaxDrafts + MaxManual
      BY <1>10
    <3> QED
      BY <1>1, <1>4, <1>10, <3>1, IdsDiffer, ListedAll DEF OnRecord, Edited
  <2> HIDE DEF id
  <2>10. \A i \in Ids : answers'[i] = IF i = id THEN a ELSE answers[i]
    BY <1>1, <2>1 DEF TypeOK
  <2>11. TypeOK'
    BY <1>1, <1>2, <1>7, <2>1, <2>2, <2>8, <2>9 DEF TypeOK
  <2>12. Listed' = Listed \cup {id} /\ Cardinality(Listed)' = Cardinality(Listed) + 1
         /\ Cardinality(Listed) \in Nat
    BY <1>1, <2>1, <2>2, <2>9, <2>11, ListedMore, ListedAll
  <2>13. OnRecord'
    <3>1. \A i \in Listed' : Passed(answers'[i])
      BY <1>1, <2>2, <2>9, <2>10, <2>12, ListedAll DEF OnRecord
    <3>2. Cardinality(Listed)' <= used'.drafted + used'.manual
      BY <1>1, <1>10, <2>8, <2>12 DEF OnRecord
    <3>3. \A n \in 0 .. MaxDrafts + MaxManual : used'.manual <= n => Manual(n) \notin Listed'
      BY <1>1, <1>10, <2>8, <2>12, IdsDiffer DEF OnRecord, id
    <3>4. ~removed' => \A n \in 0 .. MaxDrafts + MaxManual :
                           Drafted(n) \in Listed' => n < Cardinality(Listed)'
      BY <1>1, <1>2, <1>10, <2>12, IdsDiffer DEF OnRecord, id
    <3> QED
      BY <1>2, <1>4, <1>9, <3>1, <3>2, <3>3, <3>4 DEF OnRecord
  <2>14. Added(local) = Added(t) \cup {t.edit[t.place]}
    <3>1. 1 .. local.place - 1 = (1 .. t.place - 1) \cup {t.place}
      BY <1>5, <1>6
    <3> QED
      BY <1>6, <2>3, <3>1 DEF Added
  <2>15. Edited(task[p])'
    <3>1. local.edit \in Edits /\ local.place \in 1 .. Len(local.edit) + 1
      BY <1>5, <1>6
    <3>2. used'.manual + Cardinality(ToAdd(local)) <= MaxManual
      BY <1>10, <2>4, <2>6, <2>7, <2>8
    <3>3. \A i \in Ids :
              /\ local.found[i] # None /\ local.found[i].question \in Asked(local.edit) =>
                     i \notin local.left /\ answers'[i] = local.found[i]
              /\ local.found[i] # None /\ local.found[i].question \notin Asked(local.edit) =>
                     answers'[i] = IF i \in local.left THEN local.found[i] ELSE None
              /\ local.found[i] = None =>
                     /\ i \notin local.left
                     /\ answers'[i] = None \/ answers'[i].question \in Added(local)
      BY <1>2, <1>4, <1>6, <2>2, <2>9, <2>10, <2>14 DEF Edited
    <3>4. \A q \in Added(local) : \E i \in Ids : answers'[i] # None /\ answers'[i].question = q
      <4> SUFFICES ASSUME NEW q \in Added(local)
                   PROVE  \E i \in Ids : answers'[i] # None /\ answers'[i].question = q
        OBVIOUS
      <4>1. CASE q = t.edit[t.place]
        BY <2>2, <2>9, <2>10, <4>1, NoDocument
      <4>2. CASE q \in Added(t)
        BY <1>4, <2>9, <2>10, <4>2 DEF Edited
      <4> QED
        BY <2>14, <4>1, <4>2
    <3>5. \A n \in 0 .. MaxDrafts + MaxManual :
              used'.manual <= n => local.found[Manual(n)] = None
      BY <1>4, <1>6, <1>10, <2>8 DEF Edited
    <3> QED
      BY <1>7, <3>1, <3>2, <3>3, <3>4, <3>5 DEF Edited, ToAdd, Added
  <2>16. Steady(p)'
    BY <1>2, <1>4, <1>6, <1>7, <2>15 DEF Steady
  <2> QED
    BY <1>7, <1>8, <2>11, <2>13, <2>16 DEF QuestionnaireInv
<1> QED
  BY <1>11, <1>12

LEMMA CrashStep ==
    ASSUME QuestionnaireInv, NEW i \in Instances, Crash(i)
    PROVE  QuestionnaireInv'
<1>1. TypeOK /\ OnRecord
  BY DEF QuestionnaireInv
<1>2. crashes < MaxCrashes /\ crashes' = crashes + 1
      /\ task' = [p \in Tasks |-> IF Home[p] = i THEN Idle ELSE task[p]]
      /\ answers' = answers /\ counts' = counts
      /\ used' = used /\ removed' = removed /\ tally' = tally
  BY DEF Crash, store
<1>3. \A q \in Tasks : Home[q] = i
  BY OneInstance DEF Crash
<1>4. task' = [p \in Tasks |-> Idle]
  BY <1>2, <1>3
<1>5. \A q \in Tasks : task'[q].pc = "idle"
  BY <1>4, IdleType
<1>6. crashes' \in 0 .. MaxCrashes /\ crashes' > 0
  BY <1>1, <1>2, QuestionnaireAssumption DEF TypeOK
<1>7. task' \in [Tasks -> Local]
  BY <1>4, IdleType
<1>8. TypeOK'
  BY <1>1, <1>2, <1>6, <1>7 DEF TypeOK
<1>9. Listed' = Listed
  BY <1>2 DEF Listed, Having
<1>10. OnRecord'
  BY <1>1, <1>2, <1>5, <1>9 DEF OnRecord
<1> QED
  BY <1>5, <1>6, <1>8, <1>10 DEF QuestionnaireInv, OneBusy, Steady, Counted, Busy

-----------------------------------------------------------------------------
LEMMA InvNext == QuestionnaireInv /\ [Next]_vars => QuestionnaireInv'
<1> SUFFICES ASSUME QuestionnaireInv, [Next]_vars  PROVE QuestionnaireInv'
  OBVIOUS
<1>1. ASSUME NEW p \in Tasks, Draft(p)  PROVE QuestionnaireInv'
  BY <1>1, SubmitStep, StartDraftStep, CreateAnswerStep, ListAnswersStep, UpdateCountsStep,
     RunEndsStep DEF Draft
<1>2. ASSUME NEW p \in Tasks, Patch(p)  PROVE QuestionnaireInv'
  BY <1>2, StartPatchStep, DeleteAnswerStep, AddQuestionStep DEF Patch
<1>3. ASSUME NEW p \in Tasks, Export(p)  PROVE QuestionnaireInv'
  BY <1>3, StartExportStep, StampAnswerStep, ExportEndsStep DEF Export
<1>4. ASSUME NEW i \in Instances, Crash(i)  PROVE QuestionnaireInv'
  BY <1>4, CrashStep
<1>5. CASE UNCHANGED vars
  <2>1. task' = task /\ answers' = answers /\ counts' = counts /\ used' = used
       /\ crashes' = crashes /\ removed' = removed /\ tally' = tally
    BY <1>5 DEF vars, store
  <2>2. Listed' = Listed /\ Agree' = Agree /\ NextDrafted' = NextDrafted
    BY <2>1 DEF Listed, Exportable, Having, NextDrafted, Agree
  <2>3. TypeOK' /\ OneBusy' /\ OnRecord' /\ Counted'
    <3>1. TypeOK' /\ OneBusy'
      BY <2>1 DEF QuestionnaireInv, TypeOK, OneBusy
    <3>2. OnRecord'
      BY <2>1, <2>2 DEF QuestionnaireInv, OnRecord
    <3>3. Counted'
      BY <2>1, <2>2 DEF QuestionnaireInv, Counted
    <3> QED
      BY <3>1, <3>2, <3>3
  <2>4. ASSUME NEW p \in Tasks  PROVE Steady(p)'
    <3>1. Steady(p)
      BY DEF QuestionnaireInv
    <3>2. Edited(task[p]) => Edited(task[p])'
      BY <2>1 DEF Edited, ToAdd, Added
    <3> QED
      BY <2>1, <2>2, <3>1, <3>2 DEF Steady
  <2> QED
    BY <2>3, <2>4 DEF QuestionnaireInv
<1> QED
  BY <1>1, <1>2, <1>3, <1>4, <1>5 DEF Next

(* The inductive invariant holds in every reachable state. *)
THEOREM QuestionnaireInvariant == Spec => []QuestionnaireInv
BY InvInit, InvNext, PTL DEF Spec

(* Answers, counters and the tasks keep their types: an id that a draft or  *)
(* an edit gives is never beyond those that were drafted and added.         *)
THEOREM QuestionnaireTypeCorrect == Spec => []TypeOK
<1>1. QuestionnaireInv => TypeOK
  BY DEF QuestionnaireInv
<1> QED
  BY <1>1, QuestionnaireInvariant, PTL

(* Between requests the counters count the answers exactly as their last    *)
(* writer does, a draft or an edit, and the auto ones exported since with   *)
(* them, unless an instance was killed.                                     *)
THEOREM QuestionnaireCountsHold == Spec => []CountsHold
<1>1. QuestionnaireInv => CountsHold
  BY DEF QuestionnaireInv, Counted, CountsHold, Busy
<1> QED
  BY <1>1, QuestionnaireInvariant, PTL

(* An approved answer had passed the confidence gate and the egress scan.   *)
THEOREM QuestionnaireOnlySoundLeaves == Spec => []OnlySoundLeaves
<1>1. QuestionnaireInv => OnlySoundLeaves
  BY DEF QuestionnaireInv, OnRecord, OnlySoundLeaves, Passed, Listed, Having, Status
<1> QED
  BY <1>1, QuestionnaireInvariant, PTL

(* An export approves an answer that is auto when it does, and its text.    *)
THEOREM QuestionnaireExportOnlyStamps == Spec => ExportOnlyStamps
<1>1. QuestionnaireInv /\ [Next]_vars =>
          [\A p \in Tasks, id \in Ids : StampAnswer(p, id) =>
              /\ answers[id] # None /\ answers[id].status = "auto"
              /\ answers'[id].question = answers[id].question]_vars
  BY StampAnswerStep
<1> QED
  BY <1>1, QuestionnaireInvariant, PTL DEF Spec, ExportOnlyStamps

(* A draft takes an id that no answer has, while no edit has deleted one.   *)
THEOREM QuestionnaireDraftsDistinct == Spec => DraftsDistinct
<1>1. QuestionnaireInv /\ [Next]_vars =>
          [\A p \in Tasks : CreateAnswer(p) /\ ~removed => answers[task[p].id] = None]_vars
  <2> SUFFICES ASSUME QuestionnaireInv, NEW p \in Tasks, CreateAnswer(p), ~removed
               PROVE  answers[task[p].id] = None
    OBVIOUS
  <2>1. task[p].id \notin Listed
    BY CreateAnswerStep
  <2>2. TypeOK /\ task[p].id \in Ids
    BY DEF QuestionnaireInv, Steady, CreateAnswer
  <2> QED
    BY <2>1, <2>2, ListedAll
<1> QED
  BY <1>1, QuestionnaireInvariant, PTL DEF Spec, DraftsDistinct

(* An edit leaves the questions of its payload answered and no others, and  *)
(* the answers to those that had one as they were.                          *)
THEOREM QuestionnairePatchExact == Spec => PatchExact
<1> DEFINE Exact(p) ==
        LET before == task[p].found
            Kept(id, found) == found[id] # None /\ found[id].question \in
                                   Asked(task[p].edit) \cap QuestionsOf(before)
        IN /\ QuestionsOf(answers) = Asked(task[p].edit)
           /\ \A id \in Ids : Kept(id, before) \/ Kept(id, answers) =>
                  answers[id] = before[id]
<1>1. QuestionnaireInv /\ [Next]_vars =>
          [\A p \in Tasks : task[p].patch /\ ListAnswers(p) => Exact(p)]_vars
  <2> SUFFICES ASSUME QuestionnaireInv, NEW p \in Tasks, task[p].patch, ListAnswers(p)
               PROVE  Exact(p)
    OBVIOUS
  <2>1. TypeOK /\ Steady(p)
    BY DEF QuestionnaireInv
  <2>2. task[p].pc = "editing" /\ task[p].left = {} /\ task[p].place > Len(task[p].edit)
    BY <2>1 DEF ListAnswers, Steady
  <2>3. Edited(task[p])
    BY <2>1, <2>2 DEF Steady
  <2> QED
    BY <2>1, <2>2, <2>3, EditDone
<1> QED
  BY <1>1, QuestionnaireInvariant, PTL DEF Spec, PatchExact
=============================================================================
