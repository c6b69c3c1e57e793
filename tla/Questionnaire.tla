--------------------------- MODULE Questionnaire ----------------------------
(***************************************************************************)
(* One buyer questionnaire: the answers that Questionnaire Responder       *)
(* drafts, the edits of a person, the export, and the counters on the      *)
(* questionnaire that the two first keep.                                  *)
(*                                                                         *)
(* A task is one request.  The agent's run is a long await in which the    *)
(* model calls draft_answer with any question and any confidence.  A step  *)
(* is one store operation or one resumption of a coroutine; while a task   *)
(* is at a control point of Busy, no other task of its instance moves.     *)
(* What an answer says is left out, but for what the two gates see in it.  *)
(***************************************************************************)
EXTENDS Naturals, Sequences, FiniteSets

CONSTANTS
    Questions,                \* questions, told apart by their text
    Tasks, Instances, Home,   \* Home[p]: the instance that runs task p
    MaxListed,                \* bound: questions in one PATCH
    MaxDrafts, MaxManual,     \* bounds: answers drafted, answers added by hand
    MaxExports,               \* bound: exports
    MaxCrashes,               \* bound: how often an instance is killed
    None                      \* no value

ASSUME QuestionnaireAssumption ==
    /\ Home \in [Tasks -> Instances]
    /\ MaxListed \in Nat /\ MaxDrafts \in Nat /\ MaxManual \in Nat
    /\ MaxExports \in Nat /\ MaxCrashes \in Nat
    /\ None \notin Questions

VARIABLES
    answers,     \* answers: the answer under each id, None for no document
    counts,      \* questionnaires: the counters and the status, None before the POST
    task,        \* task[p]: control point and local variables of task p
    used,        \* how many answers were drafted, added by hand, and exports made
    crashes,     \* number of crashes so far
    removed,     \* history: a PATCH has deleted an answer
    tally        \* history: whether an edit wrote the counters last, and how many
                 \* answers were exported since they were written

store == <<answers, counts>>
vars == <<store, task, used, crashes, removed, tally>>

(* A drafted id ends in a count of answers; one added by hand is fresh. *)
Drafted(n) == <<"drafted", n>>
Manual(n) == <<"manual", n>>
Ids == {"drafted", "manual"} \X (0 .. MaxDrafts + MaxManual)

(* What the gates see: an answer below the threshold or without citations, *)
(* one that leaks, one that passes.                                        *)
Quality == {"unsure", "leaking", "sound"}

Status == {"auto", "needs_human", "approved", "blocked_dlp"}

Answer == [question : Questions, quality : Quality, status : Status]

Counters == [total : Nat, auto : Nat, abstained : Nat,
             status : {"processing", "ready_for_review"}]

(* None is no document. *)
ASSUME NoDocument == None \notin Answer /\ None \notin Counters

(* UpdateQuestionnaireRequest has one question at least. *)
Edits == UNION {[1 .. n -> Questions] : n \in 1 .. MaxListed}

Busy == {"creating", "listing", "updating", "editing", "stamping"}

Local == [pc : Busy \cup {"idle", "drafting"}, patch : BOOLEAN, id : Ids \cup {None},
          draft : Answer \cup {None}, edit : Edits \cup {<< >>}, place : Nat,
          left : SUBSET Ids, found : [Ids -> Answer \cup {None}]]

Nothing == [id \in Ids |-> None]

Idle == [pc |-> "idle", patch |-> FALSE, id |-> None, draft |-> None, edit |-> << >>,
         place |-> 1, left |-> {}, found |-> Nothing]

(* Mutant: the routes are plain functions, which FastAPI runs in threads. *)
ThreadPool(p) == TRUE

LoopFree(p) ==
    \A q \in Tasks \ {p} : Home[q] = Home[p] => task[q].pc \notin Busy

Become(p, local) == task' = [task EXCEPT ![p] = local]

Init ==
    /\ answers = Nothing
    /\ counts = None
    /\ task = [p \in Tasks |-> Idle]
    /\ used = [drafted |-> 0, manual |-> 0, exports |-> 0]
    /\ crashes = 0
    /\ removed = FALSE
    /\ tally = [edited |-> FALSE, stamped |-> 0]

(* AnswerRepo.list_for_questionnaire, of which with a status *)
Having(found, statuses) == {id \in Ids : found[id] # None /\ found[id].status \in statuses}

Listed == Having(answers, Status)

Asked(edit) == {edit[i] : i \in DOMAIN edit}

QuestionsOf(found) == {found[id].question : id \in Having(found, Status)}

-----------------------------------------------------------------------------
(* submit_questionnaire creates the questionnaire and runs the Supervisor. *)
Submit(p) ==
    /\ task[p].pc = "idle" /\ LoopFree(p)
    /\ counts = None
    /\ counts' = [total |-> 0, auto |-> 0, abstained |-> 0, status |-> "processing"]
    /\ tally' = [edited |-> FALSE, stamped |-> 0]
    /\ Become(p, [Idle EXCEPT !.pc = "drafting"])
    /\ UNCHANGED <<answers, used, crashes, removed>>

(* Mutant: the egress scan comes first, and a low confidence is put up with. *)
StatusByScan(quality) == IF quality = "leaking" THEN "blocked_dlp" ELSE "auto"

(* Mutant: the kind of leak is recorded in place of the status. *)
StatusOrKind(quality) ==
    CASE quality = "unsure" -> "needs_human"
      [] quality = "leaking" -> "hostname"
      [] quality = "sound" -> "auto"

(* The two gates of draft_answer. *)
StatusOf(quality) ==
    CASE quality = "unsure" -> "needs_human"
      [] quality = "leaking" -> "blocked_dlp"
      [] quality = "sound" -> "auto"

(* Mutant: an id counts the answers that are ready. *)
NextOfReady == Drafted(Cardinality(Having(answers, {"auto"})))

NextDrafted == Drafted(Cardinality(Listed))

(* draft_answer: the gates, and the count of answers that makes the id ... *)
StartDraft(p, q, quality) ==
    /\ task[p].pc = "drafting" /\ LoopFree(p)
    /\ used.drafted < MaxDrafts
    /\ used' = [used EXCEPT !.drafted = @ + 1]
    /\ Become(p, [Idle EXCEPT !.pc = "creating", !.id = NextDrafted,
            !.draft = [question |-> q, quality |-> quality, status |-> StatusOf(quality)]])
    /\ UNCHANGED <<store, crashes, removed, tally>>

(* ... the answer ... *)
CreateAnswer(p) ==
    /\ task[p].pc = "creating"
    /\ answers' = [answers EXCEPT ![task[p].id] = task[p].draft]
    /\ Become(p, [task[p] EXCEPT !.pc = "listing"])
    /\ UNCHANGED <<counts, used, crashes, removed, tally>>

(* ... the list of them all, here and at the end of a PATCH ... *)
ListAnswers(p) ==
    LET t == task[p] IN
    /\ t.pc = "listing" \/ (t.pc = "editing" /\ t.left = {} /\ t.place > Len(t.edit))
    /\ Become(p, [t EXCEPT !.pc = "updating", !.found = answers])
    /\ UNCHANGED <<store, used, crashes, removed, tally>>

(* Mutant: an edit counts the questions of its payload. *)
TotalAsked(t) == Cardinality(IF t.patch THEN Asked(t.edit) ELSE Having(t.found, Status))

Total(t) == Cardinality(Having(t.found, Status))

(* ... and the counters: a draft counts what the egress scan blocked as     *)
(* abstained and says that the questionnaire is ready, a PATCH does neither. *)
UpdateCounts(p) ==
    LET t == task[p]
        abstained == {"needs_human"} \cup (IF t.patch THEN {} ELSE {"blocked_dlp"})
    IN
    /\ t.pc = "updating"
    /\ counts' = [total |-> Total(t),
                  auto |-> Cardinality(Having(t.found, {"auto"})),
                  abstained |-> Cardinality(Having(t.found, abstained)),
                  status |-> IF t.patch THEN counts.status ELSE "ready_for_review"]
    /\ tally' = [edited |-> t.patch, stamped |-> 0]
    /\ Become(p, IF t.patch THEN Idle ELSE [Idle EXCEPT !.pc = "drafting"])
    /\ UNCHANGED <<answers, used, crashes, removed>>

(* The run is over, or raises. *)
RunEnds(p) ==
    /\ task[p].pc = "drafting" /\ LoopFree(p)
    /\ Become(p, Idle)
    /\ UNCHANGED <<store, used, crashes, removed, tally>>

-----------------------------------------------------------------------------
(* PATCH /questionnaires/{id}: answers to questions that are gone ... *)
StartPatch(p, edit) ==
    LET gone == {id \in Listed : answers[id].question \notin Asked(edit)}
        new == {i \in DOMAIN edit : edit[i] \notin QuestionsOf(answers)}
    IN
    /\ task[p].pc = "idle" /\ LoopFree(p)
    /\ counts # None /\ used.manual + Cardinality(new) <= MaxManual
    /\ Become(p, [Idle EXCEPT !.pc = "editing", !.patch = TRUE, !.edit = edit,
                              !.left = gone, !.found = answers])
    /\ UNCHANGED <<store, used, crashes, removed, tally>>

(* ... are deleted ... *)
DeleteAnswer(p, id) ==
    /\ task[p].pc = "editing" /\ id \in task[p].left
    /\ answers' = [answers EXCEPT ![id] = None]
    /\ removed' = TRUE
    /\ Become(p, [task[p] EXCEPT !.left = @ \ {id}])
    /\ UNCHANGED <<counts, used, crashes, tally>>

(* Mutant: a question is added whether or not it has an answer. *)
NewEach(t) == TRUE

(* A question is new when none of the answers listed at the start is to it. *)
New(t) == t.edit[t.place] \notin QuestionsOf(t.found)

(* ... and questions that are new wait for a person; one that the payload *)
(* names twice is added twice.                                            *)
AddQuestion(p) ==
    LET t == task[p] IN
    /\ t.pc = "editing" /\ t.left = {} /\ t.place <= Len(t.edit)
    /\ IF New(t)
       THEN /\ used' = [used EXCEPT !.manual = @ + 1]
            /\ answers' = [answers EXCEPT ![Manual(used.manual)] =
                   [question |-> t.edit[t.place], quality |-> "unsure",
                    status |-> "needs_human"]]
       ELSE UNCHANGED <<answers, used>>
    /\ Become(p, [t EXCEPT !.place = @ + 1])
    /\ UNCHANGED <<counts, crashes, removed, tally>>

-----------------------------------------------------------------------------
Exportable == Having(answers, {"auto"})

(* POST /questionnaires/{id}/export: the answers that are auto ... *)
StartExport(p) ==
    /\ task[p].pc = "idle" /\ LoopFree(p)
    /\ counts # None /\ used.exports < MaxExports
    /\ used' = [used EXCEPT !.exports = @ + 1]
    /\ Become(p, [Idle EXCEPT !.pc = "stamping", !.left = Exportable, !.found = answers])
    /\ UNCHANGED <<store, crashes, removed, tally>>

(* ... are written back as approved; the counters stay. *)
StampAnswer(p, id) ==
    LET t == task[p] IN
    /\ t.pc = "stamping" /\ id \in t.left
    /\ answers' = [answers EXCEPT ![id] = [t.found[id] EXCEPT !.status = "approved"]]
    /\ tally' = [tally EXCEPT !.stamped = @ + 1]
    /\ Become(p, [t EXCEPT !.left = @ \ {id}])
    /\ UNCHANGED <<counts, used, crashes, removed>>

ExportEnds(p) ==
    /\ task[p].pc = "stamping" /\ task[p].left = {}
    /\ Become(p, Idle)
    /\ UNCHANGED <<store, used, crashes, removed, tally>>

-----------------------------------------------------------------------------
(* The platform kills an instance; its tasks are gone, the store stays. *)
Crash(i) ==
    /\ crashes < MaxCrashes
    /\ \E p \in Tasks : Home[p] = i /\ task[p].pc # "idle"
    /\ crashes' = crashes + 1
    /\ task' = [p \in Tasks |-> IF Home[p] = i THEN Idle ELSE task[p]]
    /\ UNCHANGED <<store, used, removed, tally>>

Draft(p) ==
    \/ Submit(p)
    \/ \E q \in Questions, quality \in Quality : StartDraft(p, q, quality)
    \/ CreateAnswer(p) \/ ListAnswers(p) \/ UpdateCounts(p) \/ RunEnds(p)

Patch(p) ==
    \/ \E edit \in Edits : StartPatch(p, edit)
    \/ \E id \in Ids : DeleteAnswer(p, id)
    \/ AddQuestion(p)

Export(p) ==
    \/ StartExport(p)
    \/ \E id \in Ids : StampAnswer(p, id)
    \/ ExportEnds(p)

Next ==
    \/ \E p \in Tasks : Draft(p) \/ Patch(p) \/ Export(p)
    \/ \E i \in Instances : Crash(i)

Spec == Init /\ [][Next]_vars

-----------------------------------------------------------------------------
TypeOK ==
    /\ answers \in [Ids -> Answer \cup {None}]
    /\ counts \in Counters \cup {None}
    /\ task \in [Tasks -> Local]
    /\ used \in [drafted : 0 .. MaxDrafts, manual : 0 .. MaxManual, exports : 0 .. MaxExports]
    /\ crashes \in 0 .. MaxCrashes
    /\ removed \in BOOLEAN
    /\ tally \in [edited : BOOLEAN, stamped : Nat]

(* The counters are those of the answers, as whoever wrote them last counts *)
(* them: a draft takes what the egress scan blocked for abstained, an edit  *)
(* does not; and an export does not count again, so that an answer that it  *)
(* has approved still is one of the auto ones.                              *)
Agree ==
    LET abstained == {"needs_human"} \cup (IF tally.edited THEN {} ELSE {"blocked_dlp"})
    IN /\ counts.total = Cardinality(Listed)
       /\ counts.auto = Cardinality(Exportable) + tally.stamped
       /\ counts.abstained = Cardinality(Having(answers, abstained))

(* Whenever no request is between two store operations the counters are     *)
(* exactly those, after drafts, edits and exports in any order, unless an   *)
(* instance was killed between the two writes.  They need not be what the   *)
(* present statuses add up to: after an edit blocked answers are in neither *)
(* counter, after an export approved ones are in auto.                      *)
CountsHold ==
    crashes = 0 /\ counts # None /\ (\A p \in Tasks : task[p].pc \notin Busy) => Agree

(* An answer that leaves was confident, cited and clean ("an export can't  *)
(* leak what was never allowed to leave", export_questionnaire), whatever  *)
(* was edited and exported before.                                         *)
OnlySoundLeaves ==
    \A id \in Having(answers, {"approved"}) : answers[id].quality = "sound"

(* An export stamps the answers on record and nothing else: it does not    *)
(* bring back an answer that was edited away, nor one drafted over.        *)
ExportOnlyStamps ==
    [][\A p \in Tasks, id \in Ids : StampAnswer(p, id) =>
        /\ answers[id] # None /\ answers[id].status = "auto"
        /\ answers'[id].question = answers[id].question]_vars

(* After an edit the questions answered are those of the payload; one that  *)
(* had an answer has it as it was ("keeps its existing answer untouched",   *)
(* update_questionnaire) and no other.                                      *)
PatchExact ==
    [][\A p \in Tasks : task[p].patch /\ ListAnswers(p) =>
        LET before == task[p].found
            Kept(id, found) == found[id] # None /\ found[id].question \in
                                   Asked(task[p].edit) \cap QuestionsOf(before)
        IN /\ QuestionsOf(answers) = Asked(task[p].edit)
           /\ \A id \in Ids : Kept(id, before) \/ Kept(id, answers) =>
                  answers[id] = before[id]]_vars

(* A draft replaces no other answer, as long as no edit has deleted one: an *)
(* id counts answers, so after a deletion it can be one that is taken.      *)
DraftsDistinct ==
    [][\A p \in Tasks : CreateAnswer(p) /\ ~removed => answers[task[p].id] = None]_vars
=============================================================================
