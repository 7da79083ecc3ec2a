---------------------------- MODULE ResultReview ----------------------------
(***************************************************************************)
(* The result sheets of one class level in one term, and the compilations  *)
(* of its arms, from the teacher's marks to publication.                   *)
(*                                                                         *)
(* Every arm (JS1 BLUE, JS1 GOLD) has a form teacher and a compilation of  *)
(* its own; all arms share the subject sheets of their level.  A sheet is  *)
(* judged component by component: the decisions live in its JSON column    *)
(* under "review", and sheet.status is recomputed from them.  Components   *)
(* are the CA parts, taken together, and "exam", the overall result.       *)
(*                                                                         *)
(* One action is one request.  One student per arm.  An arm's compilation  *)
(* row is created on demand and is here from the start.                    *)
(***************************************************************************)
EXTENDS Naturals, FiniteSets

CONSTANTS
    Subjects,    \* subjects of the level that count for results
    Arms,        \* arms with a form teacher
    Marks,       \* what a component's marks can be
    Missing,     \* some required score is still zero
    CbtLate,     \* may CBT write marks once a review has begun?
    WindowsBack, \* may a CA window be open again, or beside the overall one?
    MaxReturns   \* bound: how often somebody returns something

ASSUME Parameters ==
    /\ Subjects # {} /\ Missing \notin Marks
    /\ {CbtLate, WindowsBack} \subseteq BOOLEAN
    /\ MaxReturns \in Nat

Components == {"ca", "exam"}
Review == {"DRAFT", "SUBMITTED", "APPROVED", "REJECTED"}
SheetStatus == {"DRAFT", "SUBMITTED_TO_DEAN", "APPROVED_BY_DEAN", "REJECTED_BY_DEAN",
                "SUBMITTED_TO_VP", "REJECTED_BY_VP", "PUBLISHED"}
CompilationStatus == {"DRAFT", "SUBMITTED_TO_DEAN_FINAL", "REJECTED_BY_DEAN_FINAL",
                      "SUBMITTED_TO_VP", "APPROVED_BY_VP", "REJECTED_BY_VP", "PUBLISHED"}
Entry == Marks \cup {Missing}
(* The student's row: the form teacher's remark, and with it the time it was*)
(* completed; the VP's judgement; the principal's comment.                  *)
Record == [remark : BOOLEAN,
           judged : {"PENDING", "REVIEWED", "REJECTED"}, comment : BOOLEAN]

VARIABLES
    open,      \* components whose academic window is open
    review,    \* the Dean's decisions inside the sheet's JSON
    cbt,       \* components whose CBT policy is enabled in that JSON
    status,    \* sheet.status
    marks,     \* the scores of the sheet
    passed,    \* the marks the Dean saw when approving the overall result
    comp,      \* compilation.status
    record,    \* the student's row in the compilation
    overruled, \* IT has used the override page
    returns    \* bound

sheets == <<review, cbt, status, marks, passed>>
class == <<comp, record, overruled>>
vars == <<open, sheets, class, returns>>

TypeOK ==
    /\ open \subseteq Components
    /\ review \in [Subjects -> [Components -> Review]]
    /\ cbt \in [Subjects -> SUBSET Components]
    /\ status \in [Subjects -> SheetStatus]
    /\ marks \in [Subjects -> [Components -> Entry]]
    /\ passed \in [Subjects -> [Components -> Entry]]
    /\ comp \in [Arms -> CompilationStatus]
    /\ record \in [Arms -> Record]
    /\ overruled \in BOOLEAN /\ returns \in Nat

Blank(v) == [c \in Components |-> v]

Init ==
    /\ open = {}
    /\ review = [s \in Subjects |-> Blank("DRAFT")]
    /\ cbt = [s \in Subjects |-> {}]
    /\ status = [s \in Subjects |-> "DRAFT"]
    /\ marks = [s \in Subjects |-> Blank(Missing)]
    /\ passed = [s \in Subjects |-> Blank(Missing)]
    /\ comp = [a \in Arms |-> "DRAFT"]
    /\ record = [a \in Arms |-> [remark |-> FALSE,
                              judged |-> "PENDING", comment |-> FALSE]]
    /\ overruled = FALSE /\ returns = 0

Return == returns < MaxReturns /\ returns' = returns + 1

-----------------------------------------------------------------------------
(* The windows.                                                             *)

OverallBegun == \E s \in Subjects : review[s]["exam"] # "DRAFT"

SetWindows(o) ==
    /\ o # open
    /\ WindowsBack \/ (o # Components /\ ~("ca" \in o /\ OverallBegun))
    /\ open' = o
    /\ UNCHANGED <<sheets, class, returns>>

-----------------------------------------------------------------------------
(* The subject teacher.                                                     *)

Editable(s) == status[s] \notin {"SUBMITTED_TO_VP", "PUBLISHED"}

(* Mutant: the lock ends with the Dean's decision.                          *)
LockedWhileWaiting(s, c) == \E k \in {"exam", c} : review[s][k] = "SUBMITTED"
Locked(s, c) ==
    \E k \in {"exam", c} : review[s][k] \in {"SUBMITTED", "APPROVED"}

(* _component_has_required_scores: the overall result needs every part.     *)
Complete(s, c) == \A k \in {c, "ca"} : marks[s][k] # Missing

(* The table saves every component that is open and unlocked, zeros too.    *)
SaveScores(s, posted) ==
    LET allowed == {c \in open : ~Locked(s, c)} IN
    /\ Editable(s) /\ allowed # {}
    /\ marks' = [marks EXCEPT ![s] =
                   [c \in Components |-> IF c \in allowed THEN posted[c] ELSE @[c]]]
    /\ UNCHANGED <<open, review, cbt, status, passed, class, returns>>

(* _sync_sheet_status_from_component_reviews                                *)
StatusFrom(r) ==
    CASE r["exam"] = "APPROVED" -> "APPROVED_BY_DEAN"
      [] r["exam"] = "REJECTED" -> "REJECTED_BY_DEAN"
      [] r["exam"] = "SUBMITTED" -> "SUBMITTED_TO_DEAN"
      [] r["exam"] = "DRAFT" /\ r["ca"] = "REJECTED" -> "REJECTED_BY_DEAN"
      [] r["exam"] = "DRAFT" /\ r["ca"] = "SUBMITTED" -> "SUBMITTED_TO_DEAN"
      [] OTHER -> "DRAFT"

(* Mutant: the component's word is copied into sheet.status.                *)
SetReviewVerbatim(s, c, to) ==
    /\ review' = [review EXCEPT ![s][c] = to]
    /\ status' = [status EXCEPT ![s] = to]
SetReview(s, c, to) ==
    LET r == [review[s] EXCEPT ![c] = to] IN
    /\ review' = [review EXCEPT ![s] = r]
    /\ status' = [status EXCEPT ![s] = StatusFrom(r)]

ActiveComponent(c) == c \in open /\ (c = "exam" \/ "exam" \notin open)

SubmitComponent(s, c) ==
    /\ ActiveComponent(c) /\ Editable(s)
    /\ review[s][c] \in {"DRAFT", "REJECTED"}
    /\ Complete(s, c)
    /\ SetReview(s, c, "SUBMITTED")
    /\ UNCHANGED <<open, cbt, marks, passed, class, returns>>

(* A CBT attempt writes its score; the first one of a component saves the   *)
(* policies without the key "review".                                       *)
CbtWriteback(s, c, m) ==
    /\ CbtLate \/ review[s] = Blank("DRAFT")
    /\ status[s] # "PUBLISHED"
    /\ marks' = [marks EXCEPT ![s][c] = m]
    /\ cbt' = [cbt EXCEPT ![s] = @ \cup {c}]
    /\ review' = IF c \in cbt[s] THEN review ELSE [review EXCEPT ![s] = Blank("DRAFT")]
    /\ UNCHANGED <<open, status, passed, class, returns>>

-----------------------------------------------------------------------------
(* The Dean's decision on one component.                                    *)

DeanApproves(s, c) ==
    /\ c \in open /\ review[s][c] = "SUBMITTED" /\ Complete(s, c)
    /\ SetReview(s, c, "APPROVED")
    /\ passed' = IF c = "exam" THEN [passed EXCEPT ![s] = marks[s]] ELSE passed
    /\ UNCHANGED <<open, cbt, marks, class, returns>>

DeanRejects(s, c) ==
    /\ Return
    /\ c \in open /\ review[s][c] = "SUBMITTED"
    /\ SetReview(s, c, "REJECTED")
    /\ UNCHANGED <<open, cbt, marks, passed, class>>

-----------------------------------------------------------------------------
(* The form teacher.                                                        *)

Approved(s) == status[s] = "APPROVED_BY_DEAN"
(* Mutant: a sheet another arm has sent on counts as approved.              *)
NonePendingOnceApproved == \A s \in Subjects : status[s] \in {"APPROVED_BY_DEAN", "SUBMITTED_TO_VP"}
NonePending == \A s \in Subjects : Approved(s)
Returned(a) == comp[a] \in {"DRAFT", "REJECTED_BY_DEAN_FINAL", "REJECTED_BY_VP"}

Completed(a) == record[a].remark

(* The student's page; IT may save it at any stage.                         *)
SaveStudentRecord(a, text, byIt) ==
    /\ byIt \/ (NonePending /\ Returned(a))
    /\ record' = [record EXCEPT ![a].remark = text,
                                ![a].judged = IF @ = "REJECTED" THEN "PENDING" ELSE @]
    /\ UNCHANGED <<open, sheets, comp, overruled, returns>>

Move(which, to) ==
    status' = [s \in Subjects |-> IF s \in which THEN to ELSE status[s]]
With(st) == {s \in Subjects : status[s] = st}

(* The class page has a button and posts no remarks.                        *)
SubmitCompilation(a) ==
    /\ NonePending /\ Returned(a) /\ Completed(a)
    /\ comp' = [comp EXCEPT ![a] = "SUBMITTED_TO_DEAN_FINAL"]
    /\ Move(With("APPROVED_BY_DEAN"), "SUBMITTED_TO_VP")
    /\ UNCHANGED <<open, review, cbt, marks, passed, record, overruled, returns>>

-----------------------------------------------------------------------------
(* The Dean's term review, the VP and IT.                                   *)

DeanTermApproves(a) ==
    /\ comp[a] = "SUBMITTED_TO_DEAN_FINAL"
    /\ comp' = [comp EXCEPT ![a] = "SUBMITTED_TO_VP"]
    /\ UNCHANGED <<open, sheets, record, overruled, returns>>

(* Mutant: the sheets stay where they are.                                  *)
DeanTermRejectsCompilationOnly(a) ==
    /\ Return
    /\ comp[a] = "SUBMITTED_TO_DEAN_FINAL"
    /\ comp' = [comp EXCEPT ![a] = "REJECTED_BY_DEAN_FINAL"]
    /\ UNCHANGED <<open, sheets, record, overruled>>

DeanTermRejects(a) ==
    /\ Return
    /\ comp[a] = "SUBMITTED_TO_DEAN_FINAL"
    /\ comp' = [comp EXCEPT ![a] = "REJECTED_BY_DEAN_FINAL"]
    /\ Move(With("SUBMITTED_TO_VP"), "APPROVED_BY_DEAN")
    /\ UNCHANGED <<open, review, cbt, marks, passed, record, overruled>>

VpComments(a, text) ==
    /\ comp[a] = "SUBMITTED_TO_VP"
    /\ record' = [record EXCEPT ![a].judged = "REVIEWED", ![a].comment = text]
    /\ UNCHANGED <<open, sheets, comp, overruled, returns>>

(* Mutant: also while the class waits for IT.                               *)
VpRejectsStudentLate(a, text) ==
    /\ Return
    /\ comp[a] \in {"SUBMITTED_TO_VP", "APPROVED_BY_VP", "PUBLISHED"}
    /\ record' = [record EXCEPT ![a].judged = "REJECTED", ![a].comment = text]
    /\ UNCHANGED <<open, sheets, comp, overruled>>

VpRejectsStudent(a, text) ==
    /\ Return
    /\ comp[a] = "SUBMITTED_TO_VP"
    /\ record' = [record EXCEPT ![a].judged = "REJECTED", ![a].comment = text]
    /\ UNCHANGED <<open, sheets, comp, overruled>>

Vetted(a) == record[a].judged = "REVIEWED" /\ record[a].comment

VpApproves(a) ==
    /\ comp[a] = "SUBMITTED_TO_VP" /\ Vetted(a)
    /\ comp' = [comp EXCEPT ![a] = "APPROVED_BY_VP"]
    /\ UNCHANGED <<open, sheets, record, overruled, returns>>

VpRejects(a) ==
    /\ Return
    /\ comp[a] = "SUBMITTED_TO_VP"
    /\ comp' = [comp EXCEPT ![a] = "REJECTED_BY_VP"]
    /\ Move(With("SUBMITTED_TO_VP"), "REJECTED_BY_VP")
    /\ UNCHANGED <<open, review, cbt, marks, passed, record, overruled>>

(* Mutant: the VP's word on the student will do.                            *)
ItPublishesOnceVetted(a) ==
    /\ comp[a] \in {"SUBMITTED_TO_VP", "APPROVED_BY_VP"} /\ Vetted(a)
    /\ comp' = [comp EXCEPT ![a] = "PUBLISHED"]
    /\ Move(Subjects, "PUBLISHED")
    /\ UNCHANGED <<open, review, cbt, marks, passed, record, overruled, returns>>

ItPublishes(a) ==
    /\ comp[a] = "APPROVED_BY_VP" /\ Vetted(a)
    /\ comp' = [comp EXCEPT ![a] = "PUBLISHED"]
    /\ Move(Subjects, "PUBLISHED")
    /\ UNCHANGED <<open, review, cbt, marks, passed, record, overruled, returns>>

(* The override page: whatever the stage.                                   *)
ItOverridePublishes(a) ==
    /\ Return
    /\ comp[a] # "PUBLISHED"
    /\ comp' = [comp EXCEPT ![a] = "PUBLISHED"]
    /\ Move(Subjects, "PUBLISHED")
    /\ overruled' = TRUE
    /\ UNCHANGED <<open, review, cbt, marks, passed, record>>

ItOverrideRejects(a) ==
    /\ Return
    /\ comp[a] \in {"SUBMITTED_TO_VP", "APPROVED_BY_VP", "PUBLISHED"}
    /\ comp' = [comp EXCEPT ![a] = "REJECTED_BY_VP"]
    /\ Move(Subjects, "REJECTED_BY_VP")
    /\ overruled' = TRUE
    /\ UNCHANGED <<open, review, cbt, marks, passed, record>>

-----------------------------------------------------------------------------
Teacher(s) ==
    \/ \E posted \in [Components -> Entry] : SaveScores(s, posted)
    \/ \E c \in Components : SubmitComponent(s, c) \/ \E m \in Marks : CbtWriteback(s, c, m)
Dean(s) == \E c \in Components : DeanApproves(s, c) \/ DeanRejects(s, c)
FormTeacher(a) ==
    SubmitCompilation(a) \/ \E text \in BOOLEAN : SaveStudentRecord(a, text, FALSE)
Vp(a) ==
    \/ VpApproves(a) \/ VpRejects(a)
    \/ \E text \in BOOLEAN : VpComments(a, text) \/ VpRejectsStudent(a, text)
It(a) ==
    \/ ItPublishes(a) \/ ItOverridePublishes(a) \/ ItOverrideRejects(a)
    \/ \E text \in BOOLEAN : SaveStudentRecord(a, text, TRUE)

Next ==
    \/ \E o \in SUBSET Components : SetWindows(o)
    \/ \E s \in Subjects : Teacher(s) \/ Dean(s)
    \/ \E a \in Arms :
          FormTeacher(a) \/ DeanTermApproves(a) \/ DeanTermRejects(a) \/ Vp(a) \/ It(a)

(* Everybody does the work in front of them, sooner or later.  What others  *)
(* can undo meanwhile (a score set to zero again, a remark emptied) needs   *)
(* strong fairness: somebody finds it done often enough to pass it on.      *)
FillsIn(s) == \E posted \in [Components -> Marks] : SaveScores(s, posted)
Diligence ==
    /\ SF_vars(\E s \in Subjects : SubmitComponent(s, "exam"))
    /\ SF_vars(\E a \in Arms : SubmitCompilation(a))
    /\ SF_vars(\E a \in Arms : VpApproves(a))
    /\ \A s \in Subjects : WF_vars(FillsIn(s)) /\ WF_vars(DeanApproves(s, "exam"))
    /\ \A a \in Arms :
          /\ WF_vars(SaveStudentRecord(a, TRUE, FALSE)) /\ WF_vars(DeanTermApproves(a))
          /\ WF_vars(VpComments(a, TRUE)) /\ WF_vars(ItPublishes(a))

Spec == Init /\ [][Next]_vars
FairSpec == Spec /\ Diligence

-----------------------------------------------------------------------------
PassedStatus == {"APPROVED_BY_DEAN", "SUBMITTED_TO_VP", "REJECTED_BY_VP", "PUBLISHED"}
InClassReview == {"SUBMITTED_TO_DEAN_FINAL", "SUBMITTED_TO_VP", "APPROVED_BY_VP"}

(* The marks a class review works on, and those a report card shows, are    *)
(* the marks the Dean approved: the overall decision locks every component  *)
(* and nothing the later stages do unlocks one (unless CBT writes late or   *)
(* IT publishes over everybody's head).                                     *)
ApprovedMarksStand ==
    ~overruled =>
        \A s \in Subjects :
            status[s] \in PassedStatus => marks[s] = passed[s]

(* While an arm's compilation is with the Dean, the VP or IT, every sheet   *)
(* of the level is held for it, and no other arm is under review: sheets    *)
(* and compilations are separate rows moved by separate requests.           *)
SheetsFollowClass ==
    ~overruled =>
        \A a \in Arms : comp[a] \in InClassReview =>
            /\ \A s \in Subjects : status[s] = "SUBMITTED_TO_VP"
            /\ \A b \in Arms \ {a} : comp[b] \notin InClassReview \cup {"PUBLISHED"}

(* An arm that was published in the ordinary way has its student vetted by  *)
(* the VP, and its sheets published, for good, although the row may still   *)
(* be saved by IT after the VP has approved the class.                      *)
PublishedIsVetted ==
    ~overruled =>
        \A a \in Arms : comp[a] = "PUBLISHED" =>
            Vetted(a) /\ \A s \in Subjects : status[s] = "PUBLISHED"

(* The requests keep the promise of ClassReview: a sheet the Dean has passed*)
(* is final, and a compilation's status says whose desk its class is on.    *)
FinalSheets == IF overruled THEN {} ELSE {s \in Subjects : status[s] \in PassedStatus}
DeskOf(c) ==
    CASE c = "SUBMITTED_TO_DEAN_FINAL" -> "Dean" [] c = "SUBMITTED_TO_VP" -> "VP"
      [] c = "APPROVED_BY_VP" -> "IT" [] c = "PUBLISHED" -> "public" [] OTHER -> "teacher"
Desks == [a \in Arms |-> IF overruled THEN "teacher" ELSE DeskOf(comp[a])]
Promise == INSTANCE ClassReview WITH
    Contents <- [Components -> Entry], approved <- FinalSheets, desk <- Desks
ClassReviewHolds == Promise!Spec

(* Once the overall window stays open and the CA marks are in, an arm of the*)
(* level is published, unless the VP or the override page returned one.    *)
ClassIsPublished ==
    (/\ <>[]("exam" \in open /\ \A s \in Subjects : marks[s]["ca"] # Missing)
     /\ [](\A a \in Arms : comp[a] # "REJECTED_BY_VP"))
    => <>(\E a \in Arms : comp[a] = "PUBLISHED")
=============================================================================
