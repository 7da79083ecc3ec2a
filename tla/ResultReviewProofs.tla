------------------------ MODULE ResultReviewProofs ------------------------
(* Theorems about ResultReview, for every value of its constants.           *)
EXTENDS ResultReview, TLAPS

-----------------------------------------------------------------------------
(* What a request does to the sheets, in the forms the proofs need.         *)

LEMMA StatusFromTypes ==
    ASSUME NEW r \in [Components -> Review]
    PROVE  /\ StatusFrom(r) \in {"DRAFT", "SUBMITTED_TO_DEAN", "APPROVED_BY_DEAN", "REJECTED_BY_DEAN"}
           /\ StatusFrom(r) = "APPROVED_BY_DEAN" => r["exam"] = "APPROVED"
BY DEF StatusFrom, Components, Review

LEMMA SetReviewTypes ==
    ASSUME TypeOK, NEW s \in Subjects, NEW c \in Components, NEW to \in Review, SetReview(s, c, to)
    PROVE  /\ review' \in [Subjects -> [Components -> Review]]
           /\ review'[s][c] = to /\ \A k \in Components \ {c} : review'[s][k] = review[s][k]
           /\ \A u \in Subjects \ {s} : review'[u] = review[u] /\ status'[u] = status[u]
           /\ status' \in [Subjects -> SheetStatus]
           /\ status'[s] \in {"DRAFT", "SUBMITTED_TO_DEAN", "APPROVED_BY_DEAN", "REJECTED_BY_DEAN"}
           /\ status'[s] = "APPROVED_BY_DEAN" => review'[s]["exam"] = "APPROVED"
<1> DEFINE r == [review[s] EXCEPT ![c] = to]
<1>1. r \in [Components -> Review] /\ r[c] = to /\ \A k \in Components \ {c} : r[k] = review[s][k]
  BY DEF TypeOK
<1>2. review' = [review EXCEPT ![s] = r] /\ status' = [status EXCEPT ![s] = StatusFrom(r)]
  BY DEF SetReview
<1>3. /\ StatusFrom(r) \in {"DRAFT", "SUBMITTED_TO_DEAN", "APPROVED_BY_DEAN", "REJECTED_BY_DEAN"}
      /\ StatusFrom(r) = "APPROVED_BY_DEAN" => r["exam"] = "APPROVED"
  BY <1>1, StatusFromTypes
<1>. HIDE DEF r
<1>. QED  BY <1>1, <1>2, <1>3 DEF TypeOK, SheetStatus

LEMMA MoveTypes ==
    ASSUME TypeOK, NEW which \in SUBSET Subjects, NEW to \in SheetStatus, Move(which, to)
    PROVE  /\ status' \in [Subjects -> SheetStatus]
           /\ \A s \in Subjects : status'[s] = IF s \in which THEN to ELSE status[s]
BY DEF Move, TypeOK

-----------------------------------------------------------------------------
(* Types.                                                                   *)

LEMMA TypeInit == Init => TypeOK
<1>1. Blank("DRAFT") \in [Components -> Review] /\ Blank(Missing) \in [Components -> Entry]
  BY DEF Blank, Review, Entry
<1>2. [remark |-> FALSE, judged |-> "PENDING", comment |-> FALSE] \in Record
  BY DEF Record
<1> SUFFICES ASSUME Init PROVE TypeOK
  OBVIOUS
<1>3. /\ review \in [Subjects -> [Components -> Review]] /\ cbt \in [Subjects -> SUBSET Components]
      /\ status \in [Subjects -> SheetStatus]
  BY <1>1 DEF Init, SheetStatus
<1>4. marks \in [Subjects -> [Components -> Entry]] /\ passed \in [Subjects -> [Components -> Entry]]
  BY <1>1 DEF Init
<1>5. comp \in [Arms -> CompilationStatus] /\ record \in [Arms -> Record]
  BY <1>2 DEF Init, CompilationStatus
<1>. QED  BY <1>3, <1>4, <1>5 DEF Init, TypeOK

LEMMA TypeStep == TypeOK /\ [Next]_vars => TypeOK'
<1> SUFFICES ASSUME TypeOK, [Next]_vars PROVE TypeOK'
  OBVIOUS
<1> USE Parameters
<1>0. returns \in Nat /\ (Return => returns' \in Nat)
  BY DEF TypeOK, Return
<1>1. ASSUME NEW o \in SUBSET Components, SetWindows(o) PROVE TypeOK'
  BY <1>1 DEF TypeOK, SetWindows, sheets, class
<1>2. ASSUME NEW s \in Subjects, NEW posted \in [Components -> Entry], SaveScores(s, posted) PROVE TypeOK'
  <2> DEFINE allowed == {c \in open : ~Locked(s, c)}
             new == [c \in Components |-> IF c \in allowed THEN posted[c] ELSE marks[s][c]]
  <2>1. new \in [Components -> Entry]
    BY DEF TypeOK
  <2>2. marks' = [marks EXCEPT ![s] = new]
    BY <1>2 DEF SaveScores, TypeOK
  <2>. HIDE DEF new
  <2>. QED  BY <1>2, <2>1, <2>2 DEF TypeOK, SaveScores, class
<1>3. ASSUME NEW s \in Subjects, NEW c \in Components, SubmitComponent(s, c) PROVE TypeOK'
  <2>1. review' \in [Subjects -> [Components -> Review]] /\ status' \in [Subjects -> SheetStatus]
    BY <1>3, SetReviewTypes DEF SubmitComponent, Review
  <2>. QED  BY <1>3, <2>1 DEF TypeOK, SubmitComponent, class
<1>4. ASSUME NEW s \in Subjects, NEW c \in Components, NEW m \in Marks, CbtWriteback(s, c, m) PROVE TypeOK'
  <2>1. Blank("DRAFT") \in [Components -> Review]
    BY DEF Blank, Review
  <2>2. [marks[s] EXCEPT ![c] = m] \in [Components -> Entry]
    BY DEF TypeOK, Entry
  <2>. QED  BY <1>4, <2>1, <2>2 DEF TypeOK, CbtWriteback, class
<1>5. ASSUME NEW s \in Subjects, NEW c \in Components, DeanApproves(s, c) PROVE TypeOK'
  <2>1. review' \in [Subjects -> [Components -> Review]] /\ status' \in [Subjects -> SheetStatus]
    BY <1>5, SetReviewTypes DEF DeanApproves, Review
  <2>. QED  BY <1>5, <2>1 DEF TypeOK, DeanApproves, class
<1>6. ASSUME NEW s \in Subjects, NEW c \in Components, DeanRejects(s, c) PROVE TypeOK'
  <2>1. review' \in [Subjects -> [Components -> Review]] /\ status' \in [Subjects -> SheetStatus]
    BY <1>6, SetReviewTypes DEF DeanRejects, Review
  <2>. QED  BY <1>0, <1>6, <2>1 DEF TypeOK, DeanRejects, class
<1>7. ASSUME NEW a \in Arms, NEW text \in BOOLEAN, NEW byIt, SaveStudentRecord(a, text, byIt) PROVE TypeOK'
  <2>1. [record[a] EXCEPT !.remark = text,
                          !.judged = IF @ = "REJECTED" THEN "PENDING" ELSE @] \in Record
    BY DEF TypeOK, Record
  <2>. QED  BY <1>7, <2>1 DEF TypeOK, SaveStudentRecord, sheets
<1>8. ASSUME NEW a \in Arms, SubmitCompilation(a) \/ DeanTermRejects(a) \/ VpRejects(a)
      PROVE TypeOK'
  <2>1. status' \in [Subjects -> SheetStatus]
    BY <1>8, MoveTypes DEF SubmitCompilation, DeanTermRejects, VpRejects, With, SheetStatus
  <2>. QED
    BY <1>0, <1>8, <2>1 DEF TypeOK, SubmitCompilation, DeanTermRejects, VpRejects, CompilationStatus
<1>9. ASSUME NEW a \in Arms, ItPublishes(a) \/ ItOverridePublishes(a) \/ ItOverrideRejects(a)
      PROVE TypeOK'
  <2>1. status' \in [Subjects -> SheetStatus]
    BY <1>9, MoveTypes DEF ItPublishes, ItOverridePublishes, ItOverrideRejects, SheetStatus
  <2>. QED
    BY <1>0, <1>9, <2>1 DEF TypeOK, ItPublishes, ItOverridePublishes, ItOverrideRejects, CompilationStatus
<1>10. ASSUME NEW a \in Arms, DeanTermApproves(a) \/ VpApproves(a) PROVE TypeOK'
  BY <1>10 DEF TypeOK, DeanTermApproves, VpApproves, CompilationStatus, sheets
<1>11. ASSUME NEW a \in Arms, NEW text \in BOOLEAN, VpComments(a, text) \/ VpRejectsStudent(a, text)
       PROVE TypeOK'
  <2>1. \A j \in {"REVIEWED", "REJECTED"} : [record[a] EXCEPT !.judged = j, !.comment = text] \in Record
    BY DEF TypeOK, Record
  <2>. QED  BY <1>0, <1>11, <2>1 DEF TypeOK, VpComments, VpRejectsStudent, sheets
<1>12. CASE UNCHANGED vars
  BY <1>12 DEF TypeOK, vars, sheets, class
<1>. QED
  BY <1>1, <1>2, <1>3, <1>4, <1>5, <1>6, <1>7, <1>8, <1>9, <1>10, <1>11, <1>12
     DEF Next, Teacher, Dean, FormTeacher, Vp, It

(* Every reachable state has the types the runs check: each request leaves  *)
(* a status the code's enumerations know.                                   *)
THEOREM TypeCorrect == Spec => []TypeOK
BY TypeInit, TypeStep, PTL DEF Spec

-----------------------------------------------------------------------------
(* The three stages agree.                                                  *)

(* As long as windows are not opened again, no CA window is open beside or  *)
(* after the overall result, so a decided sheet is decided for good.        *)
WindowInv == open # Components /\ (OverallBegun => "ca" \notin open)

(* A sheet the Dean has passed was passed as a whole, with these marks.     *)
PassedInv ==
    ~overruled => \A s \in Subjects : status[s] \in PassedStatus =>
        review[s]["exam"] = "APPROVED" /\ marks[s] = passed[s]

ReviewInv == WindowInv /\ PassedInv /\ SheetsFollowClass /\ PublishedIsVetted

LEMMA ReviewInit == Init => ReviewInv
BY DEF Init, ReviewInv, WindowInv, PassedInv, SheetsFollowClass, PublishedIsVetted, InClassReview,
       PassedStatus, Blank, OverallBegun, Components

(* The sheet does not move: the classes are as right as before.             *)
LEMMA SheetsStay ==
    ASSUME ReviewInv, UNCHANGED <<status, comp, record, overruled>>
    PROVE  (SheetsFollowClass /\ PublishedIsVetted)'
BY DEF ReviewInv, SheetsFollowClass, PublishedIsVetted, Vetted

(* A sheet that is with no class moves, not into the hands of one.          *)
LEMMA FreeSheetMoves ==
    ASSUME ReviewInv, NEW s \in Subjects, status[s] \notin {"SUBMITTED_TO_VP", "PUBLISHED"},
           \A u \in Subjects \ {s} : status'[u] = status[u],
           UNCHANGED <<comp, record, overruled>>
    PROVE  (SheetsFollowClass /\ PublishedIsVetted)'
BY DEF ReviewInv, SheetsFollowClass, PublishedIsVetted, Vetted, InClassReview

LEMMA ReviewStep ==
    ASSUME ~CbtLate, ~WindowsBack
    PROVE  TypeOK /\ ReviewInv /\ [Next]_vars => ReviewInv'
<1> SUFFICES ASSUME TypeOK, ReviewInv, [Next]_vars PROVE ReviewInv'
  OBVIOUS
<1> USE Parameters
<1>1. ASSUME NEW o \in SUBSET Components, SetWindows(o) PROVE ReviewInv'
  <2>1. WindowInv'
    BY <1>1 DEF SetWindows, WindowInv, OverallBegun, sheets
  <2>2. PassedInv' /\ (SheetsFollowClass /\ PublishedIsVetted)'
    BY <1>1, SheetsStay DEF SetWindows, sheets, class, ReviewInv, PassedInv
  <2>. QED  BY <2>1, <2>2 DEF ReviewInv
<1>2. ASSUME NEW s \in Subjects, NEW posted \in [Components -> Entry], SaveScores(s, posted) PROVE ReviewInv'
  <2>1. WindowInv' /\ (SheetsFollowClass /\ PublishedIsVetted)'
    BY <1>2, SheetsStay DEF SaveScores, ReviewInv, WindowInv, OverallBegun, class
  <2>2. \A u \in Subjects \ {s} : marks'[u] = marks[u]
    BY <1>2 DEF SaveScores, TypeOK
  <2>3. review[s]["exam"] # "APPROVED"
    BY <1>2 DEF SaveScores, Locked
  <2>. QED  BY <1>2, <2>1, <2>2, <2>3 DEF SaveScores, ReviewInv, PassedInv, class
(* A decision on a component of one sheet that is not passed yet.           *)
<1>3. ASSUME NEW s \in Subjects, NEW c \in Components, NEW to \in Review, SetReview(s, c, to),
             c \in open, UNCHANGED <<open, marks, class>>, review[s]["exam"] # "APPROVED",
             to = "APPROVED" /\ c = "exam" => passed' = [passed EXCEPT ![s] = marks[s]],
             ~(to = "APPROVED" /\ c = "exam") => passed' = passed
      PROVE  ReviewInv'
  <2>1. /\ review'[s][c] = to /\ \A k \in Components \ {c} : review'[s][k] = review[s][k]
        /\ \A u \in Subjects \ {s} : review'[u] = review[u] /\ status'[u] = status[u]
        /\ status'[s] \in {"DRAFT", "SUBMITTED_TO_DEAN", "APPROVED_BY_DEAN", "REJECTED_BY_DEAN"}
        /\ status'[s] = "APPROVED_BY_DEAN" => review'[s]["exam"] = "APPROVED"
    BY <1>3, SetReviewTypes
  <2>2. WindowInv'
    <3>1. ASSUME c = "ca" PROVE ~OverallBegun'
      <4>1. ~OverallBegun
        BY <1>3, <3>1 DEF ReviewInv, WindowInv
      <4>. QED  BY <2>1, <3>1, <4>1 DEF OverallBegun, Components
    <3>2. ASSUME c = "exam" PROVE "ca" \notin open
      BY <1>3, <3>2 DEF ReviewInv, WindowInv, Components, TypeOK
    <3>. QED  BY <1>3, <3>1, <3>2 DEF ReviewInv, WindowInv, Components
  <2>3. PassedInv'
    <3> SUFFICES ASSUME ~overruled, NEW u \in Subjects, status'[u] \in PassedStatus
                 PROVE  review'[u]["exam"] = "APPROVED" /\ marks'[u] = passed'[u]
      BY <1>3 DEF PassedInv, class
    <3>1. CASE u # s
      BY <1>3, <2>1, <3>1 DEF ReviewInv, PassedInv, TypeOK
    <3>2. CASE u = s
      <4>1. review'[s]["exam"] = "APPROVED"
        BY <2>1, <3>2 DEF PassedStatus
      <4>2. c = "exam" /\ to = "APPROVED"
        BY <1>3, <2>1, <4>1 DEF Components
      <4>. QED  BY <1>3, <3>2, <4>1, <4>2 DEF TypeOK
    <3>. QED  BY <3>1, <3>2
  <2>4. (SheetsFollowClass /\ PublishedIsVetted)'
    <3>1. CASE overruled
      BY <1>3, <3>1 DEF SheetsFollowClass, PublishedIsVetted, class
    <3>2. CASE ~overruled
      <4>1. status[s] \notin {"SUBMITTED_TO_VP", "PUBLISHED"}
        BY <1>3, <3>2 DEF ReviewInv, PassedInv, PassedStatus
      <4>. QED  BY <1>3, <2>1, <4>1, FreeSheetMoves DEF class
    <3>. QED  BY <3>1, <3>2
  <2>. QED  BY <2>2, <2>3, <2>4 DEF ReviewInv
<1>4. ASSUME NEW s \in Subjects, NEW c \in open, review[s][c] # "APPROVED" PROVE review[s]["exam"] # "APPROVED"
  BY <1>4 DEF ReviewInv, WindowInv, OverallBegun, TypeOK, Components
<1>5. ASSUME NEW s \in Subjects, NEW c \in Components, SubmitComponent(s, c) PROVE ReviewInv'
  BY <1>3, <1>4, <1>5 DEF SubmitComponent, ActiveComponent, Review, class
<1>6. ASSUME NEW s \in Subjects, NEW c \in Components, DeanApproves(s, c) PROVE ReviewInv'
  BY <1>3, <1>4, <1>6 DEF DeanApproves, Review, class
<1>7. ASSUME NEW s \in Subjects, NEW c \in Components, DeanRejects(s, c) PROVE ReviewInv'
  BY <1>3, <1>4, <1>7 DEF DeanRejects, Review, class
<1>8. ASSUME NEW s \in Subjects, NEW c \in Components, NEW m \in Marks, CbtWriteback(s, c, m) PROVE ReviewInv'
  <2>1. review[s] = Blank("DRAFT") /\ review' = review
    BY <1>8 DEF CbtWriteback, TypeOK
  <2>2. review[s]["exam"] # "APPROVED"
    BY <2>1 DEF Blank, Components
  <2>3. \A u \in Subjects \ {s} : marks'[u] = marks[u]
    BY <1>8 DEF CbtWriteback, TypeOK
  <2>4. WindowInv' /\ (SheetsFollowClass /\ PublishedIsVetted)'
    BY <1>8, <2>1, SheetsStay DEF CbtWriteback, ReviewInv, WindowInv, OverallBegun, class
  <2>. QED  BY <1>8, <2>1, <2>2, <2>3, <2>4 DEF CbtWriteback, ReviewInv, PassedInv, class
(* The remark is saved: what the VP has judged well stays judged.           *)
<1>9. ASSUME NEW a \in Arms, NEW text \in BOOLEAN, NEW byIt, SaveStudentRecord(a, text, byIt) PROVE ReviewInv'
  <2>1. \A b \in Arms : Vetted(b) => Vetted(b)'
    <3>1. record[a] \in Record /\ record \in [Arms -> Record]
      BY DEF TypeOK
    <3>. QED  BY <1>9, <3>1 DEF SaveStudentRecord, Vetted, Record
  <2>. QED
    BY <1>9, <2>1 DEF SaveStudentRecord, ReviewInv, WindowInv, OverallBegun, PassedInv, SheetsFollowClass,
       PublishedIsVetted, sheets
<1>10. ASSUME NEW a \in Arms, NEW text \in BOOLEAN, VpComments(a, text) \/ VpRejectsStudent(a, text)
       PROVE ReviewInv'
  <2>1. \A b \in Arms \ {a} : Vetted(b) => Vetted(b)'
    BY <1>10 DEF VpComments, VpRejectsStudent, Vetted, TypeOK
  <2>2. comp[a] # "PUBLISHED"
    BY <1>10 DEF VpComments, VpRejectsStudent
  <2>. QED
    BY <1>10, <2>1, <2>2 DEF VpComments, VpRejectsStudent, ReviewInv, WindowInv, OverallBegun, PassedInv,
       SheetsFollowClass, PublishedIsVetted, sheets
<1>11. ASSUME NEW a \in Arms, SubmitCompilation(a) PROVE ReviewInv'
  <2>1. /\ \A s \in Subjects : status[s] = "APPROVED_BY_DEAN" /\ status'[s] = "SUBMITTED_TO_VP"
        /\ UNCHANGED <<open, review, marks, passed, record, overruled>>
        /\ comp' = [comp EXCEPT ![a] = "SUBMITTED_TO_DEAN_FINAL"]
    BY <1>11, MoveTypes DEF SubmitCompilation, NonePending, Approved, With, SheetStatus
  <2>2. ASSUME ~overruled, NEW b \in Arms PROVE comp[b] \notin InClassReview \cup {"PUBLISHED"}
    BY <2>1, <2>2 DEF ReviewInv, SheetsFollowClass, PublishedIsVetted
  <2>3. (SheetsFollowClass /\ PublishedIsVetted)'
    BY <2>1, <2>2 DEF SheetsFollowClass, PublishedIsVetted, TypeOK
  <2>4. WindowInv' /\ PassedInv'
    BY <2>1 DEF ReviewInv, WindowInv, OverallBegun, PassedInv, PassedStatus
  <2>. QED  BY <2>3, <2>4 DEF ReviewInv
<1>12. ASSUME NEW a \in Arms, DeanTermApproves(a) \/ VpApproves(a) PROVE ReviewInv'
  <2>1. /\ comp[a] \in InClassReview /\ comp'[a] \in InClassReview
        /\ \A b \in Arms \ {a} : comp'[b] = comp[b]
        /\ UNCHANGED <<open, sheets, record, overruled>>
    BY <1>12 DEF DeanTermApproves, VpApproves, TypeOK, InClassReview
  <2>2. comp'[a] # "PUBLISHED"
    BY <2>1 DEF InClassReview
  <2>. QED
    BY <2>1, <2>2 DEF ReviewInv, WindowInv, OverallBegun, PassedInv, SheetsFollowClass, PublishedIsVetted,
       Vetted, sheets
<1>13. ASSUME NEW a \in Arms, DeanTermRejects(a) \/ VpRejects(a) PROVE ReviewInv'
  <2>1. /\ comp[a] \in InClassReview /\ comp'[a] \notin InClassReview \cup {"PUBLISHED"}
        /\ \A b \in Arms \ {a} : comp'[b] = comp[b]
        /\ UNCHANGED <<open, review, marks, passed, record, overruled>>
    BY <1>13 DEF DeanTermRejects, VpRejects, TypeOK, InClassReview
  <2>2. \A s \in Subjects :
           \/ status'[s] = status[s]
           \/ status[s] = "SUBMITTED_TO_VP" /\ status'[s] \in PassedStatus
    <3>1. ASSUME NEW to \in SheetStatus, Move(With("SUBMITTED_TO_VP"), to), NEW s \in Subjects
          PROVE  status'[s] = status[s] \/ (status[s] = "SUBMITTED_TO_VP" /\ status'[s] = to)
      BY <3>1, MoveTypes DEF With
    <3>. QED  BY <1>13, <3>1 DEF DeanTermRejects, VpRejects, SheetStatus, PassedStatus
  <2>3. WindowInv' /\ PassedInv'
    BY <2>1, <2>2 DEF ReviewInv, WindowInv, OverallBegun, PassedInv, PassedStatus
  <2>4. ASSUME ~overruled, NEW b \in Arms PROVE comp'[b] \notin InClassReview \cup {"PUBLISHED"}
    BY <2>1, <2>4 DEF ReviewInv, SheetsFollowClass
  <2>. QED  BY <2>1, <2>3, <2>4 DEF ReviewInv, SheetsFollowClass, PublishedIsVetted
<1>14. ASSUME NEW a \in Arms, ItPublishes(a) PROVE ReviewInv'
  <2>1. /\ comp[a] \in InClassReview /\ Vetted(a) /\ \A s \in Subjects : status'[s] = "PUBLISHED"
        /\ comp' = [comp EXCEPT ![a] = "PUBLISHED"]
        /\ UNCHANGED <<open, review, marks, passed, record, overruled>>
    BY <1>14, MoveTypes DEF ItPublishes, InClassReview, SheetStatus
  <2>2. ASSUME ~overruled
        PROVE  /\ \A s \in Subjects : status[s] = "SUBMITTED_TO_VP"
               /\ \A b \in Arms \ {a} : comp'[b] \notin InClassReview \cup {"PUBLISHED"}
    BY <2>1, <2>2 DEF ReviewInv, SheetsFollowClass, TypeOK
  <2>3. WindowInv' /\ PassedInv'
    BY <2>1, <2>2 DEF ReviewInv, WindowInv, OverallBegun, PassedInv, PassedStatus
  <2>4. (SheetsFollowClass /\ PublishedIsVetted)'
    <3>1. comp'[a] \notin InClassReview
      BY <2>1 DEF InClassReview, TypeOK
    <3>. QED  BY <2>1, <2>2, <3>1 DEF SheetsFollowClass, PublishedIsVetted, Vetted, TypeOK
  <2>. QED  BY <2>3, <2>4 DEF ReviewInv
<1>15. ASSUME NEW a \in Arms, ItOverridePublishes(a) \/ ItOverrideRejects(a) PROVE ReviewInv'
  BY <1>15 DEF ItOverridePublishes, ItOverrideRejects, ReviewInv, WindowInv, OverallBegun, PassedInv,
     SheetsFollowClass, PublishedIsVetted
<1>16. CASE UNCHANGED vars
  BY <1>16, SheetsStay DEF vars, sheets, class, ReviewInv, WindowInv, OverallBegun, PassedInv
<1>. QED
  BY <1>1, <1>2, <1>5, <1>6, <1>7, <1>8, <1>9, <1>10, <1>11, <1>12, <1>13, <1>14, <1>15, <1>16
     DEF Next, Teacher, Dean, FormTeacher, Vp, It

(* The windows of the CA parts close before the overall one opens, and CBT  *)
(* writes no marks once a review has begun: the cases the runs are about.   *)
Ordinary == ~CbtLate /\ ~WindowsBack

LEMMA ReviewHolds == ASSUME Ordinary PROVE Spec => []ReviewInv
<1>1. TypeOK /\ ReviewInv /\ [Next]_vars => ReviewInv'
  BY ReviewStep DEF Ordinary
<1>. QED  BY <1>1, ReviewInit, TypeInit, TypeStep, PTL DEF Spec

(* The marks in a class review and on a report card are those the Dean      *)
(* approved: the decision locks every component, and no later stage opens   *)
(* one without taking the sheet back to the teacher.                        *)
THEOREM ApprovedMarksHold == ASSUME Ordinary PROVE Spec => []ApprovedMarksStand
<1>1. ReviewInv => ApprovedMarksStand
  BY DEF ReviewInv, PassedInv, ApprovedMarksStand, PassedStatus
<1>. QED  BY <1>1, ReviewHolds, PTL

(* Whatever number of arms and subjects: while a class is under review      *)
(* every sheet of its level is held for it, and for no other arm.           *)
THEOREM SheetsFollowClassHolds == ASSUME Ordinary PROVE Spec => []SheetsFollowClass
<1>1. ReviewInv => SheetsFollowClass
  BY DEF ReviewInv
<1>. QED  BY <1>1, ReviewHolds, PTL

(* What is published in the ordinary way was vetted by the VP, and its      *)
(* sheets are published for good.                                           *)
THEOREM PublishedIsVettedHolds == ASSUME Ordinary PROVE Spec => []PublishedIsVetted
<1>1. ReviewInv => PublishedIsVetted
  BY DEF ReviewInv
<1>. QED  BY <1>1, ReviewHolds, PTL

-----------------------------------------------------------------------------
(* The requests keep the promise of ClassReview.                            *)

LEMMA DeskOfDefined ==
    /\ DeskOf("SUBMITTED_TO_DEAN_FINAL") = "Dean" /\ DeskOf("SUBMITTED_TO_VP") = "VP"
    /\ DeskOf("APPROVED_BY_VP") = "IT" /\ DeskOf("PUBLISHED") = "public"
    /\ \A c : c \notin InClassReview \cup {"PUBLISHED"} => DeskOf(c) = "teacher"
BY DEF DeskOf, InClassReview

LEMMA PromiseInit == Init => Promise!Init
<1> SUFFICES ASSUME Init PROVE Promise!Init
  OBVIOUS
<1>1. Blank(Missing) \in [Components -> Entry]
  BY DEF Blank, Entry
<1>2. FinalSheets = {}
  BY DEF Init, FinalSheets, PassedStatus
<1>3. \A a \in Arms : DeskOf(comp[a]) = "teacher"
  BY DeskOfDefined DEF Init, InClassReview
<1>. QED  BY <1>1, <1>2, <1>3 DEF Init, Promise!Init, Promise!Nowhere, Desks

(* A request that moves neither marks nor compilations, and no sheet past   *)
(* the Dean or back, is nothing to the reader.                              *)
LEMMA NothingMoves ==
    ASSUME UNCHANGED <<marks, comp, overruled>>,
           \A s \in Subjects : status'[s] \in PassedStatus <=> status[s] \in PassedStatus
    PROVE  UNCHANGED Promise!vars
BY DEF Promise!vars, FinalSheets, Desks

(* Marks of one sheet that is not final are written.                        *)
LEMMA MarksEntered ==
    ASSUME TypeOK, TypeOK', NEW s \in Subjects, overruled \/ status[s] \notin PassedStatus,
           \A u \in Subjects \ {s} : marks'[u] = marks[u], UNCHANGED <<status, comp, overruled>>
    PROVE  Promise!Enter(s)
<1>1. marks' = [marks EXCEPT ![s] = marks'[s]] /\ marks'[s] \in [Components -> Entry]
  BY DEF TypeOK
<1>2. s \notin FinalSheets /\ UNCHANGED <<FinalSheets, Desks, overruled>>
  BY DEF FinalSheets, Desks
<1>. QED  BY <1>1, <1>2 DEF Promise!Enter

(* The Dean decides, or the teacher submits, one sheet that is not final.   *)
LEMMA SheetDecided ==
    ASSUME TypeOK, ReviewInv, NEW s \in Subjects, NEW c \in Components, NEW to \in Review,
           SetReview(s, c, to), review[s]["exam"] # "APPROVED", UNCHANGED <<marks, class>>
    PROVE  Promise!Approve(s) \/ UNCHANGED Promise!vars
<1>1. /\ \A u \in Subjects \ {s} : status'[u] = status[u]
      /\ status'[s] \in {"DRAFT", "SUBMITTED_TO_DEAN", "APPROVED_BY_DEAN", "REJECTED_BY_DEAN"}
  BY SetReviewTypes
<1>2. CASE overruled
  BY <1>2 DEF class, Promise!vars, FinalSheets, Desks
<1>3. CASE ~overruled
  <2>1. status[s] \notin PassedStatus /\ UNCHANGED <<Desks, marks, overruled>>
    BY <1>3 DEF ReviewInv, PassedInv, class, Desks
  <2>2. CASE status'[s] = "APPROVED_BY_DEAN"
    <3>1. FinalSheets' = FinalSheets \cup {s}
      BY <1>1, <1>3, <2>1, <2>2 DEF FinalSheets, PassedStatus
    <3>. QED  BY <2>1, <3>1 DEF Promise!Approve
  <2>3. CASE status'[s] # "APPROVED_BY_DEAN"
    BY <1>1, <2>1, <2>3, NothingMoves DEF PassedStatus, class
  <2>. QED  BY <2>2, <2>3
<1>. QED  BY <1>2, <1>3

(* One arm's class is handed on or back; the sheets stay final.             *)
LEMMA ClassMoves ==
    ASSUME TypeOK, ~overruled, NEW a \in Arms, NEW to \in CompilationStatus,
           comp' = [comp EXCEPT ![a] = to], UNCHANGED <<marks, overruled>>,
           \A s \in Subjects : status'[s] \in PassedStatus <=> status[s] \in PassedStatus
    PROVE  /\ UNCHANGED <<marks, FinalSheets, overruled>>
           /\ Desks[a] = DeskOf(comp[a])
           /\ Desks' = [Desks EXCEPT ![a] = DeskOf(to)]
BY DEF FinalSheets, Desks, TypeOK

LEMMA PromiseStep ==
    ASSUME Ordinary
    PROVE  TypeOK /\ TypeOK' /\ ReviewInv /\ [Next]_vars => [Promise!Next]_(Promise!vars)
<1> SUFFICES ASSUME TypeOK, TypeOK', ReviewInv, [Next]_vars
             PROVE  Promise!Next \/ UNCHANGED Promise!vars
  OBVIOUS
<1> USE Parameters
<1> DEFINE Kept == Promise!Next \/ UNCHANGED Promise!vars
(* After an override nothing is final and no class is under review.         *)
<1>0. ASSUME overruled, overruled', UNCHANGED marks PROVE Kept
  BY <1>0 DEF Promise!vars, FinalSheets, Desks
<1>1. ASSUME NEW o \in SUBSET Components, SetWindows(o) PROVE Kept
  BY <1>1, NothingMoves DEF SetWindows, sheets, class
<1>2. ASSUME NEW s \in Subjects, NEW posted \in [Components -> Entry], SaveScores(s, posted) PROVE Kept
  <2>1. review[s]["exam"] # "APPROVED"
    BY <1>2 DEF SaveScores, Locked
  <2>2. overruled \/ status[s] \notin PassedStatus
    BY <2>1 DEF ReviewInv, PassedInv
  <2>3. \A u \in Subjects \ {s} : marks'[u] = marks[u]
    BY <1>2 DEF SaveScores, TypeOK
  <2>. QED  BY <1>2, <2>2, <2>3, MarksEntered DEF SaveScores, class, Promise!Next
<1>3. ASSUME NEW s \in Subjects, NEW c \in Components, NEW m \in Marks, CbtWriteback(s, c, m) PROVE Kept
  <2>1. review[s]["exam"] # "APPROVED"
    BY <1>3 DEF CbtWriteback, Blank, Components, Ordinary
  <2>2. overruled \/ status[s] \notin PassedStatus
    BY <2>1 DEF ReviewInv, PassedInv
  <2>3. \A u \in Subjects \ {s} : marks'[u] = marks[u]
    BY <1>3 DEF CbtWriteback, TypeOK
  <2>. QED  BY <1>3, <2>2, <2>3, MarksEntered DEF CbtWriteback, class, Promise!Next
<1>4. ASSUME NEW s \in Subjects, NEW c \in open, review[s][c] # "APPROVED" PROVE review[s]["exam"] # "APPROVED"
  BY <1>4 DEF ReviewInv, WindowInv, OverallBegun, TypeOK, Components
<1>5. ASSUME NEW s \in Subjects, NEW c \in Components,
             SubmitComponent(s, c) \/ DeanApproves(s, c) \/ DeanRejects(s, c)
      PROVE  Kept
  <2>1. \E to \in Review : SetReview(s, c, to)
    BY <1>5 DEF SubmitComponent, DeanApproves, DeanRejects, Review
  <2>2. review[s]["exam"] # "APPROVED" /\ UNCHANGED <<marks, class>>
    BY <1>4, <1>5 DEF SubmitComponent, DeanApproves, DeanRejects, ActiveComponent, class
  <2>. QED  BY <2>1, <2>2, SheetDecided DEF Promise!Next
<1>6. ASSUME NEW a \in Arms, NEW text \in BOOLEAN, NEW byIt, SaveStudentRecord(a, text, byIt) PROVE Kept
  BY <1>6, NothingMoves DEF SaveStudentRecord, sheets
<1>7. ASSUME NEW a \in Arms, NEW text \in BOOLEAN, VpComments(a, text) \/ VpRejectsStudent(a, text) PROVE Kept
  BY <1>7, NothingMoves DEF VpComments, VpRejectsStudent, sheets
(* All sheets were approved, so no class can be with anybody.               *)
<1>8. ASSUME NEW a \in Arms, SubmitCompilation(a) PROVE Kept
  <2>1. /\ \A s \in Subjects : status[s] = "APPROVED_BY_DEAN" /\ status'[s] = "SUBMITTED_TO_VP"
        /\ UNCHANGED <<marks, overruled>>
        /\ comp' = [comp EXCEPT ![a] = "SUBMITTED_TO_DEAN_FINAL"]
    BY <1>8, MoveTypes DEF SubmitCompilation, NonePending, Approved, With, SheetStatus
  <2>2. CASE ~overruled
    <3>1. \A b \in Arms : comp[b] \notin InClassReview \cup {"PUBLISHED"}
      BY <2>1, <2>2 DEF ReviewInv, SheetsFollowClass, PublishedIsVetted
    <3>2. FinalSheets = Subjects /\ Desks = Promise!Nowhere
      BY <2>1, <2>2, <3>1, DeskOfDefined DEF FinalSheets, PassedStatus, Desks, Promise!Nowhere
    <3>3. UNCHANGED <<marks, FinalSheets, overruled>> /\ Desks' = [Desks EXCEPT ![a] = "Dean"]
      BY <2>1, <2>2, ClassMoves, DeskOfDefined DEF CompilationStatus, PassedStatus
    <3>. QED  BY <3>2, <3>3 DEF Promise!Submit, Promise!Next
  <2>. QED  BY <1>0, <2>1, <2>2 DEF TypeOK
<1>9. ASSUME NEW a \in Arms, DeanTermApproves(a) \/ VpApproves(a) PROVE Kept
  <2>1. CASE ~overruled
    <3> DEFINE to == IF comp[a] = "SUBMITTED_TO_VP" THEN "APPROVED_BY_VP" ELSE "SUBMITTED_TO_VP"
    <3>1. /\ comp' = [comp EXCEPT ![a] = to] /\ to \in CompilationStatus
          /\ comp[a] \in {"SUBMITTED_TO_DEAN_FINAL", "SUBMITTED_TO_VP"}
          /\ UNCHANGED <<marks, status, overruled>>
      BY <1>9 DEF DeanTermApproves, VpApproves, CompilationStatus, sheets
    <3>2. /\ UNCHANGED <<marks, FinalSheets, overruled>> /\ Desks[a] = DeskOf(comp[a])
          /\ Desks' = [Desks EXCEPT ![a] = DeskOf(to)]
      BY <2>1, <3>1, ClassMoves
    <3>. QED  BY <3>1, <3>2, DeskOfDefined DEF Promise!Forward, Promise!Next
  <2>. QED  BY <1>0, <1>9, <2>1 DEF DeanTermApproves, VpApproves, sheets
<1>10. ASSUME NEW a \in Arms, DeanTermRejects(a) \/ VpRejects(a) PROVE Kept
  <2> DEFINE to == IF comp[a] = "SUBMITTED_TO_VP" THEN "REJECTED_BY_VP" ELSE "REJECTED_BY_DEAN_FINAL"
  <2>1. /\ comp' = [comp EXCEPT ![a] = to] /\ to \in CompilationStatus
        /\ to \notin InClassReview \cup {"PUBLISHED"}
        /\ comp[a] \in {"SUBMITTED_TO_DEAN_FINAL", "SUBMITTED_TO_VP"}
        /\ UNCHANGED <<marks, overruled>>
    BY <1>10 DEF DeanTermRejects, VpRejects, CompilationStatus, InClassReview
  <2>2. CASE ~overruled
    <3>1. \A s \in Subjects : status[s] = "SUBMITTED_TO_VP"
      BY <2>1, <2>2 DEF ReviewInv, SheetsFollowClass, InClassReview
    <3>2. \A s \in Subjects : status'[s] \in {"APPROVED_BY_DEAN", "REJECTED_BY_VP"}
      BY <1>10, <3>1, MoveTypes DEF DeanTermRejects, VpRejects, With, SheetStatus
    <3>3. /\ UNCHANGED <<marks, FinalSheets, overruled>> /\ Desks[a] = DeskOf(comp[a])
          /\ Desks' = [Desks EXCEPT ![a] = DeskOf(to)]
      BY <2>1, <2>2, <3>1, <3>2, ClassMoves DEF PassedStatus
    <3>. QED  BY <2>1, <3>3, DeskOfDefined DEF Promise!Return, Promise!Next
  <2>. QED  BY <1>0, <2>1, <2>2
<1>11. ASSUME NEW a \in Arms, ItPublishes(a) PROVE Kept
  <2>1. /\ comp[a] = "APPROVED_BY_VP" /\ \A s \in Subjects : status'[s] = "PUBLISHED"
        /\ comp' = [comp EXCEPT ![a] = "PUBLISHED"] /\ UNCHANGED <<marks, overruled>>
    BY <1>11, MoveTypes DEF ItPublishes, SheetStatus
  <2>2. CASE ~overruled
    <3>1. \A s \in Subjects : status[s] = "SUBMITTED_TO_VP"
      BY <2>1, <2>2 DEF ReviewInv, SheetsFollowClass, InClassReview
    <3>2. /\ UNCHANGED <<marks, FinalSheets, overruled>> /\ Desks[a] = DeskOf(comp[a])
          /\ Desks' = [Desks EXCEPT ![a] = DeskOf("PUBLISHED")]
      BY <2>1, <2>2, <3>1, ClassMoves DEF PassedStatus, CompilationStatus
    <3>. QED  BY <2>1, <3>2, DeskOfDefined DEF Promise!Forward, Promise!Next
  <2>. QED  BY <1>0, <2>1, <2>2
<1>12. ASSUME NEW a \in Arms, ItOverridePublishes(a) \/ ItOverrideRejects(a) PROVE Kept
  <2>1. overruled' = TRUE /\ UNCHANGED marks
    BY <1>12 DEF ItOverridePublishes, ItOverrideRejects
  <2>. QED  BY <2>1 DEF FinalSheets, Desks, Promise!Nowhere, Promise!Override, Promise!Next
<1>13. CASE UNCHANGED vars
  BY <1>13, NothingMoves DEF vars, sheets, class
<1>. QED
  BY <1>1, <1>2, <1>3, <1>5, <1>6, <1>7, <1>8, <1>9, <1>10, <1>11, <1>12, <1>13
     DEF Next, Teacher, Dean, FormTeacher, Vp, It

(* For any number of arms and subjects, every request maps to one step of   *)
(* ClassReview or to nothing: marks the Dean has approved never change, and *)
(* one class at a time goes over all desks before it is public.             *)
THEOREM ReviewIsPromise == ASSUME Ordinary PROVE Spec => ClassReviewHolds
<1>1. TypeOK /\ TypeOK' /\ ReviewInv /\ [Next]_vars => [Promise!Next]_(Promise!vars)
  BY PromiseStep
<1>. QED
  BY <1>1, PromiseInit, TypeCorrect, ReviewHolds, PTL DEF Spec, ClassReviewHolds, Promise!Spec
=============================================================================
