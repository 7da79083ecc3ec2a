-------------------------- MODULE CbtAttemptProofs --------------------------
(* Proofs about CbtAttempt, for any number of attempts, requests and marks. *)
EXTENDS CbtAttempt, FiniteSetTheorems, TLAPS

(* The attempts that exist are finitely many, so they can be counted.       *)
LEMMA ExistingCounted == Cardinality(Existing) \in Nat /\ IsFiniteSet(Existing)
<1>1. IsFiniteSet(Attempts)
  BY FS_Interval, Parameters DEF Attempts
<1>2. IsFiniteSet(Existing)
  BY <1>1, FS_Subset DEF Existing
<1> QED BY <1>2, FS_CardinalityType

(* A component whose metadata says "written" names two entries of a sheet.  *)
LEMMA WrittenEntries ==
  ASSUME NEW w \in Writeback, w.kind = "written"
  PROVE  w.before \in Entry /\ w.after \in Entry
BY DEF Writeback, NoWriteback, Skipped, Written

(* Metadata built from two entries of a sheet is metadata.                  *)
LEMMA WritebackTypes ==
  /\ NoWriteback \in Writeback /\ Skipped \in Writeback
  /\ \A b \in Entry, a \in Entry : Written(b, a) \in Writeback
BY DEF Writeback

(* A mark of an attempt is an entry of a sheet.                             *)
LEMMA EntryTypes ==
  \A m \in Marks, i \in Attempts \cup {Manual} : [mark |-> m, by |-> i] \in Entry
BY DEF Entry

LEMMA NoRowType == NoRow \in Row
BY WritebackTypes DEF NoRow, Row

(* Changing parts of a row leaves a row.                                    *)
Statuses == {"NONE", "IN_PROGRESS", "SUBMITTED", "FINALIZED"}
Flags == {"none", "flagged", "resolved"}

LEMMA RowScored ==
  ASSUME NEW r \in Row, NEW st \in Statuses, NEW f \in Fields, NEW w \in Writeback
  PROVE  [r EXCEPT !.status = st, !.wb[f] = w] \in Row
<1>1. r.wb \in [Fields -> Writeback]
  BY DEF Row
<1>2. [r.wb EXCEPT ![f] = w] \in [Fields -> Writeback]
  BY <1>1
<1>3. [r EXCEPT !.status = st, !.wb = [r.wb EXCEPT ![f] = w]] \in Row
  BY <1>2 DEF Row, Statuses
<1> QED BY <1>3 DEF Row

LEMMA RowNoted ==
  ASSUME NEW r \in Row, NEW fl \in Flags, NEW ws \in [Fields -> Writeback]
  PROVE  [r EXCEPT !.flag = fl, !.wb = ws] \in Row
BY DEF Row, Flags

LEMMA RowFlagged ==
  ASSUME NEW r \in Row, NEW fl \in Flags, NEW l \in BOOLEAN
  PROVE  [r EXCEPT !.locked = l, !.flag = fl] \in Row
BY DEF Row, Flags

LEMMA RowStatus ==
  ASSUME NEW r \in Row, NEW st \in Statuses
  PROVE  [r EXCEPT !.status = st] \in Row
BY DEF Row, Statuses

(* Submitting leaves a well typed row and sheet.                            *)
LEMMA SubmitTypes ==
  ASSUME TypeOK, NEW i \in Attempts, NEW m \in Marks
  PROVE  SubmittedRow(i, m) \in Row /\ SubmittedSheet(i, m) \in [Fields -> Entry]
<1>1. [mark |-> m, by |-> i] \in Entry
  BY EntryTypes
<1>2. "objective" \in Fields /\ sheet["objective"] \in Entry
  BY DEF TypeOK, Fields
<1> DEFINE w == IF Writes(row[i]) THEN Written(sheet["objective"], [mark |-> m, by |-> i])
                                  ELSE Skipped
<1>3. w \in Writeback
  BY <1>1, <1>2, WritebackTypes
<1> HIDE DEF w
<1>4. [row[i] EXCEPT !.status = "SUBMITTED", !.wb["objective"] = w] \in Row
  <2>1. row[i] \in Row
    BY DEF TypeOK
  <2>2. "SUBMITTED" \in Statuses
    BY DEF Statuses
  <2> QED BY <1>2, <1>3, <2>1, <2>2, RowScored
<1>5. SubmittedRow(i, m) \in Row
  BY <1>4 DEF SubmittedRow, w
<1>6. SubmittedSheet(i, m) \in [Fields -> Entry]
  BY <1>1 DEF SubmittedSheet, TypeOK
<1> QED BY <1>5, <1>6

(* The sheet after a revert is a sheet.                                     *)
LEMMA RevertTypes ==
  ASSUME TypeOK, NEW i \in Attempts
  PROVE  [f \in Fields |-> IF Reverts(row[i], f) THEN row[i].wb[f].before ELSE sheet[f]]
           \in [Fields -> Entry]
<1>1. SUFFICES ASSUME NEW f \in Fields, Reverts(row[i], f)
               PROVE  row[i].wb[f].before \in Entry
  BY <1>1 DEF TypeOK
<1>2. row[i] \in Row
  BY DEF TypeOK
<1>3. row[i].wb[f] \in Writeback
  BY <1>2 DEF Row
<1>4. row[i].wb[f].kind = "written"
  BY <1>1 DEF Reverts
<1> QED BY <1>3, <1>4, WrittenEntries

(* The parts of the type invariant, for steps that touch few variables.     *)
StartOK == spc \in [Starters -> {"idle", "authorised", "locked", "absent"}]
             /\ advisory \in Starters \cup {Nobody}
DeskOK == dop \in [Desks -> Ops] /\ datt \in [Desks -> Attempts] /\ dcopy \in [Desks -> Row]

LEMMA LoadTypes ==
  ASSUME TypeOK, NEW d \in Desks, NEW op \in Ops, NEW i \in Attempts, Load(d, op, i)
  PROVE  TypeOK'
BY DEF TypeOK, Load, board, start, close

LEMMA DoneTypes ==
  ASSUME TypeOK, NEW d \in Desks, Done(d)
  PROVE  DeskOK'
<1>1. "idle" \in Ops /\ 1 \in Attempts
  BY Parameters DEF Ops, Attempts
<1> QED BY <1>1, NoRowType DEF TypeOK, Done, DeskOK

(* A step that submits attempt i, or leaves rows and sheet alone.           *)
LEMMA SubmitStepTypes ==
  ASSUME TypeOK, NEW i \in Attempts,
         \/ \E m \in Marks : /\ row' = [row EXCEPT ![i] = SubmittedRow(i, m)]
                             /\ sheet' = SubmittedSheet(i, m)
         \/ UNCHANGED <<row, sheet>>
  PROVE  row' \in [Attempts -> Row] /\ sheet' \in [Fields -> Entry]
<1>1. ASSUME NEW m \in Marks, row' = [row EXCEPT ![i] = SubmittedRow(i, m)],
             sheet' = SubmittedSheet(i, m)
      PROVE  row' \in [Attempts -> Row] /\ sheet' \in [Fields -> Entry]
  BY <1>1, SubmitTypes DEF TypeOK
<1>2. ASSUME UNCHANGED <<row, sheet>>
      PROVE  row' \in [Attempts -> Row] /\ sheet' \in [Fields -> Entry]
  BY <1>2 DEF TypeOK
<1> QED BY <1>1, <1>2

(* Saving one well typed row keeps the table well typed.                    *)
LEMMA SaveRow ==
  ASSUME TypeOK, NEW i \in Attempts, NEW r \in Row, row' = [row EXCEPT ![i] = r]
  PROVE  row' \in [Attempts -> Row]
BY DEF TypeOK

LEMMA StartStepTypes ==
  ASSUME TypeOK, NEW s \in Starters,
         Authorise(s) \/ AdvisoryLock(s) \/ LookForAttempt(s) \/ CreateAttempt(s)
  PROVE  TypeOK'
<1>1. CASE Authorise(s)
  BY <1>1 DEF Authorise, TypeOK, board, desk, close
<1>2. CASE AdvisoryLock(s)
  BY <1>2 DEF AdvisoryLock, TypeOK, board, desk, close
<1>3. CASE LookForAttempt(s)
  BY <1>3 DEF LookForAttempt, TypeOK, board, desk, close
<1>4. CASE CreateAttempt(s)
  <2> DEFINE i == Cardinality(Existing) + 1
  <2>1. i \in Attempts
    BY <1>4, ExistingCounted, Parameters DEF CreateAttempt, Attempts
  <2>2. "IN_PROGRESS" \in Statuses
    BY DEF Statuses
  <2>3. [NoRow EXCEPT !.status = "IN_PROGRESS"] \in Row
    BY <2>2, NoRowType, RowStatus
  <2>4. row' = [row EXCEPT ![i] = [NoRow EXCEPT !.status = "IN_PROGRESS"]]
    BY <1>4 DEF CreateAttempt
  <2>5. row' \in [Attempts -> Row]
    BY <2>1, <2>3, <2>4, SaveRow
  <2> QED BY <1>4, <2>5 DEF CreateAttempt, TypeOK, board, desk, close
<1> QED BY <1>1, <1>2, <1>3, <1>4

LEMMA DeskLoadTypes ==
  ASSUME TypeOK, NEW d \in Desks, NEW i \in Attempts,
         LoadUnflag(d, i) \/ LoadTheory(d, i) \/ LoadNote(d, i) \/ LoadLogout(d, i)
  PROVE  TypeOK'
<1>1. PICK op \in Ops : Load(d, op, i)
  BY Zenon DEF LoadUnflag, LoadTheory, LoadNote, LoadLogout, Ops
<1> QED BY <1>1, LoadTypes

LEMMA UnlockedTypes ==
  ASSUME NEW c \in Row
  PROVE  Unlocked(c) \in Row
<1>1. (IF c.flag = "none" THEN "none" ELSE "resolved") \in Flags
  BY DEF Flags
<1> QED BY <1>1, RowFlagged DEF Unlocked

(* What the steps of a desk save is well typed.                             *)
LEMMA ResumeTypes ==
  ASSUME TypeOK, NEW d \in Desks, Resume(d)
  PROVE  TypeOK'
<1>1. dcopy[d] \in Row /\ datt[d] \in Attempts
  BY DEF TypeOK
<1>2. "IN_PROGRESS" \in Statuses
  BY DEF Statuses
<1>3. [Unlocked(dcopy[d]) EXCEPT !.status = "IN_PROGRESS"] \in Row
  BY <1>1, <1>2, UnlockedTypes, RowStatus
<1>4. row' \in [Attempts -> Row]
  BY <1>1, <1>3, SaveRow DEF Resume
<1>5. reopens' \in Nat
  BY DEF Resume, TypeOK
<1>6. DeskOK'
  BY DoneTypes DEF Resume
<1> QED BY <1>4, <1>5, <1>6 DEF TypeOK, DeskOK, Resume, board, start, close

LEMMA ReleaseTypes ==
  ASSUME TypeOK, NEW d \in Desks, Release(d)
  PROVE  TypeOK'
<1> DEFINE i == datt[d]
<1>1. dcopy[d] \in Row /\ i \in Attempts /\ row[i] \in Row
  BY DEF TypeOK
<1>2. "FINALIZED" \in Statuses
  BY DEF Statuses
<1>3. row' \in [Attempts -> Row] /\ sheet' \in [Fields -> Entry]
  <2>1. CASE row' = [row EXCEPT ![i] = [Unlocked(dcopy[d]) EXCEPT !.status = "FINALIZED"]]
               /\ UNCHANGED sheet
    <3>1. [Unlocked(dcopy[d]) EXCEPT !.status = "FINALIZED"] \in Row
      BY <1>1, <1>2, UnlockedTypes, RowStatus
    <3> QED BY <1>1, <2>1, <3>1, SaveRow DEF TypeOK
  <2>2. CASE row' = [row EXCEPT ![i].status = "FINALIZED"] /\ UNCHANGED sheet
    <3>1. [row[i] EXCEPT !.status = "FINALIZED"] \in Row
      BY <1>1, <1>2, RowStatus
    <3>2. row' = [row EXCEPT ![i] = [row[i] EXCEPT !.status = "FINALIZED"]]
      BY <1>1, <2>2 DEF TypeOK
    <3> QED BY <1>1, <2>2, <3>1, <3>2, SaveRow DEF TypeOK
  <2>3. ASSUME NEW m \in Marks,
               row' = [row EXCEPT ![i] = [SubmittedRow(i, m) EXCEPT !.status = "FINALIZED"]],
               sheet' = SubmittedSheet(i, m)
        PROVE  row' \in [Attempts -> Row] /\ sheet' \in [Fields -> Entry]
    <3>1. [SubmittedRow(i, m) EXCEPT !.status = "FINALIZED"] \in Row
      BY <1>1, <1>2, SubmitTypes, RowStatus
    <3> QED BY <1>1, <2>3, <3>1, SaveRow, SubmitTypes
  <2> QED BY <2>1, <2>2, <2>3, Zenon DEF Release
<1>4. DeskOK'
  BY DoneTypes DEF Release
<1> QED BY <1>3, <1>4 DEF TypeOK, DeskOK, Release, board, start, close

LEMMA TheoryTypes ==
  ASSUME TypeOK, NEW d \in Desks, Theory(d)
  PROVE  TypeOK'
<1> DEFINE i == datt[d]
           c == dcopy[d]
<1>1. c \in Row /\ i \in Attempts /\ row[i] \in Row
  BY DEF TypeOK
<1>2. c.flag \in Flags /\ c.wb \in [Fields -> Writeback] /\ "theory" \in Fields
  BY <1>1 DEF Row, Flags, Fields
<1>3. ASSUME NEW ws \in [Fields -> Writeback],
             row' = [row EXCEPT ![i].flag = c.flag, ![i].wb = ws]
      PROVE  row' \in [Attempts -> Row]
  <2>1. [row[i] EXCEPT !.flag = c.flag, !.wb = ws] \in Row
    BY <1>1, <1>2, RowNoted
  <2>2. row' = [row EXCEPT ![i] = [row[i] EXCEPT !.flag = c.flag, !.wb = ws]]
    BY <1>1, <1>3 DEF TypeOK
  <2> QED BY <1>1, <2>1, <2>2, SaveRow
<1>4. row' \in [Attempts -> Row] /\ sheet' \in [Fields -> Entry]
  <2>1. CASE row' = [row EXCEPT ![i].flag = c.flag, ![i].wb = c.wb] /\ UNCHANGED sheet
    BY <1>2, <1>3, <2>1 DEF TypeOK
  <2>2. ASSUME NEW m \in Marks,
               row' = [row EXCEPT ![i].flag = c.flag,
                         ![i].wb = [c.wb EXCEPT !["theory"] =
                                      Written(sheet["theory"], [mark |-> m, by |-> i])]],
               sheet' = [sheet EXCEPT !["theory"] = [mark |-> m, by |-> i]]
        PROVE  row' \in [Attempts -> Row] /\ sheet' \in [Fields -> Entry]
    <3>1. [mark |-> m, by |-> i] \in Entry
      BY <1>1, EntryTypes
    <3>2. Written(sheet["theory"], [mark |-> m, by |-> i]) \in Writeback
      BY <1>2, <3>1, WritebackTypes DEF TypeOK
    <3>3. [c.wb EXCEPT !["theory"] = Written(sheet["theory"], [mark |-> m, by |-> i])]
            \in [Fields -> Writeback]
      BY <1>2, <3>2
    <3>4. row' \in [Attempts -> Row]
      BY <1>3, <2>2, <3>3
    <3> QED BY <2>2, <3>1, <3>4 DEF TypeOK
  <2>3. CASE row' = [row EXCEPT ![i].flag = c.flag,
                       ![i].wb = [c.wb EXCEPT !["theory"] = Skipped]] /\ UNCHANGED sheet
    <3>1. [c.wb EXCEPT !["theory"] = Skipped] \in [Fields -> Writeback]
      BY <1>2, WritebackTypes
    <3> QED BY <1>3, <2>3, <3>1 DEF TypeOK
  <2> QED BY <2>1, <2>2, <2>3, Zenon DEF Theory
<1>5. DeskOK'
  BY DoneTypes DEF Theory
<1> QED BY <1>4, <1>5 DEF TypeOK, DeskOK, Theory, board, start, close

LEMMA NoteTypes ==
  ASSUME TypeOK, NEW d \in Desks, Note(d)
  PROVE  TypeOK'
<1> DEFINE i == datt[d]
           c == dcopy[d]
<1>1. c \in Row /\ i \in Attempts /\ row[i] \in Row
  BY DEF TypeOK
<1>2. c.flag \in Flags /\ c.wb \in [Fields -> Writeback]
  BY <1>1 DEF Row, Flags
<1>3. [row[i] EXCEPT !.flag = c.flag, !.wb = c.wb] \in Row
  BY <1>1, <1>2, RowNoted
<1>4. row' = [row EXCEPT ![i] = [row[i] EXCEPT !.flag = c.flag, !.wb = c.wb]]
  BY <1>1 DEF TypeOK, Note
<1>5. row' \in [Attempts -> Row]
  BY <1>1, <1>3, <1>4, SaveRow
<1>6. DeskOK'
  BY DoneTypes DEF Note
<1> QED BY <1>5, <1>6 DEF TypeOK, DeskOK, Note, board, start, close

LEMMA LogoutTypes ==
  ASSUME TypeOK, NEW d \in Desks, LogoutSubmit(d) \/ LogoutFinalize(d)
  PROVE  TypeOK'
<1> DEFINE i == datt[d]
<1>1. i \in Attempts /\ row[i] \in Row
  BY DEF TypeOK
<1>2. CASE LogoutSubmit(d)
  <2>1. row' \in [Attempts -> Row] /\ sheet' \in [Fields -> Entry]
    BY <1>1, <1>2, SubmitStepTypes, Zenon DEF LogoutSubmit
  <2>2. dop' \in [Desks -> Ops]
    BY <1>2 DEF LogoutSubmit, TypeOK, Ops
  <2> QED BY <1>2, <2>1, <2>2 DEF LogoutSubmit, TypeOK, board, start, close
<1>3. CASE LogoutFinalize(d)
  <2>1. [row[i] EXCEPT !.status = "FINALIZED"] \in Row
    BY <1>1, RowStatus DEF Statuses
  <2>2. row' = row \/ row' = [row EXCEPT ![i] = [row[i] EXCEPT !.status = "FINALIZED"]]
    BY <1>1, <1>3 DEF LogoutFinalize, TypeOK
  <2>3. row' \in [Attempts -> Row]
    BY <1>1, <2>1, <2>2, SaveRow DEF TypeOK
  <2>4. DeskOK'
    BY <1>3, DoneTypes DEF LogoutFinalize
  <2> QED BY <1>3, <2>3, <2>4 DEF LogoutFinalize, TypeOK, DeskOK, board, start, close
<1> QED BY <1>2, <1>3

LEMMA AttemptStepTypes ==
  ASSUME TypeOK, NEW i \in Attempts, Submit(i) \/ Flag(i) \/ CloseSubmit(i)
  PROVE  TypeOK'
<1>1. CASE Submit(i)
  <2>1. row' \in [Attempts -> Row] /\ sheet' \in [Fields -> Entry]
    BY <1>1, SubmitStepTypes, Zenon DEF Submit
  <2> QED BY <1>1, <2>1 DEF Submit, TypeOK, board, start, desk, close
<1>2. CASE Flag(i)
  <2>1. sheet' \in [Fields -> Entry]
    BY <1>2, RevertTypes DEF Flag
  <2>2. row[i] \in Row /\ "flagged" \in Flags
    BY DEF TypeOK, Flags
  <2>3. [row[i] EXCEPT !.locked = TRUE, !.flag = "flagged"] \in Row
    BY <2>2, RowFlagged
  <2>4. row' = [row EXCEPT ![i] = [row[i] EXCEPT !.locked = TRUE, !.flag = "flagged"]]
    BY <1>2 DEF Flag, TypeOK
  <2>5. row' \in [Attempts -> Row]
    BY <2>3, <2>4, SaveRow
  <2> QED BY <1>2, <2>1, <2>5 DEF Flag, TypeOK, board, start, desk, close
<1>3. CASE CloseSubmit(i)
  <2>1. row' \in [Attempts -> Row] /\ sheet' \in [Fields -> Entry]
    BY <1>3, SubmitStepTypes, Zenon DEF CloseSubmit
  <2> QED BY <1>3, <2>1 DEF CloseSubmit, TypeOK, board, start, desk
<1> QED BY <1>1, <1>2, <1>3

LEMMA WindowStepTypes ==
  ASSUME TypeOK, Expire \/ CloseBegin \/ CloseEnd \/ Extend \/ Publish
  PROVE  TypeOK'
<1>1. CASE Expire
  BY <1>1 DEF Expire, TypeOK, start, desk, close
<1>2. CASE CloseBegin
  BY <1>2 DEF CloseBegin, TypeOK, InProgress, board, start, desk
<1>3. CASE CloseEnd
  BY <1>3 DEF CloseEnd, TypeOK, start, desk
<1>4. CASE Extend
  <2>1. \A i \in Attempts : row[i] \in Row /\ "IN_PROGRESS" \in Statuses
    BY DEF TypeOK, Statuses
  <2>2. \A i \in Attempts : [row[i] EXCEPT !.status = "IN_PROGRESS"] \in Row
    BY <2>1, RowStatus
  <2>3. row' \in [Attempts -> Row]
    BY <1>4, <2>1, <2>2, Zenon DEF Extend
  <2>4. reopens' \in Nat
    BY <1>4 DEF Extend, TypeOK
  <2> QED BY <1>4, <2>3, <2>4 DEF Extend, TypeOK, start, desk, close
<1>5. CASE Publish
  BY <1>5 DEF Publish, TypeOK, start, desk, close
<1> QED BY <1>1, <1>2, <1>3, <1>4, <1>5

LEMMA InitTypes == Init => TypeOK
<1> SUFFICES ASSUME Init PROVE TypeOK
  OBVIOUS
<1>1. 1 \in Attempts /\ "idle" \in Ops
  BY Parameters DEF Attempts, Ops
<1>2. sheet \in [Fields -> Entry]
  <2>1. PICK m \in Marks : sheet = [f \in Fields |-> [mark |-> m, by |-> Manual]]
    BY DEF Init
  <2> QED BY <2>1, EntryTypes
<1> QED BY <1>1, <1>2, NoRowType DEF Init, TypeOK

LEMMA NextTypes == TypeOK /\ [Next]_vars => TypeOK'
<1> SUFFICES ASSUME TypeOK, [Next]_vars PROVE TypeOK'
  OBVIOUS
<1>1. ASSUME NEW s \in Starters,
             Authorise(s) \/ AdvisoryLock(s) \/ LookForAttempt(s) \/ CreateAttempt(s)
      PROVE  TypeOK'
  BY <1>1, StartStepTypes
<1>2. ASSUME NEW i \in Attempts, Submit(i) \/ Flag(i) \/ CloseSubmit(i)
      PROVE  TypeOK'
  BY <1>2, AttemptStepTypes
<1>3. ASSUME NEW d \in Desks, NEW i \in Attempts,
             LoadUnflag(d, i) \/ LoadTheory(d, i) \/ LoadNote(d, i) \/ LoadLogout(d, i)
      PROVE  TypeOK'
  BY <1>3, DeskLoadTypes
<1>4. ASSUME NEW d \in Desks,
             Resume(d) \/ Release(d) \/ Theory(d) \/ Note(d) \/ LogoutSubmit(d) \/ LogoutFinalize(d)
      PROVE  TypeOK'
  BY <1>4, ResumeTypes, ReleaseTypes, TheoryTypes, NoteTypes, LogoutTypes
<1>5. CASE UNCHANGED vars
  BY <1>5 DEF vars, board, start, desk, close, TypeOK
<1> QED BY <1>1, <1>2, <1>3, <1>4, <1>5, WindowStepTypes, Zenon DEF Next

(* Every reachable state is well typed: whatever the requests save from     *)
(* their copies, attempts, metadata and sheet keep their shape.             *)
THEOREM TypeCorrect == Spec => []TypeOK
<1>1. Init => TypeOK
  BY InitTypes
<1>2. TypeOK /\ [Next]_vars => TypeOK'
  BY NextTypes
<1> QED BY <1>1, <1>2, PTL DEF Spec

-----------------------------------------------------------------------------
(* OneOpenAttempt.  The lookup under the advisory lock stays true until the *)
(* row is created: only the holder of the lock can be between the two, and  *)
(* nothing else but IT's reopening brings an attempt into progress.         *)

OneOpenInv ==
    reopens = 0 =>
        /\ \A i, j \in InProgress : i = j
        /\ \A s \in Starters : spc[s] \in {"locked", "absent"} => advisory = s
        /\ \A s \in Starters : spc[s] = "absent" => InProgress = {}

(* Saving one row whose status is not IN_PROGRESS, or is what it was, opens *)
(* nothing.                                                                 *)
LEMMA SaveOpensNothing ==
  ASSUME TypeOK, NEW i \in Attempts, NEW r \in Row, row' = [row EXCEPT ![i] = r],
         r.status # "IN_PROGRESS" \/ r.status = row[i].status
  PROVE  InProgress' \subseteq InProgress
BY DEF TypeOK, InProgress

LEMMA SubmittedStatus ==
  ASSUME TypeOK, NEW i \in Attempts, NEW m \in Marks
  PROVE  SubmittedRow(i, m).status = "SUBMITTED"
<1> DEFINE w == IF Writes(row[i]) THEN Written(sheet["objective"], [mark |-> m, by |-> i])
                                  ELSE Skipped
<1>1. row[i] \in Row
  BY DEF TypeOK
<1>2. SubmittedRow(i, m) = [row[i] EXCEPT !.status = "SUBMITTED", !.wb["objective"] = w]
  BY DEF SubmittedRow
<1> HIDE DEF w
<1> QED BY <1>1, <1>2 DEF Row

LEMMA SubmitOpensNothing ==
  ASSUME TypeOK, NEW i \in Attempts,
         \/ \E m \in Marks : row' = [row EXCEPT ![i] = SubmittedRow(i, m)]
         \/ row' = row
  PROVE  InProgress' \subseteq InProgress
<1>1. ASSUME NEW m \in Marks, row' = [row EXCEPT ![i] = SubmittedRow(i, m)]
      PROVE  InProgress' \subseteq InProgress
  <2>1. SubmittedRow(i, m) \in Row /\ SubmittedRow(i, m).status = "SUBMITTED"
    BY SubmitTypes, SubmittedStatus
  <2> QED BY <1>1, <2>1, SaveOpensNothing
<1>2. ASSUME row' = row PROVE InProgress' \subseteq InProgress
  BY <1>2 DEF InProgress
<1> QED BY <1>1, <1>2

LEMMA AttemptStepOpensNothing ==
  ASSUME TypeOK, NEW i \in Attempts, Submit(i) \/ Flag(i) \/ CloseSubmit(i)
  PROVE  InProgress' \subseteq InProgress
<1>1. CASE Submit(i)
  BY <1>1, SubmitOpensNothing, Zenon DEF Submit
<1>2. CASE Flag(i)
  <2>1. row[i] \in Row /\ "flagged" \in Flags
    BY DEF TypeOK, Flags
  <2>2. [row[i] EXCEPT !.locked = TRUE, !.flag = "flagged"] \in Row
    BY <2>1, RowFlagged
  <2>3. row' = [row EXCEPT ![i] = [row[i] EXCEPT !.locked = TRUE, !.flag = "flagged"]]
    BY <1>2 DEF Flag, TypeOK
  <2>4. [row[i] EXCEPT !.locked = TRUE, !.flag = "flagged"].status = row[i].status
    BY <2>1 DEF Row
  <2> QED BY <2>2, <2>3, <2>4, SaveOpensNothing
<1>3. CASE CloseSubmit(i)
  BY <1>3, SubmitOpensNothing, Zenon DEF CloseSubmit
<1> QED BY <1>1, <1>2, <1>3

(* The desks, other than Resume.                                            *)
LEMMA SavedNoteOpensNothing ==
  ASSUME TypeOK, NEW i \in Attempts, NEW fl \in Flags, NEW ws \in [Fields -> Writeback],
         row' = [row EXCEPT ![i].flag = fl, ![i].wb = ws]
  PROVE  InProgress' \subseteq InProgress
<1> DEFINE r == [row[i] EXCEPT !.flag = fl, !.wb = ws]
<1>1. row[i] \in Row
  BY DEF TypeOK
<1>2. r \in Row
  BY <1>1, RowNoted
<1>3. r.status = row[i].status
  BY <1>1 DEF Row
<1>4. row' = [row EXCEPT ![i] = r]
  BY DEF TypeOK
<1> QED BY <1>2, <1>3, <1>4, SaveOpensNothing

LEMMA FinalizedOpensNothing ==
  ASSUME TypeOK, NEW i \in Attempts, NEW r \in Row,
         row' = [row EXCEPT ![i] = [r EXCEPT !.status = "FINALIZED"]]
  PROVE  InProgress' \subseteq InProgress
<1>1. [r EXCEPT !.status = "FINALIZED"] \in Row
  BY RowStatus DEF Statuses
<1>2. [r EXCEPT !.status = "FINALIZED"].status = "FINALIZED"
  BY DEF Row
<1> QED BY <1>1, <1>2, SaveOpensNothing

LEMMA DeskStepOpensNothing ==
  ASSUME TypeOK, NEW d \in Desks,
         Release(d) \/ Theory(d) \/ Note(d) \/ LogoutSubmit(d) \/ LogoutFinalize(d)
  PROVE  InProgress' \subseteq InProgress
<1> DEFINE i == datt[d]
           c == dcopy[d]
<1>1. i \in Attempts /\ c \in Row /\ row[i] \in Row
  BY DEF TypeOK
<1>2. c.flag \in Flags /\ c.wb \in [Fields -> Writeback]
  BY <1>1 DEF Row, Flags
<1>3. CASE Release(d)
  <2>1. CASE row' = [row EXCEPT ![i] = [Unlocked(c) EXCEPT !.status = "FINALIZED"]]
    BY <1>1, <2>1, UnlockedTypes, FinalizedOpensNothing
  <2>2. CASE row' = [row EXCEPT ![i].status = "FINALIZED"]
    <3>1. row' = [row EXCEPT ![i] = [row[i] EXCEPT !.status = "FINALIZED"]]
      BY <1>1, <2>2 DEF TypeOK
    <3> QED BY <1>1, <3>1, FinalizedOpensNothing
  <2>3. ASSUME NEW m \in Marks,
               row' = [row EXCEPT ![i] = [SubmittedRow(i, m) EXCEPT !.status = "FINALIZED"]]
        PROVE  InProgress' \subseteq InProgress
    BY <1>1, <2>3, SubmitTypes, FinalizedOpensNothing
  <2> QED BY <1>3, <2>1, <2>2, <2>3, Zenon DEF Release
<1>4. CASE Theory(d)
  <2>1. PICK ws \in [Fields -> Writeback] : row' = [row EXCEPT ![i].flag = c.flag, ![i].wb = ws]
    <3>1. ASSUME NEW w \in Writeback
          PROVE  [c.wb EXCEPT !["theory"] = w] \in [Fields -> Writeback]
      BY <1>2
    <3>2. ASSUME NEW m \in Marks
          PROVE  Written(sheet["theory"], [mark |-> m, by |-> i]) \in Writeback
      <4>1. sheet["theory"] \in Entry
        BY DEF TypeOK, Fields
      <4> QED BY <1>1, <4>1, EntryTypes, WritebackTypes
    <3> QED BY <1>2, <1>4, <3>1, <3>2, WritebackTypes, Zenon DEF Theory
  <2> QED BY <1>1, <1>2, <2>1, SavedNoteOpensNothing
<1>5. CASE Note(d)
  BY <1>1, <1>2, <1>5, SavedNoteOpensNothing DEF Note
<1>6. CASE LogoutSubmit(d)
  BY <1>1, <1>6, SubmitOpensNothing, Zenon DEF LogoutSubmit
<1>7. CASE LogoutFinalize(d)
  <2>1. CASE row' = row
    BY <2>1 DEF InProgress
  <2>2. CASE row' = [row EXCEPT ![i].status = "FINALIZED"]
    <3>1. row' = [row EXCEPT ![i] = [row[i] EXCEPT !.status = "FINALIZED"]]
      BY <1>1, <2>2 DEF TypeOK
    <3> QED BY <1>1, <3>1, FinalizedOpensNothing
  <2> QED BY <1>7, <2>1, <2>2, Zenon DEF LogoutFinalize
<1> QED BY <1>3, <1>4, <1>5, <1>6, <1>7

(* A step that opens nothing and leaves the starting requests alone.        *)
LEMMA QuietStep ==
  ASSUME OneOpenInv, InProgress' \subseteq InProgress, UNCHANGED start, reopens' = reopens
  PROVE  OneOpenInv'
BY DEF OneOpenInv, start

(* IT's reopening is counted.                                               *)
LEMMA ReopenStep ==
  ASSUME TypeOK, reopens' = reopens + 1
  PROVE  OneOpenInv'
BY DEF TypeOK, OneOpenInv

LEMMA StartStepOneOpen ==
  ASSUME TypeOK, OneOpenInv, NEW s \in Starters,
         Authorise(s) \/ AdvisoryLock(s) \/ LookForAttempt(s) \/ CreateAttempt(s)
  PROVE  OneOpenInv'
<1>1. CASE Authorise(s)
  BY <1>1 DEF Authorise, OneOpenInv, TypeOK, InProgress
<1>2. CASE AdvisoryLock(s)
  BY <1>2, Parameters DEF AdvisoryLock, OneOpenInv, TypeOK, InProgress
<1>3. CASE LookForAttempt(s)
  BY <1>3 DEF LookForAttempt, OneOpenInv, TypeOK, InProgress
<1>4. CASE CreateAttempt(s)
  <2>1. SUFFICES ASSUME reopens = 0 PROVE OneOpenInv'
    BY <1>4, <2>1 DEF CreateAttempt, OneOpenInv
  <2> DEFINE i == Cardinality(Existing) + 1
  <2>2. InProgress = {} /\ advisory = s
    BY <1>4, <2>1 DEF CreateAttempt, OneOpenInv
  <2>3. InProgress' \subseteq {i}
    BY <1>4, <2>2 DEF CreateAttempt, InProgress, TypeOK
  <2>4. \A t \in Starters : spc'[t] \notin {"locked", "absent"}
    BY <1>4, <2>1, <2>2 DEF CreateAttempt, OneOpenInv, TypeOK
  <2> QED BY <2>3, <2>4 DEF OneOpenInv
<1> QED BY <1>1, <1>2, <1>3, <1>4

LEMMA NextOneOpen == TypeOK /\ OneOpenInv /\ [Next]_vars => OneOpenInv'
<1> SUFFICES ASSUME TypeOK, OneOpenInv, [Next]_vars PROVE OneOpenInv'
  OBVIOUS
<1>1. ASSUME NEW s \in Starters,
             Authorise(s) \/ AdvisoryLock(s) \/ LookForAttempt(s) \/ CreateAttempt(s)
      PROVE  OneOpenInv'
  BY <1>1, StartStepOneOpen
<1>2. ASSUME NEW i \in Attempts, Submit(i) \/ Flag(i) \/ CloseSubmit(i)
      PROVE  OneOpenInv'
  <2>1. UNCHANGED start /\ reopens' = reopens
    BY <1>2, Zenon DEF Submit, Flag, CloseSubmit
  <2> QED BY <1>2, <2>1, AttemptStepOpensNothing, QuietStep
<1>3. ASSUME NEW d \in Desks, NEW i \in Attempts,
             LoadUnflag(d, i) \/ LoadTheory(d, i) \/ LoadNote(d, i) \/ LoadLogout(d, i)
      PROVE  OneOpenInv'
  <2>1. row' = row /\ UNCHANGED start /\ reopens' = reopens
    BY <1>3, Zenon DEF LoadUnflag, LoadTheory, LoadNote, LoadLogout, Load
  <2>2. InProgress' \subseteq InProgress
    BY <2>1 DEF InProgress
  <2> QED BY <2>1, <2>2, QuietStep
<1>4. ASSUME NEW d \in Desks, Resume(d)
      PROVE  OneOpenInv'
  BY <1>4, ReopenStep DEF Resume
<1>5. ASSUME NEW d \in Desks,
             Release(d) \/ Theory(d) \/ Note(d) \/ LogoutSubmit(d) \/ LogoutFinalize(d)
      PROVE  OneOpenInv'
  <2>1. UNCHANGED start /\ reopens' = reopens
    BY <1>5, Zenon DEF Release, Theory, Note, LogoutSubmit, LogoutFinalize
  <2> QED BY <1>5, <2>1, DeskStepOpensNothing, QuietStep
<1>6. CASE Extend
  BY <1>6, ReopenStep DEF Extend
<1>7. CASE Expire \/ CloseBegin \/ CloseEnd \/ Publish \/ UNCHANGED vars
  <2>1. row' = row /\ UNCHANGED start /\ reopens' = reopens
    BY <1>7, Zenon DEF Expire, CloseBegin, CloseEnd, Publish, vars
  <2>2. InProgress' \subseteq InProgress
    BY <2>1 DEF InProgress
  <2> QED BY <2>1, <2>2, QuietStep
<1> QED BY <1>1, <1>2, <1>3, <1>4, <1>5, <1>6, <1>7, Zenon DEF Next

LEMMA InitOneOpen == Init => OneOpenInv
BY DEF Init, OneOpenInv, InProgress, NoRow

(* At most one element means cardinality at most one.                       *)
LEMMA OneOpenCounted == OneOpenInv => OneOpenAttempt
<1> SUFFICES ASSUME OneOpenInv, reopens = 0 PROVE Cardinality(InProgress) <= 1
  BY DEF OneOpenAttempt
<1>1. CASE InProgress = {}
  BY <1>1, FS_EmptySet
<1>2. CASE InProgress # {}
  <2>1. PICK i : i \in InProgress
    BY <1>2
  <2>2. InProgress = {i}
    BY <2>1 DEF OneOpenInv
  <2>3. Cardinality({i}) = 1
    BY FS_Singleton
  <2> QED BY <2>2, <2>3
<1> QED BY <1>1, <1>2

(* However many requests start the exam at once, and whatever else happens, *)
(* the student never has two attempts in progress before IT reopens one.    *)
THEOREM OneOpenAttemptHolds == Spec => []OneOpenAttempt
<1>1. Init => TypeOK /\ OneOpenInv
  BY InitTypes, InitOneOpen
<1>2. TypeOK /\ OneOpenInv /\ [Next]_vars => TypeOK' /\ OneOpenInv'
  BY NextTypes, NextOneOpen
<1>3. OneOpenInv => OneOpenAttempt
  BY OneOpenCounted
<1> QED BY <1>1, <1>2, <1>3, PTL DEF Spec

-----------------------------------------------------------------------------
(* Flags and the sheet, for a paper without theory.  A desk that saves a    *)
(* flag then saves a copy of a locked row, and a locked row is flagged.     *)

NoTheory == TheoryEnabled = FALSE

(* Attempts are numbered from 1 without a gap, and only an existing one is  *)
(* flagged.                                                                 *)
NumberInv ==
    /\ \E k \in 0 .. MaxAttempts : Existing = 1 .. k
    /\ \A i \in Attempts : row[i].flag = "flagged" => i \in Existing

LockInv == \A i \in Attempts : row[i].locked => row[i].flag = "flagged"

CopyInv ==
    \A d \in Desks :
        /\ dop[d] # "theory"
        /\ dop[d] # "idle" => datt[d] \in Existing
        /\ dop[d] \in {"note", "resume", "release"} => dcopy[d].flag = "flagged"

FlagInv == NumberInv /\ LockInv /\ CopyInv

(* Before IT reopens anything, what is in progress was never submitted, and *)
(* what is or may again be called flagged has no score in the sheet.        *)
FirstFor(f) ==
    /\ \A i \in Attempts :
          /\ row[i].status = "IN_PROGRESS" => row[i].wb[f].kind # "written"
          /\ row[i].status \in {"NONE", "IN_PROGRESS"} => sheet[f].by # i
          /\ row[i].flag = "flagged" => sheet[f].by # i
    /\ \A d \in Desks : dop[d] = "note" =>
          /\ sheet[f].by # datt[d]
          /\ row[datt[d]].status = "IN_PROGRESS" =>
                row[datt[d]].flag = "flagged" /\ dcopy[d].wb[f].kind # "written"

FirstInv == reopens = 0 => \A f \in Fields : FirstFor(f)

(* What a step does to rows, sheet and desks, as far as the three           *)
(* invariants care.  Saves only change one row.                             *)
Keeps(i) == \A j \in Attempts : j # i => row'[j] = row[j]

DesksLeft ==
    \A d \in Desks :
        \/ dop'[d] = dop[d] /\ datt'[d] = datt[d] /\ dcopy'[d] = dcopy[d]
        \/ dop'[d] = "idle"
        \/ dop[d] = "logout" /\ dop'[d] = "finalize" /\ datt'[d] = datt[d]

Quiet == DesksLeft /\ reopens' = reopens /\ (published => published')

Rests == Quiet /\ row' = row /\ sheet' = sheet

Marked(i) ==
    /\ Quiet /\ Keeps(i) /\ row[i].status = "IN_PROGRESS"
    /\ row'[i].status \in {"SUBMITTED", "FINALIZED"}
    /\ row'[i].flag = row[i].flag /\ row'[i].locked = row[i].locked
    /\ sheet'["theory"] = sheet["theory"]
    /\ IF Writes(row[i]) THEN sheet'["objective"].by = i
                         ELSE sheet'["objective"] = sheet["objective"]

Struck(i) ==
    /\ Quiet /\ Keeps(i) /\ row[i].status = "IN_PROGRESS"
    /\ row'[i].status = "IN_PROGRESS" /\ row'[i].wb = row[i].wb /\ row'[i].flag = "flagged"
    /\ \A f \in Fields : row[i].wb[f].kind # "written" => sheet'[f] = sheet[f]

NotedBy(d) ==
    LET i == datt[d] IN
    /\ Quiet /\ Keeps(i) /\ dop[d] = "note" /\ sheet' = sheet
    /\ row'[i].status = row[i].status /\ row'[i].locked = row[i].locked
    /\ row'[i].flag = "flagged" /\ row'[i].wb = dcopy[d].wb

Freed(i, ops) == \E d \in Desks : dop[d] \in ops /\ datt[d] = i /\ dop'[d] = "idle"

Ended(i) ==
    /\ Quiet /\ Keeps(i) /\ i \in Existing /\ sheet' = sheet
    /\ row'[i].status = "FINALIZED"
    /\ \/ row'[i].flag = row[i].flag /\ row'[i].locked = row[i].locked
       \/ row'[i].flag # "flagged" /\ ~row'[i].locked /\ Freed(i, {"release"})

Created(i) ==
    /\ Quiet /\ Keeps(i) /\ sheet' = sheet
    /\ row[i].status = "NONE" /\ Existing' = 1 .. i
    /\ row'[i] = [NoRow EXCEPT !.status = "IN_PROGRESS"]

Reopened ==
    /\ DesksLeft /\ reopens' = reopens + 1 /\ published' = published /\ sheet' = sheet
    /\ \A i \in Attempts :
        \/ row'[i] = row[i]
        \/ /\ i \in Existing /\ row'[i].status = "IN_PROGRESS"
           /\ \/ row'[i].flag = row[i].flag /\ row'[i].locked = row[i].locked
              \/ row'[i].flag # "flagged" /\ ~row'[i].locked /\ Freed(i, {"resume"})

Taken(d) ==
    /\ row' = row /\ sheet' = sheet /\ reopens' = reopens /\ published' = published
    /\ \A e \in Desks : e # d =>
          dop'[e] = dop[e] /\ datt'[e] = datt[e] /\ dcopy'[e] = dcopy[e]
    /\ dop'[d] # "theory" /\ datt'[d] \in Existing /\ dcopy'[d] = row[datt'[d]]
    /\ dop'[d] \in {"note", "resume", "release"} => row[datt'[d]].locked

Effect ==
    \/ Rests \/ Reopened
    \/ \E i \in Attempts : Marked(i) \/ Struck(i) \/ Ended(i) \/ Created(i)
    \/ \E d \in Desks : NotedBy(d) \/ Taken(d)

(* Saving a row.                                                            *)
LEMMA Saved ==
  ASSUME TypeOK, NEW i \in Attempts, NEW r, row' = [row EXCEPT ![i] = r]
  PROVE  Keeps(i) /\ row'[i] = r
BY DEF TypeOK, Keeps

(* A desk that is done, or whose variables are left alone, leaves.          *)
LEMMA DeskLeaves ==
  ASSUME TypeOK, \/ UNCHANGED desk
                 \/ \E d \in Desks : Done(d)
  PROVE  DesksLeft
BY DEF TypeOK, Done, DesksLeft, desk

(* Submitting keeps lock and flag, and writes the attempt's own score.      *)
LEMMA SubmittedParts ==
  ASSUME TypeOK, NEW i \in Attempts, NEW m \in Marks
  PROVE  /\ SubmittedRow(i, m).flag = row[i].flag
         /\ SubmittedRow(i, m).locked = row[i].locked
         /\ SubmittedSheet(i, m)["theory"] = sheet["theory"]
         /\ IF Writes(row[i]) THEN SubmittedSheet(i, m)["objective"].by = i
               ELSE SubmittedSheet(i, m)["objective"] = sheet["objective"]
<1> DEFINE w == IF Writes(row[i]) THEN Written(sheet["objective"], [mark |-> m, by |-> i])
                                  ELSE Skipped
<1>1. row[i] \in Row
  BY DEF TypeOK
<1>2. SubmittedRow(i, m) = [row[i] EXCEPT !.status = "SUBMITTED", !.wb["objective"] = w]
  BY DEF SubmittedRow
<1> HIDE DEF w
<1>3. SubmittedRow(i, m).flag = row[i].flag /\ SubmittedRow(i, m).locked = row[i].locked
  BY <1>1, <1>2 DEF Row
<1>4. sheet \in [Fields -> Entry] /\ "objective" \in Fields /\ "theory" \in Fields
  BY DEF TypeOK, Fields
<1>5. CASE Writes(row[i])
  BY <1>3, <1>4, <1>5 DEF SubmittedSheet
<1>6. CASE ~Writes(row[i])
  BY <1>3, <1>6 DEF SubmittedSheet
<1> QED BY <1>5, <1>6

LEMMA SubmitMarks ==
  ASSUME TypeOK, Quiet, NEW i \in Attempts, row[i].status = "IN_PROGRESS",
         \E m \in Marks : row' = [row EXCEPT ![i] = SubmittedRow(i, m)]
                          /\ sheet' = SubmittedSheet(i, m)
  PROVE  Marked(i)
<1>1. PICK m \in Marks : row' = [row EXCEPT ![i] = SubmittedRow(i, m)]
                         /\ sheet' = SubmittedSheet(i, m)
  OBVIOUS
<1>2. Keeps(i) /\ row'[i] = SubmittedRow(i, m)
  BY <1>1, Saved
<1>3. SubmittedRow(i, m).status = "SUBMITTED"
  BY SubmittedStatus
<1> QED BY <1>1, <1>2, <1>3, SubmittedParts DEF Marked

LEMMA ReleaseMarks ==
  ASSUME TypeOK, Quiet, NEW i \in Attempts, row[i].status = "IN_PROGRESS",
         \E m \in Marks :
            row' = [row EXCEPT ![i] = [SubmittedRow(i, m) EXCEPT !.status = "FINALIZED"]]
            /\ sheet' = SubmittedSheet(i, m)
  PROVE  Marked(i)
<1>1. PICK m \in Marks :
         row' = [row EXCEPT ![i] = [SubmittedRow(i, m) EXCEPT !.status = "FINALIZED"]]
         /\ sheet' = SubmittedSheet(i, m)
  OBVIOUS
<1> DEFINE r == SubmittedRow(i, m)
<1>2. r \in Row /\ r.flag = row[i].flag /\ r.locked = row[i].locked
  BY SubmitTypes, SubmittedParts
<1>3. Keeps(i) /\ row'[i] = [r EXCEPT !.status = "FINALIZED"]
  BY <1>1, Saved
<1> HIDE DEF r
<1>4. row'[i].status = "FINALIZED" /\ row'[i].flag = row[i].flag
        /\ row'[i].locked = row[i].locked
  BY <1>2, <1>3 DEF Row
<1> QED BY <1>1, <1>3, <1>4, SubmittedParts DEF Marked

(* The starting requests and the window.                                    *)
LEMMA CreateEffect ==
  ASSUME TypeOK, NumberInv, NEW s \in Starters, CreateAttempt(s)
  PROVE  \E i \in Attempts : Created(i)
<1> DEFINE i == Cardinality(Existing) + 1
<1>1. PICK k \in 0 .. MaxAttempts : Existing = 1 .. k
  BY DEF NumberInv
<1>2. Cardinality(Existing) = k
  BY <1>1, FS_Interval, Parameters
<1>3. i \in Attempts /\ i \notin Existing /\ i = k + 1
  BY <1>1, <1>2, Parameters DEF CreateAttempt, Attempts
<1> HIDE DEF i
<1>4. row' = [row EXCEPT ![i] = [NoRow EXCEPT !.status = "IN_PROGRESS"]]
  BY DEF CreateAttempt, i
<1>5. Keeps(i) /\ row'[i] = [NoRow EXCEPT !.status = "IN_PROGRESS"]
  BY <1>3, <1>4, Saved
<1>6. row'[i].status # "NONE"
  BY <1>5 DEF NoRow
<1>7. Existing' = Existing \cup {i}
  BY <1>3, <1>5, <1>6 DEF Existing, Keeps
<1>8. Existing' = 1 .. i
  BY <1>1, <1>3, <1>7, Parameters
<1>9. row[i].status = "NONE"
  BY <1>3 DEF Existing
<1>10. Quiet
  BY DeskLeaves DEF CreateAttempt, Quiet, board
<1> QED BY <1>3, <1>5, <1>8, <1>9, <1>10 DEF Created, CreateAttempt

LEMMA ExtendEffect ==
  ASSUME TypeOK, Extend
  PROVE  Reopened
<1>1. ASSUME NEW i \in Attempts
      PROVE  \/ row'[i] = row[i]
             \/ /\ i \in Existing /\ row'[i].status = "IN_PROGRESS"
                /\ row'[i].flag = row[i].flag /\ row'[i].locked = row[i].locked
  <2>1. row[i] \in Row
    BY DEF TypeOK
  <2>2. CASE row[i].status \in {"IN_PROGRESS", "SUBMITTED"} /\ ~row[i].locked
    <3>1. row'[i] = [row[i] EXCEPT !.status = "IN_PROGRESS"]
      BY <2>2 DEF Extend
    <3> QED BY <2>1, <2>2, <3>1 DEF Row, Existing
  <2>3. CASE ~(row[i].status \in {"IN_PROGRESS", "SUBMITTED"} /\ ~row[i].locked)
    BY <2>3 DEF Extend
  <2> QED BY <2>2, <2>3
<1>2. DesksLeft
  BY DeskLeaves DEF Extend
<1> QED BY <1>1, <1>2 DEF Extend, Reopened

LEMMA AttemptEffect ==
  ASSUME TypeOK, NEW i \in Attempts, Submit(i) \/ Flag(i) \/ CloseSubmit(i)
  PROVE  Effect
<1>0. Quiet
  <2>1. UNCHANGED <<board, desk, reopens>>
    BY Zenon DEF Submit, Flag, CloseSubmit
  <2> QED BY <2>1, DeskLeaves DEF Quiet, board
<1>1. CASE Submit(i)
  BY <1>0, <1>1, SubmitMarks, Zenon DEF Submit, Effect
<1>2. CASE CloseSubmit(i)
  <2>1. CASE row[i].status = "IN_PROGRESS"
    BY <1>0, <1>2, <2>1, SubmitMarks, Zenon DEF CloseSubmit, Effect
  <2>2. CASE row[i].status # "IN_PROGRESS"
    BY <1>0, <1>2, <2>2, Zenon DEF CloseSubmit, Effect, Rests
  <2> QED BY <2>1, <2>2
<1>3. CASE Flag(i)
  <2>1. row[i] \in Row /\ row[i].status = "IN_PROGRESS"
    BY <1>3 DEF TypeOK, Flag
  <2>2. row' = [row EXCEPT ![i] = [row[i] EXCEPT !.locked = TRUE, !.flag = "flagged"]]
    BY <1>3 DEF TypeOK, Flag
  <2>3. Keeps(i) /\ row'[i] = [row[i] EXCEPT !.locked = TRUE, !.flag = "flagged"]
    BY <2>2, Saved
  <2>4. row'[i].status = row[i].status /\ row'[i].wb = row[i].wb /\ row'[i].flag = "flagged"
    BY <2>1, <2>3 DEF Row
  <2>5. \A f \in Fields : row[i].wb[f].kind # "written" => sheet'[f] = sheet[f]
    BY <1>3 DEF Flag, Reverts
  <2>6. Struck(i)
    BY <1>0, <2>1, <2>3, <2>4, <2>5 DEF Struck
  <2> QED BY <2>6 DEF Effect
<1> QED BY <1>1, <1>2, <1>3

(* The desks, of a paper without theory.                                    *)
LEMMA LoadEffect ==
  ASSUME TypeOK, LockInv, NoTheory, NEW d \in Desks, NEW i \in Attempts,
         LoadUnflag(d, i) \/ LoadTheory(d, i) \/ LoadNote(d, i) \/ LoadLogout(d, i)
  PROVE  Taken(d)
<1>1. PICK op \in {"resume", "release", "note", "logout", "finalize"} :
         Load(d, op, i) /\ (op \in {"note", "resume", "release"} => row[i].locked)
  <2>1. CASE LoadUnflag(d, i)
    BY <2>1 DEF LoadUnflag
  <2>2. CASE LoadTheory(d, i)
    BY <2>2 DEF LoadTheory, NoTheory
  <2>3. CASE LoadNote(d, i)
    BY <2>3 DEF LoadNote, NoTheory
  <2>4. CASE LoadLogout(d, i)
    <3>1. CASE row[i].status = "IN_PROGRESS"
      BY <2>4, <3>1 DEF LoadLogout
    <3>2. CASE row[i].status # "IN_PROGRESS"
      BY <2>4, <3>2 DEF LoadLogout
    <3> QED BY <3>1, <3>2
  <2> QED BY <2>1, <2>2, <2>3, <2>4
<1>2. dop' = [dop EXCEPT ![d] = op] /\ datt' = [datt EXCEPT ![d] = i]
        /\ dcopy' = [dcopy EXCEPT ![d] = row[i]]
        /\ UNCHANGED <<board, row, sheet, reopens>> /\ i \in Existing
  BY <1>1 DEF Load
<1>3. dop'[d] = op /\ datt'[d] = i /\ dcopy'[d] = row[i]
        /\ \A e \in Desks : e # d =>
              dop'[e] = dop[e] /\ datt'[e] = datt[e] /\ dcopy'[e] = dcopy[e]
  BY <1>2 DEF TypeOK
<1> QED BY <1>1, <1>2, <1>3 DEF Taken, board

LEMMA UnlockedParts ==
  ASSUME NEW c \in Row, NEW st \in Statuses
  PROVE  /\ [Unlocked(c) EXCEPT !.status = st].status = st
         /\ [Unlocked(c) EXCEPT !.status = st].flag # "flagged"
         /\ ~[Unlocked(c) EXCEPT !.status = st].locked
<1>1. c.flag \in Flags
  BY DEF Row, Flags
<1> QED BY <1>1 DEF Row, Unlocked, Flags

LEMMA ResumeEffect ==
  ASSUME TypeOK, CopyInv, NEW d \in Desks, Resume(d)
  PROVE  Reopened
<1> DEFINE i == datt[d]
           r == [Unlocked(dcopy[d]) EXCEPT !.status = "IN_PROGRESS"]
<1>1. i \in Attempts /\ dcopy[d] \in Row /\ i \in Existing
  BY DEF TypeOK, CopyInv, Resume
<1>2. r.status = "IN_PROGRESS" /\ r.flag # "flagged" /\ ~r.locked
  BY <1>1, UnlockedParts DEF Statuses
<1>3. Keeps(i) /\ row'[i] = r
  BY <1>1, Saved DEF Resume
<1>4. DesksLeft /\ dop'[d] = "idle"
  BY DeskLeaves DEF Resume, Done, TypeOK
<1> HIDE DEF r
<1>5. Freed(i, {"resume"})
  BY <1>4 DEF Freed, Resume
<1>6. reopens' = reopens + 1 /\ published' = published /\ sheet' = sheet
  BY DEF Resume, board
<1> HIDE DEF i
<1> QED BY <1>1, <1>2, <1>3, <1>4, <1>5, <1>6 DEF Reopened, Keeps

LEMMA ReleaseEffect ==
  ASSUME TypeOK, CopyInv, NEW d \in Desks, Release(d)
  PROVE  Effect
<1> DEFINE i == datt[d]
<1>1. i \in Attempts /\ dcopy[d] \in Row /\ i \in Existing /\ row[i] \in Row
  BY DEF TypeOK, CopyInv, Release
<1>2. Quiet /\ dop'[d] = "idle" /\ dop[d] = "release"
  BY DeskLeaves DEF Release, Quiet, board, Done, TypeOK
<1>3. Freed(i, {"release"})
  BY <1>2 DEF Freed
<1>4. CASE row' = [row EXCEPT ![i] = [Unlocked(dcopy[d]) EXCEPT !.status = "FINALIZED"]]
             /\ UNCHANGED sheet
  <2> DEFINE r == [Unlocked(dcopy[d]) EXCEPT !.status = "FINALIZED"]
  <2>1. r.status = "FINALIZED" /\ r.flag # "flagged" /\ ~r.locked
    BY <1>1, UnlockedParts DEF Statuses
  <2>2. Keeps(i) /\ row'[i] = r
    BY <1>1, <1>4, Saved
  <2> HIDE DEF r
  <2>3. Ended(i)
    BY <1>1, <1>2, <1>3, <1>4, <2>1, <2>2 DEF Ended
  <2> QED BY <1>1, <2>3 DEF Effect
<1>5. CASE row' = [row EXCEPT ![i].status = "FINALIZED"] /\ UNCHANGED sheet
  <2>1. row' = [row EXCEPT ![i] = [row[i] EXCEPT !.status = "FINALIZED"]]
    BY <1>1, <1>5 DEF TypeOK
  <2>2. Keeps(i) /\ row'[i] = [row[i] EXCEPT !.status = "FINALIZED"]
    BY <1>1, <2>1, Saved
  <2>3. row'[i].status = "FINALIZED" /\ row'[i].flag = row[i].flag
          /\ row'[i].locked = row[i].locked
    BY <1>1, <2>2 DEF Row
  <2>4. Ended(i)
    BY <1>1, <1>2, <1>5, <2>2, <2>3 DEF Ended
  <2> QED BY <1>1, <2>4 DEF Effect
<1>6. CASE row[i].status = "IN_PROGRESS" /\ \E m \in Marks :
             /\ row' = [row EXCEPT ![i] = [SubmittedRow(i, m) EXCEPT !.status = "FINALIZED"]]
             /\ sheet' = SubmittedSheet(i, m)
  <2>1. Marked(i)
    BY <1>1, <1>2, <1>6, ReleaseMarks
  <2> QED BY <1>1, <2>1 DEF Effect
<1> QED BY <1>4, <1>5, <1>6, Zenon DEF Release

LEMMA NoteEffect ==
  ASSUME TypeOK, CopyInv, NEW d \in Desks, Note(d)
  PROVE  NotedBy(d)
<1> DEFINE i == datt[d]
           c == dcopy[d]
<1>1. i \in Attempts /\ c \in Row /\ row[i] \in Row /\ c.flag = "flagged"
  BY DEF TypeOK, CopyInv, Note
<1>2. row' = [row EXCEPT ![i] = [row[i] EXCEPT !.flag = c.flag, !.wb = c.wb]]
  BY <1>1 DEF TypeOK, Note
<1>3. Keeps(i) /\ row'[i] = [row[i] EXCEPT !.flag = c.flag, !.wb = c.wb]
  BY <1>1, <1>2, Saved
<1>4. row'[i].status = row[i].status /\ row'[i].locked = row[i].locked
        /\ row'[i].flag = c.flag /\ row'[i].wb = c.wb
  BY <1>1, <1>3 DEF Row
<1>5. Quiet
  BY DeskLeaves DEF Note, Quiet, board
<1> QED BY <1>1, <1>3, <1>4, <1>5 DEF NotedBy, Note

LEMMA LogoutEffect ==
  ASSUME TypeOK, CopyInv, NEW d \in Desks, LogoutSubmit(d) \/ LogoutFinalize(d)
  PROVE  Effect
<1> DEFINE i == datt[d]
<1>1. i \in Attempts /\ i \in Existing /\ row[i] \in Row
  BY DEF TypeOK, CopyInv, LogoutSubmit, LogoutFinalize
<1>2. CASE LogoutSubmit(d)
  <2>1. DesksLeft
    BY <1>2 DEF LogoutSubmit, TypeOK, DesksLeft
  <2>2. Quiet
    BY <1>2, <2>1 DEF LogoutSubmit, Quiet, board
  <2>3. CASE row[i].status = "IN_PROGRESS"
    <3>1. \E m \in Marks : row' = [row EXCEPT ![i] = SubmittedRow(i, m)]
                           /\ sheet' = SubmittedSheet(i, m)
      BY <1>2, <2>3 DEF LogoutSubmit
    <3>2. Marked(i)
      BY <1>1, <2>2, <2>3, <3>1, SubmitMarks
    <3> QED BY <1>1, <3>2 DEF Effect
  <2>4. CASE row[i].status # "IN_PROGRESS"
    BY <1>2, <2>2, <2>4 DEF LogoutSubmit, Effect, Rests
  <2> QED BY <2>3, <2>4
<1>3. CASE LogoutFinalize(d)
  <2>1. Quiet
    BY <1>3, DeskLeaves DEF LogoutFinalize, Quiet, board
  <2>2. CASE row' = row
    BY <1>3, <2>1, <2>2 DEF LogoutFinalize, Effect, Rests
  <2>3. CASE row' = [row EXCEPT ![i].status = "FINALIZED"]
    <3>1. row' = [row EXCEPT ![i] = [row[i] EXCEPT !.status = "FINALIZED"]]
      BY <1>1, <2>3 DEF TypeOK
    <3>2. Keeps(i) /\ row'[i] = [row[i] EXCEPT !.status = "FINALIZED"]
      BY <1>1, <3>1, Saved
    <3>3. row'[i].status = "FINALIZED" /\ row'[i].flag = row[i].flag
            /\ row'[i].locked = row[i].locked
      BY <1>1, <3>2 DEF Row
    <3>4. Ended(i)
      BY <1>1, <1>3, <2>1, <3>2, <3>3 DEF LogoutFinalize, Ended
    <3> QED BY <1>1, <3>4 DEF Effect
  <2> QED BY <1>3, <2>2, <2>3, Zenon DEF LogoutFinalize
<1> QED BY <1>2, <1>3

(* Every step has one of these effects.                                     *)
LEMMA NextEffect ==
  ASSUME TypeOK, FlagInv, NoTheory, [Next]_vars
  PROVE  Effect
<1>1. ASSUME NEW s \in Starters,
             Authorise(s) \/ AdvisoryLock(s) \/ LookForAttempt(s) \/ CreateAttempt(s)
      PROVE  Effect
  <2>1. CASE CreateAttempt(s)
    BY <2>1, CreateEffect, Zenon DEF FlagInv, Effect
  <2>2. CASE Authorise(s) \/ AdvisoryLock(s) \/ LookForAttempt(s)
    <3>1. UNCHANGED <<board, row, sheet, desk, reopens>>
      BY <2>2, Zenon DEF Authorise, AdvisoryLock, LookForAttempt
    <3> QED BY <3>1, DeskLeaves DEF Effect, Rests, Quiet, board
  <2> QED BY <1>1, <2>1, <2>2
<1>2. ASSUME NEW i \in Attempts, Submit(i) \/ Flag(i) \/ CloseSubmit(i)
      PROVE  Effect
  BY <1>2, AttemptEffect
<1>3. ASSUME NEW d \in Desks, NEW i \in Attempts,
             LoadUnflag(d, i) \/ LoadTheory(d, i) \/ LoadNote(d, i) \/ LoadLogout(d, i)
      PROVE  Effect
  BY <1>3, LoadEffect, Zenon DEF FlagInv, Effect
<1>4. ASSUME NEW d \in Desks,
             Resume(d) \/ Release(d) \/ Theory(d) \/ Note(d) \/ LogoutSubmit(d) \/ LogoutFinalize(d)
      PROVE  Effect
  <2>1. ~Theory(d)
    BY DEF Theory, FlagInv, CopyInv
  <2> QED BY <1>4, <2>1, ResumeEffect, ReleaseEffect, NoteEffect, LogoutEffect, Zenon
          DEF FlagInv, Effect
<1>5. CASE Extend
  BY <1>5, ExtendEffect DEF Effect
<1>6. CASE Expire \/ CloseBegin \/ CloseEnd \/ Publish \/ UNCHANGED vars
  <2>1. UNCHANGED <<row, sheet, desk, reopens>>
    BY <1>6, Zenon DEF Expire, CloseBegin, CloseEnd, Publish, vars
  <2>2. published => published'
    BY <1>6 DEF Expire, CloseBegin, CloseEnd, Publish, vars, board
  <2> QED BY <2>1, <2>2, DeskLeaves DEF Effect, Rests, Quiet
<1> QED BY <1>1, <1>2, <1>3, <1>4, <1>5, <1>6, Zenon DEF Next

LEMMA InitFlag == Init /\ NoTheory => FlagInv
<1> SUFFICES ASSUME Init PROVE FlagInv
  OBVIOUS
<1>1. Existing = 1 .. 0
  BY DEF Init, Existing, NoRow
<1>2. 0 \in 0 .. MaxAttempts
  BY Parameters
<1>3. \A i \in Attempts : row[i].flag # "flagged" /\ ~row[i].locked
  BY DEF Init, NoRow
<1>4. \A d \in Desks : dop[d] = "idle"
  BY DEF Init
<1> QED BY <1>1, <1>2, <1>3, <1>4 DEF FlagInv, NumberInv, LockInv, CopyInv

(* What the effects leave of the rows' numbering and locks.                 *)
LEMMA NumbersKept ==
  ASSUME TypeOK, FlagInv, Effect
  PROVE  NumberInv' /\ Existing \subseteq Existing' /\ LockInv'
<1>1. ASSUME NEW i \in Attempts, Created(i)
      PROVE  NumberInv' /\ Existing \subseteq Existing' /\ LockInv'
  <2>1. row'[i].status = "IN_PROGRESS" /\ row'[i].flag = "none" /\ ~row'[i].locked
    BY <1>1 DEF Created, NoRow
  <2>2. Existing \subseteq Existing'
    BY <1>1, <2>1 DEF Created, Keeps, Existing
  <2>3. i \in 0 .. MaxAttempts
    BY Parameters DEF Attempts
  <2>4. \E k \in 0 .. MaxAttempts : Existing' = 1 .. k
    BY <1>1, <2>3 DEF Created
  <2> QED BY <1>1, <2>1, <2>2, <2>4 DEF Created, Keeps, FlagInv, NumberInv, LockInv
<1>2. ASSUME Existing' = Existing,
             \A i \in Attempts : row'[i].flag = "flagged" =>
                row[i].flag = "flagged" \/ i \in Existing,
             \A i \in Attempts : row'[i].locked =>
                (row[i].locked /\ row'[i].flag = row[i].flag) \/ row'[i].flag = "flagged"
      PROVE  NumberInv' /\ Existing \subseteq Existing' /\ LockInv'
  BY <1>2 DEF FlagInv, NumberInv, LockInv
<1>3. ASSUME NEW i \in Attempts, Marked(i) \/ Struck(i) \/ Ended(i)
      PROVE  NumberInv' /\ Existing \subseteq Existing' /\ LockInv'
  <2>1. i \in Existing /\ row'[i].status # "NONE" /\ Keeps(i)
    BY <1>3 DEF Marked, Struck, Ended, Existing
  <2>2. Existing' = Existing
    BY <2>1 DEF Keeps, Existing
  <2>3. row'[i].locked =>
          (row[i].locked /\ row'[i].flag = row[i].flag) \/ row'[i].flag = "flagged"
    BY <1>3, Zenon DEF Marked, Struck, Ended
  <2> QED BY <1>2, <2>1, <2>2, <2>3 DEF Keeps
<1>4. ASSUME NEW d \in Desks, NotedBy(d)
      PROVE  NumberInv' /\ Existing \subseteq Existing' /\ LockInv'
  <2> DEFINE i == datt[d]
  <2>1. i \in Existing /\ Keeps(i) /\ row'[i].status = row[i].status
          /\ row'[i].flag = "flagged"
    BY <1>4 DEF NotedBy, FlagInv, CopyInv
  <2> HIDE DEF i
  <2>2. Existing' = Existing
    BY <2>1 DEF Keeps, Existing
  <2> QED BY <1>2, <2>1, <2>2 DEF Keeps
<1>5. CASE Reopened
  <2>1. Existing' = Existing
    BY <1>5 DEF Reopened, Existing
  <2>2. \A i \in Attempts : row'[i].flag = "flagged" =>
           row[i].flag = "flagged" \/ i \in Existing
    BY <1>5, Zenon DEF Reopened
  <2>3. \A i \in Attempts : row'[i].locked =>
           (row[i].locked /\ row'[i].flag = row[i].flag) \/ row'[i].flag = "flagged"
    BY <1>5, Zenon DEF Reopened
  <2> QED BY <1>2, <2>1, <2>2, <2>3
<1>6. ASSUME row' = row
      PROVE  NumberInv' /\ Existing \subseteq Existing' /\ LockInv'
  BY <1>2, <1>6 DEF Existing
<1> QED BY <1>1, <1>3, <1>4, <1>5, <1>6, Zenon DEF Effect, Rests, Taken

LEMMA CopiesKept ==
  ASSUME FlagInv, Effect, Existing \subseteq Existing'
  PROVE  CopyInv'
<1>1. CASE DesksLeft
  BY <1>1 DEF FlagInv, CopyInv, DesksLeft
<1>2. ASSUME NEW d \in Desks, Taken(d)
      PROVE  CopyInv'
  BY <1>2 DEF FlagInv, CopyInv, LockInv, Taken, Existing
<1> QED BY <1>1, <1>2, Zenon
        DEF Effect, Rests, Reopened, Marked, Struck, Ended, Created, NotedBy, Quiet

LEMMA NextFlag == TypeOK /\ FlagInv /\ NoTheory /\ [Next]_vars => FlagInv' /\ Effect
BY NextEffect, NumbersKept, CopiesKept DEF FlagInv

-----------------------------------------------------------------------------
(* FlagStays.                                                               *)

LEMMA EffectKeepsFlags ==
  ASSUME TypeOK, FlagInv, Effect, NEW i \in Attempts,
         row[i].flag = "flagged", row'[i].flag # "flagged"
  PROVE  Freed(i, {"resume", "release"})
<1>1. ASSUME NEW j \in Attempts, Marked(j) \/ Struck(j)
      PROVE  FALSE
  BY <1>1 DEF Marked, Struck, Keeps
<1>2. ASSUME NEW j \in Attempts, Ended(j)
      PROVE  Freed(i, {"resume", "release"})
  BY <1>2 DEF Ended, Keeps, Freed
<1>3. ASSUME NEW j \in Attempts, Created(j)
      PROVE  FALSE
  BY <1>3 DEF Created, Keeps, FlagInv, NumberInv, Existing
<1>4. ASSUME NEW d \in Desks, NotedBy(d)
      PROVE  FALSE
  BY <1>4 DEF NotedBy, Keeps
<1>5. CASE Reopened
  BY <1>5 DEF Reopened, Freed
<1>6. row' # row
  OBVIOUS
<1> QED BY <1>1, <1>2, <1>3, <1>4, <1>5, <1>6, Zenon DEF Effect, Rests, Taken

(* FirstInv and SubmittedCounts.                                            *)
LEMMA InitFirst == Init => FirstInv
<1> SUFFICES ASSUME Init PROVE FirstInv
  OBVIOUS
<1>1. \A f \in Fields, i \in Attempts : sheet[f].by # i
  BY Parameters DEF Init, Manual, Attempts
<1>2. \A i \in Attempts : row[i].status = "NONE" /\ row[i].flag = "none"
  BY DEF Init, NoRow
<1>3. \A d \in Desks : dop[d] = "idle"
  BY DEF Init
<1> QED BY <1>1, <1>2, <1>3 DEF FirstInv, FirstFor

LEMMA NextFirst ==
  ASSUME TypeOK, FlagInv, FirstInv, Effect
  PROVE  FirstInv'
<1> SUFFICES ASSUME reopens' = 0, NEW f \in Fields
             PROVE  FirstFor(f)'
  BY DEF FirstInv
<1>1. reopens = 0 /\ ~Reopened
  BY DEF TypeOK, Effect, Reopened, Rests, Quiet, Taken, Marked, Struck, Ended, Created, NotedBy
<1>2. FirstFor(f)
  BY <1>1 DEF FirstInv
<1>3. \A d \in Desks : dop[d] # "idle" => datt[d] \in Existing
  BY DEF FlagInv, CopyInv
<1>4. DesksLeft => \A d \in Desks : dop'[d] = "note" =>
         dop[d] = "note" /\ datt'[d] = datt[d] /\ dcopy'[d] = dcopy[d]
  BY DEF DesksLeft
<1>5. ASSUME NEW i \in Attempts, Marked(i)
      PROVE  FirstFor(f)'
  <2>1. sheet'[f] = sheet[f] \/ (sheet'[f].by = i /\ row[i].flag # "flagged")
    BY <1>5 DEF Marked, Writes, Excluded, Fields
  <2>2. Keeps(i) /\ row'[i].flag = row[i].flag /\ row[i].status = "IN_PROGRESS"
          /\ row'[i].status \in {"SUBMITTED", "FINALIZED"} /\ DesksLeft
    BY <1>5 DEF Marked, Quiet
  <2>3. \A d \in Desks : dop[d] = "note" /\ datt[d] = i => row[i].flag = "flagged"
    BY <1>2, <2>2 DEF FirstFor
  <2> QED BY <1>2, <1>3, <1>4, <2>1, <2>2, <2>3 DEF FirstFor, Keeps, Existing
<1>6. ASSUME NEW i \in Attempts, Struck(i)
      PROVE  FirstFor(f)'
  <2>1. sheet'[f] = sheet[f]
    BY <1>2, <1>6 DEF FirstFor, Struck
  <2>2. Keeps(i) /\ row'[i].flag = "flagged" /\ row[i].status = "IN_PROGRESS"
          /\ row'[i].status = "IN_PROGRESS" /\ row'[i].wb = row[i].wb /\ DesksLeft
    BY <1>6 DEF Struck, Quiet
  <2> QED BY <1>2, <1>3, <1>4, <2>1, <2>2 DEF FirstFor, Keeps, Existing
<1>7. ASSUME NEW i \in Attempts, Ended(i)
      PROVE  FirstFor(f)'
  BY <1>2, <1>3, <1>4, <1>7 DEF FirstFor, Ended, Keeps, Existing, Quiet
<1>8. ASSUME NEW i \in Attempts, Created(i)
      PROVE  FirstFor(f)'
  <2>1. row'[i].status = "IN_PROGRESS" /\ row'[i].flag = "none"
          /\ row'[i].wb[f].kind # "written"
    BY <1>8 DEF Created, NoRow, NoWriteback
  <2>2. DesksLeft /\ Keeps(i) /\ row[i].status = "NONE" /\ sheet' = sheet
    BY <1>8 DEF Created, Quiet
  <2>3. \A d \in Desks : dop[d] # "idle" => datt[d] \in Attempts /\ datt[d] # i
    BY <1>3, <2>2 DEF Existing
  <2> QED BY <1>2, <1>4, <2>1, <2>2, <2>3 DEF FirstFor, Keeps
<1>9. ASSUME NEW d \in Desks, NotedBy(d)
      PROVE  FirstFor(f)'
  BY <1>2, <1>3, <1>4, <1>9 DEF FirstFor, NotedBy, Keeps, Existing, Quiet
<1>10. ASSUME NEW d \in Desks, Taken(d)
       PROVE  FirstFor(f)'
  <2>1. ASSUME dop'[d] = "note"
        PROVE  datt'[d] \in Attempts /\ row[datt'[d]].flag = "flagged"
    BY <1>10, <2>1 DEF Taken, FlagInv, LockInv, Existing
  <2> QED BY <1>2, <1>10, <2>1 DEF FirstFor, Taken
<1>11. CASE Rests
  BY <1>2, <1>4, <1>11 DEF FirstFor, Rests, Quiet
<1> QED BY <1>1, <1>5, <1>6, <1>7, <1>8, <1>9, <1>10, <1>11, Zenon DEF Effect

LEMMA FlaggedOut == FirstInv => FlaggedIsExcluded
BY DEF FirstInv, FirstFor, FlaggedIsExcluded, Existing

(* Only a score of its own, or a strike that takes one back, can make a     *)
(* submitted attempt count or not.                                          *)
LEMMA NextCounts ==
  ASSUME TypeOK, FlagInv, FirstInv, SubmittedCounts, Effect
  PROVE  SubmittedCounts'
<1> SUFFICES ASSUME ~published', reopens' = 0 \/ OnlyAttempt', NEW j \in Existing',
                    row'[j].status = "SUBMITTED", row'[j].flag # "flagged"
             PROVE  sheet'["objective"].by # Manual
  BY DEF SubmittedCounts, Excluded
<1>1. Existing \subseteq Existing' /\ j \in Attempts
  BY NumbersKept DEF Existing
<1>2. ~published
  BY DEF Effect, Reopened, Rests, Quiet, Taken, Marked, Struck, Ended, Created, NotedBy
<1>3. reopens = 0 \/ OnlyAttempt
  <2>1. OnlyAttempt' => OnlyAttempt
    BY <1>1 DEF OnlyAttempt
  <2>2. reopens' = reopens \/ reopens' = reopens + 1
    BY DEF Effect, Reopened, Rests, Quiet, Taken, Marked, Struck, Ended, Created, NotedBy
  <2> QED BY <2>1, <2>2 DEF TypeOK
<1>4. ASSUME row[j].status = "SUBMITTED", row[j].flag # "flagged"
      PROVE  sheet["objective"].by # Manual
  BY <1>1, <1>2, <1>3, <1>4 DEF SubmittedCounts, Excluded, Existing
<1>5. ASSUME NEW i \in Attempts, Marked(i)
      PROVE  sheet'["objective"].by # Manual
  <2>1. CASE Writes(row[i])
    BY <1>5, <2>1 DEF Marked, Manual, Attempts
  <2>2. CASE ~Writes(row[i])
    <3>1. row[i].flag = "flagged"
      BY <1>2, <2>2 DEF Writes, Excluded
    <3>2. j # i /\ row'[j] = row[j] /\ sheet'["objective"] = sheet["objective"]
      BY <1>1, <1>5, <2>2, <3>1 DEF Marked, Keeps
    <3> QED BY <1>4, <3>2
  <2> QED BY <2>1, <2>2
<1>6. ASSUME NEW i \in Attempts, Struck(i)
      PROVE  sheet'["objective"].by # Manual
  <2>1. j # i /\ row'[j] = row[j] /\ i \in Existing' /\ reopens' = reopens
    BY <1>1, <1>6 DEF Struck, Keeps, Existing, Quiet
  <2>2. reopens = 0
    BY <2>1 DEF OnlyAttempt
  <2>3. row[i].wb["objective"].kind # "written" /\ "objective" \in Fields
    BY <1>6, <2>2 DEF FirstInv, FirstFor, Fields, Struck
  <2>4. sheet'["objective"] = sheet["objective"]
    BY <1>6, <2>3 DEF Struck
  <2> QED BY <1>4, <2>1, <2>4
<1>7. ASSUME sheet' = sheet, row'[j] = row[j]
      PROVE  sheet'["objective"].by # Manual
  BY <1>4, <1>7
<1>8. ASSUME NEW i \in Attempts, Ended(i) \/ Created(i)
      PROVE  sheet'["objective"].by # Manual
  <2>1. j # i
    BY <1>8 DEF Ended, Created, NoRow
  <2> QED BY <1>1, <1>7, <1>8, <2>1 DEF Ended, Created, Keeps
<1>9. ASSUME NEW d \in Desks, NotedBy(d)
      PROVE  sheet'["objective"].by # Manual
  BY <1>1, <1>7, <1>9 DEF NotedBy, Keeps
<1>10. CASE Reopened
  BY <1>1, <1>7, <1>10 DEF Reopened
<1>11. CASE Rests \/ \E d \in Desks : Taken(d)
  BY <1>7, <1>11 DEF Rests, Taken
<1> QED BY <1>5, <1>6, <1>8, <1>9, <1>10, <1>11, Zenon DEF Effect

LEMMA InitCounts == Init => SubmittedCounts
BY DEF Init, SubmittedCounts, Existing, NoRow

-----------------------------------------------------------------------------
SheetInv == TypeOK /\ FlagInv /\ FirstInv /\ SubmittedCounts

LEMMA SheetInvariant == NoTheory => (Spec => []SheetInv)
<1> SUFFICES ASSUME NoTheory PROVE Spec => []SheetInv
  OBVIOUS
<1>1. Init => SheetInv
  BY InitTypes, InitFlag, InitFirst, InitCounts DEF SheetInv
<1>2. SheetInv /\ [Next]_vars => SheetInv'
  BY NextTypes, NextFlag, NextFirst, NextCounts DEF SheetInv
<1> QED BY <1>1, <1>2, PTL DEF Spec

(* For a paper without theory, whatever requests interleave: no score of a  *)
(* flagged attempt stands in an unpublished sheet before IT reopens         *)
(* something.                                                               *)
THEOREM FlaggedIsExcludedHolds == NoTheory => (Spec => []FlaggedIsExcluded)
<1>1. SheetInv => FlaggedIsExcluded
  BY FlaggedOut DEF SheetInv
<1> QED BY <1>1, SheetInvariant, PTL

(* For a paper without theory: what a submitted attempt scored is in the    *)
(* sheet, unless the attempt is flagged, even after IT reopened the only    *)
(* attempt.                                                                 *)
THEOREM SubmittedCountsHolds == NoTheory => (Spec => []SubmittedCounts)
<1>1. SheetInv => SubmittedCounts
  BY DEF SheetInv
<1> QED BY <1>1, SheetInvariant, PTL

(* For a paper without theory: the copies that requests save late never     *)
(* clear a flag; only IT's unflagging does.                                 *)
THEOREM FlagStaysHolds == NoTheory => (Spec => FlagStays)
<1> DEFINE Kept == \A i \in Attempts : (row[i].flag = "flagged" /\ row'[i].flag # "flagged")
          => \E d \in Desks : dop[d] \in {"resume", "release"} /\ datt[d] = i
                                /\ dop'[d] = "idle"
<1> SUFFICES ASSUME NoTheory PROVE Spec => [][Kept]_vars
  BY DEF FlagStays
<1>1. SheetInv /\ [Next]_vars => [Kept]_vars
  BY NextFlag, EffectKeepsFlags DEF SheetInv, Freed
<1> QED BY <1>1, SheetInvariant, PTL DEF Spec
=============================================================================
