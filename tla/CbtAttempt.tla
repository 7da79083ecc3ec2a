----------------------------- MODULE CbtAttempt -----------------------------
(***************************************************************************)
(* The attempts of ONE student at ONE exam: starting, submitting, flagging *)
(* for malpractice, unflagging, theory marking, finalising at logout, the  *)
(* end of the exam's window, and what all this writes into the student's   *)
(* row of the result sheet.                                                *)
(*                                                                         *)
(* A request that works on an attempt first loads it and decides, then     *)
(* saves what it changed: two steps.  Only submit_attempt and the third    *)
(* microphone strike read the row again under its lock; every other save   *)
(* trusts the copy, and saves the JSON column writeback_metadata (here the *)
(* fields flag and wb) as a whole.                                         *)
(***************************************************************************)
EXTENDS Naturals, FiniteSets

CONSTANTS
    MaxAttempts,      \* bound: rows the table can hold
    AllowedAttempts,  \* what the blueprint allows (1 without retake)
    AllowRetake,      \* blueprint.allow_retake
    TheoryEnabled,    \* blueprint.theory_enabled and the paper has theory
    FinalizeOnLogout, \* blueprint.finalize_on_logout
    Marks,            \* possible scores of a component
    Starters,         \* requests that start or resume an attempt
    Desks,            \* requests of IT, teachers and students holding a copy
    Nobody,
    MaxReopens        \* bound: how often IT reopens something

ASSUME Parameters ==
    /\ MaxAttempts \in Nat \ {0} /\ AllowedAttempts \in Nat \ {0}
    /\ {AllowRetake, TheoryEnabled, FinalizeOnLogout} \subseteq BOOLEAN
    /\ AllowRetake \/ AllowedAttempts = 1
    /\ Marks # {} /\ Nobody \notin Starters /\ MaxReopens \in Nat

Attempts == 1 .. MaxAttempts
Manual == 0                    \* writer of what was in the sheet before
Fields == {"objective", "theory"}
Entry == [mark : Marks, by : Attempts \cup {Manual}]

(* What writeback_metadata says about one component.                        *)
NoWriteback == [kind |-> "none"]
Skipped == [kind |-> "skipped"]
Written(b, a) == [kind |-> "written", before |-> b, after |-> a]
Writeback == {NoWriteback, Skipped} \cup {Written(b, a) : b \in Entry, a \in Entry}

NoRow == [status |-> "NONE", locked |-> FALSE, flag |-> "none",
          wb |-> [f \in Fields |-> NoWriteback]]
Row == [status : {"NONE", "IN_PROGRESS", "SUBMITTED", "FINALIZED"}, locked : BOOLEAN,
        flag : {"none", "flagged", "resolved"}, wb : [Fields -> Writeback]]
Ops == {"idle", "resume", "release", "theory", "note", "logout", "finalize"}

VARIABLES
    exam,       \* ACTIVE or CLOSED
    expired,    \* the schedule window has ended
    row,        \* the attempts
    sheet,      \* the student's row of the result sheet
    published,  \* that sheet is published
    spc,        \* a starting request: where it is
    advisory,   \* pg_advisory_xact_lock(exam, student)
    dop, datt, dcopy,  \* a desk: what it does, to which attempt, its copy
    closing,    \* the attempts an automatic closing still has to submit
    closer,     \* an automatic closing is under way
    reopens     \* bound, and: has IT reopened anything?

board == <<exam, expired, published>>
start == <<spc, advisory>>
desk == <<dop, datt, dcopy>>
close == <<closing, closer>>
vars == <<board, row, sheet, start, desk, close, reopens>>

TypeOK ==
    /\ exam \in {"ACTIVE", "CLOSED"} /\ expired \in BOOLEAN /\ published \in BOOLEAN
    /\ row \in [Attempts -> Row] /\ sheet \in [Fields -> Entry]
    /\ spc \in [Starters -> {"idle", "authorised", "locked", "absent"}]
    /\ advisory \in Starters \cup {Nobody}
    /\ dop \in [Desks -> Ops] /\ datt \in [Desks -> Attempts] /\ dcopy \in [Desks -> Row]
    /\ closing \subseteq Attempts /\ closer \in BOOLEAN /\ reopens \in Nat

Init ==
    /\ exam = "ACTIVE" /\ expired = FALSE /\ published = FALSE
    /\ row = [i \in Attempts |-> NoRow]
    /\ \E m \in Marks : sheet = [f \in Fields |-> [mark |-> m, by |-> Manual]]
    /\ spc = [s \in Starters |-> "idle"] /\ advisory = Nobody
    /\ dop = [d \in Desks |-> "idle"] /\ datt = [d \in Desks |-> 1]
    /\ dcopy = [d \in Desks |-> NoRow]
    /\ closing = {} /\ closer = FALSE /\ reopens = 0

Existing == {i \in Attempts : row[i].status # "NONE"}
InProgress == {i \in Attempts : row[i].status = "IN_PROGRESS"}
Open == exam = "ACTIVE" /\ ~expired

-----------------------------------------------------------------------------
(* get_or_start_attempt.                                                    *)

(* student_exam_authorization_reason returns "".                            *)
MayStart ==
    /\ Open
    /\ \A i \in Existing : ~row[i].locked
    /\ AllowRetake \/ Existing = InProgress
    /\ InProgress # {} \/ Cardinality(Existing) < AllowedAttempts

Authorise(s) ==
    /\ spc[s] = "idle" /\ MayStart
    /\ spc' = [spc EXCEPT ![s] = "authorised"]
    /\ UNCHANGED <<board, row, sheet, advisory, desk, close, reopens>>

(* Mutant: the request goes on without waiting for the lock.                *)
AdvisoryLockFree(s) ==
    /\ spc[s] = "authorised"
    /\ advisory' = s /\ spc' = [spc EXCEPT ![s] = "locked"]
    /\ UNCHANGED <<board, row, sheet, desk, close, reopens>>

AdvisoryLock(s) ==
    /\ spc[s] = "authorised" /\ advisory = Nobody
    /\ advisory' = s /\ spc' = [spc EXCEPT ![s] = "locked"]
    /\ UNCHANGED <<board, row, sheet, desk, close, reopens>>

(* Under the lock: look for an attempt in progress; return it, or go on.    *)
LookForAttempt(s) ==
    /\ spc[s] = "locked"
    /\ IF InProgress # {}
          THEN advisory' = Nobody /\ spc' = [spc EXCEPT ![s] = "idle"]
          ELSE spc' = [spc EXCEPT ![s] = "absent"] /\ UNCHANGED advisory
    /\ UNCHANGED <<board, row, sheet, desk, close, reopens>>

CreateAttempt(s) ==
    /\ spc[s] = "absent" /\ Cardinality(Existing) < MaxAttempts
    /\ row' = [row EXCEPT ![Cardinality(Existing) + 1] =
                 [NoRow EXCEPT !.status = "IN_PROGRESS"]]
    /\ advisory' = Nobody /\ spc' = [spc EXCEPT ![s] = "idle"]
    /\ UNCHANGED <<board, sheet, desk, close, reopens>>

-----------------------------------------------------------------------------
(* submit_attempt: one transaction, under the row lock.                     *)

Excluded(r) == r.flag = "flagged"
(* Mutant: the flag is not looked at.                                       *)
WritesFlagged(r) == ~published
Writes(r) == ~Excluded(r) /\ ~published

(* The row, and the sheet, after the objective part scored m.               *)
SubmittedRow(i, m) ==
    [row[i] EXCEPT !.status = "SUBMITTED",
        !.wb["objective"] = IF Writes(row[i])
            THEN Written(sheet["objective"], [mark |-> m, by |-> i]) ELSE Skipped]

SubmittedSheet(i, m) ==
    IF Writes(row[i]) THEN [sheet EXCEPT !["objective"] = [mark |-> m, by |-> i]]
                      ELSE sheet

(* By the student, the deadline, the heartbeat, or a strike after the end.  *)
Submit(i) ==
    /\ row[i].status = "IN_PROGRESS"
    /\ \E m \in Marks : /\ row' = [row EXCEPT ![i] = SubmittedRow(i, m)]
                        /\ sheet' = SubmittedSheet(i, m)
    /\ UNCHANGED <<board, start, desk, close, reopens>>

-----------------------------------------------------------------------------
(* The third microphone strike: the row is locked and read again.           *)

(* _revert_malpractice_result_writebacks compares the score only.           *)
Reverts(r, f) ==
    /\ r.wb[f].kind = "written" /\ ~published
    /\ sheet[f].mark = r.wb[f].after.mark

Flag(i) ==
    /\ row[i].status = "IN_PROGRESS" /\ ~row[i].locked /\ Open
    /\ sheet' = [f \in Fields |-> IF Reverts(row[i], f) THEN row[i].wb[f].before ELSE sheet[f]]
    /\ row' = [row EXCEPT ![i].locked = TRUE, ![i].flag = "flagged"]
    /\ UNCHANGED <<board, start, desk, close, reopens>>

-----------------------------------------------------------------------------
(* Requests that load a copy and save later.                                *)

Load(d, op, i) ==
    /\ dop[d] = "idle" /\ i \in Existing
    /\ dop' = [dop EXCEPT ![d] = op] /\ datt' = [datt EXCEPT ![d] = i]
    /\ dcopy' = [dcopy EXCEPT ![d] = row[i]]
    /\ UNCHANGED <<board, row, sheet, start, close, reopens>>

(* IT presses "unflag"; can_resume is computed from the copy.  The attempt's*)
(* own deadline may have passed inside the window.                          *)
LoadUnflag(d, i) ==
    /\ row[i].locked
    /\ \/ row[i].status = "IN_PROGRESS" /\ Open /\ Load(d, "resume", i)
       \/ Load(d, "release", i)

LoadTheory(d, i) ==
    /\ TheoryEnabled /\ row[i].status \in {"SUBMITTED", "FINALIZED"}
    /\ Load(d, "theory", i)

(* The student appeals, or moves on to the theory stage: both save the      *)
(* metadata with a note added.                                              *)
LoadNote(d, i) ==
    /\ row[i].locked \/ (TheoryEnabled /\ row[i].status = "IN_PROGRESS")
    /\ Load(d, "note", i)

LoadLogout(d, i) ==
    /\ FinalizeOnLogout /\ row[i].status \in {"IN_PROGRESS", "SUBMITTED"}
    /\ Load(d, IF row[i].status = "IN_PROGRESS" THEN "logout" ELSE "finalize", i)

Done(d) ==
    /\ dop' = [dop EXCEPT ![d] = "idle"] /\ datt' = [datt EXCEPT ![d] = 1]
    /\ dcopy' = [dcopy EXCEPT ![d] = NoRow]

(* What it_unlock_attempt does to the copy before it saves.                 *)
(* Mutant: the flag gets the status of the appeal.                          *)
UnlockedApproved(c) == [c EXCEPT !.locked = FALSE, !.flag = "approved"]

Unlocked(c) ==
    [c EXCEPT !.locked = FALSE, !.flag = IF c.flag = "none" THEN "none" ELSE "resolved"]

(* it_unlock_attempt(allow_resume=True) saves status, lock and metadata.    *)
Resume(d) ==
    /\ dop[d] = "resume" /\ reopens < MaxReopens
    /\ row' = [row EXCEPT ![datt[d]] = [Unlocked(dcopy[d]) EXCEPT !.status = "IN_PROGRESS"]]
    /\ reopens' = reopens + 1
    /\ Done(d)
    /\ UNCHANGED <<board, sheet, start, close>>

(* it_unlock_attempt(allow_resume=False).  Unless the copy is finalised,    *)
(* submit_attempt runs and puts the columns of the row it read and saved    *)
(* back into the copy, lock and flag included.                              *)
Release(d) ==
    LET i == datt[d] IN
    /\ dop[d] = "release"
    /\ \/ /\ dcopy[d].status = "FINALIZED"
          /\ row' = [row EXCEPT ![i] = [Unlocked(dcopy[d]) EXCEPT !.status = "FINALIZED"]]
          /\ UNCHANGED sheet
       \/ /\ dcopy[d].status # "FINALIZED" /\ row[i].status # "IN_PROGRESS"
          /\ row' = [row EXCEPT ![i].status = "FINALIZED"]
          /\ UNCHANGED sheet
       \/ /\ dcopy[d].status # "FINALIZED" /\ row[i].status = "IN_PROGRESS"
          /\ \E m \in Marks :
                /\ row' = [row EXCEPT ![i] =
                             [SubmittedRow(i, m) EXCEPT !.status = "FINALIZED"]]
                /\ sheet' = SubmittedSheet(i, m)
    /\ Done(d)
    /\ UNCHANGED <<board, start, close, reopens>>

(* apply_theory_scores: with every answer marked the component is written;  *)
(* the metadata is saved from the copy either way.                          *)
Theory(d) ==
    LET i == datt[d]  c == dcopy[d] IN
    /\ dop[d] = "theory"
    /\ \/ /\ row' = [row EXCEPT ![i].flag = c.flag, ![i].wb = c.wb]
          /\ UNCHANGED sheet
       \/ /\ ~published
          /\ \E m \in Marks :
                LET e == [mark |-> m, by |-> i] IN
                /\ row' = [row EXCEPT ![i].flag = c.flag,
                             ![i].wb = [c.wb EXCEPT !["theory"] = Written(sheet["theory"], e)]]
                /\ sheet' = [sheet EXCEPT !["theory"] = e]
       \/ /\ published
          /\ row' = [row EXCEPT ![i].flag = c.flag, ![i].wb = [c.wb EXCEPT !["theory"] = Skipped]]
          /\ UNCHANGED sheet
    /\ Done(d)
    /\ UNCHANGED <<board, start, close, reopens>>

Note(d) ==
    /\ dop[d] = "note"
    /\ row' = [row EXCEPT ![datt[d]].flag = dcopy[d].flag, ![datt[d]].wb = dcopy[d].wb]
    /\ Done(d)
    /\ UNCHANGED <<board, sheet, start, close, reopens>>

(* finalize_attempt at logout: submit_attempt commits on its own, then the  *)
(* status is saved, when no retake is allowed.                              *)
LogoutSubmit(d) ==
    LET i == datt[d] IN
    /\ dop[d] = "logout"
    /\ dop' = [dop EXCEPT ![d] = "finalize"]
    /\ IF row[i].status = "IN_PROGRESS"
          THEN \E m \in Marks : /\ row' = [row EXCEPT ![i] = SubmittedRow(i, m)]
                                /\ sheet' = SubmittedSheet(i, m)
          ELSE UNCHANGED <<row, sheet>>
    /\ UNCHANGED <<board, start, datt, dcopy, close, reopens>>

(* Mutant: every column of the loaded copy is saved.                        *)
LogoutSaveAll(d) ==
    /\ dop[d] = "finalize"
    /\ row' = IF AllowRetake THEN row
                ELSE [row EXCEPT ![datt[d]] = [dcopy[d] EXCEPT !.status = "FINALIZED"]]
    /\ Done(d)
    /\ UNCHANGED <<board, sheet, start, close, reopens>>

LogoutFinalize(d) ==
    /\ dop[d] = "finalize"
    /\ row' = IF AllowRetake THEN row ELSE [row EXCEPT ![datt[d]].status = "FINALIZED"]
    /\ Done(d)
    /\ UNCHANGED <<board, sheet, start, close, reopens>>

-----------------------------------------------------------------------------
(* The exam's window.                                                       *)

Expire ==
    /\ exam = "ACTIVE" /\ ~expired /\ expired' = TRUE
    /\ UNCHANGED <<exam, published, row, sheet, start, desk, close, reopens>>

(* _close_expired_exam: list the unfinished attempts, submit each in a      *)
(* transaction of its own, then close the exam.                             *)
CloseBegin ==
    /\ exam = "ACTIVE" /\ expired /\ ~closer
    /\ closer' = TRUE /\ closing' = InProgress
    /\ UNCHANGED <<board, row, sheet, start, desk, reopens>>

(* Mutant: the closing updates the status in bulk and marks nothing.        *)
CloseInBulk(i) ==
    /\ closer /\ i \in closing
    /\ closing' = closing \ {i}
    /\ row' = IF row[i].status = "IN_PROGRESS"
                 THEN [row EXCEPT ![i].status = "SUBMITTED"] ELSE row
    /\ UNCHANGED <<board, sheet, start, desk, closer, reopens>>

CloseSubmit(i) ==
    /\ closer /\ i \in closing
    /\ closing' = closing \ {i}
    /\ IF row[i].status = "IN_PROGRESS"
          THEN \E m \in Marks : /\ row' = [row EXCEPT ![i] = SubmittedRow(i, m)]
                                /\ sheet' = SubmittedSheet(i, m)
          ELSE UNCHANGED <<row, sheet>>
    /\ UNCHANGED <<board, start, desk, closer, reopens>>

CloseEnd ==
    /\ closer /\ closing = {}
    /\ closer' = FALSE /\ exam' = "CLOSED"
    /\ UNCHANGED <<expired, published, row, sheet, start, desk, closing, reopens>>

(* _extend_or_reopen_window: a new window, and every attempt that is not    *)
(* locked and not finalised is in progress again.                           *)
Extend ==
    /\ reopens < MaxReopens
    /\ exam' = "ACTIVE" /\ expired' = FALSE
    /\ row' = [i \in Attempts |->
                 IF row[i].status \in {"IN_PROGRESS", "SUBMITTED"} /\ ~row[i].locked
                    THEN [row[i] EXCEPT !.status = "IN_PROGRESS"] ELSE row[i]]
    /\ reopens' = reopens + 1
    /\ UNCHANGED <<published, sheet, start, desk, close>>

(* The result sheet is published: writebacks and reverts leave it alone.    *)
Publish ==
    /\ ~published /\ published' = TRUE
    /\ UNCHANGED <<exam, expired, row, sheet, start, desk, close, reopens>>

-----------------------------------------------------------------------------
Next ==
    \/ \E s \in Starters :
          Authorise(s) \/ AdvisoryLock(s) \/ LookForAttempt(s) \/ CreateAttempt(s)
    \/ \E i \in Attempts : Submit(i) \/ Flag(i) \/ CloseSubmit(i)
    \/ \E d \in Desks, i \in Attempts :
          LoadUnflag(d, i) \/ LoadTheory(d, i) \/ LoadNote(d, i) \/ LoadLogout(d, i)
    \/ \E d \in Desks :
          Resume(d) \/ Release(d) \/ Theory(d) \/ Note(d) \/ LogoutSubmit(d) \/ LogoutFinalize(d)
    \/ Expire \/ CloseBegin \/ CloseEnd \/ Extend \/ Publish

Spec == Init /\ [][Next]_vars

-----------------------------------------------------------------------------
(* Properties.                                                              *)

(* Unless IT reopened something, a student has one attempt at most in       *)
(* progress, however many requests start one at the same moment.            *)
OneOpenAttempt == reopens = 0 => Cardinality(InProgress) <= 1

(* No score of a flagged attempt is in an unpublished sheet (the code:      *)
(* "Flagged attempt is excluded until IT resolves the flag."), as long as IT*)
(* has reopened nothing: a second submission makes the attempt's own first  *)
(* score the value a later flag restores.                                   *)
FlaggedIsExcluded ==
    reopens = 0 /\ ~published =>
        \A i \in Existing : row[i].flag = "flagged" => \A f \in Fields : sheet[f].by # i

(* A flag goes away only when IT resolves it.                               *)
FlagStays ==
    [][\A i \in Attempts : (row[i].flag = "flagged" /\ row'[i].flag # "flagged")
          => \E d \in Desks : dop[d] \in {"resume", "release"} /\ datt[d] = i
                                /\ dop'[d] = "idle"]_vars

OnlyAttempt == \A i, j \in Existing : i = j

(* A submitted attempt that is not flagged, or whose flag IT resolved, has  *)
(* put the student's score into the sheet: what stands there was not entered*)
(* before the exam.  Among several attempts this ends when IT reopens one:  *)
(* a flag on one then takes back a score that another has repeated.         *)
SubmittedCounts ==
    (~published /\ (reopens = 0 \/ OnlyAttempt)
       /\ \E i \in Existing : row[i].status = "SUBMITTED" /\ ~Excluded(row[i]))
        => sheet["objective"].by # Manual
=============================================================================
