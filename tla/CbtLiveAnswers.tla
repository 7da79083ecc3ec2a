--------------------------- MODULE CbtLiveAnswers ---------------------------
(***************************************************************************)
(* The write-behind store of objective answers of ONE exam attempt, as it  *)
(* runs with EXAM_SAFE_MODE on.  A saved answer goes to a Redis hash and   *)
(* marks its question dirty; a Celery task (or the submission itself)      *)
(* copies dirty answers to PostgreSQL; the submission marks what           *)
(* PostgreSQL holds.  Each Redis round trip of a flush is a step of its    *)
(* own; a database transaction of a flush worker is one step, because it   *)
(* runs under the row lock of the attempt; the submission holds that lock  *)
(* across the Redis steps of its own flush, so `lock' is a variable.       *)
(***************************************************************************)
EXTENDS Naturals, FiniteSets

CONSTANTS
    Questions,   \* objective exam questions of the attempt
    Options,     \* what a student may select on a question
    Blank,       \* the stored selection of an unanswered question
    Absent,      \* no field for the question in the Redis hash
    Unmarked,    \* nothing has been marked yet
    Nobody,      \* the attempt row is not locked
    Workers,     \* Celery workers of the "critical" queue
    Submitters,  \* requests (student, heartbeat, auto close) that submit
    Savers,      \* request handlers that save an answer
    SimulationRequired, \* the exam has a required simulation not yet done
    MaxSaves, MaxFaults, MaxResumes  \* bounds of the exploration

ASSUME Distinct ==
    /\ Blank \notin Options /\ Absent \notin Options \cup {Blank}
    /\ Nobody \notin Submitters
    /\ Workers \cap Submitters = {}
    /\ SimulationRequired \in BOOLEAN
    /\ MaxSaves \in Nat /\ MaxFaults \in Nat /\ MaxResumes \in Nat

Flushers == Workers \cup Submitters
Selections == Options \cup {Blank}
Sheet == [Questions -> Selections]
EmptySheet == [q \in Questions |-> Blank]

VARIABLES
    \* PostgreSQL
    status, db, marked, lock, pendingSim,
    \* Redis: hash, dirty set, meta.version, flush-scheduled key
    live, dirty, version, scheduled,
    \* broker: queued flush tasks
    tasks,
    \* a flush in progress: where it is, and what it has read so far
    \* (late is history: for a submission, the questions saved since it began)
    fpc, fids, fver, fpay, late,
    \* a save request in progress
    spc, sq, sopt,
    \* history: the last selection stored, in Redis or PostgreSQL, per question
    chosen,
    \* bounds
    saves, faults, resumes, fallbacks

pg == <<status, db, marked, lock, pendingSim>>
redis == <<live, dirty, version, scheduled>>
flush == <<fids, fver, fpay, late>>
save == <<spc, sq, sopt>>
bounds == <<saves, faults, resumes, fallbacks>>
vars == <<pg, redis, tasks, fpc, flush, save, chosen, bounds>>

Status == {"IN_PROGRESS", "SUBMITTED", "FINALIZED"}
FlushStep == {"idle", "ids", "version", "payload", "written", "unscheduled",
              "match", "mismatch", "flushed", "committed"}
SaveStep == {"idle", "checked", "written", "fallback"}

TypeOK ==
    /\ status \in Status /\ db \in Sheet /\ marked \in Sheet \cup {Unmarked}
    /\ lock \in Submitters \cup {Nobody} /\ pendingSim \in BOOLEAN
    /\ live \in [Questions -> Selections \cup {Absent}]
    /\ dirty \subseteq Questions /\ version \in Nat /\ scheduled \in BOOLEAN
    /\ tasks \in Nat
    /\ fpc \in [Flushers -> FlushStep] /\ fids \in [Flushers -> SUBSET Questions]
    /\ fver \in [Flushers -> Nat] /\ fpay \in [Flushers -> Sheet]
    /\ spc \in [Savers -> SaveStep] /\ sq \in [Savers -> Questions]
    /\ sopt \in [Savers -> Selections]
    /\ chosen \in Sheet /\ late \in [Flushers -> SUBSET Questions]
    /\ saves \in Nat /\ faults \in Nat /\ resumes \in Nat /\ fallbacks \in Nat

Init ==
    /\ status = "IN_PROGRESS" /\ db = EmptySheet /\ marked = Unmarked
    /\ lock = Nobody /\ pendingSim = SimulationRequired
    /\ live = [q \in Questions |-> Absent]
    /\ dirty = {} /\ version = 0 /\ scheduled = FALSE
    /\ tasks = 0
    /\ fpc = [f \in Flushers |-> "idle"] /\ fids = [f \in Flushers |-> {}]
    /\ fver = [f \in Flushers |-> 0] /\ fpay = [f \in Flushers |-> EmptySheet]
    /\ spc = [r \in Savers |-> "idle"] /\ sq \in [Savers -> Questions]
    /\ sopt = [r \in Savers |-> Blank]
    /\ chosen = EmptySheet /\ late = [f \in Flushers |-> {}]
    /\ saves = 0 /\ faults = 0 /\ resumes = 0 /\ fallbacks = 0

-----------------------------------------------------------------------------
(* What the student's page shows: the live answers over the stored ones.    *)
Shown(q) == IF live[q] = Absent THEN db[q] ELSE live[q]

(* _schedule_flush: SET NX, then enqueue.  An enqueue that fails deletes    *)
(* the key again; it costs one fault.                                       *)
ScheduleFlush ==
    \/ scheduled /\ UNCHANGED <<scheduled, tasks, faults>>
    \/ ~scheduled /\ scheduled' = TRUE /\ tasks' = tasks + 1 /\ UNCHANGED faults
    \/ ~scheduled /\ faults < MaxFaults /\ faults' = faults + 1
       /\ UNCHANGED <<scheduled, tasks>>

-----------------------------------------------------------------------------
(* Saving an answer.                                                        *)

(* The request loads the attempt and sees it editable; the instance is not  *)
(* read again.                                                              *)
SaveCheck(r, q, o) ==
    /\ spc[r] = "idle" /\ status = "IN_PROGRESS" /\ saves < MaxSaves
    /\ spc' = [spc EXCEPT ![r] = "checked"]
    /\ sq' = [sq EXCEPT ![r] = q] /\ sopt' = [sopt EXCEPT ![r] = o]
    /\ saves' = saves + 1
    /\ UNCHANGED <<pg, redis, tasks, fpc, flush, chosen, faults, resumes, fallbacks>>

Acknowledge(r) ==
    /\ chosen' = [chosen EXCEPT ![sq[r]] = sopt[r]]
    /\ late' = [f \in Flushers |->
                  IF f \in Submitters /\ fpc[f] \notin {"idle", "committed"}
                      THEN late[f] \cup {sq[r]} ELSE late[f]]

(* The MULTI/EXEC of save_live_objective_answer.                            *)
SaveLive(r) ==
    /\ spc[r] = "checked"
    /\ live' = [live EXCEPT ![sq[r]] = sopt[r]]
    /\ dirty' = dirty \cup {sq[r]}
    /\ version' = version + 1
    /\ spc' = [spc EXCEPT ![r] = "written"]
    /\ Acknowledge(r)
    /\ UNCHANGED <<pg, scheduled, tasks, fpc, fids, fver, fpay, sq, sopt, bounds>>

SaveSchedule(r) ==
    /\ spc[r] = "written"
    /\ ScheduleFlush
    /\ spc' = [spc EXCEPT ![r] = "idle"]
    /\ UNCHANGED <<pg, live, dirty, version, fpc, flush, sq, sopt, chosen, saves,
                   resumes, fallbacks>>

(* Redis refuses the MULTI, or the SET of the schedule key: the handler     *)
(* falls back to PostgreSQL.                                                *)
SaveRedisError(r) ==
    /\ spc[r] \in {"checked", "written"} /\ faults < MaxFaults
    /\ spc' = [spc EXCEPT ![r] = "fallback"]
    /\ faults' = faults + 1 /\ fallbacks' = fallbacks + 1
    /\ UNCHANGED <<pg, redis, tasks, fpc, flush, sq, sopt, chosen, saves, resumes>>

(* The direct write ends with an UPDATE of the attempt row, so it commits   *)
(* only when no submission holds that row.                                  *)
SaveFallback(r) ==
    /\ spc[r] = "fallback" /\ lock = Nobody
    /\ db' = [db EXCEPT ![sq[r]] = sopt[r]]
    /\ spc' = [spc EXCEPT ![r] = "idle"]
    /\ Acknowledge(r)
    /\ UNCHANGED <<status, marked, lock, pendingSim, redis, tasks, fpc, fids, fver, fpay,
                   sq, sopt, bounds>>

-----------------------------------------------------------------------------
(* flush_attempt_live_state_to_db, by a worker or inside a submission.      *)

(* The process goes to a step at which it remembers nothing of its flush.   *)
Forgets(f, step) ==
    /\ fpc' = [fpc EXCEPT ![f] = step]
    /\ fids' = [fids EXCEPT ![f] = {}] /\ fver' = [fver EXCEPT ![f] = 0]
    /\ fpay' = [fpay EXCEPT ![f] = EmptySheet] /\ late' = [late EXCEPT ![f] = {}]

(* The flush returns: a worker's task is acknowledged, a submission goes on.*)
FlushReturns(f) ==
    IF f \in Submitters THEN fpc' = [fpc EXCEPT ![f] = "flushed"] /\ UNCHANGED flush
                        ELSE Forgets(f, "idle")

ReadDirty(f) ==
    /\ fpc' = [fpc EXCEPT ![f] = "ids"]
    /\ fids' = [fids EXCEPT ![f] = dirty]

TakeTask(w) ==
    /\ w \in Workers /\ fpc[w] = "idle" /\ tasks > 0
    /\ tasks' = tasks - 1
    /\ ReadDirty(w)
    /\ UNCHANGED <<pg, redis, fver, fpay, late, save, chosen, bounds>>

FlushReadVersion(f) ==
    /\ fpc[f] = "ids"
    /\ fver' = [fver EXCEPT ![f] = version]
    /\ fpc' = [fpc EXCEPT ![f] = "version"]
    /\ UNCHANGED <<pg, redis, tasks, fids, fpay, late, save, chosen, bounds>>

(* Nothing dirty: drop the schedule key and return.                         *)
FlushNothing(f) ==
    /\ fpc[f] = "version" /\ fids[f] = {}
    /\ scheduled' = FALSE
    /\ FlushReturns(f)
    /\ UNCHANGED <<pg, live, dirty, version, tasks, save, chosen, bounds>>

(* hmget; a missing field is read as an empty selection.                    *)
FlushReadPayload(f) ==
    /\ fpc[f] = "version" /\ fids[f] # {}
    /\ fpay' = [fpay EXCEPT ![f] = [q \in Questions |->
                  IF q \notin fids[f] \/ live[q] = Absent THEN Blank ELSE live[q]]]
    /\ fpc' = [fpc EXCEPT ![f] = "payload"]
    /\ UNCHANGED <<pg, redis, tasks, fids, fver, late, save, chosen, bounds>>

(* The stored sheet with what flush f has read written over it.             *)
Flushed(f) == [q \in Questions |-> IF q \in fids[f] THEN fpay[f][q] ELSE db[q]]

(* The transaction.  A worker commits at once; a submission keeps the row   *)
(* lock and its writes stay uncommitted (see Flushed) until it ends.        *)
FlushTransaction(f) ==
    /\ fpc[f] = "payload" /\ lock = Nobody /\ status # "FINALIZED"
    /\ fpc' = [fpc EXCEPT ![f] = "written"]
    /\ IF f \in Submitters THEN lock' = f /\ UNCHANGED db
                           ELSE db' = Flushed(f) /\ UNCHANGED lock
    /\ UNCHANGED <<status, marked, pendingSim, redis, tasks, flush, save, chosen, bounds>>

FlushTooLate(f) ==
    /\ fpc[f] = "payload" /\ lock = Nobody /\ status = "FINALIZED"
    /\ dirty' = {} /\ scheduled' = FALSE
    /\ IF f \in Submitters THEN lock' = f /\ Forgets(f, "flushed")
                           ELSE UNCHANGED lock /\ Forgets(f, "idle")
    /\ UNCHANGED <<status, db, marked, pendingSim, live, version, tasks, save, chosen,
                   bounds>>

FlushUnschedule(f) ==
    /\ fpc[f] = "written"
    /\ scheduled' = FALSE
    /\ fpc' = [fpc EXCEPT ![f] = "unscheduled"]
    /\ UNCHANGED <<pg, live, dirty, version, tasks, flush, save, chosen, bounds>>

FlushCompare(f) ==
    /\ fpc[f] = "unscheduled"
    /\ fpc' = [fpc EXCEPT ![f] = IF version = fver[f] THEN "match" ELSE "mismatch"]
    /\ UNCHANGED <<pg, redis, tasks, flush, save, chosen, bounds>>

(* Variant: the hash goes together with the dirty set.                      *)
FlushForgetHash(f) ==
    /\ fpc[f] = "match"
    /\ dirty' = {} /\ live' = [q \in Questions |-> Absent]
    /\ FlushReturns(f)
    /\ UNCHANGED <<pg, version, scheduled, tasks, save, chosen, bounds>>

FlushForget(f) ==
    /\ fpc[f] = "match"
    /\ dirty' = {}
    /\ FlushReturns(f)
    /\ UNCHANGED <<pg, live, version, scheduled, tasks, save, chosen, bounds>>

FlushAgain(f) ==
    /\ fpc[f] = "mismatch"
    /\ IF dirty = {} THEN UNCHANGED <<scheduled, tasks, faults>> ELSE ScheduleFlush
    /\ FlushReturns(f)
    /\ UNCHANGED <<pg, live, dirty, version, save, chosen, saves, resumes, fallbacks>>

(* A worker dies or a step raises: late acknowledgement and autoretry put   *)
(* the task back on the queue.                                              *)
WorkerFails(w) ==
    /\ w \in Workers /\ fpc[w] # "idle" /\ faults < MaxFaults
    /\ Forgets(w, "idle")
    /\ tasks' = tasks + 1 /\ faults' = faults + 1
    /\ UNCHANGED <<pg, redis, save, chosen, saves, resumes, fallbacks>>

(* The schedule key outlives its TTL because the queue is behind.           *)
ScheduleExpires ==
    /\ scheduled /\ faults < MaxFaults
    /\ scheduled' = FALSE /\ faults' = faults + 1
    /\ UNCHANGED <<pg, live, dirty, version, tasks, fpc, flush, save, chosen,
                   saves, resumes, fallbacks>>

-----------------------------------------------------------------------------
(* submit_attempt: one transaction around a flush, the marking, the status. *)

(* Variant: the submission does not flush.                                  *)
SubmitWithoutFlush(s) ==
    /\ s \in Submitters /\ fpc[s] = "idle" /\ status = "IN_PROGRESS"
    /\ fpc' = [fpc EXCEPT ![s] = "flushed"]
    /\ UNCHANGED <<pg, redis, tasks, flush, save, chosen, bounds>>

SubmitBegin(s) ==
    /\ s \in Submitters /\ fpc[s] = "idle" /\ status = "IN_PROGRESS"
    /\ ReadDirty(s)
    /\ UNCHANGED <<pg, redis, tasks, fver, fpay, late, save, chosen, bounds>>

HasRow(s) == fpc[s] = "flushed" /\ lock \in {Nobody, s}

(* Somebody else submitted first: return, committing the flush.             *)
SubmitAgain(s) ==
    /\ HasRow(s) /\ status # "IN_PROGRESS"
    /\ db' = Flushed(s) /\ lock' = Nobody
    /\ Forgets(s, "idle")
    /\ UNCHANGED <<status, marked, pendingSim, redis, tasks, save, chosen, bounds>>

(* Variant: the refusal leaves the row locked.                              *)
SubmitRefusedLocked(s) ==
    /\ HasRow(s) /\ status = "IN_PROGRESS" /\ pendingSim
    /\ Forgets(s, "idle")
    /\ UNCHANGED <<status, db, marked, lock, pendingSim, redis, tasks, save, chosen, bounds>>

(* A required simulation is missing: ValidationError, everything the        *)
(* transaction wrote is rolled back.  Redis has no part in the rollback.    *)
SubmitRefused(s) ==
    /\ HasRow(s) /\ status = "IN_PROGRESS" /\ pendingSim
    /\ lock' = Nobody
    /\ Forgets(s, "idle")
    /\ UNCHANGED <<status, db, marked, pendingSim, redis, tasks, save, chosen, bounds>>

(* Variants: the status is not looked at again after the lock is taken; the *)
(* live hash is marked instead of the stored answers.                       *)
SubmitCommitTwice(s) ==
    /\ HasRow(s) /\ ~pendingSim
    /\ db' = Flushed(s) /\ marked' = Flushed(s)
    /\ status' = "SUBMITTED" /\ lock' = Nobody
    /\ Forgets(s, "committed")
    /\ UNCHANGED <<pendingSim, redis, tasks, save, chosen, bounds>>

SubmitCommitLive(s) ==
    /\ HasRow(s) /\ status = "IN_PROGRESS" /\ ~pendingSim
    /\ db' = Flushed(s) /\ marked' = live
    /\ status' = "SUBMITTED" /\ lock' = Nobody
    /\ Forgets(s, "committed")
    /\ UNCHANGED <<pendingSim, redis, tasks, save, chosen, bounds>>

SubmitCommit(s) ==
    /\ HasRow(s) /\ status = "IN_PROGRESS" /\ ~pendingSim
    /\ db' = Flushed(s) /\ marked' = Flushed(s)
    /\ status' = "SUBMITTED" /\ lock' = Nobody
    /\ Forgets(s, "committed")
    /\ UNCHANGED <<pendingSim, redis, tasks, save, chosen, bounds>>

(* Variant: the dirty set survives the clearing.                            *)
SubmitClearHash(s) ==
    /\ s \in Submitters /\ fpc[s] = "committed"
    /\ live' = [q \in Questions |-> Absent]
    /\ version' = 0 /\ scheduled' = FALSE
    /\ Forgets(s, "idle")
    /\ UNCHANGED <<pg, dirty, tasks, save, chosen, bounds>>

(* transaction.on_commit: clear_live_attempt(keep_answers=False).           *)
SubmitClear(s) ==
    /\ s \in Submitters /\ fpc[s] = "committed"
    /\ live' = [q \in Questions |-> Absent]
    /\ dirty' = {} /\ version' = 0 /\ scheduled' = FALSE
    /\ Forgets(s, "idle")
    /\ UNCHANGED <<pg, tasks, save, chosen, bounds>>

(* The request dies or Redis raises: rollback, or, after the commit, the    *)
(* on_commit hook is lost.                                                  *)
SubmitFails(s) ==
    /\ s \in Submitters /\ fpc[s] # "idle" /\ faults < MaxFaults
    /\ Forgets(s, "idle")
    /\ lock' = IF lock = s THEN Nobody ELSE lock
    /\ faults' = faults + 1
    /\ UNCHANGED <<status, db, marked, pendingSim, redis, tasks, save, chosen,
                   saves, resumes, fallbacks>>

-----------------------------------------------------------------------------
(* The rest of the attempt's life, as far as it touches this store.         *)

(* The student completes the required simulation.                           *)
CompleteSimulation ==
    /\ pendingSim /\ status = "IN_PROGRESS" /\ lock = Nobody
    /\ pendingSim' = FALSE
    /\ UNCHANGED <<status, db, marked, lock, redis, tasks, fpc, flush, save, chosen, bounds>>

(* finalize_attempt, after a submission, when no retake is allowed.         *)
Finalize ==
    /\ status = "SUBMITTED" /\ lock = Nobody
    /\ status' = "FINALIZED"
    /\ UNCHANGED <<db, marked, lock, pendingSim, redis, tasks, fpc, flush, save, chosen, bounds>>

(* it_unlock_attempt(allow_resume=True): the attempt is editable again and  *)
(* the schedule key is dropped (keep_answers=True).                         *)
Resume ==
    /\ lock = Nobody /\ resumes < MaxResumes
    /\ status' = "IN_PROGRESS" /\ scheduled' = FALSE
    /\ resumes' = resumes + 1
    /\ UNCHANGED <<db, marked, lock, pendingSim, live, dirty, version, tasks, fpc, flush,
                   save, chosen, saves, faults, fallbacks>>

-----------------------------------------------------------------------------
SaveNext(r) ==
    \/ \E q \in Questions, o \in Options : SaveCheck(r, q, o)
    \/ SaveLive(r) \/ SaveSchedule(r) \/ SaveRedisError(r) \/ SaveFallback(r)

FlushNext(f) ==
    \/ FlushReadVersion(f) \/ FlushNothing(f) \/ FlushReadPayload(f)
    \/ FlushTransaction(f) \/ FlushTooLate(f) \/ FlushUnschedule(f)
    \/ FlushCompare(f) \/ FlushForget(f) \/ FlushAgain(f)

WorkerNext(w) == TakeTask(w) \/ WorkerFails(w)

SubmitEnds(s) == SubmitAgain(s) \/ SubmitRefused(s) \/ SubmitCommit(s) \/ SubmitClear(s)

SubmitNext(s) == SubmitBegin(s) \/ SubmitEnds(s) \/ SubmitFails(s)

Next ==
    \/ \E r \in Savers : SaveNext(r)
    \/ \E f \in Flushers : FlushNext(f)
    \/ \E w \in Workers : WorkerNext(w)
    \/ \E s \in Submitters : SubmitNext(s)
    \/ ScheduleExpires \/ CompleteSimulation \/ Finalize \/ Resume

Spec == Init /\ [][Next]_vars

(* A request handler and a task that have begun run to their end, a queued  *)
(* task is taken, and PostgreSQL does not starve a waiter for the row lock. *)
Fairness ==
    /\ \A f \in Flushers : WF_vars(FlushNext(f)) /\ SF_vars(FlushTransaction(f))
    /\ \A w \in Workers : WF_vars(TakeTask(w))
    /\ \A s \in Submitters : SF_vars(SubmitEnds(s))
    /\ \A r \in Savers : WF_vars(SaveLive(r) \/ SaveSchedule(r)) /\ WF_vars(SaveFallback(r))

FairSpec == Spec /\ Fairness

-----------------------------------------------------------------------------
(* Properties.                                                              *)

(* A dirty mark always has an answer behind it in the hash: the MULTI sets  *)
(* both and the clearing after a submission deletes both, so a flush that   *)
(* starts now never turns a mark into a blank answer.                       *)
DirtyHasAnswer == \A q \in dirty : live[q] # Absent

(* As long as the attempt is open for the first time and Redis has not      *)
(* refused a save, the page shows the student the last answer that was      *)
(* acknowledged, whatever flushes and refused submissions do meanwhile.     *)
SavedIsShown ==
    (status = "IN_PROGRESS" /\ resumes = 0 /\ fallbacks = 0)
        => \A q \in Questions : Shown(q) = chosen[q]

(* Without IT reopening the attempt it is marked at most once, though       *)
(* several requests may submit it at the same moment.                       *)
MarkedOnce == [][marked # Unmarked /\ resumes' = 0 => marked' = marked]_vars

InFlight == {sq[r] : r \in {x \in Savers : spc[x] # "idle"}}

(* What a submission marks contains every answer that was acknowledged with *)
(* "Saved" before it began (template: "Submitting your saved answers        *)
(* now...").                                                                *)
MarksSavedAnswers ==
    [][\A s \in Submitters : (fpc[s] = "flushed" /\ fpc'[s] = "committed")
          => \A q \in Questions \ (late[s] \cup InFlight) : marked'[q] = chosen[q]]_vars

(* A submission that began ends: no request waits for ever for the row.     *)
SubmissionEnds ==
    \A s \in Submitters : fpc[s] # "idle" ~> fpc[s] = "idle"
=============================================================================
