------------------------ MODULE CbtLiveAnswersProofs ------------------------
(* Theorems about CbtLiveAnswers, for every value of its constants.         *)
EXTENDS CbtLiveAnswers, TLAPS

(***************************************************************************)
(* Type correctness, one lemma per process.                                *)
(***************************************************************************)

LEMMA SheetTyped == EmptySheet \in Sheet
  BY DEF EmptySheet, Sheet, Selections

LEMMA FlushedTyped ==
  ASSUME TypeOK, NEW f \in Flushers
  PROVE  Flushed(f) \in Sheet
  BY DEF TypeOK, Flushed, Sheet

LEMMA ForgetsTyped ==
  ASSUME TypeOK, NEW f \in Flushers, NEW step \in FlushStep, Forgets(f, step)
  PROVE  /\ fpc' \in [Flushers -> FlushStep]
         /\ fids' \in [Flushers -> SUBSET Questions]
         /\ fver' \in [Flushers -> Nat]
         /\ fpay' \in [Flushers -> Sheet]
         /\ late' \in [Flushers -> SUBSET Questions]
  BY SheetTyped DEF TypeOK, Forgets

LEMMA FlushReturnsTyped ==
  ASSUME TypeOK, NEW f \in Flushers, FlushReturns(f)
  PROVE  /\ fpc' \in [Flushers -> FlushStep]
         /\ fids' \in [Flushers -> SUBSET Questions]
         /\ fver' \in [Flushers -> Nat]
         /\ fpay' \in [Flushers -> Sheet]
         /\ late' \in [Flushers -> SUBSET Questions]
  <1>1. CASE f \in Submitters
    BY <1>1 DEF TypeOK, FlushReturns, FlushStep, flush
  <1>2. CASE f \notin Submitters
    <2>1. Forgets(f, "idle")
      BY <1>2 DEF FlushReturns
    <2>2. QED
      BY <2>1, ForgetsTyped DEF FlushStep
  <1>3. QED
    BY <1>1, <1>2

LEMMA ScheduleTyped ==
  ASSUME TypeOK, ScheduleFlush
  PROVE  scheduled' \in BOOLEAN /\ tasks' \in Nat /\ faults' \in Nat
  <1>0. scheduled \in BOOLEAN /\ tasks \in Nat /\ faults \in Nat
    BY DEF TypeOK
  <1>1. CASE UNCHANGED <<scheduled, tasks, faults>>
    BY <1>0, <1>1
  <1>2. CASE scheduled' = TRUE /\ tasks' = tasks + 1 /\ UNCHANGED faults
    BY <1>0, <1>2
  <1>3. CASE faults' = faults + 1 /\ UNCHANGED <<scheduled, tasks>>
    BY <1>0, <1>3
  <1>4. QED
    BY <1>1, <1>2, <1>3, Zenon DEF ScheduleFlush

LEMMA SaveTyped ==
  ASSUME TypeOK, NEW r \in Savers, SaveNext(r)
  PROVE  TypeOK'
  <1>1. ASSUME NEW q \in Questions, NEW o \in Options, SaveCheck(r, q, o)
        PROVE  TypeOK'
    BY <1>1 DEF TypeOK, SaveCheck, SaveStep, Selections, pg, redis, flush, bounds
  <1>2. CASE SaveLive(r)
    BY <1>2 DEF TypeOK, SaveLive, Acknowledge, SaveStep, Sheet, pg, bounds
  <1>3. CASE SaveSchedule(r)
    BY <1>3, ScheduleTyped DEF TypeOK, SaveSchedule, SaveStep, pg, flush
  <1>4. CASE SaveRedisError(r)
    BY <1>4 DEF TypeOK, SaveRedisError, SaveStep, pg, redis, flush
  <1>5. CASE SaveFallback(r)
    BY <1>5 DEF TypeOK, SaveFallback, Acknowledge, SaveStep, Sheet, redis, bounds
  <1>6. QED
    BY <1>1, <1>2, <1>3, <1>4, <1>5 DEF SaveNext

LEMMA FlushTyped ==
  ASSUME TypeOK, NEW f \in Flushers, FlushNext(f)
  PROVE  TypeOK'
  <1>1. CASE FlushReadVersion(f)
    BY <1>1 DEF TypeOK, FlushReadVersion, FlushStep, pg, redis, save, bounds
  <1>2. CASE FlushNothing(f)
    BY <1>2, FlushReturnsTyped DEF TypeOK, FlushNothing, pg, save, bounds
  <1>3. CASE FlushReadPayload(f)
    <2>1. [q \in Questions |-> IF q \notin fids[f] \/ live[q] = Absent
                                  THEN Blank ELSE live[q]] \in Sheet
      BY DEF TypeOK, Sheet, Selections
    <2>2. QED
      BY <1>3, <2>1 DEF TypeOK, FlushReadPayload, FlushStep, pg, redis, save, bounds
  <1>4. CASE FlushTransaction(f)
    BY <1>4, FlushedTyped
       DEF TypeOK, FlushTransaction, FlushStep, redis, flush, save, bounds
  <1>5. CASE FlushTooLate(f)
    <2>1. PICK step \in FlushStep : Forgets(f, step)
      BY <1>5 DEF FlushTooLate, FlushStep
    <2>2. QED
      BY <1>5, <2>1, ForgetsTyped DEF TypeOK, FlushTooLate, save, bounds
  <1>6. CASE FlushUnschedule(f)
    BY <1>6 DEF TypeOK, FlushUnschedule, FlushStep, pg, flush, save, bounds
  <1>7. CASE FlushCompare(f)
    BY <1>7 DEF TypeOK, FlushCompare, FlushStep, pg, redis, flush, save, bounds
  <1>8. CASE FlushForget(f)
    BY <1>8, FlushReturnsTyped DEF TypeOK, FlushForget, pg, save, bounds
  <1>9. CASE FlushAgain(f)
    <2>1. scheduled' \in BOOLEAN /\ tasks' \in Nat /\ faults' \in Nat
      BY <1>9, ScheduleTyped DEF TypeOK, FlushAgain
    <2>2. QED
      BY <1>9, <2>1, FlushReturnsTyped DEF TypeOK, FlushAgain, pg, save
  <1>10. QED
    BY <1>1, <1>2, <1>3, <1>4, <1>5, <1>6, <1>7, <1>8, <1>9 DEF FlushNext

LEMMA WorkerTyped ==
  ASSUME TypeOK, NEW w \in Workers, WorkerNext(w)
  PROVE  TypeOK'
  <1>1. w \in Flushers
    BY DEF Flushers
  <1>2. CASE TakeTask(w)
    BY <1>1, <1>2 DEF TypeOK, TakeTask, ReadDirty, FlushStep, pg, redis, save, bounds
  <1>3. CASE WorkerFails(w)
    BY <1>1, <1>3, ForgetsTyped DEF TypeOK, WorkerFails, FlushStep, pg, redis, save
  <1>4. QED
    BY <1>2, <1>3 DEF WorkerNext

LEMMA SubmitTyped ==
  ASSUME TypeOK, NEW s \in Submitters, SubmitNext(s)
  PROVE  TypeOK'
  <1>1. s \in Flushers
    BY DEF Flushers
  <1>2. CASE SubmitBegin(s)
    BY <1>1, <1>2 DEF TypeOK, SubmitBegin, ReadDirty, FlushStep, pg, redis, save, bounds
  <1>3. CASE SubmitAgain(s)
    BY <1>1, <1>3, ForgetsTyped, FlushedTyped
       DEF TypeOK, SubmitAgain, FlushStep, redis, save, bounds
  <1>4. CASE SubmitRefused(s)
    BY <1>1, <1>4, ForgetsTyped DEF TypeOK, SubmitRefused, FlushStep, redis, save, bounds
  <1>5. CASE SubmitCommit(s)
    BY <1>1, <1>5, ForgetsTyped, FlushedTyped
       DEF TypeOK, SubmitCommit, FlushStep, Status, redis, save, bounds
  <1>6. CASE SubmitClear(s)
    BY <1>1, <1>6, ForgetsTyped DEF TypeOK, SubmitClear, FlushStep, pg, save, bounds
  <1>7. CASE SubmitFails(s)
    BY <1>1, <1>7, ForgetsTyped DEF TypeOK, SubmitFails, FlushStep, redis, save
  <1>8. QED
    BY <1>2, <1>3, <1>4, <1>5, <1>6, <1>7 DEF SubmitNext, SubmitEnds

LEMMA OthersTyped ==
  ASSUME TypeOK, ScheduleExpires \/ CompleteSimulation \/ Finalize \/ Resume
  PROVE  TypeOK'
  <1>1. CASE ScheduleExpires
    <2>1. scheduled' \in BOOLEAN
      BY <1>1, Zenon DEF ScheduleExpires
    <2>2. faults' \in Nat
      <3>1. faults \in Nat /\ faults' = faults + 1
        BY <1>1, Zenon DEF TypeOK, ScheduleExpires
      <3>2. QED
        BY <3>1
    <2>3. UNCHANGED <<pg, live, dirty, version, tasks, fpc, flush, save, chosen,
                      saves, resumes, fallbacks>>
      BY <1>1 DEF ScheduleExpires
    <2>4. QED
      BY <2>1, <2>2, <2>3 DEF TypeOK, pg, flush, save
  <1>2. CASE CompleteSimulation
    BY <1>2 DEF TypeOK, CompleteSimulation, redis, flush, save, bounds
  <1>3. CASE Finalize
    BY <1>3 DEF TypeOK, Finalize, Status, redis, flush, save, bounds
  <1>4. CASE Resume
    <2>1. status' \in Status /\ scheduled' \in BOOLEAN
      BY <1>4, Zenon DEF Resume, Status
    <2>2. resumes' \in Nat
      <3>1. resumes \in Nat /\ resumes' = resumes + 1
        BY <1>4, Zenon DEF TypeOK, Resume
      <3>2. QED
        BY <3>1
    <2>3. UNCHANGED <<db, marked, lock, pendingSim, live, dirty, version, tasks, fpc,
                      flush, save, chosen, saves, faults, fallbacks>>
      BY <1>4 DEF Resume
    <2>4. QED
      BY <2>1, <2>2, <2>3 DEF TypeOK, flush, save
  <1>5. QED
    BY <1>1, <1>2, <1>3, <1>4

(* Every reachable state has the declared types: in particular the stored   *)
(* and the marked sheet never hold the "no field" value of the Redis hash.  *)
THEOREM TypeCorrect == Spec => []TypeOK
  <1>1. Init => TypeOK
    <2> SUFFICES ASSUME Init PROVE TypeOK
      OBVIOUS
    <2>1. /\ status \in Status /\ db \in Sheet /\ marked \in Sheet \cup {Unmarked}
          /\ lock \in Submitters \cup {Nobody} /\ pendingSim \in BOOLEAN
      BY SheetTyped, Distinct DEF Init, Status
    <2>2. /\ live \in [Questions -> Selections \cup {Absent}]
          /\ dirty \subseteq Questions /\ version \in Nat /\ scheduled \in BOOLEAN
          /\ tasks \in Nat
      BY DEF Init
    <2>3. /\ fpc \in [Flushers -> FlushStep] /\ fids \in [Flushers -> SUBSET Questions]
          /\ fver \in [Flushers -> Nat] /\ fpay \in [Flushers -> Sheet]
          /\ late \in [Flushers -> SUBSET Questions]
      BY SheetTyped DEF Init, FlushStep
    <2>4. /\ spc \in [Savers -> SaveStep] /\ sq \in [Savers -> Questions]
          /\ sopt \in [Savers -> Selections] /\ chosen \in Sheet
      BY SheetTyped DEF Init, SaveStep, Selections
    <2>5. saves \in Nat /\ faults \in Nat /\ resumes \in Nat /\ fallbacks \in Nat
      BY DEF Init
    <2>6. QED
      BY <2>1, <2>2, <2>3, <2>4, <2>5 DEF TypeOK
  <1>2. TypeOK /\ [Next]_vars => TypeOK'
    <2> SUFFICES ASSUME TypeOK, [Next]_vars PROVE TypeOK'
      OBVIOUS
    <2>1. CASE Next
      BY <2>1, SaveTyped, FlushTyped, WorkerTyped, SubmitTyped, OthersTyped DEF Next
    <2>2. CASE UNCHANGED vars
      BY <2>2 DEF TypeOK, vars, pg, redis, flush, save, bounds
    <2>3. QED
      BY <2>1, <2>2
  <1>3. QED
    BY <1>1, <1>2, PTL DEF Spec

(***************************************************************************)
(* A dirty mark has an answer behind it.                                   *)
(***************************************************************************)

LEMMA FlushReturnsKeeps ==
  ASSUME NEW f \in Flushers, FlushReturns(f)
  PROVE  \/ UNCHANGED fids /\ f \in Submitters /\ fpc' = [fpc EXCEPT ![f] = "flushed"]
         \/ fids' = [fids EXCEPT ![f] = {}] /\ fpc' = [fpc EXCEPT ![f] = "idle"]
  BY DEF FlushReturns, Forgets, flush

LEMMA DirtyStep ==
  ASSUME TypeOK, DirtyHasAnswer, [Next]_vars
  PROVE  DirtyHasAnswer'
  <1>1. CASE UNCHANGED <<live, dirty>>
    BY <1>1 DEF DirtyHasAnswer
  <1>2. CASE dirty' = {}
    BY <1>2 DEF DirtyHasAnswer
  <1>3. ASSUME NEW r \in Savers, SaveLive(r)
        PROVE  DirtyHasAnswer'
    <2>1. sopt[r] # Absent
      BY Distinct DEF TypeOK, Selections
    <2>2. sq[r] \in Questions /\ live \in [Questions -> Selections \cup {Absent}]
      BY DEF TypeOK
    <2>3. QED
      BY <1>3, <2>1, <2>2 DEF SaveLive, DirtyHasAnswer, TypeOK
  <1>4. ASSUME NEW r \in Savers, SaveNext(r), ~SaveLive(r)
        PROVE  UNCHANGED <<live, dirty>>
    BY <1>4 DEF SaveNext, SaveCheck, SaveSchedule, SaveRedisError, SaveFallback, redis
  <1>5. ASSUME NEW f \in Flushers, FlushNext(f)
        PROVE  UNCHANGED live /\ (UNCHANGED dirty \/ dirty' = {})
    BY <1>5 DEF FlushNext, FlushReadVersion, FlushNothing, FlushReadPayload,
                FlushTransaction, FlushTooLate, FlushUnschedule, FlushCompare,
                FlushForget, FlushAgain, redis
  <1>6. ASSUME NEW w \in Workers, WorkerNext(w)
        PROVE  UNCHANGED <<live, dirty>>
    BY <1>6 DEF WorkerNext, TakeTask, WorkerFails, redis
  <1>7. ASSUME NEW s \in Submitters, SubmitNext(s)
        PROVE  UNCHANGED <<live, dirty>> \/ dirty' = {}
    BY <1>7 DEF SubmitNext, SubmitEnds, SubmitBegin, SubmitAgain, SubmitRefused,
                SubmitCommit, SubmitClear, SubmitFails, redis
  <1>8. ASSUME ScheduleExpires \/ CompleteSimulation \/ Finalize \/ Resume
        PROVE  UNCHANGED <<live, dirty>>
    BY <1>8 DEF ScheduleExpires, CompleteSimulation, Finalize, Resume, redis
  <1>9. CASE UNCHANGED vars
    BY <1>1, <1>9 DEF vars, redis
  <1>10. QED
    BY <1>1, <1>2, <1>3, <1>4, <1>5, <1>6, <1>7, <1>8, <1>9 DEF Next

(* A question is never marked dirty without an answer in the hash, so no    *)
(* flush that starts now can overwrite a stored answer with a blank.        *)
THEOREM DirtyAlwaysHasAnswer == Spec => []DirtyHasAnswer
  <1>1. Init => DirtyHasAnswer
    BY DEF Init, DirtyHasAnswer
  <1>2. TypeOK /\ DirtyHasAnswer /\ [Next]_vars => DirtyHasAnswer'
    BY DirtyStep
  <1>3. QED
    BY <1>1, <1>2, TypeCorrect, PTL DEF Spec

(***************************************************************************)
(* What the page shows is what was acknowledged.                           *)
(***************************************************************************)

FirstOpening == status = "IN_PROGRESS" /\ resumes = 0 /\ fallbacks = 0

(* While the attempt is open for the first time no submission has committed *)
(* and no save is falling back; the hash holds what was acknowledged, and   *)
(* for a question it does not hold the stored answer is the acknowledged    *)
(* one and no flush carries that question.                                  *)
OpenInv ==
  FirstOpening =>
    /\ \A f \in Flushers : fpc[f] # "committed"
    /\ \A r \in Savers : spc[r] # "fallback"
    /\ \A q \in Questions : live[q] # Absent => live[q] = chosen[q]
    /\ \A q \in Questions : live[q] = Absent =>
          db[q] = chosen[q] /\ \A f \in Flushers : q \notin fids[f]

(* A first opening does not come back: once the attempt is submitted, or    *)
(* reopened, or Redis refused a save, it is over.                           *)
LEMMA FirstOpeningEnds ==
  ASSUME TypeOK, [Next]_vars, FirstOpening'
  PROVE  FirstOpening /\ ~Resume
  <1>0. resumes \in Nat /\ fallbacks \in Nat
    BY DEF TypeOK
  <1>1. ASSUME NEW r \in Savers, SaveNext(r)
        PROVE  FirstOpening
    BY <1>0, <1>1 DEF SaveNext, SaveCheck, SaveLive, SaveSchedule, SaveRedisError,
                      SaveFallback, FirstOpening, pg, bounds
  <1>2. ASSUME NEW f \in Flushers, FlushNext(f)
        PROVE  FirstOpening
    BY <1>2 DEF FlushNext, FlushReadVersion, FlushNothing, FlushReadPayload,
                FlushTransaction, FlushTooLate, FlushUnschedule, FlushCompare,
                FlushForget, FlushAgain, FirstOpening, pg, bounds
  <1>3. ASSUME NEW w \in Workers, WorkerNext(w)
        PROVE  FirstOpening
    BY <1>3 DEF WorkerNext, TakeTask, WorkerFails, FirstOpening, pg, bounds
  <1>4. ASSUME NEW s \in Submitters, SubmitNext(s)
        PROVE  FirstOpening
    BY <1>4 DEF SubmitNext, SubmitEnds, SubmitBegin, SubmitAgain, SubmitRefused,
                SubmitCommit, SubmitClear, SubmitFails, FirstOpening, pg, bounds
  <1>5. ASSUME ScheduleExpires \/ CompleteSimulation \/ Finalize
        PROVE  FirstOpening
    BY <1>5 DEF ScheduleExpires, CompleteSimulation, Finalize, FirstOpening, pg, bounds
  <1>6. ~Resume
    BY <1>0 DEF Resume, FirstOpening
  <1>7. CASE UNCHANGED vars
    BY <1>6, <1>7 DEF vars, pg, bounds, FirstOpening
  <1>8. QED
    BY <1>1, <1>2, <1>3, <1>4, <1>5, <1>6, <1>7 DEF Next

LEMMA OpenSave ==
  ASSUME TypeOK, DirtyHasAnswer, OpenInv, FirstOpening, FirstOpening',
         NEW r \in Savers, SaveNext(r)
  PROVE  OpenInv'
  <1>1. ASSUME NEW q \in Questions, NEW o \in Options, SaveCheck(r, q, o)
        PROVE  OpenInv'
    BY <1>1 DEF SaveCheck, OpenInv, TypeOK, pg, redis, flush
  <1>2. CASE SaveLive(r)
    <2>1. sopt[r] # Absent /\ sq[r] \in Questions
      BY Distinct DEF TypeOK, Selections
    <2>2. QED
      BY <1>2, <2>1 DEF SaveLive, Acknowledge, OpenInv, TypeOK, Sheet, pg
  <1>3. CASE SaveSchedule(r)
    BY <1>3 DEF SaveSchedule, OpenInv, TypeOK, pg, flush
  <1>4. CASE SaveRedisError(r)
    BY <1>4 DEF SaveRedisError, FirstOpening, TypeOK
  <1>5. CASE SaveFallback(r)
    BY <1>5 DEF SaveFallback, OpenInv
  <1>6. QED
    BY <1>1, <1>2, <1>3, <1>4, <1>5 DEF SaveNext

LEMMA OpenFlush ==
  ASSUME TypeOK, DirtyHasAnswer, OpenInv, FirstOpening, FirstOpening',
         NEW f \in Flushers, FlushNext(f)
  PROVE  OpenInv'
  <1>1. CASE FlushReadVersion(f)
    BY <1>1 DEF FlushReadVersion, OpenInv, TypeOK, pg, redis, save
  <1>2. CASE FlushNothing(f)
    BY <1>2, FlushReturnsKeeps DEF FlushNothing, OpenInv, TypeOK, pg, save
  <1>3. CASE FlushReadPayload(f)
    BY <1>3 DEF FlushReadPayload, OpenInv, TypeOK, pg, redis, save
  <1>4. CASE FlushTransaction(f)
    BY <1>4 DEF FlushTransaction, Flushed, OpenInv, TypeOK, Sheet, redis, flush, save
  <1>5. CASE FlushTooLate(f)
    BY <1>5 DEF FlushTooLate, FirstOpening
  <1>6. CASE FlushUnschedule(f)
    BY <1>6 DEF FlushUnschedule, OpenInv, TypeOK, pg, flush, save
  <1>7. CASE FlushCompare(f)
    BY <1>7 DEF FlushCompare, OpenInv, TypeOK, pg, redis, flush, save
  <1>8. CASE FlushForget(f)
    BY <1>8, FlushReturnsKeeps DEF FlushForget, OpenInv, TypeOK, pg, save
  <1>9. CASE FlushAgain(f)
    BY <1>9, FlushReturnsKeeps DEF FlushAgain, OpenInv, TypeOK, pg, save
  <1>10. QED
    BY <1>1, <1>2, <1>3, <1>4, <1>5, <1>6, <1>7, <1>8, <1>9 DEF FlushNext

LEMMA OpenWorker ==
  ASSUME TypeOK, DirtyHasAnswer, OpenInv, FirstOpening, FirstOpening',
         NEW w \in Workers, WorkerNext(w)
  PROVE  OpenInv'
  <1>1. w \in Flushers
    BY DEF Flushers
  <1>2. CASE TakeTask(w)
    BY <1>1, <1>2 DEF TakeTask, ReadDirty, OpenInv, DirtyHasAnswer, TypeOK, pg, redis, save
  <1>3. CASE WorkerFails(w)
    BY <1>1, <1>3 DEF WorkerFails, Forgets, OpenInv, TypeOK, pg, redis, save
  <1>4. QED
    BY <1>2, <1>3 DEF WorkerNext

LEMMA OpenSubmit ==
  ASSUME TypeOK, DirtyHasAnswer, OpenInv, FirstOpening, FirstOpening',
         NEW s \in Submitters, SubmitNext(s)
  PROVE  OpenInv'
  <1>1. s \in Flushers
    BY DEF Flushers
  <1>2. CASE SubmitBegin(s)
    BY <1>1, <1>2 DEF SubmitBegin, ReadDirty, OpenInv, DirtyHasAnswer, TypeOK, pg, redis,
                      save
  <1>3. CASE SubmitAgain(s)
    BY <1>3 DEF SubmitAgain, FirstOpening
  <1>4. CASE SubmitRefused(s)
    BY <1>1, <1>4 DEF SubmitRefused, Forgets, OpenInv, TypeOK, redis, save
  <1>5. CASE SubmitCommit(s)
    BY <1>5 DEF SubmitCommit, FirstOpening
  <1>6. CASE SubmitClear(s)
    BY <1>1, <1>6 DEF SubmitClear, OpenInv
  <1>7. CASE SubmitFails(s)
    BY <1>1, <1>7 DEF SubmitFails, Forgets, OpenInv, TypeOK, redis, save
  <1>8. QED
    BY <1>2, <1>3, <1>4, <1>5, <1>6, <1>7 DEF SubmitNext, SubmitEnds

LEMMA OpenStep ==
  ASSUME TypeOK, DirtyHasAnswer, OpenInv, [Next]_vars
  PROVE  OpenInv'
  <1> SUFFICES ASSUME FirstOpening'
               PROVE  OpenInv'
    BY DEF OpenInv
  <1>1. FirstOpening /\ ~Resume
    BY FirstOpeningEnds
  <1>2. CASE ScheduleExpires \/ CompleteSimulation \/ Finalize
    BY <1>1, <1>2 DEF ScheduleExpires, CompleteSimulation, Finalize, OpenInv, pg, redis,
                      flush, save
  <1>3. CASE UNCHANGED vars
    BY <1>1, <1>3 DEF vars, OpenInv, pg, redis, flush, save
  <1>4. QED
    BY <1>1, <1>2, <1>3, OpenSave, OpenFlush, OpenWorker, OpenSubmit DEF Next

(* While an attempt is open for the first time and Redis has not refused a  *)
(* save, the student's page shows the last acknowledged answer of every     *)
(* question, for any number of workers, requests and questions.             *)
THEOREM SavedAlwaysShown == Spec => []SavedIsShown
  <1>1. Init => OpenInv
    BY DEF Init, OpenInv, EmptySheet
  <1>2. TypeOK /\ DirtyHasAnswer /\ OpenInv /\ [Next]_vars => OpenInv'
    BY OpenStep
  <1>3. OpenInv => SavedIsShown
    BY DEF OpenInv, SavedIsShown, FirstOpening, Shown
  <1>4. QED
    BY <1>1, <1>2, <1>3, TypeCorrect, DirtyAlwaysHasAnswer, PTL DEF Spec

(***************************************************************************)
(* Marking.                                                                *)
(***************************************************************************)

(* A marked attempt that IT has not reopened is no longer in progress.      *)
MarkedInv == (marked # Unmarked /\ resumes = 0) => status # "IN_PROGRESS"

LEMMA MarkedStep ==
  ASSUME TypeOK, MarkedInv, [Next]_vars, resumes' = 0
  PROVE  MarkedInv' /\ (marked # Unmarked => marked' = marked)
  <1>0. resumes \in Nat
    BY DEF TypeOK
  <1>1. ASSUME NEW r \in Savers, SaveNext(r)
        PROVE  UNCHANGED <<status, marked, resumes>>
    BY <1>1 DEF SaveNext, SaveCheck, SaveLive, SaveSchedule, SaveRedisError, SaveFallback,
                pg, bounds
  <1>2. ASSUME NEW f \in Flushers, FlushNext(f)
        PROVE  UNCHANGED <<status, marked, resumes>>
    BY <1>2 DEF FlushNext, FlushReadVersion, FlushNothing, FlushReadPayload,
                FlushTransaction, FlushTooLate, FlushUnschedule, FlushCompare,
                FlushForget, FlushAgain, pg, bounds
  <1>3. ASSUME NEW w \in Workers, WorkerNext(w)
        PROVE  UNCHANGED <<status, marked, resumes>>
    BY <1>3 DEF WorkerNext, TakeTask, WorkerFails, pg, bounds
  <1>4. ASSUME NEW s \in Submitters, SubmitNext(s)
        PROVE  /\ UNCHANGED resumes
               /\ \/ UNCHANGED <<status, marked>>
                  \/ status = "IN_PROGRESS" /\ status' = "SUBMITTED"
    BY <1>4 DEF SubmitNext, SubmitEnds, SubmitBegin, SubmitAgain, SubmitRefused,
                SubmitCommit, SubmitClear, SubmitFails, pg, bounds
  <1>5. ASSUME ScheduleExpires \/ CompleteSimulation \/ Finalize
        PROVE  /\ UNCHANGED <<marked, resumes>>
               /\ UNCHANGED status \/ status' = "FINALIZED"
    BY <1>5 DEF ScheduleExpires, CompleteSimulation, Finalize, pg, bounds
  <1>6. ~Resume
    BY <1>0 DEF Resume
  <1>7. CASE UNCHANGED vars
    BY <1>7 DEF vars, pg, bounds, MarkedInv
  <1>8. QED
    BY <1>1, <1>2, <1>3, <1>4, <1>5, <1>6, <1>7 DEF Next, MarkedInv

(* However many requests submit an attempt at once, and however they fail,  *)
(* it is marked at most once until IT reopens it.                           *)
THEOREM MarkedAtMostOnce == Spec => MarkedOnce
  <1>1. Init => MarkedInv
    BY DEF Init, MarkedInv
  <1>2. TypeOK /\ MarkedInv /\ [Next]_vars => MarkedInv'
    <2> SUFFICES ASSUME TypeOK, MarkedInv, [Next]_vars, resumes' = 0
                 PROVE  MarkedInv'
      BY DEF MarkedInv
    <2>1. QED
      BY MarkedStep
  <1>3. TypeOK /\ MarkedInv /\ [Next]_vars
          => [marked # Unmarked /\ resumes' = 0 => marked' = marked]_vars
    BY MarkedStep
  <1>4. QED
    BY <1>1, <1>2, <1>3, TypeCorrect, PTL DEF Spec, MarkedOnce

(***************************************************************************)
(* What a submission marks, when submissions are the only flushes and none *)
(* of them is undone.  The property fails without any one of the four      *)
(* conditions: a worker's flush can lose a mark (LiveAnswersLostMark); a   *)
(* fault lets a save fall back to the stored sheet, which the flush then   *)
(* writes an older answer over; a refusal rolls back a flush whose marks   *)
(* are deleted; and a reopened attempt lacks a save that came too late for *)
(* the first submission and was cleared with the hash.                     *)
(***************************************************************************)

Undisturbed ==
  Workers = {} /\ MaxFaults = 0 /\ MaxResumes = 0 /\ SimulationRequired = FALSE

(* Steps of a flush that only the holder of the row takes.                  *)
Holding == {"written", "unscheduled", "match", "mismatch"}

(* The holder of the row has flushed and cleared: nothing but its commit    *)
(* is left, after which nobody marks.                                       *)
AtEnd == lock # Nobody /\ fpc[lock] = "flushed"

(* What submission s will mark is what was acknowledged before it began, or *)
(* it waits for the row of one that will have submitted the attempt.        *)
Carries(s, q) ==
  IF q \in fids[s]
     THEN fpc[s] \in {"ids", "version"} \/ fpay[s][q] = chosen[q]
     ELSE live[q] = Absent \/ (AtEnd /\ lock # s)

MarkInv ==
  /\ ~pendingSim
  /\ status = "IN_PROGRESS" =>
      /\ db = EmptySheet
      /\ \A s \in Submitters : fpc[s] # "committed" /\ (fpc[s] \in Holding => lock = s)
      /\ lock # Nobody => fpc[lock] \in Holding \cup {"flushed"}
      /\ \A r \in Savers : spc[r] # "fallback"
      /\ \A q \in Questions : chosen[q] = IF live[q] = Absent THEN Blank ELSE live[q]
      /\ \A q \in Questions \ dirty : live[q] = Absent \/ AtEnd
      /\ \A s \in Submitters : fpc[s] # "idle" =>
            \A q \in Questions \ late[s] : Carries(s, q)

(* No fault, no refusal, no reopening: the attempt stays as it is until it  *)
(* is submitted for good.                                                   *)
LEMMA NothingUndone ==
  ASSUME TypeOK, Undisturbed, [Next]_vars, MarkInv, status' = "IN_PROGRESS"
  PROVE  /\ status = "IN_PROGRESS" /\ ~pendingSim'
         /\ \/ \E r \in Savers : SaveLive(r) \/ SaveSchedule(r)
                 \/ \E q \in Questions, o \in Options : SaveCheck(r, q, o)
            \/ \E s \in Submitters : FlushNext(s) \/ SubmitBegin(s)
            \/ UNCHANGED vars
  <1>0. faults \in Nat /\ resumes \in Nat /\ MaxFaults = 0 /\ MaxResumes = 0
          /\ Workers = {} /\ ~pendingSim
    BY DEF TypeOK, Undisturbed, MarkInv
  <1>1. ~ScheduleExpires /\ ~Resume /\ ~CompleteSimulation
    BY <1>0 DEF ScheduleExpires, Resume, CompleteSimulation
  <1>2. ~Finalize
    BY DEF Finalize
  <1>3. ASSUME NEW s \in Submitters, SubmitNext(s)
        PROVE  SubmitBegin(s)
    <2>1. ~SubmitFails(s) /\ ~SubmitRefused(s)
      BY <1>0 DEF SubmitFails, SubmitRefused
    <2>2. ~SubmitCommit(s)
      BY DEF SubmitCommit
    <2>3. ~SubmitAgain(s)
      BY DEF SubmitAgain
    <2>4. ~SubmitClear(s)
      BY DEF SubmitClear, MarkInv, pg
    <2>5. QED
      BY <1>3, <2>1, <2>2, <2>3, <2>4 DEF SubmitNext, SubmitEnds
  <1>4. ASSUME NEW r \in Savers, SaveNext(r)
        PROVE  /\ UNCHANGED <<status, pendingSim>>
               /\ SaveLive(r) \/ SaveSchedule(r)
                    \/ \E q \in Questions, o \in Options : SaveCheck(r, q, o)
    <2>1. ~SaveRedisError(r)
      BY <1>0 DEF SaveRedisError
    <2>2. ASSUME SaveFallback(r)
          PROVE  FALSE
      BY <2>2 DEF SaveFallback, MarkInv
    <2>3. UNCHANGED <<status, pendingSim>>
      BY <1>4, <2>1, <2>2 DEF SaveNext, SaveCheck, SaveLive, SaveSchedule, pg
    <2>4. QED
      BY <1>4, <2>1, <2>2, <2>3 DEF SaveNext
  <1>5. ASSUME NEW s \in Submitters, FlushNext(s) \/ SubmitBegin(s)
        PROVE  UNCHANGED <<status, pendingSim>>
    BY <1>5 DEF FlushNext, FlushReadVersion, FlushNothing, FlushReadPayload,
                FlushTransaction, FlushTooLate, FlushUnschedule, FlushCompare,
                FlushForget, FlushAgain, SubmitBegin, pg
  <1>6. Flushers = Submitters
    BY <1>0 DEF Flushers
  <1>7. CASE UNCHANGED vars
    BY <1>0, <1>7 DEF vars, pg
  <1>8. CASE Next
    <2>1. CASE \E r \in Savers : SaveNext(r)
      BY <1>0, <1>4, <2>1
    <2>2. CASE \E s \in Submitters : FlushNext(s) \/ SubmitNext(s)
      BY <1>0, <1>3, <1>5, <2>2
    <2>3. QED
      BY <1>0, <1>1, <1>2, <1>6, <1>8, <2>1, <2>2 DEF Next
  <1>9. QED
    BY <1>7, <1>8

LEMMA MarkSave ==
  ASSUME TypeOK, MarkInv, status = "IN_PROGRESS", ~pendingSim',
         NEW r \in Savers,
         \/ SaveLive(r) \/ SaveSchedule(r)
         \/ \E q \in Questions, o \in Options : SaveCheck(r, q, o)
  PROVE  MarkInv'
  <1>1. ASSUME NEW q \in Questions, NEW o \in Options, SaveCheck(r, q, o)
        PROVE  MarkInv'
    BY <1>1 DEF SaveCheck, MarkInv, Carries, AtEnd, TypeOK, pg, redis, flush
  <1>2. CASE SaveSchedule(r)
    BY <1>2 DEF SaveSchedule, MarkInv, Carries, AtEnd, TypeOK, pg, flush
  <1>3. CASE SaveLive(r)
    <2>1. sopt[r] # Absent /\ sq[r] \in Questions
      BY Distinct DEF TypeOK, Selections
    <2>2. UNCHANGED <<status, db, lock, pendingSim, fpc, fids, fpay>>
      BY <1>3 DEF SaveLive, pg
    <2>3. /\ chosen' = [chosen EXCEPT ![sq[r]] = sopt[r]]
          /\ live' = [live EXCEPT ![sq[r]] = sopt[r]]
          /\ dirty' = dirty \cup {sq[r]} /\ spc' = [spc EXCEPT ![r] = "written"]
      BY <1>3 DEF SaveLive, Acknowledge
    <2>4. \A q \in Questions : q # sq[r] => chosen'[q] = chosen[q] /\ live'[q] = live[q]
      BY <2>3 DEF TypeOK, Sheet
    <2>5. chosen'[sq[r]] = sopt[r] /\ live'[sq[r]] = sopt[r]
      BY <2>1, <2>3 DEF TypeOK, Sheet
    <2>6. AtEnd' = AtEnd
      BY <2>2 DEF AtEnd
    <2>7. \A q \in Questions : chosen'[q] = IF live'[q] = Absent THEN Blank ELSE live'[q]
      BY <2>1, <2>4, <2>5 DEF MarkInv
    <2>8. \A q \in Questions \ dirty' : live'[q] = Absent \/ AtEnd'
      BY <2>1, <2>3, <2>4, <2>6 DEF MarkInv
    <2>9. \A t \in Savers : spc'[t] # "fallback"
      BY <2>3 DEF TypeOK, MarkInv
    <2>10. ASSUME NEW s \in Submitters, fpc'[s] # "idle",
                  NEW q \in Questions \ late'[s]
           PROVE  Carries(s, q)'
      <3>1. fpc[s] # "idle" /\ fpc[s] # "committed" /\ s \in Flushers
        BY <2>2, <2>10 DEF MarkInv, Flushers
      <3>2. late'[s] = late[s] \cup {sq[r]}
        BY <1>3, <3>1 DEF SaveLive, Acknowledge
      <3>3. q # sq[r] /\ Carries(s, q)
        BY <2>10, <3>1, <3>2 DEF MarkInv
      <3>4. QED
        BY <2>2, <2>4, <2>6, <3>3 DEF Carries
    <2>11. QED
      BY <2>2, <2>7, <2>8, <2>9, <2>10 DEF MarkInv, Holding
  <1>4. QED
    BY <1>1, <1>2, <1>3

(* A step of one submission leaves what the others carry, if it leaves the  *)
(* answers alone and the row's holder stays at its end.                     *)
LEMMA OthersCarry ==
  ASSUME TypeOK, MarkInv, status = "IN_PROGRESS",
         NEW s \in Submitters, NEW t \in Submitters, t # s, UNCHANGED <<live, chosen>>,
         fpc'[t] = fpc[t], fids'[t] = fids[t], fpay'[t] = fpay[t], late'[t] = late[t],
         AtEnd => AtEnd' /\ lock' = lock,
         fpc'[t] # "idle", NEW q \in Questions \ late'[t]
  PROVE  Carries(t, q)'
  BY DEF MarkInv, Carries

(* Submission s goes on to a step of its flush; it holds the row then, or it*)
(* does not and did not, and it carries what it should.                     *)
Advances(s, step) ==
  /\ fpc' = [fpc EXCEPT ![s] = step] /\ step \notin {"idle", "committed"}
  /\ lock' = lock \/ (lock = Nobody /\ lock' = s)
  /\ step \in Holding => lock' = s
  /\ lock' = s => step \in Holding \cup {"flushed"}
  /\ lock = s => fpc[s] \in Holding
  /\ UNCHANGED <<db, status, live, chosen, spc, late>>
  /\ \A t \in Submitters : t # s => fids'[t] = fids[t] /\ fpay'[t] = fpay[t]
  /\ \A q \in Questions \ dirty' : live[q] = Absent \/ AtEnd'
  /\ \A q \in Questions \ late[s] : Carries(s, q)'

LEMMA AdvanceMarks ==
  ASSUME TypeOK, MarkInv, status = "IN_PROGRESS", ~pendingSim',
         NEW s \in Submitters, NEW step, Advances(s, step)
  PROVE  MarkInv'
  <1>1. Nobody \notin Submitters /\ lock \in Submitters \cup {Nobody}
          /\ fpc \in [Flushers -> FlushStep] /\ Submitters \subseteq Flushers
    BY Distinct DEF TypeOK, Flushers
  <1>2. /\ db = EmptySheet
        /\ \A x \in Submitters : fpc[x] # "committed" /\ (fpc[x] \in Holding => lock = x)
        /\ lock # Nobody => fpc[lock] \in Holding \cup {"flushed"}
        /\ \A r \in Savers : spc[r] # "fallback"
        /\ \A q \in Questions : chosen[q] = IF live[q] = Absent THEN Blank ELSE live[q]
    BY DEF MarkInv
  <1>3. fpc'[s] = step /\ \A t \in Submitters : t # s => fpc'[t] = fpc[t]
    BY <1>1 DEF Advances
  <1>4. AtEnd => AtEnd' /\ lock' = lock
    BY <1>1, <1>3 DEF Advances, AtEnd, Holding
  <1>5. \A t \in Submitters : fpc'[t] # "committed" /\ (fpc'[t] \in Holding => lock' = t)
    BY <1>1, <1>2, <1>3 DEF Advances
  <1>6. lock' # Nobody => fpc'[lock'] \in Holding \cup {"flushed"}
    BY <1>1, <1>2, <1>3 DEF Advances
  <1>7. ASSUME NEW t \in Submitters, fpc'[t] # "idle", NEW q \in Questions \ late'[t]
        PROVE  Carries(t, q)'
    <2>1. CASE t = s
      BY <1>7, <2>1 DEF Advances
    <2>2. CASE t # s
      BY <1>3, <1>4, <1>7, <2>2, OthersCarry DEF Advances
    <2>3. QED
      BY <2>1, <2>2
  <1>8. QED
    BY <1>2, <1>5, <1>6, <1>7 DEF Advances, MarkInv

LEMMA MarkFlush ==
  ASSUME TypeOK, MarkInv, status = "IN_PROGRESS", ~pendingSim',
         NEW s \in Submitters, FlushNext(s) \/ SubmitBegin(s)
  PROVE  MarkInv'
  <1>0. s \in Flushers /\ Nobody \notin Submitters /\ s # Nobody
    BY Distinct DEF Flushers
  <1>a. /\ db = EmptySheet
        /\ \A x \in Submitters : fpc[x] # "committed" /\ (fpc[x] \in Holding => lock = x)
        /\ lock # Nobody => fpc[lock] \in Holding \cup {"flushed"}
        /\ \A r \in Savers : spc[r] # "fallback"
        /\ \A q \in Questions : chosen[q] = IF live[q] = Absent THEN Blank ELSE live[q]
        /\ \A q \in Questions \ dirty : live[q] = Absent \/ AtEnd
        /\ \A x \in Submitters : fpc[x] # "idle" =>
              \A q \in Questions \ late[x] : Carries(x, q)
    BY DEF MarkInv
  <1>b. lock \in Submitters \cup {Nobody} /\ fpc \in [Flushers -> FlushStep]
          /\ Submitters \subseteq Flushers /\ fids \in [Flushers -> SUBSET Questions]
          /\ fpay \in [Flushers -> Sheet]
    BY DEF TypeOK, Flushers
  <1>1. ASSUME NEW step, Advances(s, step)
        PROVE  MarkInv'
    BY <1>1, AdvanceMarks
  <1>2. CASE SubmitBegin(s)
    <2>1. /\ fpc[s] = "idle" /\ fpc' = [fpc EXCEPT ![s] = "ids"]
          /\ fids' = [fids EXCEPT ![s] = dirty]
          /\ UNCHANGED <<pg, redis, fpay, late, save, chosen>>
      BY <1>2 DEF SubmitBegin, ReadDirty
    <2>2. UNCHANGED <<db, status, live, chosen, spc, late, lock, dirty>>
      BY <2>1 DEF pg, redis, save
    <2>3. AtEnd => AtEnd' /\ lock # s
      BY <1>0, <1>b, <2>1, <2>2 DEF AtEnd
    <2>4. fids'[s] = dirty /\ fpc'[s] = "ids"
      BY <1>0, <1>b, <2>1
    <2>5. \A q \in Questions \ late[s] : Carries(s, q)'
      BY <1>a, <2>2, <2>3, <2>4 DEF Carries
    <2>6. \A q \in Questions \ dirty' : live[q] = Absent \/ AtEnd'
      BY <1>a, <2>2, <2>3
    <2>7. lock # s
      BY <1>0, <1>a, <2>1 DEF Holding
    <2>8. Advances(s, "ids")
      BY <1>b, <2>1, <2>2, <2>5, <2>6, <2>7 DEF Advances, Holding
    <2>9. QED
      BY <1>1, <2>8
  <1>3. CASE FlushReadVersion(s)
    <2>1. /\ fpc[s] = "ids" /\ fpc' = [fpc EXCEPT ![s] = "version"]
          /\ UNCHANGED <<pg, redis, fids, fpay, late, save, chosen>>
      BY <1>3 DEF FlushReadVersion
    <2>2. UNCHANGED <<db, status, live, chosen, spc, late, lock, dirty, fids, fpay>>
      BY <2>1 DEF pg, redis, save
    <2>3. AtEnd => AtEnd'
      BY <1>0, <1>b, <2>1, <2>2 DEF AtEnd
    <2>4. fpc'[s] = "version" /\ \A q \in Questions \ late[s] : Carries(s, q)
      BY <1>0, <1>a, <1>b, <2>1
    <2>5. \A q \in Questions \ late[s] : Carries(s, q)'
      BY <2>2, <2>3, <2>4 DEF Carries
    <2>6. lock # s
      BY <1>0, <1>a, <2>1 DEF Holding
    <2>7. \A q \in Questions \ dirty' : live[q] = Absent \/ AtEnd'
      BY <1>a, <2>2, <2>3
    <2>8. Advances(s, "version")
      BY <1>b, <2>1, <2>2, <2>5, <2>6, <2>7 DEF Advances, Holding
    <2>9. QED
      BY <1>1, <2>8
  <1>4. CASE FlushNothing(s)
    <2>1. /\ fpc[s] = "version" /\ fids[s] = {} /\ fpc' = [fpc EXCEPT ![s] = "flushed"]
          /\ UNCHANGED <<pg, live, dirty, flush, save, chosen>>
      BY <1>4 DEF FlushNothing, FlushReturns
    <2>2. UNCHANGED <<db, status, live, chosen, spc, late, lock, dirty, fids, fpay>>
      BY <2>1 DEF pg, flush, save
    <2>3. AtEnd => AtEnd'
      BY <1>0, <1>b, <2>1, <2>2 DEF AtEnd
    <2>4. fpc'[s] = "flushed" /\ \A q \in Questions \ late[s] : Carries(s, q)
      BY <1>0, <1>a, <1>b, <2>1
    <2>5. \A q \in Questions \ late[s] : Carries(s, q)'
      BY <2>1, <2>2, <2>3, <2>4 DEF Carries
    <2>6. lock # s
      BY <1>0, <1>a, <2>1 DEF Holding
    <2>7. \A q \in Questions \ dirty' : live[q] = Absent \/ AtEnd'
      BY <1>a, <2>2, <2>3
    <2>8. Advances(s, "flushed")
      BY <1>b, <2>1, <2>2, <2>5, <2>6, <2>7 DEF Advances, Holding
    <2>9. QED
      BY <1>1, <2>8
  <1>5. CASE FlushReadPayload(s)
    <2>1. /\ fpc[s] = "version" /\ fpc' = [fpc EXCEPT ![s] = "payload"]
          /\ fpay' = [fpay EXCEPT ![s] = [q \in Questions |->
                  IF q \notin fids[s] \/ live[q] = Absent THEN Blank ELSE live[q]]]
          /\ UNCHANGED <<pg, redis, fids, late, save, chosen>>
      BY <1>5 DEF FlushReadPayload
    <2>2. UNCHANGED <<db, status, live, chosen, spc, late, lock, dirty, fids>>
      BY <2>1 DEF pg, redis, save
    <2>3. AtEnd => AtEnd'
      BY <1>0, <1>b, <2>1, <2>2 DEF AtEnd
    <2>4. fpc'[s] = "payload" /\ \A q \in Questions \ late[s] : Carries(s, q)
      BY <1>0, <1>a, <1>b, <2>1
    <2>5. \A q \in fids[s] : fpay'[s][q] = chosen[q]
      BY <1>0, <1>a, <1>b, <2>1
    <2>6. \A q \in Questions \ late[s] : Carries(s, q)'
      BY <2>2, <2>3, <2>4, <2>5 DEF Carries
    <2>7. lock # s
      BY <1>0, <1>a, <2>1 DEF Holding
    <2>8. \A t \in Submitters : t # s => fpay'[t] = fpay[t]
      BY <1>b, <2>1
    <2>9. \A q \in Questions \ dirty' : live[q] = Absent \/ AtEnd'
      BY <1>a, <2>2, <2>3
    <2>10. Advances(s, "payload")
      BY <1>b, <2>1, <2>2, <2>6, <2>7, <2>8, <2>9 DEF Advances, Holding
    <2>11. QED
      BY <1>1, <2>10
  <1>6. CASE FlushTransaction(s)
    <2>1. /\ fpc[s] = "payload" /\ fpc' = [fpc EXCEPT ![s] = "written"]
          /\ lock = Nobody /\ lock' = s
          /\ UNCHANGED <<db, status, redis, flush, save, chosen>>
      BY <1>6 DEF FlushTransaction
    <2>2. UNCHANGED <<db, status, live, chosen, spc, late, dirty, fids, fpay>>
      BY <2>1 DEF redis, flush, save
    <2>3. ~AtEnd
      BY <2>1 DEF AtEnd
    <2>4. fpc'[s] = "written" /\ \A q \in Questions \ late[s] : Carries(s, q)
      BY <1>0, <1>a, <1>b, <2>1
    <2>5. \A q \in Questions \ late[s] : Carries(s, q)'
      BY <2>1, <2>2, <2>3, <2>4 DEF Carries
    <2>6. \A q \in Questions \ dirty' : live[q] = Absent \/ AtEnd'
      BY <1>a, <2>2, <2>3
    <2>7. Advances(s, "written")
      BY <1>0, <1>b, <2>1, <2>2, <2>5, <2>6 DEF Advances, Holding
    <2>8. QED
      BY <1>1, <2>7
  <1>7. ~FlushTooLate(s)
    BY DEF FlushTooLate
  <1>8. ASSUME fpc[s] \in Holding, NEW step \in Holding \cup {"flushed"},
               fpc' = [fpc EXCEPT ![s] = step],
               UNCHANGED <<pg, live, flush, save, chosen>>,
               UNCHANGED dirty \/ step = "flushed"
        PROVE  MarkInv'
    <2>1. UNCHANGED <<db, status, live, chosen, spc, late, lock, fids, fpay>>
      BY <1>8 DEF pg, flush, save
    <2>2. lock = s /\ ~AtEnd /\ fpc'[s] = step
      BY <1>0, <1>a, <1>b, <1>8 DEF Holding, AtEnd
    <2>3. \A q \in Questions \ late[s] : Carries(s, q)
      BY <1>0, <1>a, <1>8 DEF Holding
    <2>4. \A q \in Questions \ late[s] : Carries(s, q)'
      BY <1>8, <2>1, <2>2, <2>3 DEF Carries, Holding
    <2>5. \A q \in Questions \ dirty' : live[q] = Absent \/ AtEnd'
      BY <1>0, <1>a, <1>8, <2>1, <2>2 DEF AtEnd
    <2>6. Advances(s, step)
      BY <1>8, <2>1, <2>2, <2>4, <2>5 DEF Advances, Holding
    <2>7. QED
      BY <1>1, <2>6
  <1>9. CASE FlushUnschedule(s)
    BY <1>8, <1>9 DEF FlushUnschedule, Holding
  <1>10. CASE FlushCompare(s)
    <2>1. (IF version = fver[s] THEN "match" ELSE "mismatch") \in Holding
      BY DEF Holding
    <2>2. QED
      BY <1>8, <1>10, <2>1 DEF FlushCompare, Holding, redis
  <1>11. CASE FlushForget(s)
    BY <1>8, <1>11 DEF FlushForget, FlushReturns, Holding
  <1>12. CASE FlushAgain(s)
    BY <1>8, <1>12 DEF FlushAgain, FlushReturns, Holding
  <1>13. QED
    BY <1>2, <1>3, <1>4, <1>5, <1>6, <1>7, <1>9, <1>10, <1>11, <1>12 DEF FlushNext

(* A simulation once done stays done.                                       *)
LEMMA SimulationStaysDone ==
  ASSUME [Next]_vars, ~pendingSim
  PROVE  ~pendingSim'
  <1>1. ASSUME NEW r \in Savers, SaveNext(r)
        PROVE  UNCHANGED pendingSim
    BY <1>1 DEF SaveNext, SaveCheck, SaveLive, SaveSchedule, SaveRedisError, SaveFallback, pg
  <1>2. ASSUME NEW f \in Flushers, FlushNext(f)
        PROVE  UNCHANGED pendingSim
    BY <1>2 DEF FlushNext, FlushReadVersion, FlushNothing, FlushReadPayload,
                FlushTransaction, FlushTooLate, FlushUnschedule, FlushCompare,
                FlushForget, FlushAgain, pg
  <1>3. ASSUME NEW w \in Workers, WorkerNext(w)
        PROVE  UNCHANGED pendingSim
    BY <1>3 DEF WorkerNext, TakeTask, WorkerFails, pg
  <1>4. ASSUME NEW s \in Submitters, SubmitNext(s)
        PROVE  UNCHANGED pendingSim
    BY <1>4 DEF SubmitNext, SubmitEnds, SubmitBegin, SubmitAgain, SubmitRefused,
                SubmitCommit, SubmitClear, SubmitFails, pg
  <1>5. ASSUME ScheduleExpires \/ CompleteSimulation \/ Finalize \/ Resume
        PROVE  ~pendingSim'
    BY <1>5 DEF ScheduleExpires, CompleteSimulation, Finalize, Resume, pg
  <1>6. CASE UNCHANGED vars
    BY <1>6 DEF vars, pg
  <1>7. QED
    BY <1>1, <1>2, <1>3, <1>4, <1>5, <1>6 DEF Next

LEMMA MarkStep ==
  ASSUME TypeOK, Undisturbed, MarkInv, [Next]_vars
  PROVE  MarkInv'
  <1>1. CASE status' # "IN_PROGRESS"
    BY <1>1, SimulationStaysDone DEF MarkInv
  <1>2. CASE status' = "IN_PROGRESS"
    <2>1. CASE UNCHANGED vars
      BY <2>1 DEF vars, pg, redis, flush, save, MarkInv, Carries, AtEnd
    <2>2. QED
      BY <1>2, <2>1, NothingUndone, MarkSave, MarkFlush
  <1>3. QED
    BY <1>1, <1>2

(* The step that marks.                                                     *)
LEMMA CommitMarks ==
  ASSUME TypeOK, Undisturbed, MarkInv, [Next]_vars, NEW s \in Submitters,
         fpc[s] = "flushed", fpc'[s] = "committed", NEW q \in Questions \ late[s]
  PROVE  marked'[q] = chosen[q]
  <1>1. Flushers = Submitters /\ fpc \in [Flushers -> FlushStep]
    BY DEF Undisturbed, Flushers, TypeOK
  <1>2. SubmitCommit(s)
    <2>1. ASSUME NEW r \in Savers, SaveNext(r)
          PROVE  UNCHANGED fpc
      BY <2>1 DEF SaveNext, SaveCheck, SaveLive, SaveSchedule, SaveRedisError, SaveFallback
    <2>2. ASSUME NEW f \in Flushers, FlushNext(f)
          PROVE  fpc'[s] # "committed"
      BY <1>1, <2>2 DEF FlushNext, FlushReadVersion, FlushNothing, FlushReadPayload,
                FlushTransaction, FlushTooLate, FlushUnschedule, FlushCompare,
                FlushForget, FlushAgain, FlushReturns, Forgets
    <2>3. ASSUME NEW t \in Submitters, SubmitNext(t)
          PROVE  SubmitCommit(s)
      BY <1>1, <2>3 DEF SubmitNext, SubmitEnds, SubmitBegin, ReadDirty, SubmitAgain,
                SubmitRefused, SubmitCommit, SubmitClear, SubmitFails, Forgets
    <2>4. ASSUME ScheduleExpires \/ CompleteSimulation \/ Finalize \/ Resume \/ UNCHANGED vars
          PROVE  UNCHANGED fpc
      BY <2>4 DEF ScheduleExpires, CompleteSimulation, Finalize, Resume, vars
    <2>5. Workers = {}
      BY DEF Undisturbed
    <2>6. QED
      BY <2>1, <2>2, <2>3, <2>4, <2>5 DEF Next
  <1>3. status = "IN_PROGRESS" /\ lock \in {Nobody, s} /\ marked' = Flushed(s)
    BY <1>2 DEF SubmitCommit, HasRow
  <1>4. db = EmptySheet /\ Carries(s, q)
          /\ chosen[q] = IF live[q] = Absent THEN Blank ELSE live[q]
    BY <1>3 DEF MarkInv
  <1>5. ~(AtEnd /\ lock # s)
    BY <1>3 DEF AtEnd
  <1>6. QED
    BY <1>3, <1>4, <1>5 DEF Carries, Flushed, EmptySheet

(* Where no worker flushes and nothing is undone, a submission marks every  *)
(* answer that was acknowledged before it began, however many requests save *)
(* and submit meanwhile.                                                    *)
THEOREM MarksSavedHolds == Undisturbed => (Spec => MarksSavedAnswers)
  <1> DEFINE Marks == \A s \in Submitters : (fpc[s] = "flushed" /\ fpc'[s] = "committed")
          => \A q \in Questions \ (late[s] \cup InFlight) : marked'[q] = chosen[q]
  <1> SUFFICES ASSUME Undisturbed PROVE Spec => [][Marks]_vars
    BY DEF MarksSavedAnswers
  <1>1. Init => MarkInv
    <2> SUFFICES ASSUME Init PROVE MarkInv
      OBVIOUS
    <2>1. \A s \in Submitters : fpc[s] = "idle"
      BY DEF Init, Flushers
    <2>2. ~pendingSim /\ db = EmptySheet /\ lock = Nobody
      BY DEF Init, Undisturbed
    <2>3. \A q \in Questions : chosen[q] = Blank /\ live[q] = Absent
      BY DEF Init, EmptySheet
    <2>4. \A r \in Savers : spc[r] # "fallback"
      BY DEF Init
    <2>5. QED
      BY <2>1, <2>2, <2>3, <2>4 DEF MarkInv, Holding
  <1>2. TypeOK /\ MarkInv /\ [Next]_vars => MarkInv'
    BY MarkStep
  <1>3. TypeOK /\ MarkInv /\ [Next]_vars => [Marks]_vars
    BY CommitMarks
  <1>4. QED
    BY <1>1, <1>2, <1>3, TypeCorrect, PTL DEF Spec
=============================================================================
