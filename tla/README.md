# Formal model of the NDGA school portal

This directory holds TLA+ modules that model parts of the portal in `src/`
(a Django application: PostgreSQL, Redis, Celery, and a second node on the
school's LAN), TLC configurations that check them on small instances, and
proofs checked by TLAPS. Paths below are relative to `src/`.

How to run: `tlc -config X.cfg M` for the run of module `M`; `tlapm M.tla` for
the module of proofs. `PROJECT.json` lists runs, mutants, the map from
definitions to source lines, findings, hazards and theorems.

## 1. The system

The portal runs in autocommit mode (no `ATOMIC_REQUESTS`): a view is a series
of separate statements, except where a service opens `transaction.atomic` or
takes `select_for_update`. PostgreSQL runs READ COMMITTED. Most hazards come
from the same place: an instance is loaded, checked, and saved later without a
lock.

| component | state | operations | hard behaviour |
|---|---|---|---|
| CBT live answers (`apps/cbt/exam_runtime.py`, `tasks.py`) | Redis hash, dirty set, version, schedule key of an attempt; stored answers | save, flush (worker, or inside a submission), clear | Redis round trips interleave with saves; rollback does not undo Redis; retries |
| CBT attempts (`apps/cbt/services.py`) | attempt status, lock and flag, pauses, scores, writeback to the score sheet | start, submit, finalise, lock, flag, unlock, unflag, pause, theory marking | stale instances; several requests act on one attempt; writeback is read-modify-write |
| CBT exams (`apps/cbt/workflow.py`) | exam status, snapshot, attempts | submit to dean, approve, reject, activate, close, revoke | no row lock; activation and attempt start race |
| Sync (`apps/sync/*`) | one outbox row per event on each node, transfer bindings, pull cursor | queue, dispatch, ingest, apply, pull, retry | two nodes, lost answers, duplicates, dependency waits, backoff, retry limit |
| Elections (`apps/elections/services.py`, `views.py`) | election status, vote groups, votes | open, close, vote, reset a voter | double voting, voting while closing, a reset of three separate deletes, votes on two nodes |
| Finance (`apps/finance/services.py`, `apps/sync/services.py`) | charges, payments, gateway transactions, receipts, the LAN's cursor | record payment, initialise, verify, webhook, pull to the LAN | duplicate callbacks; a pull that dies between commits; a timestamp as a cursor |
| Results (`apps/results/*`) | result sheets with decisions per component, scores, a compilation per arm | enter, submit, Dean's decisions, class compilation, VP's judgement, publish, override | two rows kept in step by separate requests; arms share their sheets; CBT writes into a sheet under review |
| Audit (`apps/audit/services.py`) | chain of hashed events | log, prune, verify | two loggers extend the same last event |
| Accounts, tenancy, academics, attendance, dashboards, notifications, PDFs, setup wizard, core | users, tenants, classes, registers, pages, mails, files, backups | CRUD, login, page rendering | mostly request-local; see `PROJECT.json` components |

Interactions: a CBT submission writes into result sheets and queues a sync
event; the LAN node runs exams and elections and its outbox feeds the cloud
node; inbound sync applies events to results, attempts and elections; audit
events are appended by nearly every service.

### What would make each component correct

* live answers: what the page calls saved is shown, flushed and marked; an
  attempt is marked once; a submission ends.
* attempts: one open attempt per student and exam; the score sheet holds the
  scores of submitted attempts and none of a flagged one; unflagging releases
  what it says it releases.
* exams: an activated snapshot does not change; no attempt belongs to an exam
  that is not active.
* sync: a row that says SYNCED was applied on the other node, what was applied
  stays applied, the last write of a record wins, and what was queued arrives.
* elections: one vote per voter and position, also across nodes, none outside
  the opening hours.
* finance: a payment confirmed by the gateway is recorded once in the cloud and
  once on the LAN, and the cursor passes none.
* results: a published sheet was approved by every stage after its last change,
  and the sheets of a level are where its compilation is.
* audit: the chain verifies.

## 2. The modules

| module | what it is |
|---|---|
| `CbtLiveAnswers` | the Redis write-behind store of ONE attempt and its submission |
| `CbtAttempt` | the attempts of ONE student at ONE exam and the student's row of the result sheet |
| `OutboxDelivery` | abstract: what an outbox promises about the events of the node it belongs to |
| `ClassReview` | abstract: what the review of a class level promises to the reader of a report card |
| `SyncOutbox` | the queues of the LAN and the cloud, push, ingest and pull; refines `OutboxDelivery` |
| `ResultReview` | the sheets of ONE class level in ONE term and the compilations of its arms; refines `ClassReview` |
| `PaymentLedger` | abstract: what the books of the two nodes promise about a payment reference |
| `FinancePull` | gateway transactions in the cloud, their verification, and the LAN's pull; refines `PaymentLedger` |
| `AuditChain` | the audit log and the steps of a writer; a part of a module that logs |
| `ElectionVoting` | ONE position of ONE election; EXTENDS `AuditChain`, whose steps are inside its transactions |
| `MC...` | instances for TLC: symmetry sets and functions over events |
| `...Proofs` | theorems about the module of that name |

Operators commented "Mutant" or "Variant" are not used by the specifications:
each is the form a definition would have with a plausible mistake, and
`PROJECT.json` pairs it with the property that notices it.

`CbtLiveAnswers` and `CbtAttempt` meet at `submit_attempt`. The first models
how the stored answers come about and takes one status per attempt; the second
takes the marks as given and models what the status, the flag and the sheet go
through. `ResultReview` takes what `CbtAttempt` writes into a sheet as
`CbtWriteback`. `ElectionVoting` is a composition: a vote, its row in the outbox
and its audit event are one transaction, so `AuditChain` gives its variables and
its steps to the election's requests; of the push it has only what a vote can
meet (`SyncOutbox` has its detail).

### 2.1 CbtLiveAnswers

A saved answer goes to a hash in Redis (`live`), marks its question in `dirty`
and counts `version` up, in one MULTI (`SaveLive`). `SaveCheck` is separate:
the handler tests the status of an instance it has loaded and does not read it
again. A flush (`exam_runtime.py:106-162`) is one action per Redis round trip:
`TakeTask`/`SubmitBegin` read the dirty set, then come `FlushReadVersion`,
`FlushReadPayload`, the transaction, `FlushUnschedule`, `FlushCompare`, and
`FlushForget` or `FlushAgain`. A worker's transaction is one step because it
holds the attempt's row lock from beginning to end; a submission runs the same
flush inside its own transaction, so it keeps the row (`lock`) until
`SubmitCommit`, `SubmitRefused`, `SubmitAgain` or `SubmitFails`, and its writes
become visible only then (`Flushed`). `SubmitClear` is the `on_commit` hook.
Redis has no part in a rollback: this is what makes the module interesting.

Faults: a Redis error in a save (`SaveRedisError`, then the direct write to
PostgreSQL), the death of a worker (late acknowledgement puts the task back), a
failed enqueue, an expired schedule key, a submission that dies before or after
its commit.

### 2.2 CbtAttempt

One action per step between two commits. `Authorise`, `AdvisoryLock`,
`LookForAttempt` and `CreateAttempt` are `get_or_start_attempt`, which decides
before it takes the advisory lock. `Submit` and `Flag` read the row under its
lock and are one step. Every other request loads a copy (`LoadUnflag`,
`LoadTheory`, `LoadNote`, `LoadLogout`) and saves from it later (`Resume`,
`Release`, `Theory`, `Note`, `LogoutSubmit`, `LogoutFinalize`): `dcopy` is what it
holds meanwhile, and the JSON column `writeback_metadata` (fields `flag` and
`wb`) is saved as a whole. The automatic closing is `CloseBegin`, one
`CloseSubmit` per attempt, and `CloseEnd`. `sheet` says which attempt wrote a
component last (`Manual` for the teacher), which is enough for what the
properties ask; `before` and `after` in `wb` are what
`_revert_malpractice_result_writebacks` compares and restores.

### 2.3 SyncOutbox

`LanWrite` and `CloudWrite` are a change together with its queue row
(`queue_sync_operation`). A worker lists what is due (`List`), posts the rows
one by one (`Send`), and saves the outcome over the row as listed (`Save...`):
`copy` is the retry count it read. The cloud's handler is four steps, since
each of its transactions commits separately: `Receive` (find or create the
row), `Ingest` (apply), `Finish` (mark and answer); it goes on when its client
has given up (`TimeOut`), and may die in between (`RequestDies`). The pull is
`PullFetch`, then `PullQueue`, `PullApply`, `PullSave` per event, and `PullEnd`.
`live` is a session under the LAN's authority.

Data is abstracted to what the properties tell apart: `applied` is the set of
events a node has applied and never shrinks, `record` is the event a record was
last written by, `Needs` are the records an event refers to.

`OutboxDelivery` knows three sets: accepted, delivered, and reported done. The
refinement mapping takes them from `lan`, `applied["CLOUD"]` and the SYNCED
rows, for the LAN's own events. Its `Doubt` is real: a second worker that
listed the same row earlier saves RETRY or FAILED over SYNCED.

### 2.4 ResultReview

A sheet carries the Dean's decisions in its JSON column (`review`), and its
`status` is recomputed from them (`SetReview`, from
`_sync_sheet_status_from_component_reviews`). Every action is one request:
`SaveScores`, `SubmitComponent` and `CbtWriteback` for the teacher and CBT,
`DeanApproves` and `DeanRejects` per component, then the form teacher
(`SaveStudentRecord`, `SubmitCompilation`), the Dean's term review, the VP, and
IT, with the override page, which skips all of them (`overruled`). A request that
moves a class moves its compilation and, with `Move`, the sheets of the whole
level: `SheetsFollowClass` asks whether the two stay together. `passed` is a
history variable: the marks the Dean saw when he approved.

Two constants say what is assumed of the staff. `WindowsBack`: a CA window is
open again, or together with the overall one. `CbtLate`: CBT writes marks of a
component for the first time after a review began. Both are possible in the
code, and section 5 says what they break.

`ClassReview` is what the stages are for: a subject's marks are final once
approved, then one arm's class at a time goes over the desks of Dean, VP and IT, in
this order, back from the first two only, and stays public. The mapping takes
`approved` from the sheets' statuses (`FinalSheets`) and `desk` from the
compilations' (`Desks`). It says more than the invariants: nobody skips a desk,
and approved marks are not exchanged for other approved ones. `Override` ends the
promise, as the override page does.

### 2.5 FinancePull

In the cloud a verification is one transaction under the row lock: `Lock`,
`Stamp` (it computes `source_updated_at`) and `Commit`; `VerifierDies` may fall
between. `Callback` is the save of the URL's parameters before it, which can
change the gateway's reference. The pull (`Fetch`, then per item `Skip`,
`RecordConflict` or `LookUp`, `Pay`, `Link`, `IssueReceipt`, and `Advance`) has no
transaction: every action is a commit, and `PullDies` may fall between any two.
`row[t].src`, `upd` and `pupd` are the three times the export's filter compares
with the cursor. The gateway is external: from some moment on it says yes.

`Overlap = FALSE` says that nobody writes in the cloud between a stamp and its
commit, and that the bursar does not book a payment between the pull's lookup
and its write.

`PaymentLedger` keeps, per reference, how often each node has booked it and what
is void, imported or receipted. A late callback, a second verification and a
pull that dies are nothing to it. That a void reaches the LAN's book only after
the cloud's, and is not taken back by an older item, is said here and by no
invariant.

### 2.6 AuditChain and ElectionVoting

`Look` picks the last committed event and will lock it; `Write` waits for the
lock and links to the event picked, even when another was committed meanwhile;
`Commit` and `RollBack` are those of the surrounding transaction. An event's hash
is the id of the event it is of.

A vote is `Enter` (the status and the form, read before the transaction), `Cast`,
`BeginLog`, `WriteLog` or `LogFails` (a savepoint), and `End` or `Undo`. The clerk
is IT or the task that closes what is due; a reset is `ResetList`, `ResetVotes`,
`ResetRows`, each a commit, and may die in between (`ResetDies`). A vote keeps
its id in `made`; `votes`, `outbox`, `cloudRows` and `events` are about ids.

## 3. The runs

| run | instance | checks | shows |
|---|---|---|---|
| `LiveAnswersRaces` | 1 question, 2 options, 1 worker, 2 submitters, 1 saver; 2 saves, 1 fault, 1 reopening | `TypeOK`, `DirtyHasAnswer`, `SavedIsShown`, `MarkedOnce` | saves, flushes, two submissions and a fault interleave without losing an answer from the page and without a second marking |
| `LiveAnswersNoWorker` | 2 questions, 2 options, 2 submitters, 3 saves, no fault | `MarksSavedAnswers` | without a flush worker a submission marks what was acknowledged before it began |
| `LiveAnswersProgress` | 1 question, 1 worker, 2 submitters, required simulation | `SubmissionEnds` | a submission that began ends |
| `LiveAnswersLostMark` | 2 questions, 1 worker, 1 submitter, no fault | `MarksSavedAnswers` violated | with a worker a dirty mark can be lost |
| `AttemptStarts` | 2 attempts, retake, theory, 2 requests, 1 desk | `OneOpenAttempt` | two requests that start at once create one attempt |
| `AttemptCounts` | 2 attempts created in a race, 2 marks, 2 requests, 1 desk, 1 reopening | `TypeOK`, `FlaggedIsExcluded`, `SubmittedCounts`, `FlagStays` | without theory: flags, submissions, appeals, logouts and the closing in any order |
| `SyncPush` | 1 LAN event, 1 cloud event, 2 workers, 2 handlers, 2 faults, 1 retry | `TypeOK`, `SyncedIsApplied`, `PulledOrReturned`, `DeliveryHolds` | push and pull together, and the refinement |
| `SyncProgress` | 3 LAN events, one needing another, one refused for good, 1 worker, 2 handlers, 1 fault, 1 retry | `SyncedIsApplied`, `QueuedIsSynced` | what is queued arrives, and is not called SYNCED before |
| `ResultReview` | 2 subjects, 2 arms, 1 mark or none, 1 return; `~WindowsBack`, `~CbtLate` | `TypeOK`, `ApprovedMarksStand`, `SheetsFollowClass`, `PublishedIsVetted`, `ClassReviewHolds`, `ClassIsPublished` | marks stay as approved, sheets stay with the one class under review, what is published was vetted, a class gets published, and the refinement |
| `FinancePull` | 2 references, one of an unknown student, 2 verifiers, page of 3, 3 stamps, 1 crash; `~Overlap` | `TypeOK`, `PaidOnce`, `ImportedOnce`, `NothingPassed`, `LedgerHolds`, `PaidIsImported` | recorded once on either node, passed by no cursor, imported at last, and the refinement |
| `ElectionVoting` | 2 requests, 2 voters, 1 candidate, 2 votes, 1 reset, 1 closing, 1 fault, 1 retry | `TypeOK`, `OneVote`, `VoteIsQueued`, `NotShutOut`, `LinksHold`, `LoggedWasCast`, `TalliesAgree`, `VoteArrives` | one vote each, all queued and logged, nobody shut out, and the cloud counts what the LAN counts |
| `ElectionRevote` | 1 request, 1 voter, 2 votes, 1 reset, no fault | `LanPrevails` violated | the vote after a reset is refused by the cloud for good |

Why the bounds are enough to be interesting. The races of the live store are
between steps on one question: a flush of a second question only adds to the
sets it reads, except in `MarksSavedAnswers`, where the mark that is lost and
the one that makes the flush non-empty differ, hence two questions. Two saves
let a save fall on either side of each step of a flush. One fault is enough to
reach every error path, one reopening every `Resume`; two faults repeat them.
For the attempts, two rows are the least for a question about "one at most",
and for a flag on one to meet the score of the other; one desk holds a copy that
strikes, submissions and the closing overtake (two desks with one mark were
checked too, 14 million states, and the theorems hold for any number). In the sync
module a dependency needs two LAN events, of which the first is listed before
what it refers to (`SyncProgress`); one event of each node is enough for push and
pull to meet in one queue (`SyncPush`), where two workers list the same row, two
handlers let one outlive its client, and two faults let a timeout be followed
by a crash. `MaxRetries` is 1 where the default is 8: the code compares the count
with the limit only, and one retry reaches both sides.

For results, two subjects let one sheet lag behind the other, two arms compete
for the sheets they share, marks are only compared with what was approved, and
one return reaches every way back. For finance, two references are enough for
one item to stop or be skipped while another is behind it; three stamps are a
verification, a late callback and a void, or two verifications and one of
these; a page of three never cuts what is due, which the proofs need too (see
below). For elections, two votes are a vote and the vote after a reset, or votes
of two voters at once; one fault meets one retry exactly at the limit. The
theorems lift these bounds for what they state.

Deadlock is not checked: every behaviour may end (all answers saved, attempts
closed, rows delivered, every class published, every vote cast).

### Fairness

* `CbtLiveAnswers`: a handler or task that has begun runs on (WF), a queued
  task is taken, and PostgreSQL serves the waiters for a row in their order,
  so one that keeps asking gets it (SF). Saves and faults are not fair: no
  student has to answer.
* `SyncOutbox`: `sync_drain` is run by the operator until nothing is due, a
  retry time passes (SF: a row that is due again and again is listed), and
  workers and handlers go on. `LanWrite`, `ResetFailed`, `Session` and the pull
  are not fair. `QueuedIsSynced` is claimed for as many faults as there are
  retries; with more the row is FAILED and waits for `--reset-failed`.
* `ResultReview` (`Diligence`): staff do the work the pages put in front of
  them. Submitting, compiling and the VP's approval are SF, because others can
  take the step away in between (a score set to zero, a remark emptied, a
  rejected student) and give it back. Nobody has to return, override or reopen
  anything. `ClassIsPublished` has two hypotheses, that the overall window stays
  open and that no class is rejected by the VP, and both are needed (section 5).
* `FinancePull`: the operator starts the pull again and again
  (`scripts/manual_sync_runbook.md:48`), and a pull that began goes on (WF).
  Verifications, callbacks and crashes are not fair.
* `ElectionVoting`: the push runs while rows are due, the cloud answers, and the
  answer is saved (WF each). Voting, the clerk and the audit log are not fair.

## 4. What is proved

For every value of the constants that satisfies the modules' assumptions:

* `CbtLiveAnswersProofs`: `TypeCorrect`, `DirtyAlwaysHasAnswer`,
  `SavedAlwaysShown`, `MarkedAtMostOnce`, `MarksSavedHolds`. `DirtyHasAnswer` is
  inductive. `SavedIsShown` is not: it needs `OpenInv`, that while the attempt is
  first open the hash holds the acknowledged answers, and where it holds nothing,
  the stored answer is the acknowledged one and no flush carries the question.
  `MarkedOnce` follows from `MarkedInv`: a marked attempt is not in progress
  before a reopening. `MarksSavedHolds` is about what a submission marks and
  assumes `Undisturbed`: no worker, no fault, no refusal for a pending
  simulation, no reopening. Each of the four is needed; TLC violates the property
  without any one of them. A worker's flush can lose a mark (section 5). A
  fault lets the fallback write PostgreSQL while an older answer stays dirty,
  which the flush then writes over it. A refusal rolls back what its flush wrote
  after the marks were deleted. After a reopening, a save that was late for the
  first submission has been cleared with the hash. `MarkInv` says where an answer
  acknowledged before a submission is: stored, or dirty in the hash, or in the
  list (`Carries`) of the one flush that holds the row and has not written.
* `CbtAttemptProofs`: `TypeCorrect`, `OneOpenAttemptHolds`,
  `FlaggedIsExcludedHolds`, `SubmittedCountsHolds`, `FlagStaysHolds`.
  `OneOpenInv` adds that a request past the lock is the one that holds it, and
  that a request that has found no attempt is still right. The steps that only
  save a row fall under a few lemmas on what such a save can open. The other
  three assume `NoTheory`, since a whole-row copy saved by the theory stage or
  the appeal takes flags away (section 5). `FlagInv`: a locked row is flagged, only existing
  attempts are, and whoever of the appeal or IT holds a copy holds a flagged
  one, so saving it clears nothing. `NextEffect` reduces all actions to eight
  effects on rows, sheet and desks (`Rests`, `Marked`, `Struck`, `NotedBy`,
  `Ended`, `Created`, `Reopened`, `Taken`), and what follows is proved over the
  effects only. `FirstInv`: before the first reopening, a score of an attempt
  reaches the sheet only when it is submitted unflagged, and no copy held can
  make it forget that, so a strike has nothing to take back and nothing to leave.
* `SyncOutboxProofs`: `TypeCorrect`, `SyncedIsAppliedHolds`,
  `PulledOrReturnedHolds` and `OutboxIsDelivery`, the refinement. Typing already needs to know that a
  handler's client waits for that handler's event (`Waits`) and that the pull
  stays on its page. `Safe` adds: an answer 200 and a cloud row SYNCED stand
  only for an applied event, and only queued rows are in a batch. `Grows` says
  nothing is taken back, and every action is then either nothing, or one step
  of `OutboxDelivery`. `ReturnInv` is about the pull: an event of the
  cloud is in its queue with what it refers to (`Known`) before the LAN hears of
  it, so the cloud takes it back whenever it is sent back, and each place the
  pull has gone by holds an event that is applied on the LAN or SYNCED in the
  cloud (`Passed`).
* `ResultReviewProofs`: `TypeCorrect`, `ApprovedMarksHold`,
  `SheetsFollowClassHolds`, `PublishedIsVettedHolds` and `ReviewIsPromise`, the
  last four assuming `Ordinary` (no late CBT marks, no CA window back), without which TLC violates
  them. `WindowInv`: once an overall result was submitted, no CA window is
  open, so no CA decision can move a sheet. `PassedInv`: a sheet beyond the Dean
  has its overall decision APPROVED and the marks he saw. The refinement needs the
  same invariant: that no class is on a desk when one is submitted follows from
  `SheetsFollowClass` and `PublishedIsVetted`, since all sheets are then
  APPROVED_BY_DEAN, and that a written score is not final from `PassedInv`.
* `FinancePullProofs`: `TypeCorrect` and `PaidOnceHolds` for all constants;
  `ImportedOnceHolds` and `BooksAreLedger`, the refinement, assuming `~Overlap`; `NothingPassedHolds` assuming
  `~Overlap` and fewer references than a page holds: a page that is cut can end
  inside rows of equal time. `CloudInv`: a verifier holds its row's lock from the
  status it read to the commit. `ImportInv`: the item at work has at most one
  payment and its reference is one the lookup finds, since a reference only goes
  from its own to the gateway's (`ItemFits`). `LedgerInv`: what the pull has listed
  is recorded, is void only if it is void in the cloud, and is listed as void once
  the LAN's payment is; the refinement follows step by step. `StampInv`: a verification that has its
  stamp is the only one, and no row, cursor or pull carries that stamp yet.
  `PassInv`: what is PAID and not newer than the pull's `latest` is still on its
  list or done.
* `ElectionVotingProofs`: `TypeCorrect`, `OneVoteHolds`, `NotShutOutHolds`,
  `LinksHoldHolds`, `LoggedWasCastHolds`, `TalliesAgreeHolds` for all constants,
  `VoteIsQueuedHolds` assuming `Reliable` (no more faults than retries). The
  invariant has five parts, proved part by part over all actions. `ChainInv`:
  what a writer saw, drafted or committed links to committed events. `VoteInv`:
  two requests never hold an uncommitted vote of one voter, and a row without
  its vote is a broken or running reset's. `CountInv`: a row the cloud answered
  is one it counts. `FreshInv`: while a voter's first rows are there
  (`Fresh`), there is one, the cloud cannot refuse it, and its retries are at
  most the faults. `Reliable` is needed since a FAILED row does not block its
  voter: one could vote again during a reset that is about to take every row
  with the key. Steps that touch no vote, row or reset are `Quiet` and treated
  at once.

Assumptions on the constants are the `ASSUME`s of the modules (`Distinct`,
`Parameters`); TLC evaluates them in every run.

Only model-checked are the liveness properties `SubmissionEnds`,
`QueuedIsSynced`, `ClassIsPublished`, `PaidIsImported` and `VoteArrives`
(temporal reasoning with fairness is outside what the provers do) and the two
properties the code violates. Every safety invariant and action property of a
passing run has a theorem.

## 5. Disagreements with the code's own words

With a run each (details in `PROJECT.json`, findings):

1. `LiveAnswersLostMark`: a save between `smembers` and `hget` of a flush
   (`apps/cbt/exam_runtime.py:114-115`) is not in the list and is in the
   version, so the flush deletes its mark; the submission marks the paper
   without the answer.
2. `ElectionRevote`: votes are "LAN-authoritative", but the cloud keeps the
   STRICT_UNIQUE row of a vote that was reset, so it refuses the row of the
   voter's next vote until that is FAILED.

Met while modelling, without a run.

*Live answers and attempts.* A refused submission rolls back the answers
of its flush after their marks were deleted, so the stored sheet has blanks
where the page shows answers; a flush still writes into a SUBMITTED attempt
(`exam_runtime.py:130`); after a fallback to PostgreSQL an older answer of the
hash hides the newer stored one (`exam_runtime.py:64-67`); `submit_attempt`
copies the stored row into the instance whose lock and flag IT's unflag has
just cleared (`apps/cbt/services.py:3955`); the attempt limit is tested before
the advisory lock is taken (`services.py:3397`); theory scores are
written for flagged attempts too (`apps/cbt/services.py:4128`); after a second
submission a revert restores the attempt's own first score
(`services.py:4843`), which is why `FlaggedIsExcluded` stops at the first
reopening; with two attempts it can also take back a score that the other one has
written again meanwhile, which is why `SubmittedCounts` then stops there too; the theory stage and the appeal save whole metadata from a stale
copy (`apps/cbt/views.py:4676`, `6170`), which takes a flag away, so
`AttemptCounts` runs without theory; the automatic closing can leave an
attempt open that was started after the list was read (`services.py:2688`).

*Sync.* The push does not look at where a row came from, so a blocked pulled
event is sent back and lost (`apps/sync/services.py:463`); nothing compares the
times of two writes of one record (`apps/sync/model_sync.py:808`).

*Results.* All arms share the sheets of their level, and compiling needs every
sheet APPROVED_BY_DEAN exactly (`apps/results/views.py:648-668`): once the first
arm has sent them on, the second arm's compilation does not open, which is why
`ClassIsPublished` is about one arm. After the VP rejects a class its sheets are
REJECTED_BY_VP while their overall decision stays APPROVED, so nobody can edit,
resubmit or compile them. A Dean's CA decision in a window opened again resets
a sheet that is with the VP or published (`WindowsBack`), and the first CBT score
of a component saves the JSON policies without the decisions (`CbtLate`).
Rejecting from the class detail page uses a name that is not defined
(`is_it_manager`, line 4213) and is rolled back, so `VpRejects` is the review
page's and the list's; the override page writes compilation and
sheets without a transaction (`views.py:4774-4866`).

*Finance.* With `Overlap`: a payment stamped before and committed after a pull
is passed by the cursor, and two pulls, or a pull and the bursar, between lookup
and write book twice. A cut page can pass rows of one time. The bursar's own
payment of the right amount makes every later pull fail at it (`Pay`, third
case). A void in the cloud alone never reaches the LAN's row, and a void on the
LAN is undone by the next import. A crash between `Link` and `IssueReceipt`
leaves a payment without receipt; a SKIPPED item is never tried again; FAILED is
rolled back with the exception that reports it (`services.py:1046`).

*Elections and audit.* A reset that dies midway shuts its voter out; a vote that
passed the form is taken after the closing; a failed broadcast undoes the vote;
after a reset the cloud keeps counting the vote if none follows; a push of a row
that a reset deleted raises when it is saved. Two writers that looked at the log
at once link to the same event, so the log is a tree and its verification fails;
pruning leaves a first event whose predecessor is gone.

## 6. What is not modelled

`PROJECT.json` lists every component with the reason. Inside the modelled ones:
presence keys and the warmed manifest of the live store; free tests, the CA
split with manual theory, the preserve-higher flags, simulations' writeback and
the emergency control of attempts; the results-only mode of the sync, STRICT_UNIQUE and
CONFLICT (no endpoint answers 409) outside votes, batch limits, the snapshot
import, and a feed whose rows commit in another order than their ids; of
results the special-language sheets and the score editor of one student, which
check neither window nor lock, and attendance and behaviour; of finance charges,
salaries, expenses, plans and messages; of elections candidates, groups,
eligibility and the votes the LAN pulls; of the audit log what a hash covers.

The CBT exam workflow was read for a module and left out: each of its
transitions loads an exam without a lock and saves it whole, so every property
worth stating fails as soon as two of the staff act at once (revoking against
starting, a second activation that replaces the snapshot, extending after
revoking, a late rejection of an active exam, questions edited by IT at any
stage), and what remains for one request at a time restates its guards. Most of
the other unmodelled components are pages, files and forms over single rows.

## 7. Plan

1. `SyncOutbox`: split taking an id from committing in `CloudWrite` (the feed's
   gap), a fair pull, and capture by `on_commit` with its keys (an unchanged
   payload digest for many-to-many changes, rebinding of identities).
2. `CbtExam`: exam workflow with its races stated as what may still be relied
   on; composed with the start part of `CbtAttempt`.
3. The row of a result sheet with several writers: the writeback of
   `CbtAttempt`, split at its reads, composed with `ResultReview`.
4. Pure algorithms against reference definitions: merging of scores, grading,
   backoff, distribution of a payment over charges.
5. Theorems: a refinement for `ElectionVoting` (a ballot box); the three theorems of
   `CbtAttempt` with theory, for the attempts whose flag no stale copy can reach;
   conditions under which `MarksSavedAnswers` survives a worker.
