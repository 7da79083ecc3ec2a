----------------------------- MODULE SyncOutbox -----------------------------
(***************************************************************************)
(* The outbox between the school's LAN server and the cloud.  Both keep a  *)
(* SyncQueue table.  A LAN worker (sync_drain, or a Celery task) lists the *)
(* rows that are due, and posts them one by one; the cloud queues, applies *)
(* and marks each in a transaction of its own.  The LAN also pulls the     *)
(* cloud's rows above a cursor and applies them through the same code.     *)
(*                                                                         *)
(* No row is locked while it is worked on: a worker saves the outcome over *)
(* a row it read when it listed its batch, and a handler whose client timed*)
(* out goes on.                                                            *)
(***************************************************************************)
EXTENDS Naturals, Sequences, FiniteSets

CONSTANTS
    LanEvents,    \* events of the LAN, numbered in the order of the queue
    CloudEvents,  \* events of the cloud, numbered likewise
    Object,       \* the record an event is about
    Needs,        \* events whose records the event refers to
    Rejects,      \* events the other node refuses for good
    Guarded,      \* cloud events the LAN refuses during a live session
    Workers,      \* LAN processes that push
    Requests,     \* bound: requests the cloud handles at a time
    Nobody,
    MaxRetries,   \* SYNC_MAX_RETRIES
    MaxFaults     \* bound: timeouts, crashes and resets of failed rows

Events == LanEvents \cup CloudEvents

ASSUME Parameters ==
    /\ Events \subseteq Nat /\ LanEvents \cap CloudEvents = {}
    /\ \A e \in Events : Needs[e] \subseteq Events
    /\ Rejects \subseteq Events /\ Guarded \subseteq CloudEvents
    /\ Nobody \notin Workers /\ Nobody \notin Events
    /\ MaxRetries \in Nat /\ MaxFaults \in Nat

Objects == {Object[e] : e \in Events}
Status == {"ABSENT", "PENDING", "RETRY", "SYNCED", "FAILED"}
Due == {"PENDING", "RETRY"}
Outcomes == {"applied", "refused", "blocked"}
Verdict == [applied |-> "SYNCED", refused |-> "FAILED", blocked |-> "RETRY"]
Code == [applied |-> "200", refused |-> "422", blocked |-> "503"]
Codes == {"200", "422", "503", "0"}      \* "0": no answer, or an error page

VARIABLES
    lan, tries,       \* the LAN's queue: status and retry_count
    cloud,            \* the cloud's queue: status
    applied, record,  \* per node: events applied; the event a record comes from
    batch, copy,      \* per worker: rows still to push; their retry_count as listed
    current, reply,   \* per worker: the row being posted; the answer to it
    req,              \* the cloud's handlers
    feed, cursor,     \* the cloud's own rows by id; LAN: last_remote_id
    pull,             \* the LAN's pull
    live,             \* an exam or election session is live on the LAN
    faults            \* bound

queue == <<lan, tries>>
data == <<applied, record>>
worker == <<batch, copy, current, reply>>
inbound == <<feed, cursor, pull>>
vars == <<queue, cloud, data, worker, req, inbound, live, faults>>

NoRequest == [pc |-> "idle", ev |-> Nobody, from |-> Nobody]
NoPull == [pc |-> "idle", pos |-> 0, upto |-> 0]
Stages == {"queued"} \cup Outcomes
Request == [pc : {"idle", "sent"} \cup Stages, ev : Events \cup {Nobody},
            from : Workers \cup {Nobody}]
Pull == [pc : {"idle", "page"} \cup Stages, pos : Nat, upto : Nat]

TypeOK ==
    /\ lan \in [Events -> Status] /\ tries \in [Events -> Nat]
    /\ cloud \in [Events -> Status]
    /\ applied \in [{"LAN", "CLOUD"} -> SUBSET Events]
    /\ record \in [{"LAN", "CLOUD"} -> [Objects -> Events \cup {Nobody}]]
    /\ batch \in [Workers -> SUBSET Events] /\ copy \in [Workers -> [Events -> Nat]]
    /\ current \in [Workers -> Events \cup {Nobody}]
    /\ reply \in [Workers -> {"none", "waiting"} \cup Codes]
    /\ req \in [Requests -> Request]
    /\ feed \in Seq(CloudEvents) /\ cursor \in Nat /\ pull \in Pull
    /\ live \in BOOLEAN /\ faults \in Nat

Init ==
    /\ lan = [e \in Events |-> "ABSENT"] /\ tries = [e \in Events |-> 0]
    /\ cloud = [e \in Events |-> "ABSENT"]
    /\ applied = [n \in {"LAN", "CLOUD"} |-> {}]
    /\ record = [n \in {"LAN", "CLOUD"} |-> [o \in Objects |-> Nobody]]
    /\ batch = [w \in Workers |-> {}] /\ copy = [w \in Workers |-> [e \in Events |-> 0]]
    /\ current = [w \in Workers |-> Nobody] /\ reply = [w \in Workers |-> "none"]
    /\ req = [s \in Requests |-> NoRequest]
    /\ feed = << >> /\ cursor = 0 /\ pull = NoPull
    /\ live \in BOOLEAN /\ faults = 0

Fault == faults < MaxFaults /\ faults' = faults + 1

-----------------------------------------------------------------------------
(* Applying an event at a node, and writing one there.                      *)

Apply(n, e) ==
    /\ applied' = [applied EXCEPT ![n] = @ \cup {e}]
    /\ record' = [record EXCEPT ![n][Object[e]] = e]

(* _apply_remote_operation: an invalid payload, a record not there yet, or  *)
(* success.  A node never refuses what it wrote itself.                     *)
Outcome(n, e) ==
    IF e \in Rejects \cap (IF n = "CLOUD" THEN LanEvents ELSE CloudEvents) THEN "refused"
    ELSE IF Needs[e] \subseteq applied[n] THEN "applied" ELSE "blocked"

(* A change on the LAN, and its row in the queue (queue_sync_operation).    *)
LanWrite(e) ==
    /\ lan[e] = "ABSENT" /\ Needs[e] \subseteq applied["LAN"]
    /\ \A x \in LanEvents : x < e /\ Object[x] = Object[e] => lan[x] # "ABSENT"
    /\ Apply("LAN", e)
    /\ lan' = [lan EXCEPT ![e] = "PENDING"]
    /\ UNCHANGED <<tries, cloud, worker, req, inbound, live, faults>>

(* A change on the cloud; its transactions commit in the order of their ids.*)
CloudWrite(e) ==
    /\ cloud[e] = "ABSENT" /\ Needs[e] \subseteq applied["CLOUD"]
    /\ Apply("CLOUD", e)
    /\ cloud' = [cloud EXCEPT ![e] = "PENDING"]
    /\ feed' = Append(feed, e)
    /\ UNCHANGED <<queue, worker, req, cursor, pull, live, faults>>

-----------------------------------------------------------------------------
(* The LAN pushes, whichever node a row is from.                            *)

(* process_sync_queue_batch lists what is pending and, of the rows waiting  *)
(* for a retry, those whose time has come.                                  *)
List(w, due) ==
    /\ batch[w] = {} /\ due # {}
    /\ due \subseteq {e \in Events : lan[e] \in Due}
    /\ {e \in Events : lan[e] = "PENDING"} \subseteq due
    /\ batch' = [batch EXCEPT ![w] = due]
    /\ copy' = [copy EXCEPT ![w] = tries]
    /\ UNCHANGED <<queue, cloud, data, current, reply, req, inbound, live, faults>>

(* _dispatch_to_cloud: post the first row of the batch.                     *)
Send(w, s) ==
    /\ reply[w] = "none" /\ req[s].pc = "idle"
    /\ \E e \in batch[w] :
          /\ \A x \in batch[w] : e <= x
          /\ current' = [current EXCEPT ![w] = e]
          /\ req' = [req EXCEPT ![s] = [pc |-> "sent", ev |-> e, from |-> w]]
    /\ reply' = [reply EXCEPT ![w] = "waiting"]
    /\ UNCHANGED <<queue, cloud, data, batch, copy, inbound, live, faults>>

(* What the cloud still does for w is answered to nobody.                   *)
Abandoned(w) ==
    [s \in Requests |-> IF req[s].from = w THEN [req[s] EXCEPT !.from = Nobody] ELSE req[s]]

(* The client gives up after SYNC_CONNECTIVITY_TIMEOUT_SECONDS.             *)
TimeOut(w) ==
    /\ reply[w] = "waiting" /\ Fault
    /\ reply' = [reply EXCEPT ![w] = "0"]
    /\ req' = Abandoned(w)
    /\ UNCHANGED <<queue, cloud, data, batch, copy, current, inbound, live>>

(* The worker's process ends; what it was about to save is lost.            *)
WorkerDies(w) ==
    /\ batch[w] # {} /\ Fault
    /\ batch' = [batch EXCEPT ![w] = {}] /\ current' = [current EXCEPT ![w] = Nobody]
    /\ reply' = [reply EXCEPT ![w] = "none"]
    /\ req' = Abandoned(w)
    /\ UNCHANGED <<queue, cloud, data, copy, inbound, live>>

(* process_queue_row saves the outcome and the worker goes on to the next.  *)
Save(w, status, n) ==
    /\ lan' = [lan EXCEPT ![current[w]] = status]
    /\ tries' = [tries EXCEPT ![current[w]] = n]
    /\ batch' = [batch EXCEPT ![w] = @ \ {current[w]}]
    /\ current' = [current EXCEPT ![w] = Nobody]
    /\ reply' = [reply EXCEPT ![w] = "none"]
    /\ UNCHANGED <<cloud, data, copy, req, inbound, live, faults>>

SaveSynced(w) ==
    /\ reply[w] = "200"
    /\ Save(w, "SYNCED", copy[w][current[w]])

(* Mutant: a missing dependency uses up a retry.                            *)
SaveDependencyTried(w) ==
    LET n == copy[w][current[w]] + 1 IN
    /\ reply[w] = "503"
    /\ Save(w, IF n > MaxRetries THEN "FAILED" ELSE "RETRY", n)

SaveDependency(w) ==
    /\ reply[w] = "503"
    /\ Save(w, "RETRY", copy[w][current[w]])

SaveFailure(w) ==
    LET n == copy[w][current[w]] + 1 IN
    /\ reply[w] \in {"422", "0"}
    /\ Save(w, IF n > MaxRetries THEN "FAILED" ELSE "RETRY", n)

(* sync_drain --reset-failed.                                               *)
ResetFailed ==
    /\ \E e \in Events : lan[e] = "FAILED"
    /\ Fault
    /\ lan' = [e \in Events |-> IF lan[e] = "FAILED" THEN "RETRY" ELSE lan[e]]
    /\ UNCHANGED <<tries, cloud, data, worker, req, inbound, live>>

-----------------------------------------------------------------------------
(* The cloud handles a posted event (ingest_remote_outbox_event).           *)

Answer(s, code) ==
    /\ req' = [req EXCEPT ![s] = NoRequest]
    /\ reply' = [w \in Workers |-> IF req[s].from = w THEN code ELSE reply[w]]
    /\ UNCHANGED <<batch, copy, current>>

(* Mutant: any event with a row is a duplicate.                             *)
ReceiveKnown(s) ==
    LET e == req[s].ev IN
    /\ req[s].pc = "sent"
    /\ \/ cloud[e] # "ABSENT" /\ Answer(s, "200") /\ UNCHANGED cloud
       \/ /\ cloud[e] = "ABSENT"
          /\ cloud' = [cloud EXCEPT ![e] = "PENDING"]
          /\ req' = [req EXCEPT ![s].pc = "queued"] /\ UNCHANGED worker
    /\ UNCHANGED <<queue, data, inbound, live, faults>>

(* Look for the row by its idempotency key, or create it.                   *)
Receive(s) ==
    LET e == req[s].ev IN
    /\ req[s].pc = "sent"
    /\ \/ cloud[e] = "SYNCED" /\ Answer(s, "200") /\ UNCHANGED cloud
       \/ /\ cloud[e] # "SYNCED"
          /\ cloud' = [cloud EXCEPT ![e] = IF @ = "ABSENT" THEN "PENDING" ELSE @]
          /\ req' = [req EXCEPT ![s].pc = "queued"] /\ UNCHANGED worker
    /\ UNCHANGED <<queue, data, inbound, live, faults>>

Ingest(s) ==
    LET e == req[s].ev  o == Outcome("CLOUD", e) IN
    /\ req[s].pc = "queued"
    /\ IF o = "applied" THEN Apply("CLOUD", e) ELSE UNCHANGED data
    /\ req' = [req EXCEPT ![s].pc = o]
    /\ UNCHANGED <<queue, cloud, worker, inbound, live, faults>>

(* Mutant: the row keeps the stage of the work as its status.               *)
FinishStage(s) ==
    /\ req[s].pc \in Outcomes
    /\ cloud' = [cloud EXCEPT ![req[s].ev] = req[s].pc]
    /\ Answer(s, Code[req[s].pc])
    /\ UNCHANGED <<queue, data, inbound, live, faults>>

(* Save the row and answer.                                                 *)
Finish(s) ==
    /\ req[s].pc \in Outcomes
    /\ cloud' = [cloud EXCEPT ![req[s].ev] = Verdict[req[s].pc]]
    /\ Answer(s, Code[req[s].pc])
    /\ UNCHANGED <<queue, data, inbound, live, faults>>

(* Mutant: the handler is one transaction, which its death undoes.          *)
RequestUndone(s) ==
    /\ req[s].pc # "idle" /\ Fault
    /\ applied' = [applied EXCEPT !["CLOUD"] = @ \ {req[s].ev}]
    /\ Answer(s, "0")
    /\ UNCHANGED <<queue, cloud, record, inbound, live>>

(* The request is lost, or its handler dies between two transactions.       *)
RequestDies(s) ==
    /\ req[s].pc # "idle" /\ Fault
    /\ Answer(s, "0")
    /\ UNCHANGED <<queue, cloud, data, inbound, live>>

-----------------------------------------------------------------------------
(* The LAN pulls (pull_remote_outbox_updates).                              *)

PullFetch ==
    /\ pull.pc = "idle" /\ cursor < Len(feed)
    /\ pull' = [pc |-> "page", pos |-> cursor + 1, upto |-> Len(feed)]
    /\ UNCHANGED <<queue, cloud, data, worker, req, feed, cursor, live, faults>>

PullQueue ==
    LET e == feed[pull.pos] IN
    /\ pull.pc = "page" /\ pull.pos <= pull.upto
    /\ IF lan[e] = "SYNCED"
          THEN pull' = [pull EXCEPT !.pos = @ + 1] /\ UNCHANGED lan
          ELSE /\ pull' = [pull EXCEPT !.pc = "queued"]
               /\ lan' = [lan EXCEPT ![e] = IF @ = "ABSENT" THEN "PENDING" ELSE @]
    /\ UNCHANGED <<tries, cloud, data, worker, req, feed, cursor, live, faults>>

(* During a live session the LAN does not let the cloud write (_remote_     *)
(* high_stakes_sync_blocked).                                               *)
PullApply ==
    LET e == feed[pull.pos]
        o == IF live /\ e \in Guarded THEN "blocked" ELSE Outcome("LAN", e) IN
    /\ pull.pc = "queued"
    /\ IF o = "applied" THEN Apply("LAN", e) ELSE UNCHANGED data
    /\ pull' = [pull EXCEPT !.pc = o]
    /\ UNCHANGED <<queue, cloud, worker, req, feed, cursor, live, faults>>

(* Mutant: the page goes on after a blocked event.                          *)
PullSaveOn ==
    LET e == feed[pull.pos] IN
    /\ pull.pc \in Outcomes
    /\ lan' = [lan EXCEPT ![e] = Verdict[pull.pc]]
    /\ pull' = [pull EXCEPT !.pc = "page", !.pos = @ + 1]
    /\ UNCHANGED <<tries, cloud, data, worker, req, feed, cursor, live, faults>>

(* Save the row; an event that was not applied ends the page before it.     *)
PullSave ==
    LET e == feed[pull.pos] IN
    /\ pull.pc \in Outcomes
    /\ lan' = [lan EXCEPT ![e] = Verdict[pull.pc]]
    /\ IF pull.pc = "applied"
          THEN pull' = [pull EXCEPT !.pc = "page", !.pos = @ + 1] /\ UNCHANGED cursor
          ELSE pull' = NoPull /\ cursor' = pull.pos - 1
    /\ UNCHANGED <<tries, cloud, data, worker, req, feed, live, faults>>

PullEnd ==
    /\ pull.pc = "page" /\ pull.pos > pull.upto
    /\ pull' = NoPull /\ cursor' = pull.upto
    /\ UNCHANGED <<queue, cloud, data, worker, req, feed, live, faults>>

PullDies ==
    /\ pull.pc # "idle" /\ Fault
    /\ pull' = NoPull
    /\ UNCHANGED <<queue, cloud, data, worker, req, feed, cursor, live>>

Session ==
    /\ live' = ~live
    /\ UNCHANGED <<queue, cloud, data, worker, req, inbound, faults>>

-----------------------------------------------------------------------------
SaveNext(w) == SaveSynced(w) \/ SaveDependency(w) \/ SaveFailure(w)

PullNext == PullFetch \/ PullQueue \/ PullApply \/ PullSave \/ PullEnd

Next ==
    \/ \E e \in LanEvents : LanWrite(e)
    \/ \E e \in CloudEvents : CloudWrite(e)
    \/ \E w \in Workers :
          \/ \E due \in SUBSET Events : List(w, due)
          \/ \E s \in Requests : Send(w, s)
          \/ TimeOut(w) \/ WorkerDies(w) \/ SaveNext(w)
    \/ \E s \in Requests : Receive(s) \/ Ingest(s) \/ Finish(s) \/ RequestDies(s)
    \/ PullNext \/ PullDies
    \/ ResetFailed \/ Session

Spec == Init /\ [][Next]_vars

(* The drain is run again while rows are due, a row's retry time comes, and *)
(* what a worker or a handler has begun it goes on with.                    *)
Fairness ==
    /\ \A w \in Workers :
          /\ \A e \in Events : SF_vars(\E due \in SUBSET Events : e \in due /\ List(w, due))
          /\ WF_vars(\E s \in Requests : Send(w, s)) /\ WF_vars(SaveNext(w))
    /\ \A s \in Requests : WF_vars(Receive(s) \/ Ingest(s) \/ Finish(s))

FairSpec == Spec /\ Fairness

-----------------------------------------------------------------------------
(* Properties.                                                              *)

(* What the LAN's queue calls SYNCED has been applied in the cloud, whatever*)
(* request or answer was lost, repeated or late.                            *)
SyncedIsApplied ==
    \A e \in LanEvents : lan[e] = "SYNCED" => e \in applied["CLOUD"]

Accepted == {e \in LanEvents : lan[e] # "ABSENT"}
Delivered == applied["CLOUD"] \cap LanEvents
Reported == {e \in LanEvents : lan[e] = "SYNCED"}

(* The outbox keeps the promise of OutboxDelivery to the LAN's events.      *)
Delivery == INSTANCE OutboxDelivery WITH
    Events <- LanEvents, accepted <- Accepted, delivered <- Delivered, done <- Reported
DeliveryHolds == Delivery!Spec

(* The cursor passes an event only when the LAN has applied it or has sent  *)
(* it back to the cloud, which then calls it SYNCED.                        *)
PulledOrReturned ==
    \A i \in 1 .. cursor : feed[i] \in applied["LAN"] \/ cloud[feed[i]] = "SYNCED"

(* As long as no more answers are lost than a row has retries, what the LAN *)
(* queued is delivered, also when it is listed before what it refers to, and*)
(* when another event is refused (test:                                     *)
(* test_dependency_503_stays_in_retry_without_consuming_max_retries).       *)
QueuedIsSynced ==
    \A e \in {x \in LanEvents : (Needs[x] \cup {x}) \cap Rejects = {}} :
        lan[e] # "ABSENT" ~> lan[e] = "SYNCED"
=============================================================================
