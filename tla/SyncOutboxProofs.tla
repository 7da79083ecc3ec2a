-------------------------- MODULE SyncOutboxProofs --------------------------
(* Theorems about SyncOutbox, for every set of events, workers and requests *)
(* and every number of faults.                                              *)
EXTENDS SyncOutbox, TLAPS

(* TypeOK in the pieces that actions change together.                       *)
QueueOK == lan \in [Events -> Status] /\ tries \in [Events -> Nat]
DataOK ==
    /\ applied \in [{"LAN", "CLOUD"} -> SUBSET Events]
    /\ record \in [{"LAN", "CLOUD"} -> [Objects -> Events \cup {Nobody}]]
WorkerOK ==
    /\ batch \in [Workers -> SUBSET Events] /\ copy \in [Workers -> [Events -> Nat]]
    /\ current \in [Workers -> Events \cup {Nobody}]
    /\ reply \in [Workers -> {"none", "waiting"} \cup Codes]
CloudOK == cloud \in [Events -> Status]
HandlersOK == req \in [Requests -> Request]
PullOK == feed \in Seq(CloudEvents) /\ cursor \in Nat /\ pull \in Pull
RestOK == live \in BOOLEAN /\ faults \in Nat

Pieces == QueueOK /\ DataOK /\ WorkerOK /\ CloudOK /\ HandlersOK /\ PullOK /\ RestOK

(* The pull works on a position of the page it fetched.                     *)
PullInRange ==
    /\ pull.upto <= Len(feed)
    /\ pull.pc # "idle" => pull.pos >= 1
    /\ pull.pc \in Stages => pull.pos <= pull.upto

(* A worker has a row of its batch in hand while it waits for or holds an   *)
(* answer.                                                                  *)
RowInHand == \A w \in Workers : reply[w] # "none" => current[w] \in batch[w]

(* A handler has an event.                                                  *)
HandlerHasEvent == \A s \in Requests : req[s].pc # "idle" => req[s].ev \in Events

(* A handler that still has a client works on the row the client waits for, *)
(* and no other handler has that client.                                    *)
Waits ==
    \A s \in Requests, w \in Workers : req[s].from = w =>
        /\ req[s].pc # "idle" /\ reply[w] = "waiting" /\ current[w] = req[s].ev
        /\ \A t \in Requests : req[t].from = w => t = s

Talk == RowInHand /\ HandlerHasEvent /\ Waits

Typed == Pieces /\ PullInRange /\ Talk

LEMMA PiecesAreTypes == TypeOK <=> Pieces
BY DEF TypeOK, Pieces, QueueOK, DataOK, WorkerOK, CloudOK, HandlersOK, PullOK, RestOK

(* Applying an event keeps the data typed.                                  *)
LEMMA ApplyType ==
    ASSUME NEW n \in {"LAN", "CLOUD"}, NEW e \in Events, DataOK, Apply(n, e)
    PROVE  DataOK'
<1>1. applied' \in [{"LAN", "CLOUD"} -> SUBSET Events]
  BY DEF DataOK, Apply
<1>2. [record[n] EXCEPT ![Object[e]] = e] \in [Objects -> Events \cup {Nobody}]
  BY DEF DataOK
<1>3. record' = [record EXCEPT ![n] = [record[n] EXCEPT ![Object[e]] = e]]
  BY DEF Apply, DataOK
<1>4. record' \in [{"LAN", "CLOUD"} -> [Objects -> Events \cup {Nobody}]]
  BY <1>2, <1>3 DEF DataOK
<1> QED BY <1>1, <1>4 DEF DataOK

LEMMA OutcomeType == \A n, e : Outcome(n, e) \in Outcomes
BY DEF Outcome, Outcomes

(* What an answer, or its loss, does to workers and handlers.               *)
LEMMA AnswerTalk ==
    ASSUME NEW s \in Requests, NEW code \in Codes, WorkerOK, HandlersOK, Talk, Answer(s, code),
           Parameters
    PROVE  WorkerOK' /\ HandlersOK' /\ Talk'
<1>1. WorkerOK'
  BY DEF WorkerOK, Answer
<1>2. NoRequest \in Request
  BY DEF NoRequest, Request
<1>3. req' = [req EXCEPT ![s] = NoRequest]
  BY DEF Answer
<1>4. HandlersOK'
  BY <1>2, <1>3 DEF HandlersOK
<1>5. /\ \A t \in Requests : t # s => req'[t] = req[t]
      /\ req'[s].pc = "idle" /\ req'[s].from = Nobody
  BY <1>3 DEF HandlersOK, NoRequest
<1>6. HandlerHasEvent'
  BY <1>5 DEF HandlerHasEvent, Talk
<1>7. current' = current /\ batch' = batch
  BY DEF Answer
<1>8. \A w \in Workers : reply'[w] = IF req[s].from = w THEN code ELSE reply[w]
  BY DEF Answer
<1>9. RowInHand'
  BY <1>7, <1>8 DEF RowInHand, Waits, Talk
<1>10. Waits'
  <2> SUFFICES ASSUME NEW t \in Requests, NEW w \in Workers, req'[t].from = w
               PROVE  /\ req'[t].pc # "idle" /\ reply'[w] = "waiting" /\ current'[w] = req'[t].ev
                      /\ \A u \in Requests : req'[u].from = w => u = t
    BY DEF Waits
  <2>1. t # s
    BY <1>5 DEF Parameters
  <2>2. req'[t] = req[t] /\ req[s].from # w
    BY <1>5, <2>1 DEF Waits, Talk
  <2>3. reply'[w] = reply[w]
    BY <1>8, <2>2
  <2> QED BY <1>5, <1>7, <2>2, <2>3 DEF Waits, Talk, Parameters
<1> QED BY <1>1, <1>4, <1>6, <1>9, <1>10 DEF Talk

(* A handler that goes on to another stage.                                 *)
LEMMA StageTalk ==
    ASSUME NEW s \in Requests, NEW x \in Stages, HandlersOK, Talk, UNCHANGED worker,
           req[s].pc # "idle", req' = [req EXCEPT ![s].pc = x]
    PROVE  HandlersOK' /\ Talk'
<1>1. [req[s] EXCEPT !.pc = x] \in Request
  BY DEF HandlersOK, Request
<1>2. req' = [req EXCEPT ![s] = [req[s] EXCEPT !.pc = x]]
  BY DEF HandlersOK
<1>3. HandlersOK'
  BY <1>1, <1>2 DEF HandlersOK
<1>4. \A t \in Requests : /\ req'[t].ev = req[t].ev /\ req'[t].from = req[t].from
                          /\ req'[t].pc # "idle" <=> req[t].pc # "idle"
  BY <1>2 DEF HandlersOK, Request, Stages, Outcomes
<1>5. Talk'
  BY <1>4 DEF Talk, RowInHand, HandlerHasEvent, Waits, worker
<1> QED BY <1>3, <1>5

(* Handlers whose client w is gone.                                         *)
LEMMA AbandonedTalk ==
    ASSUME NEW w \in Workers, HandlersOK, req' = Abandoned(w)
    PROVE  /\ HandlersOK'
           /\ \A s \in Requests :
                 /\ req'[s].pc = req[s].pc /\ req'[s].ev = req[s].ev
                 /\ req'[s].from = IF req[s].from = w THEN Nobody ELSE req[s].from
<1>1. \A s \in Requests : [req[s] EXCEPT !.from = Nobody] \in Request
  BY DEF HandlersOK, Request
<1>2. HandlersOK'
  BY <1>1 DEF HandlersOK, Abandoned
<1>3. \A s \in Requests :
         /\ req'[s].pc = req[s].pc /\ req'[s].ev = req[s].ev
         /\ req'[s].from = IF req[s].from = w THEN Nobody ELSE req[s].from
  BY DEF HandlersOK, Abandoned, Request
<1> QED BY <1>2, <1>3

LEMMA InitTyped == ASSUME Parameters PROVE Init => Typed
<1> SUFFICES ASSUME Init PROVE Typed
  OBVIOUS
<1>1. QueueOK /\ CloudOK /\ RestOK
  BY DEF Init, QueueOK, CloudOK, RestOK, Status
<1>2. DataOK
  BY DEF Init, DataOK
<1>3. WorkerOK
  BY DEF Init, WorkerOK
<1>4. HandlersOK /\ PullOK
  BY DEF Init, HandlersOK, PullOK, NoRequest, Request, NoPull, Pull
<1>5. PullInRange /\ Talk
  BY DEF Init, PullInRange, Talk, RowInHand, HandlerHasEvent, Waits, NoPull, NoRequest,
         Stages, Outcomes, Parameters
<1> QED BY <1>1, <1>2, <1>3, <1>4, <1>5 DEF Typed, Pieces

(* The actions that leave workers and handlers alone.                       *)
LEMMA TalkUnchanged ==
    ASSUME Talk, WorkerOK, HandlersOK, UNCHANGED <<worker, req>>
    PROVE  Talk' /\ WorkerOK' /\ HandlersOK'
BY DEF Talk, RowInHand, HandlerHasEvent, Waits, WorkerOK, HandlersOK, worker

(* A worker saves a status and goes on.                                     *)
LEMMA SaveTyped ==
    ASSUME Parameters, Typed, NEW w \in Workers, NEW st \in Status, NEW n \in Nat,
           reply[w] \in Codes, Save(w, st, n)
    PROVE  Typed'
<1>1. current[w] \in Events /\ reply[w] # "none" /\ reply[w] # "waiting"
  BY DEF Typed, Pieces, WorkerOK, Talk, RowInHand, Codes
<1>2. QueueOK'
  BY <1>1 DEF Typed, Pieces, QueueOK, Save
<1>3. WorkerOK'
  BY DEF Typed, Pieces, WorkerOK, Save
<1>4. DataOK' /\ CloudOK' /\ HandlersOK' /\ PullOK' /\ RestOK' /\ PullInRange'
  BY DEF Typed, Pieces, DataOK, CloudOK, HandlersOK, PullOK, RestOK, PullInRange, Save, data, inbound
<1>5. \A v \in Workers :
         v # w => reply'[v] = reply[v] /\ current'[v] = current[v] /\ batch'[v] = batch[v]
  BY DEF Save, Typed, Pieces, WorkerOK
<1>6. reply'[w] = "none"
  BY DEF Save, Typed, Pieces, WorkerOK
<1>7. RowInHand' /\ HandlerHasEvent'
  BY <1>5, <1>6 DEF RowInHand, HandlerHasEvent, Typed, Talk, Save
<1>8. \A s \in Requests : req[s].from # w
  BY <1>1 DEF Typed, Talk, Waits
<1>9. Waits'
  <2>1. req' = req
    BY DEF Save
  <2>2. ASSUME NEW s \in Requests, NEW v \in Workers, req[s].from = v
        PROVE  /\ req[s].pc # "idle" /\ reply'[v] = "waiting" /\ current'[v] = req[s].ev
               /\ \A t \in Requests : req[t].from = v => t = s
    <3>1. v # w
      BY <1>8, <2>2
    <3>2. reply'[v] = reply[v] /\ current'[v] = current[v]
      BY <1>5, <3>1
    <3> QED BY <2>2, <3>2 DEF Waits, Typed, Talk
  <2> QED BY <2>1, <2>2 DEF Waits
<1> QED BY <1>2, <1>3, <1>4, <1>7, <1>9 DEF Typed, Pieces, Talk

LEMMA SaveNextTyped ==
    ASSUME Parameters, Typed, NEW w \in Workers, SaveNext(w)
    PROVE  Typed'
<1>1. reply[w] \in Codes
  BY DEF SaveNext, SaveSynced, SaveDependency, SaveFailure, Codes
<1>2. current[w] \in Events
  BY <1>1 DEF Typed, Pieces, WorkerOK, Talk, RowInHand, Codes
<1>3. copy[w][current[w]] \in Nat
  <2>1. copy \in [Workers -> [Events -> Nat]]
    BY DEF Typed, Pieces, WorkerOK
  <2>2. copy[w] \in [Events -> Nat]
    BY <2>1
  <2> QED BY <1>2, <2>2
<1>4. CASE SaveSynced(w)
  <2>1. Save(w, "SYNCED", copy[w][current[w]])
    BY <1>4 DEF SaveSynced
  <2> QED BY <1>1, <1>3, <2>1, SaveTyped DEF Status
<1>5. CASE SaveDependency(w)
  <2>1. Save(w, "RETRY", copy[w][current[w]])
    BY <1>5 DEF SaveDependency
  <2> QED BY <1>1, <1>3, <2>1, SaveTyped DEF Status
<1>6. CASE SaveFailure(w)
  <2>1. copy[w][current[w]] + 1 \in Nat
    BY <1>3
  <2>2. CASE copy[w][current[w]] + 1 > MaxRetries
    <3>1. Save(w, "FAILED", copy[w][current[w]] + 1)
      BY <1>6, <2>2 DEF SaveFailure
    <3> QED BY <1>1, <2>1, <3>1, SaveTyped DEF Status
  <2>3. CASE ~(copy[w][current[w]] + 1 > MaxRetries)
    <3>1. Save(w, "RETRY", copy[w][current[w]] + 1)
      BY <1>6, <2>3 DEF SaveFailure
    <3> QED BY <1>1, <2>1, <3>1, SaveTyped DEF Status
  <2> QED BY <2>2, <2>3
<1> QED BY <1>4, <1>5, <1>6 DEF SaveNext

(* A worker takes up its next row.                                          *)
LEMMA SendTyped ==
    ASSUME Parameters, Typed, NEW w \in Workers, NEW s \in Requests, Send(w, s)
    PROVE  Typed'
<1>1. PICK e \in batch[w] :
         /\ current' = [current EXCEPT ![w] = e]
         /\ req' = [req EXCEPT ![s] = [pc |-> "sent", ev |-> e, from |-> w]]
  BY DEF Send
<1>2. e \in Events
  BY DEF Typed, Pieces, WorkerOK
<1>3. [pc |-> "sent", ev |-> e, from |-> w] \in Request
  BY <1>2 DEF Request
<1>4. HandlersOK'
  BY <1>1, <1>3 DEF Typed, Pieces, HandlersOK
<1>5. WorkerOK'
  BY <1>1, <1>2 DEF Typed, Pieces, WorkerOK, Send
<1>6. QueueOK' /\ DataOK' /\ CloudOK' /\ PullOK' /\ RestOK' /\ PullInRange'
  BY DEF Typed, Pieces, QueueOK, DataOK, CloudOK, PullOK, RestOK, PullInRange, Send,
         queue, data, inbound
<1>7. /\ reply[w] = "none" /\ reply'[w] = "waiting" /\ current'[w] = e
      /\ \A v \in Workers : v # w => reply'[v] = reply[v] /\ current'[v] = current[v]
      /\ batch' = batch
  BY <1>1 DEF Send, Typed, Pieces, WorkerOK
<1>8. /\ req'[s].pc = "sent" /\ req'[s].ev = e /\ req'[s].from = w /\ req[s].pc = "idle"
      /\ \A t \in Requests : t # s => req'[t] = req[t]
  BY <1>1 DEF Send, Typed, Pieces, HandlersOK
<1>9. \A t \in Requests : req[t].from # w
  BY <1>7 DEF Typed, Talk, Waits
<1>10. RowInHand' /\ HandlerHasEvent'
  BY <1>2, <1>7, <1>8 DEF RowInHand, HandlerHasEvent, Typed, Talk
<1>11. Waits'
  BY <1>7, <1>8, <1>9 DEF Waits, Typed, Talk
<1> QED BY <1>4, <1>5, <1>6, <1>10, <1>11 DEF Typed, Pieces, Talk

LEMMA TimeOutTyped ==
    ASSUME Parameters, Typed, NEW w \in Workers, TimeOut(w) \/ WorkerDies(w)
    PROVE  Typed'
<1>1. req' = Abandoned(w)
  BY DEF TimeOut, WorkerDies
<1>2. /\ HandlersOK'
      /\ \A s \in Requests :
            /\ req'[s].pc = req[s].pc /\ req'[s].ev = req[s].ev
            /\ req'[s].from = IF req[s].from = w THEN Nobody ELSE req[s].from
  BY <1>1, AbandonedTalk DEF Typed, Pieces
<1>3. WorkerOK'
  BY DEF Typed, Pieces, WorkerOK, TimeOut, WorkerDies, Codes
<1>4. QueueOK' /\ DataOK' /\ CloudOK' /\ PullOK' /\ PullInRange'
  BY DEF Typed, Pieces, QueueOK, DataOK, CloudOK, PullOK, PullInRange, TimeOut, WorkerDies,
         queue, data, inbound
<1>5. RestOK'
  BY DEF Typed, Pieces, RestOK, TimeOut, WorkerDies, Fault
<1>6. \A v \in Workers :
         v # w => reply'[v] = reply[v] /\ current'[v] = current[v] /\ batch'[v] = batch[v]
  BY DEF TimeOut, WorkerDies, Typed, Pieces, WorkerOK
<1>7. reply'[w] # "none" => reply[w] # "none" /\ current'[w] = current[w] /\ batch'[w] = batch[w]
  BY DEF TimeOut, WorkerDies, Typed, Pieces, WorkerOK
<1>8. RowInHand' /\ HandlerHasEvent'
  BY <1>2, <1>6, <1>7 DEF RowInHand, HandlerHasEvent, Typed, Talk
<1>9. Waits'
  BY <1>2, <1>6 DEF Waits, Typed, Talk, Parameters
<1> QED BY <1>2, <1>3, <1>4, <1>5, <1>8, <1>9 DEF Typed, Pieces, Talk

(* The cloud's handlers.                                                    *)
LEMMA HandlerTyped ==
    ASSUME Parameters, Typed, NEW s \in Requests,
           Receive(s) \/ Ingest(s) \/ Finish(s) \/ RequestDies(s)
    PROVE  Typed'
<1> DEFINE e == req[s].ev
<1>1. e \in Events /\ req[s].pc # "idle"
  BY DEF Receive, Ingest, Finish, RequestDies, Typed, Talk, HandlerHasEvent, Outcomes
<1>2. QueueOK' /\ PullOK' /\ PullInRange'
  BY DEF Typed, Pieces, QueueOK, PullOK, PullInRange, Receive, Ingest, Finish, RequestDies,
         queue, inbound
<1>3. RestOK'
  BY DEF Typed, Pieces, RestOK, Receive, Ingest, Finish, RequestDies, Fault
<1>4. CASE Receive(s)
  <2>1. CloudOK' /\ DataOK'
    BY <1>1, <1>4 DEF Typed, Pieces, CloudOK, DataOK, Receive, Status, data
  <2>2. CASE Answer(s, "200")
    BY <2>1, <2>2, <1>2, <1>3, AnswerTalk DEF Typed, Pieces, Codes
  <2>3. CASE req' = [req EXCEPT ![s].pc = "queued"] /\ UNCHANGED worker
    <3>1. HandlersOK' /\ Talk'
      BY <1>1, <2>3, StageTalk DEF Typed, Pieces, Stages
    <3>2. WorkerOK'
      BY <2>3 DEF Typed, Pieces, WorkerOK, worker
    <3> QED BY <2>1, <1>2, <1>3, <3>1, <3>2 DEF Typed, Pieces
  <2> QED BY <1>4, <2>2, <2>3 DEF Receive
<1>5. CASE Ingest(s)
  <2>1. Outcome("CLOUD", e) \in Stages
    BY OutcomeType DEF Stages
  <2>2. HandlersOK' /\ Talk'
    BY <1>1, <1>5, <2>1, StageTalk DEF Typed, Pieces, Ingest
  <2>3. WorkerOK' /\ CloudOK'
    BY <1>5 DEF Typed, Pieces, WorkerOK, CloudOK, Ingest, worker
  <2>4. CASE Outcome("CLOUD", e) = "applied"
    <3>1. Apply("CLOUD", e)
      BY <1>5, <2>4 DEF Ingest
    <3>2. DataOK'
      BY <1>1, <3>1, ApplyType DEF Typed, Pieces
    <3> QED BY <1>2, <1>3, <2>2, <2>3, <3>2 DEF Typed, Pieces
  <2>5. CASE Outcome("CLOUD", e) # "applied"
    <3>1. DataOK'
      BY <1>5, <2>5 DEF Ingest, Typed, Pieces, DataOK, data
    <3> QED BY <1>2, <1>3, <2>2, <2>3, <3>1 DEF Typed, Pieces
  <2> QED BY <2>4, <2>5
<1>6. CASE Finish(s)
  <2>1. Verdict[req[s].pc] \in Status /\ Code[req[s].pc] \in Codes
    BY <1>6 DEF Finish, Outcomes, Verdict, Code, Status, Codes
  <2>2. CloudOK' /\ DataOK'
    BY <1>1, <1>6, <2>1 DEF Typed, Pieces, CloudOK, DataOK, Finish, data
  <2>3. Answer(s, Code[req[s].pc])
    BY <1>6 DEF Finish
  <2> QED BY <1>2, <1>3, <2>1, <2>2, <2>3, AnswerTalk DEF Typed, Pieces
<1>7. CASE RequestDies(s)
  <2>1. CloudOK' /\ DataOK' /\ Answer(s, "0")
    BY <1>7 DEF Typed, Pieces, CloudOK, DataOK, RequestDies, data
  <2> QED BY <1>2, <1>3, <2>1, AnswerTalk DEF Typed, Pieces, Codes
<1> QED BY <1>4, <1>5, <1>6, <1>7

(* The pull.                                                                *)
LEMMA PullTyped ==
    ASSUME Parameters, Typed, PullNext \/ PullDies
    PROVE  Typed'
<1> DEFINE e == feed[pull.pos]
<1>1. /\ pull.upto \in Nat /\ pull.pos \in Nat /\ Len(feed) \in Nat /\ cursor \in Nat
      /\ pull \in Pull /\ feed \in Seq(CloudEvents)
  BY DEF Typed, Pieces, PullOK, Pull
<1>2. UNCHANGED <<worker, req>> /\ UNCHANGED <<cloud, feed, live>>
  BY DEF PullNext, PullFetch, PullQueue, PullApply, PullSave, PullEnd, PullDies, inbound
<1>3. Talk' /\ WorkerOK' /\ HandlersOK' /\ CloudOK'
  BY <1>2, TalkUnchanged DEF Typed, Pieces, CloudOK
<1>4. RestOK'
  BY <1>2 DEF Typed, Pieces, RestOK, PullNext, PullFetch, PullQueue, PullApply, PullSave,
         PullEnd, PullDies, Fault
<1>5. CASE PullFetch \/ PullEnd \/ PullDies
  <2>1. QueueOK' /\ DataOK'
    BY <1>5 DEF Typed, Pieces, QueueOK, DataOK, PullFetch, PullEnd, PullDies, queue, data
  <2>2. PullOK' /\ PullInRange'
    BY <1>1, <1>5 DEF PullOK, PullInRange, PullFetch, PullEnd, PullDies, Pull, NoPull,
       Stages, Outcomes, inbound
  <2> QED BY <1>3, <1>4, <2>1, <2>2 DEF Typed, Pieces
<1>6. CASE PullQueue
  <2>1. e \in CloudEvents /\ e \in Events
    BY <1>1, <1>6 DEF PullQueue, Typed, PullInRange, Events
  <2>2. QueueOK' /\ DataOK'
    BY <1>6, <2>1 DEF Typed, Pieces, QueueOK, DataOK, PullQueue, Status, data
  <2>3. PullOK' /\ PullInRange'
    BY <1>1, <1>2, <1>6 DEF PullOK, PullInRange, PullQueue, Typed, Pull, Stages, Outcomes
  <2> QED BY <1>3, <1>4, <2>2, <2>3 DEF Typed, Pieces
<1>7. CASE PullApply
  <2> DEFINE o == IF live /\ e \in Guarded THEN "blocked" ELSE Outcome("LAN", e)
  <2>1. e \in Events /\ pull.pc = "queued"
    BY <1>1, <1>7 DEF PullApply, Typed, PullInRange, Events, Stages
  <2>2. o \in Outcomes /\ pull' = [pull EXCEPT !.pc = o]
    BY <1>7, OutcomeType DEF PullApply, Outcomes
  <2>3. QueueOK'
    BY <1>7 DEF Typed, Pieces, QueueOK, PullApply, queue
  <2>4. PullOK'
    BY <1>1, <1>2, <1>7, <2>2 DEF PullOK, PullApply, Pull, Stages
  <2>5. PullInRange'
    BY <1>1, <1>2, <2>1, <2>2 DEF PullInRange, Pull, Typed, Stages, Outcomes
  <2>6. DataOK'
    <3>1. CASE o = "applied"
      <4>1. Apply("LAN", e)
        BY <1>7, <3>1 DEF PullApply
      <4> QED BY <2>1, <4>1, ApplyType DEF Typed, Pieces
    <3>2. CASE o # "applied"
      BY <1>7, <3>2 DEF PullApply, Typed, Pieces, DataOK, data
    <3> QED BY <3>1, <3>2
  <2> QED BY <1>3, <1>4, <2>3, <2>4, <2>5, <2>6 DEF Typed, Pieces
<1>8. CASE PullSave
  <2>1. e \in Events /\ pull.pos >= 1 /\ pull.pc \in Outcomes
    BY <1>1, <1>8 DEF PullSave, Typed, PullInRange, Events, Stages, Outcomes
  <2>2. Verdict[pull.pc] \in Status
    BY <2>1 DEF Outcomes, Verdict, Status
  <2>3. QueueOK' /\ DataOK'
    BY <1>8, <2>1, <2>2 DEF Typed, Pieces, QueueOK, DataOK, PullSave, data
  <2>4. CASE pull.pc = "applied"
    <3>1. pull' = [pull EXCEPT !.pc = "page", !.pos = @ + 1] /\ cursor' = cursor
      BY <1>8, <2>4 DEF PullSave
    <3>2. pull' = [pc |-> "page", pos |-> pull.pos + 1, upto |-> pull.upto] /\ pull' \in Pull
      <4>1. pull = [pc |-> pull.pc, pos |-> pull.pos, upto |-> pull.upto]
        BY <1>1 DEF Pull
      <4>2. pull' = [pc |-> "page", pos |-> pull.pos + 1, upto |-> pull.upto]
        BY <3>1, <4>1, Zenon
      <4>3. pull.pos + 1 \in Nat
        BY <1>1
      <4>4. pull' \in Pull
        BY <1>1, <4>2, <4>3 DEF Pull
      <4> QED BY <4>2, <4>4
    <3>3. PullOK' /\ PullInRange'
      BY <1>1, <1>2, <2>1, <3>1, <3>2 DEF PullOK, PullInRange, Typed, Stages, Outcomes
    <3> QED BY <1>3, <1>4, <2>3, <3>3 DEF Typed, Pieces
  <2>5. CASE pull.pc # "applied"
    <3>1. pull' = NoPull /\ cursor' = pull.pos - 1
      BY <1>8, <2>5 DEF PullSave
    <3>2. PullOK' /\ PullInRange'
      BY <1>1, <1>2, <2>1, <3>1 DEF PullOK, PullInRange, Pull, NoPull, Stages, Outcomes
    <3> QED BY <1>3, <1>4, <2>3, <3>2 DEF Typed, Pieces
  <2> QED BY <2>4, <2>5
<1> QED BY <1>5, <1>6, <1>7, <1>8 DEF PullNext

LEMMA StepTyped == ASSUME Parameters PROVE Typed /\ [Next]_vars => Typed'
<1> SUFFICES ASSUME Typed, [Next]_vars PROVE Typed'
  OBVIOUS
<1>1. ASSUME NEW e \in LanEvents, LanWrite(e) PROVE Typed'
  <2>1. e \in Events /\ Apply("LAN", e)
    BY <1>1 DEF LanWrite, Events
  <2>2. DataOK'
    BY <2>1, ApplyType DEF Typed, Pieces
  <2>3. QueueOK' /\ CloudOK' /\ PullOK' /\ RestOK' /\ PullInRange'
    BY <1>1 DEF LanWrite, Typed, Pieces, QueueOK, CloudOK, PullOK, RestOK, PullInRange,
       Status, inbound
  <2>4. Talk' /\ WorkerOK' /\ HandlersOK'
    BY <1>1, TalkUnchanged DEF LanWrite, Typed, Pieces
  <2> QED BY <2>2, <2>3, <2>4 DEF Typed, Pieces
<1>2. ASSUME NEW e \in CloudEvents, CloudWrite(e) PROVE Typed'
  <2>1. e \in Events /\ Apply("CLOUD", e) /\ feed' = Append(feed, e) /\ pull' = pull
    BY <1>2 DEF CloudWrite, Events
  <2>2. DataOK'
    BY <2>1, ApplyType DEF Typed, Pieces
  <2>3. QueueOK' /\ CloudOK' /\ RestOK'
    BY <1>2 DEF CloudWrite, Typed, Pieces, QueueOK, CloudOK, RestOK, Status, queue
  <2>4. feed' \in Seq(CloudEvents) /\ Len(feed') = Len(feed) + 1 /\ Len(feed) \in Nat
    BY <2>1 DEF Typed, Pieces, PullOK
  <2>5. PullOK' /\ PullInRange'
    BY <1>2, <2>1, <2>4 DEF CloudWrite, Typed, Pieces, PullOK, PullInRange, Pull
  <2>6. Talk' /\ WorkerOK' /\ HandlersOK'
    BY <1>2, TalkUnchanged DEF CloudWrite, Typed, Pieces
  <2> QED BY <2>2, <2>3, <2>5, <2>6 DEF Typed, Pieces
<1>3. ASSUME NEW w \in Workers, NEW due \in SUBSET Events, List(w, due) PROVE Typed'
  <2>1. WorkerOK'
    <3>1. batch' = [batch EXCEPT ![w] = due] /\ batch \in [Workers -> SUBSET Events]
      BY <1>3 DEF List, Typed, Pieces, WorkerOK
    <3>2. copy' = [copy EXCEPT ![w] = tries] /\ tries \in [Events -> Nat]
      BY <1>3 DEF List, Typed, Pieces, QueueOK
    <3> QED BY <1>3, <3>1, <3>2 DEF List, Typed, Pieces, WorkerOK
  <2>2. /\ QueueOK' /\ DataOK' /\ CloudOK' /\ HandlersOK' /\ PullOK' /\ RestOK'
        /\ PullInRange'
    BY <1>3 DEF List, Typed, Pieces, QueueOK, DataOK, CloudOK, HandlersOK, PullOK, RestOK,
       PullInRange, queue, data, inbound
  <2>3. Talk'
    <3>1. \A v \in Workers : v # w => batch'[v] = batch[v]
      BY <1>3 DEF List, Typed, Pieces, WorkerOK
    <3>2. reply[w] = "none"
      BY <1>3 DEF List, Typed, Talk, RowInHand
    <3> QED BY <1>3, <3>1, <3>2 DEF List, Typed, Talk, RowInHand, HandlerHasEvent, Waits
  <2> QED BY <2>1, <2>2, <2>3 DEF Typed, Pieces
<1>4. ASSUME ResetFailed \/ Session PROVE Typed'
  <2>1. QueueOK'
    BY <1>4 DEF ResetFailed, Session, Typed, Pieces, QueueOK, Status, queue
  <2>0. RestOK'
    <3>1. live' \in BOOLEAN
      BY <1>4 DEF ResetFailed, Session, Typed, Pieces, RestOK
    <3>2. faults' \in Nat
      BY <1>4 DEF ResetFailed, Session, Typed, Pieces, RestOK, Fault
    <3> QED BY <3>1, <3>2 DEF RestOK
  <2>2. DataOK' /\ CloudOK' /\ PullOK' /\ PullInRange'
    BY <1>4 DEF ResetFailed, Session, Typed, Pieces, DataOK, CloudOK, PullOK, PullInRange,
       data, inbound
  <2>3. Talk' /\ WorkerOK' /\ HandlersOK'
    BY <1>4, TalkUnchanged DEF ResetFailed, Session, Typed, Pieces
  <2> QED BY <2>0, <2>1, <2>2, <2>3 DEF Typed, Pieces
<1>5. ASSUME UNCHANGED vars PROVE Typed'
  <2>1. QueueOK' /\ DataOK' /\ CloudOK' /\ PullOK' /\ RestOK' /\ PullInRange'
    BY <1>5 DEF Typed, Pieces, QueueOK, DataOK, CloudOK, PullOK, RestOK, PullInRange, vars,
       queue, data, inbound
  <2>2. Talk' /\ WorkerOK' /\ HandlersOK'
    BY <1>5, TalkUnchanged DEF vars, Typed, Pieces
  <2> QED BY <2>1, <2>2 DEF Typed, Pieces
<1> QED
  BY <1>1, <1>2, <1>3, <1>4, <1>5, SendTyped, TimeOutTyped, SaveNextTyped, HandlerTyped,
     PullTyped DEF Next

(* Whatever is lost, late or repeated, queues, batches and handlers stay    *)
(* well typed.                                                              *)
THEOREM TypeCorrect == Spec => []TypeOK
<1>1. Init => Typed
  BY InitTyped, Parameters
<1>2. Typed /\ [Next]_vars => Typed'
  BY StepTyped, Parameters
<1>3. Typed => TypeOK
  BY PiecesAreTypes DEF Typed
<1> QED BY <1>1, <1>2, <1>3, PTL DEF Spec

(* Why a row is never called SYNCED too early: an answer 200 is given, and  *)
(* a row of the cloud called SYNCED, only when the event has been applied;  *)
(* what has a handler or stands in a batch was queued by the LAN.           *)
Queued(e) == lan[e] # "ABSENT"
InCloud(e) == e \in LanEvents => e \in applied["CLOUD"]

SafeHandlers ==
    \A s \in Requests :
        /\ req[s].pc # "idle" => Queued(req[s].ev)
        /\ req[s].pc = "applied" => InCloud(req[s].ev)
SafeWorkers ==
    \A w \in Workers :
        /\ \A e \in batch[w] : Queued(e)
        /\ reply[w] = "200" => InCloud(current[w])
SafeCloud == \A e \in Events : cloud[e] = "SYNCED" => InCloud(e)
Safe == SafeHandlers /\ SafeWorkers /\ SafeCloud /\ SyncedIsApplied

(* Nothing is taken back: no row of the LAN's queue is deleted, and nothing *)
(* is unapplied in the cloud.                                               *)
Grows ==
    /\ \A e \in Events : Queued(e) => lan'[e] # "ABSENT"
    /\ applied["CLOUD"] \subseteq applied'["CLOUD"]

(* What a step does to the LAN's events: nothing, or one step of the        *)
(* abstract outbox.                                                         *)
NothingSeen == Accepted' = Accepted /\ Delivered' = Delivered /\ Reported' = Reported
Seen == NothingSeen \/ Delivery!Next

LEMMA QuietStep ==
    ASSUME UNCHANGED lan, UNCHANGED applied
    PROVE  Grows /\ NothingSeen
BY DEF Grows, Queued, NothingSeen, Accepted, Delivered, Reported

(* A status saved for one row.                                              *)
LEMMA SavedStep ==
    ASSUME Parameters, QueueOK, UNCHANGED applied, NEW e \in Events, NEW st \in Status \ {"ABSENT"},
           lan' = [lan EXCEPT ![e] = st], Queued(e) \/ e \in CloudEvents,
           st = "SYNCED" => InCloud(e), SyncedIsApplied
    PROVE  Grows /\ Seen /\ SyncedIsApplied'
<1>1. \A x \in Events : lan'[x] = IF x = e THEN st ELSE lan[x]
  BY DEF QueueOK
<1>2. Grows
  BY <1>1 DEF Grows, Queued, Status
<1>3. SyncedIsApplied'
  BY <1>1 DEF SyncedIsApplied, InCloud, Events
<1>4. Delivered' = Delivered
  BY DEF Delivered
<1>5. CASE e \notin LanEvents
  <2>1. NothingSeen
    BY <1>1, <1>4, <1>5 DEF NothingSeen, Accepted, Reported, Events
  <2> QED BY <1>2, <1>3, <2>1 DEF Seen
<1>6. CASE e \in LanEvents
  <2>1. Queued(e)
    BY <1>6 DEF Parameters
  <2>2. Accepted' = Accepted
    BY <1>1, <1>6, <2>1 DEF Accepted, Queued, Events, Status
  <2>3. CASE st = "SYNCED"
    <3>1. Reported' = Reported \cup {e} /\ e \in Delivered
      BY <1>1, <1>6, <2>3 DEF Reported, Delivered, InCloud, Events
    <3>2. Delivery!Acknowledge(e)
      BY <1>4, <2>2, <3>1 DEF Delivery!Acknowledge
    <3> QED BY <1>2, <1>3, <1>6, <3>2 DEF Seen, Delivery!Next
  <2>4. CASE st # "SYNCED"
    <3>1. Reported' = Reported \ {e}
      BY <1>1, <1>6, <2>4 DEF Reported, Events
    <3>2. Delivery!Doubt(e)
      BY <1>4, <2>2, <3>1 DEF Delivery!Doubt
    <3> QED BY <1>2, <1>3, <1>6, <3>2 DEF Seen, Delivery!Next
  <2> QED BY <2>3, <2>4
<1> QED BY <1>5, <1>6

(* What does not change stays safe, as nothing is taken back.               *)
LEMMA StaysSafe ==
    ASSUME Typed, Safe, Grows
    PROVE  /\ UNCHANGED req => SafeHandlers'
           /\ UNCHANGED worker => SafeWorkers'
           /\ UNCHANGED cloud => SafeCloud'
<1>1. \A e \in Events : (Queued(e) => Queued(e)') /\ (InCloud(e) => InCloud(e)')
  BY DEF Grows, Queued, InCloud
<1>2. UNCHANGED req => SafeHandlers'
  <2> SUFFICES ASSUME UNCHANGED req, NEW s \in Requests
               PROVE  /\ req[s].pc # "idle" => Queued(req[s].ev)'
                      /\ req[s].pc = "applied" => InCloud(req[s].ev)'
    BY DEF SafeHandlers
  <2>1. req[s].pc # "idle" => req[s].ev \in Events
    BY DEF Typed, Talk, HandlerHasEvent
  <2> QED BY <1>1, <2>1 DEF Safe, SafeHandlers, Queued, InCloud
<1>3. UNCHANGED worker => SafeWorkers'
  <2> SUFFICES ASSUME UNCHANGED worker, NEW w \in Workers
               PROVE  /\ \A e \in batch[w] : Queued(e)'
                      /\ reply[w] = "200" => InCloud(current[w])'
    BY DEF SafeWorkers, worker
  <2>1. batch[w] \subseteq Events /\ (reply[w] = "200" => current[w] \in Events)
    BY DEF Typed, Pieces, WorkerOK, Talk, RowInHand
  <2> QED BY <1>1, <2>1 DEF Safe, SafeWorkers, Queued, InCloud, worker
<1>4. UNCHANGED cloud => SafeCloud'
  BY <1>1 DEF Safe, SafeCloud, InCloud
<1> QED BY <1>2, <1>3, <1>4

(* Changes that no LAN event sees.                                          *)
LEMMA WriteSafe ==
    ASSUME Parameters, Typed, Safe,
           NEW e \in Events,
           (e \in LanEvents /\ LanWrite(e)) \/ (e \in CloudEvents /\ CloudWrite(e))
    PROVE  Safe' /\ Seen
<1>1. CASE e \in LanEvents /\ LanWrite(e)
  <2>1. /\ \A x \in Events : lan'[x] = IF x = e THEN "PENDING" ELSE lan[x]
        /\ lan[e] = "ABSENT"
    BY <1>1 DEF LanWrite, Typed, Pieces, QueueOK
  <2>2. applied'["CLOUD"] = applied["CLOUD"]
    BY <1>1 DEF LanWrite, Apply, Typed, Pieces, DataOK
  <2>3. Grows
    BY <2>1, <2>2 DEF Grows, Queued
  <2>4. SafeHandlers' /\ SafeWorkers' /\ SafeCloud'
    BY <1>1, <2>3, StaysSafe DEF LanWrite
  <2>5. SyncedIsApplied'
    BY <2>1, <2>2 DEF Safe, SyncedIsApplied, Events
  <2>6. Delivery!Accept(e)
    <3>1. Accepted' = Accepted \cup {e}
      BY <1>1, <2>1 DEF Accepted, Events
    <3>2. Delivered' = Delivered /\ Reported' = Reported
      BY <1>1, <2>1, <2>2 DEF Delivered, Reported, Events
    <3> QED BY <3>1, <3>2 DEF Delivery!Accept
  <2> QED BY <1>1, <2>4, <2>5, <2>6 DEF Safe, Seen, Delivery!Next
<1>2. CASE e \in CloudEvents /\ CloudWrite(e)
  <2>1. applied'["CLOUD"] = applied["CLOUD"] \cup {e} /\ UNCHANGED lan
    BY <1>2 DEF CloudWrite, Apply, Typed, Pieces, DataOK, queue
  <2>2. Grows
    BY <2>1 DEF Grows, Queued
  <2>3. SafeHandlers' /\ SafeWorkers'
    BY <1>2, <2>2, StaysSafe DEF CloudWrite
  <2>4. SafeCloud'
    BY <1>2, <2>1 DEF CloudWrite, Safe, SafeCloud, InCloud, Typed, Pieces, CloudOK, Parameters
  <2>5. SyncedIsApplied'
    BY <2>1 DEF Safe, SyncedIsApplied
  <2>6. NothingSeen
    BY <1>2, <2>1 DEF NothingSeen, Accepted, Delivered, Reported, Parameters
  <2> QED BY <2>3, <2>4, <2>5, <2>6 DEF Safe, Seen
<1> QED BY <1>1, <1>2

(* A worker's own steps.                                                    *)
LEMMA WorkerSafe ==
    ASSUME Parameters, Typed, Safe, NEW w \in Workers,
           \/ \E due \in SUBSET Events : List(w, due)
           \/ \E s \in Requests : Send(w, s)
           \/ TimeOut(w) \/ WorkerDies(w)
    PROVE  Safe' /\ Seen
<1>1. UNCHANGED lan /\ UNCHANGED applied /\ UNCHANGED cloud
  BY DEF List, Send, TimeOut, WorkerDies, queue, data
<1>2. Grows /\ Seen
  BY <1>1, QuietStep DEF Seen
<1>3. SafeCloud' /\ SyncedIsApplied'
  BY <1>1, <1>2, StaysSafe DEF Safe, SyncedIsApplied
<1>4. \A e : (Queued(e) <=> Queued(e)') /\ (InCloud(e) <=> InCloud(e)')
  BY <1>1 DEF Queued, InCloud
<1>5. ASSUME NEW due \in SUBSET Events, List(w, due) PROVE Safe'
  <2>1. \A e \in due : Queued(e)
    BY <1>5 DEF List, Queued, Due
  <2>2. batch' = [batch EXCEPT ![w] = due] /\ UNCHANGED <<current, reply, req>>
    BY <1>5 DEF List
  <2>3. SafeWorkers'
    BY <1>4, <2>1, <2>2 DEF Safe, SafeWorkers, Typed, Pieces, WorkerOK
  <2>4. SafeHandlers'
    BY <1>2, <2>2, StaysSafe
  <2> QED BY <1>3, <2>3, <2>4 DEF Safe
<1>6. ASSUME NEW s \in Requests, Send(w, s) PROVE Safe'
  <2>1. PICK e \in batch[w] : req' = [req EXCEPT ![s] = [pc |-> "sent", ev |-> e, from |-> w]]
    BY <1>6 DEF Send
  <2>2. Queued(e)
    BY DEF Safe, SafeWorkers
  <2>3. SafeHandlers'
    BY <1>4, <2>1, <2>2 DEF Safe, SafeHandlers, Typed, Pieces, HandlersOK
  <2>4. \A v \in Workers : /\ batch'[v] = batch[v]
                           /\ reply'[v] = "200" => reply[v] = "200" /\ current'[v] = current[v]
    BY <1>6 DEF Send, Typed, Pieces, WorkerOK
  <2>5. SafeWorkers'
    BY <1>4, <2>4 DEF Safe, SafeWorkers
  <2> QED BY <1>3, <2>3, <2>5 DEF Safe
<1>7. ASSUME TimeOut(w) \/ WorkerDies(w) PROVE Safe'
  <2>1. req' = Abandoned(w)
    BY <1>7 DEF TimeOut, WorkerDies
  <2>2. \A s \in Requests : req'[s].pc = req[s].pc /\ req'[s].ev = req[s].ev
    BY <2>1, AbandonedTalk DEF Typed, Pieces
  <2>3. SafeHandlers'
    BY <1>4, <2>2 DEF Safe, SafeHandlers
  <2>4. \A v \in Workers : /\ batch'[v] \subseteq batch[v]
                           /\ reply'[v] = "200" => reply[v] = "200" /\ current'[v] = current[v]
    BY <1>7 DEF TimeOut, WorkerDies, Typed, Pieces, WorkerOK
  <2>5. SafeWorkers'
    BY <1>4, <2>4 DEF Safe, SafeWorkers
  <2> QED BY <1>3, <2>3, <2>5 DEF Safe
<1> QED BY <1>2, <1>5, <1>6, <1>7

(* A worker saves SYNCED only with an answer 200 in hand.                   *)
LEMMA SaveSafe ==
    ASSUME Parameters, Typed, Safe, NEW w \in Workers, SaveNext(w)
    PROVE  Safe' /\ Seen
<1>1. PICK st, n :
         /\ Save(w, st, n) /\ st \in {"SYNCED", "RETRY", "FAILED"}
         /\ st = "SYNCED" => reply[w] = "200"
         /\ reply[w] \in Codes
  <2>1. CASE SaveSynced(w)
    BY <2>1 DEF SaveSynced, Codes
  <2>2. CASE SaveDependency(w)
    BY <2>2 DEF SaveDependency, Codes
  <2>3. CASE SaveFailure(w)
    <3>1. PICK st \in {"RETRY", "FAILED"} : Save(w, st, copy[w][current[w]] + 1)
      BY <2>3 DEF SaveFailure
    <3>2. reply[w] \in Codes
      BY <2>3 DEF SaveFailure, Codes
    <3> QED BY <3>1, <3>2
  <2> QED BY <2>1, <2>2, <2>3 DEF SaveNext
<1>2. current[w] \in Events
  BY <1>1 DEF Typed, Pieces, WorkerOK, Talk, RowInHand, Codes
<1>3. lan' = [lan EXCEPT ![current[w]] = st] /\ UNCHANGED <<applied, cloud, req>>
  BY <1>1 DEF Save, data
<1>4. Queued(current[w]) /\ (st = "SYNCED" => InCloud(current[w]))
  <2>1. Queued(current[w])
    BY <1>1 DEF Safe, SafeWorkers, Typed, Talk, RowInHand, Codes
  <2> QED BY <1>1, <2>1 DEF Safe, SafeWorkers
<1>5. Grows /\ Seen /\ SyncedIsApplied'
  <2>1. st \in Status \ {"ABSENT"}
    BY <1>1 DEF Status
  <2> QED BY <1>2, <1>3, <1>4, <2>1, SavedStep DEF Typed, Pieces, Safe
<1>6. SafeHandlers' /\ SafeCloud'
  BY <1>3, <1>5, StaysSafe
<1>7. /\ \A v \in Workers : batch'[v] \subseteq batch[v] /\ batch[v] \subseteq Events
      /\ \A v \in Workers : reply'[v] = "200" => reply[v] = "200" /\ current'[v] = current[v]
                                                 /\ current[v] \in Events
  BY <1>1 DEF Save, Typed, Pieces, WorkerOK, Talk, RowInHand
<1>8. SafeWorkers'
  BY <1>1, <1>5, <1>7 DEF Safe, SafeWorkers, Grows, Queued, InCloud, Save
<1> QED BY <1>5, <1>6, <1>8 DEF Safe

(* The cloud answers 200 only for what it has applied.                      *)
LEMMA AnswerSafe ==
    ASSUME Parameters, Typed, Safe, Grows, NEW s \in Requests, NEW code \in Codes,
           Answer(s, code), req[s].pc # "idle",
           code = "200" /\ req[s].ev \in LanEvents => req[s].ev \in applied'["CLOUD"]
    PROVE  SafeHandlers' /\ SafeWorkers'
<1>1. \A e \in Events : (Queued(e) => Queued(e)') /\ (InCloud(e) => InCloud(e)')
  BY DEF Grows, Queued, InCloud
<1>2. \A t \in Requests : req'[t] = IF t = s THEN NoRequest ELSE req[t]
  BY DEF Answer, Typed, Pieces, HandlersOK
<1>3. SafeHandlers'
  <2> SUFFICES ASSUME NEW t \in Requests, req'[t].pc # "idle"
               PROVE  /\ Queued(req[t].ev)'
                      /\ req'[t].pc = "applied" => InCloud(req[t].ev)'
    BY DEF SafeHandlers
  <2>1. req'[t] = req[t]
    BY <1>2 DEF NoRequest
  <2>2. req[t].ev \in Events
    BY <2>1 DEF Typed, Talk, HandlerHasEvent
  <2> QED BY <1>1, <2>1, <2>2 DEF Safe, SafeHandlers, Queued, InCloud
<1>4. SafeWorkers'
  <2> SUFFICES ASSUME NEW w \in Workers
               PROVE  /\ \A e \in batch[w] : Queued(e)'
                      /\ reply'[w] = "200" => InCloud(current[w])'
    BY DEF SafeWorkers, Answer
  <2>1. batch[w] \subseteq Events /\ (reply[w] = "200" => current[w] \in Events)
    BY DEF Typed, Pieces, WorkerOK, Talk, RowInHand
  <2>2. \A e \in batch[w] : Queued(e)'
    BY <1>1, <2>1 DEF Safe, SafeWorkers
  <2>3. CASE req[s].from = w
    <3>1. reply'[w] = code /\ current[w] = req[s].ev
      BY <2>3 DEF Answer, Typed, Talk, Waits
    <3> QED BY <2>2, <3>1 DEF Answer, InCloud
  <2>4. CASE req[s].from # w
    <3>1. reply'[w] = reply[w]
      BY <2>4 DEF Answer
    <3> QED BY <1>1, <2>1, <2>2, <3>1 DEF Safe, SafeWorkers, Answer, InCloud
  <2> QED BY <2>3, <2>4
<1> QED BY <1>3, <1>4

LEMMA HandlerSafe ==
    ASSUME Parameters, Typed, Safe, NEW s \in Requests,
           Receive(s) \/ Ingest(s) \/ Finish(s) \/ RequestDies(s)
    PROVE  Safe' /\ Seen
<1> DEFINE e == req[s].ev
<1>1. e \in Events /\ req[s].pc # "idle" /\ Queued(e) /\ UNCHANGED lan
  BY DEF Receive, Ingest, Finish, RequestDies, Typed, Talk, HandlerHasEvent, Outcomes, Safe,
         SafeHandlers, queue
<1>2. CASE Receive(s)
  <2>1. UNCHANGED applied
    BY <1>2 DEF Receive, data
  <2>2. Grows /\ Seen
    BY <1>1, <2>1, QuietStep DEF Seen
  <2>3. SafeCloud' /\ SyncedIsApplied'
    BY <1>1, <1>2, <2>1 DEF Receive, Safe, SafeCloud, SyncedIsApplied, InCloud, Typed, Pieces,
       CloudOK
  <2>4. CASE cloud[e] = "SYNCED" /\ Answer(s, "200")
    <3>1. e \in LanEvents => e \in applied'["CLOUD"]
      BY <1>1, <2>1, <2>4 DEF Safe, SafeCloud, InCloud
    <3>2. "200" \in Codes
      BY DEF Codes
    <3>3. SafeHandlers' /\ SafeWorkers'
      BY <1>1, <2>2, <2>4, <3>1, <3>2, AnswerSafe
    <3> QED BY <2>2, <2>3, <3>3 DEF Safe
  <2>5. CASE req' = [req EXCEPT ![s].pc = "queued"] /\ UNCHANGED worker
    <3>1. \A t \in Requests : /\ req'[t].ev = req[t].ev
                              /\ req'[t].pc = IF t = s THEN "queued" ELSE req[t].pc
      BY <2>5 DEF Typed, Pieces, HandlersOK, Request
    <3>2. SafeHandlers'
      BY <1>1, <2>1, <3>1 DEF Safe, SafeHandlers, Queued, InCloud
    <3>3. SafeWorkers'
      BY <2>2, <2>5, StaysSafe
    <3> QED BY <2>2, <2>3, <3>2, <3>3 DEF Safe
  <2> QED BY <1>2, <2>4, <2>5 DEF Receive
<1>3. CASE Ingest(s)
  <2> DEFINE o == Outcome("CLOUD", e)
  <2>1. UNCHANGED <<cloud, worker>> /\ req' = [req EXCEPT ![s].pc = o]
    BY <1>3 DEF Ingest
  <2>2. \A t \in Requests : /\ req'[t].ev = req[t].ev
                            /\ req'[t].pc = IF t = s THEN o ELSE req[t].pc
    BY <2>1 DEF Typed, Pieces, HandlersOK, Request
  <2>3. applied'["CLOUD"] = IF o = "applied" THEN applied["CLOUD"] \cup {e} ELSE applied["CLOUD"]
    <3>1. CASE o = "applied"
      <4>1. Apply("CLOUD", e)
        BY <1>3, <3>1 DEF Ingest
      <4> QED BY <3>1, <4>1 DEF Apply, Typed, Pieces, DataOK
    <3>2. CASE o # "applied"
      BY <1>3, <3>2 DEF Ingest, data
    <3> QED BY <3>1, <3>2
  <2>4. Grows
    BY <1>1, <2>3 DEF Grows, Queued
  <2>5. SafeWorkers' /\ SafeCloud'
    BY <2>1, <2>4, StaysSafe
  <2>6. SafeHandlers'
    BY <1>1, <2>2, <2>3 DEF Safe, SafeHandlers, Queued, InCloud
  <2>7. SyncedIsApplied'
    BY <1>1, <2>3 DEF Safe, SyncedIsApplied
  <2>8. Accepted' = Accepted /\ Reported' = Reported
    BY <1>1 DEF Accepted, Reported
  <2>9. CASE o = "applied" /\ e \in LanEvents
    <3>1. Delivered' = Delivered \cup {e} /\ e \in Accepted
      BY <1>1, <2>3, <2>9 DEF Delivered, Accepted, Queued
    <3>2. Delivery!Deliver(e)
      BY <2>8, <3>1 DEF Delivery!Deliver
    <3> QED BY <2>5, <2>6, <2>7, <2>9, <3>2 DEF Safe, Seen, Delivery!Next
  <2>10. CASE ~(o = "applied" /\ e \in LanEvents)
    <3>1. Delivered' = Delivered
      BY <2>3, <2>10 DEF Delivered
    <3> QED BY <2>5, <2>6, <2>7, <2>8, <3>1 DEF Safe, Seen, NothingSeen
  <2> QED BY <2>9, <2>10
<1>4. CASE Finish(s)
  <2>1. UNCHANGED applied /\ Answer(s, Code[req[s].pc]) /\ req[s].pc \in Outcomes
        /\ cloud' = [cloud EXCEPT ![e] = Verdict[req[s].pc]]
    BY <1>4 DEF Finish, data
  <2>2. Grows /\ Seen
    BY <1>1, <2>1, QuietStep DEF Seen
  <2>3. /\ Code[req[s].pc] \in Codes
        /\ Code[req[s].pc] = "200" \/ Verdict[req[s].pc] = "SYNCED" => req[s].pc = "applied"
    BY <2>1 DEF Outcomes, Code, Codes, Verdict
  <2>4. req[s].pc = "applied" /\ e \in LanEvents => e \in applied'["CLOUD"]
    BY <2>1 DEF Safe, SafeHandlers, InCloud
  <2>5. SafeHandlers' /\ SafeWorkers'
    BY <1>1, <2>1, <2>2, <2>3, <2>4, AnswerSafe
  <2>6. SafeCloud'
    BY <1>1, <2>1, <2>3, <2>4 DEF Safe, SafeCloud, InCloud, Typed, Pieces, CloudOK
  <2>7. SyncedIsApplied'
    BY <1>1, <2>1 DEF Safe, SyncedIsApplied
  <2> QED BY <2>2, <2>5, <2>6, <2>7 DEF Safe
<1>5. CASE RequestDies(s)
  <2>1. UNCHANGED <<applied, cloud>> /\ Answer(s, "0") /\ "0" \in Codes /\ "0" # "200"
    BY <1>5 DEF RequestDies, data, Codes
  <2>2. Grows /\ Seen
    BY <1>1, <2>1, QuietStep DEF Seen
  <2>3. SafeHandlers' /\ SafeWorkers' /\ SafeCloud'
    BY <1>1, <2>1, <2>2, AnswerSafe, StaysSafe
  <2>4. SyncedIsApplied'
    BY <1>1, <2>1 DEF Safe, SyncedIsApplied
  <2> QED BY <2>2, <2>3, <2>4 DEF Safe
<1> QED BY <1>2, <1>3, <1>4, <1>5

(* The pull touches rows of cloud events only, and the LAN's data.          *)
LEMMA PullSafe ==
    ASSUME Parameters, Typed, Safe, PullNext \/ PullDies
    PROVE  Safe' /\ Seen
<1> DEFINE e == feed[pull.pos]
<1>0. /\ pull.upto \in Nat /\ pull.pos \in Nat /\ Len(feed) \in Nat
      /\ feed \in Seq(CloudEvents) /\ PullInRange
  BY DEF Typed, Pieces, PullOK, Pull
<1>1. UNCHANGED <<cloud, req>> /\ UNCHANGED worker
  BY DEF PullNext, PullFetch, PullQueue, PullApply, PullSave, PullEnd, PullDies
<1>2. applied'["CLOUD"] = applied["CLOUD"]
  <2>1. CASE PullApply
    <3>1. UNCHANGED data \/ Apply("LAN", e)
      BY <2>1 DEF PullApply
    <3> QED BY <3>1 DEF Apply, data, Typed, Pieces, DataOK
  <2>2. CASE ~PullApply
    BY <2>2 DEF PullNext, PullFetch, PullQueue, PullSave, PullEnd, PullDies, data
  <2> QED BY <2>1, <2>2
<1>3. \A x \in LanEvents : lan'[x] = lan[x]
  <2>1. CASE PullQueue \/ PullSave
    <3>1. e \in CloudEvents
      BY <1>0, <2>1 DEF PullQueue, PullSave, PullInRange, Stages, Outcomes
    <3> QED BY <2>1, <3>1 DEF PullQueue, PullSave, Typed, Pieces, QueueOK, Parameters, Events
  <2>2. CASE ~(PullQueue \/ PullSave)
    BY <2>2 DEF PullNext, PullFetch, PullApply, PullEnd, PullDies, queue
  <2> QED BY <2>1, <2>2
<1>4. \A x \in Events : Queued(x) => lan'[x] # "ABSENT"
  <2>1. CASE PullQueue \/ PullSave
    <3>1. PICK st \in Status \ {"ABSENT"} : lan' = [lan EXCEPT ![e] = st] \/ lan' = lan
      <4>1. CASE PullSave
        <5>1. Verdict[pull.pc] \in Status \ {"ABSENT"}
          BY <4>1 DEF PullSave, Outcomes, Verdict, Status
        <5>2. lan' = [lan EXCEPT ![e] = Verdict[pull.pc]]
          BY <4>1 DEF PullSave
        <5> QED BY <5>1, <5>2
      <4>2. CASE PullQueue
        <5>1. e \in Events
          <6>1. pull.pos \in 1 .. Len(feed)
            BY <1>0, <4>2 DEF PullQueue, PullInRange
          <6>2. e \in CloudEvents
            BY <1>0, <6>1
          <6> QED BY <6>2 DEF Events
        <5>2. lan[e] \in Status
          BY <5>1 DEF Typed, Pieces, QueueOK
        <5> QED BY <4>2, <5>2 DEF PullQueue, Status
      <4> QED BY <2>1, <4>1, <4>2
    <3> QED BY <3>1 DEF Queued, Typed, Pieces, QueueOK
  <2>2. CASE ~(PullQueue \/ PullSave)
    BY <2>2 DEF PullNext, PullFetch, PullApply, PullEnd, PullDies, queue, Queued
  <2> QED BY <2>1, <2>2
<1>5. Grows
  BY <1>2, <1>4 DEF Grows
<1>6. SafeHandlers' /\ SafeWorkers' /\ SafeCloud'
  BY <1>1, <1>5, StaysSafe
<1>7. SyncedIsApplied' /\ NothingSeen
  BY <1>2, <1>3 DEF Safe, SyncedIsApplied, NothingSeen, Accepted, Delivered, Reported
<1> QED BY <1>6, <1>7 DEF Safe, Seen

LEMMA StepSafe ==
    ASSUME Parameters, Typed, Safe, [Next]_vars
    PROVE  Safe' /\ Seen
<1>1. ASSUME ResetFailed PROVE Safe' /\ Seen
  <2>1. \A e \in Events : lan'[e] = IF lan[e] = "FAILED" THEN "RETRY" ELSE lan[e]
    BY <1>1 DEF ResetFailed
  <2>2. UNCHANGED <<cloud, req, applied>> /\ UNCHANGED worker
    BY <1>1 DEF ResetFailed, data
  <2>3. Grows
    BY <2>1, <2>2 DEF Grows, Queued
  <2>4. SafeHandlers' /\ SafeWorkers' /\ SafeCloud'
    BY <2>2, <2>3, StaysSafe
  <2>5. SyncedIsApplied' /\ NothingSeen
    BY <2>1, <2>2 DEF Safe, SyncedIsApplied, NothingSeen, Accepted, Delivered, Reported, Events
  <2> QED BY <2>4, <2>5 DEF Safe, Seen
<1>2. ASSUME Session \/ UNCHANGED vars PROVE Safe' /\ Seen
  <2>1. UNCHANGED <<lan, applied, cloud, req>> /\ UNCHANGED worker
    BY <1>2 DEF Session, vars, queue, data
  <2>2. Grows /\ NothingSeen
    BY <2>1, QuietStep
  <2>3. SafeHandlers' /\ SafeWorkers' /\ SafeCloud'
    BY <2>1, <2>2, StaysSafe
  <2>4. SyncedIsApplied'
    BY <2>1 DEF Safe, SyncedIsApplied
  <2> QED BY <2>2, <2>3, <2>4 DEF Safe, Seen
<1>3. ASSUME NEW e \in LanEvents, LanWrite(e) PROVE Safe' /\ Seen
  BY <1>3, WriteSafe DEF Events
<1>4. ASSUME NEW e \in CloudEvents, CloudWrite(e) PROVE Safe' /\ Seen
  BY <1>4, WriteSafe DEF Events
<1> QED
  BY <1>1, <1>2, <1>3, <1>4, WorkerSafe, SaveSafe, HandlerSafe, PullSafe DEF Next

LEMMA InitSafe == ASSUME Parameters PROVE Init => Safe /\ Delivery!Init
<1> SUFFICES ASSUME Init PROVE Safe /\ Delivery!Init
  OBVIOUS
<1>1. SafeHandlers /\ SafeWorkers
  BY DEF Init, SafeHandlers, SafeWorkers, NoRequest
<1>2. SafeCloud /\ SyncedIsApplied
  BY DEF Init, SafeCloud, SyncedIsApplied, Events
<1>3. Delivery!Init
  BY DEF Init, Delivery!Init, Accepted, Delivered, Reported, Events
<1> QED BY <1>1, <1>2, <1>3 DEF Safe

(* However many workers send the same row at once, and whatever the network *)
(* and the processes do, a row of the LAN called SYNCED is in the cloud.    *)
THEOREM SyncedIsAppliedHolds == Spec => []SyncedIsApplied
<1>1. Init => Typed /\ Safe
  BY InitTyped, InitSafe, Parameters
<1>2. Typed /\ Safe /\ [Next]_vars => (Typed /\ Safe)'
  BY StepTyped, StepSafe, Parameters
<1>3. Typed /\ Safe => SyncedIsApplied
  BY DEF Safe
<1> QED BY <1>1, <1>2, <1>3, PTL DEF Spec

(* The two nodes, seen through the LAN's queue and the cloud's data, are an *)
(* outbox that keeps its promise.                                           *)
THEOREM OutboxIsDelivery == Spec => DeliveryHolds
<1>1. Init => Typed /\ Safe /\ Delivery!Init
  BY InitTyped, InitSafe, Parameters
<1>2. Typed /\ Safe /\ [Next]_vars => (Typed /\ Safe)' /\ [Delivery!Next]_(Delivery!vars)
  <2>1. NothingSeen => UNCHANGED Delivery!vars
    BY DEF NothingSeen, Delivery!vars
  <2> QED BY <2>1, StepTyped, StepSafe, Parameters DEF Seen
<1> QED BY <1>1, <1>2, PTL DEF Spec, DeliveryHolds, Delivery!Spec

-----------------------------------------------------------------------------
(* Why the cursor passes nothing.  An event of the cloud is in its queue    *)
(* with what it refers to (Known) before the LAN hears of it, so the cloud  *)
(* takes it back whenever it is sent back; what the pull has gone by is     *)
(* applied on the LAN, or the cloud has said so (Passed).                   *)
Known(e) == e \in CloudEvents => cloud[e] # "ABSENT" /\ Needs[e] \subseteq applied["CLOUD"]
TakenBack(e) == e \in CloudEvents => cloud[e] = "SYNCED"
Passed(e) == e \in applied["LAN"] \/ cloud[e] = "SYNCED"

KnownHandlers ==
    \A s \in Requests : req[s].pc # "idle" =>
        /\ Known(req[s].ev)
        /\ req[s].ev \in CloudEvents => req[s].pc \in {"sent", "queued", "applied"}
KnownBatches == \A w \in Workers : \A e \in batch[w] : Known(e)
AnsweredBack == \A w \in Workers : reply[w] = "200" => TakenBack(current[w])
KnownQueue ==
    \A e \in CloudEvents :
        /\ lan[e] # "ABSENT" => Known(e)
        /\ lan[e] = "SYNCED" => Passed(e)
        /\ cloud[e] # "ABSENT" => Known(e)
KnownFeed == \A i \in 1 .. Len(feed) : cloud[feed[i]] # "ABSENT"
PagePassed ==
    pull.pc # "idle" =>
        /\ pull.pos <= pull.upto + 1
        /\ \A i \in 1 .. (pull.pos - 1) : Passed(feed[i])
        /\ pull.pc = "applied" => feed[pull.pos] \in applied["LAN"]
CursorPassed == cursor <= Len(feed) /\ PulledOrReturned

ReturnInv ==
    /\ KnownHandlers /\ KnownBatches /\ AnsweredBack /\ KnownQueue /\ KnownFeed
    /\ PagePassed /\ CursorPassed

(* Nothing is taken back on either node.                                    *)
Keeps ==
    /\ \A e \in CloudEvents : /\ cloud[e] # "ABSENT" => cloud'[e] # "ABSENT"
                              /\ cloud[e] = "SYNCED" => cloud'[e] = "SYNCED"
    /\ \A n \in {"LAN", "CLOUD"} : applied[n] \subseteq applied'[n]

LEMMA KeepsFacts ==
    ASSUME Keeps, NEW e \in CloudEvents
    PROVE  /\ Known(e) => Known(e)'
           /\ TakenBack(e) => TakenBack(e)'
           /\ Passed(e) => Passed(e)'
BY DEF Keeps, Known, TakenBack, Passed

(* Known and TakenBack say nothing of the LAN's own events.                 *)
LEMMA KeepsAll ==
    ASSUME Keeps, NEW e
    PROVE  /\ Known(e) => Known(e)'
           /\ TakenBack(e) => TakenBack(e)'
<1>1. CASE e \in CloudEvents
  BY <1>1, KeepsFacts
<1>2. CASE e \notin CloudEvents
  BY <1>2 DEF Known, TakenBack
<1> QED BY <1>1, <1>2

(* What does not change keeps its part of the invariant.                    *)
LEMMA StaysReturned ==
    ASSUME Typed, ReturnInv, Keeps
    PROVE  /\ UNCHANGED req => KnownHandlers'
           /\ UNCHANGED batch => KnownBatches'
           /\ UNCHANGED <<reply, current>> => AnsweredBack'
           /\ UNCHANGED <<lan, cloud>> => KnownQueue'
           /\ UNCHANGED feed => KnownFeed'
           /\ UNCHANGED <<feed, pull>> => PagePassed'
           /\ UNCHANGED <<feed, cursor>> => CursorPassed'
<1>1. \A i \in 1 .. Len(feed) : feed[i] \in CloudEvents
  BY DEF Typed, Pieces, PullOK
<1>2. \A e : (Known(e) => Known(e)') /\ (TakenBack(e) => TakenBack(e)')
  BY KeepsAll
<1>3. \A e \in CloudEvents : Passed(e) => Passed(e)'
  BY KeepsFacts
<1>4. UNCHANGED req => KnownHandlers'
  BY <1>2 DEF ReturnInv, KnownHandlers, Known
<1>5. UNCHANGED batch => KnownBatches'
  BY <1>2 DEF ReturnInv, KnownBatches, Known
<1>6. UNCHANGED <<reply, current>> => AnsweredBack'
  BY <1>2 DEF ReturnInv, AnsweredBack, TakenBack
<1>7. UNCHANGED <<lan, cloud>> => KnownQueue'
  BY <1>2, <1>3 DEF ReturnInv, KnownQueue, Known, Passed
<1>8. UNCHANGED feed => KnownFeed'
  BY <1>1 DEF ReturnInv, KnownFeed, Keeps
<1>9. UNCHANGED <<feed, pull>> => PagePassed'
  <2> SUFFICES ASSUME UNCHANGED <<feed, pull>>, pull.pc # "idle"
               PROVE  /\ pull.pos <= pull.upto + 1
                      /\ \A i \in 1 .. (pull.pos - 1) : Passed(feed[i])'
                      /\ pull.pc = "applied" => feed[pull.pos] \in applied'["LAN"]
    BY DEF PagePassed, Passed
  <2>1. pull.pos \in Nat /\ pull.upto \in Nat /\ pull.upto <= Len(feed) /\ Len(feed) \in Nat
    BY DEF Typed, Pieces, PullOK, Pull, PullInRange
  <2>2. \A i \in 1 .. (pull.pos - 1) : i \in 1 .. Len(feed) /\ Passed(feed[i])
    BY <2>1 DEF ReturnInv, PagePassed
  <2> QED BY <1>1, <1>3, <2>2 DEF ReturnInv, PagePassed, Keeps
<1>10. UNCHANGED <<feed, cursor>> => CursorPassed'
  <2> SUFFICES ASSUME UNCHANGED <<feed, cursor>>
               PROVE  \A i \in 1 .. cursor : Passed(feed[i])'
    BY DEF ReturnInv, CursorPassed, PulledOrReturned, Passed
  <2>1. \A i \in 1 .. cursor : i \in 1 .. Len(feed) /\ Passed(feed[i])
    BY DEF ReturnInv, CursorPassed, PulledOrReturned, Passed, Typed, Pieces, PullOK
  <2> QED BY <1>1, <1>3, <2>1
<1> QED BY <1>4, <1>5, <1>6, <1>7, <1>8, <1>9, <1>10

(* A status saved for one row of the LAN's queue.                           *)
LEMMA RowReturned ==
    ASSUME Typed, ReturnInv, UNCHANGED <<cloud, applied>>, NEW e, NEW st,
           lan' = [lan EXCEPT ![e] = st], Known(e),
           st = "SYNCED" /\ e \in CloudEvents => Passed(e)
    PROVE  KnownQueue'
<1>1. \A x \in CloudEvents : lan'[x] = IF x = e THEN st ELSE lan[x]
  BY DEF Typed, Pieces, QueueOK, Events
<1> QED BY <1>1 DEF ReturnInv, KnownQueue, Known, Passed

LEMMA WriteReturned ==
    ASSUME Parameters, Typed, ReturnInv, NEW e \in Events,
           (e \in LanEvents /\ LanWrite(e)) \/ (e \in CloudEvents /\ CloudWrite(e))
    PROVE  ReturnInv'
<1>1. CASE e \in LanEvents /\ LanWrite(e)
  <2>1. \A n \in {"LAN", "CLOUD"} : applied[n] \subseteq applied'[n]
    BY <1>1 DEF LanWrite, Apply, Typed, Pieces, DataOK
  <2>2. applied'["CLOUD"] = applied["CLOUD"] /\ UNCHANGED <<cloud, req, batch, reply, current>>
        /\ UNCHANGED <<feed, pull, cursor>>
    BY <1>1 DEF LanWrite, Apply, Typed, Pieces, DataOK, worker, inbound
  <2>3. Keeps
    BY <2>1, <2>2 DEF Keeps
  <2>4. \A x \in CloudEvents : lan'[x] = lan[x]
    BY <1>1 DEF LanWrite, Typed, Pieces, QueueOK, Events, Parameters
  <2>5. KnownQueue'
    BY <2>1, <2>2, <2>4 DEF ReturnInv, KnownQueue, Known, Passed
  <2> QED BY <2>2, <2>3, <2>5, StaysReturned DEF ReturnInv
<1>2. CASE e \in CloudEvents /\ CloudWrite(e)
  <2>1. \A n \in {"LAN", "CLOUD"} : applied[n] \subseteq applied'[n]
    BY <1>2 DEF CloudWrite, Apply, Typed, Pieces, DataOK
  <2>2. /\ UNCHANGED <<lan, req, batch, reply, current, pull, cursor>>
        /\ feed' = Append(feed, e) /\ cloud[e] = "ABSENT"
        /\ \A x \in CloudEvents : cloud'[x] = IF x = e THEN "PENDING" ELSE cloud[x]
    BY <1>2 DEF CloudWrite, Typed, Pieces, CloudOK, worker, queue, Events
  <2>3. Keeps
    BY <2>1, <2>2 DEF Keeps
  <2>4. Needs[e] \subseteq applied'["CLOUD"]
    BY <1>2, <2>1 DEF CloudWrite
  <2>5. Known(e)' /\ lan[e] = "ABSENT"
    BY <2>2, <2>4, <1>2 DEF Known, ReturnInv, KnownQueue
  <2>6. KnownQueue'
    <3> SUFFICES ASSUME NEW x \in CloudEvents
                 PROVE  /\ lan[x] # "ABSENT" => Known(x)'
                        /\ lan[x] = "SYNCED" => Passed(x)'
                        /\ cloud'[x] # "ABSENT" => Known(x)'
      BY <2>2 DEF KnownQueue
    <3>1. CASE x = e
      BY <2>5, <3>1
    <3>2. CASE x # e
      BY <2>2, <2>3, <3>2, KeepsFacts DEF ReturnInv, KnownQueue
    <3> QED BY <3>1, <3>2
  <2>7. /\ feed \in Seq(CloudEvents) /\ Len(feed) \in Nat
        /\ Len(feed') = Len(feed) + 1 /\ feed'[Len(feed) + 1] = e
        /\ \A i \in 1 .. Len(feed) : feed'[i] = feed[i] /\ feed[i] \in CloudEvents
    BY <2>2 DEF Typed, Pieces, PullOK
  <2>8. KnownFeed'
    <3> SUFFICES ASSUME NEW i \in 1 .. Len(feed')
                 PROVE  cloud'[feed'[i]] # "ABSENT"
      BY DEF KnownFeed
    <3>1. CASE i \in 1 .. Len(feed)
      BY <2>3, <2>7, <3>1 DEF ReturnInv, KnownFeed, Keeps
    <3>2. CASE i \notin 1 .. Len(feed)
      BY <1>2, <2>2, <2>7, <3>2
    <3> QED BY <3>1, <3>2
  <2>9. \A i \in 1 .. Len(feed) : Passed(feed[i]) => Passed(feed[i])'
    BY <2>3, <2>7 DEF Passed, Keeps
  <2>10. PagePassed'
    <3> SUFFICES ASSUME pull.pc # "idle"
                 PROVE  /\ pull.pos <= pull.upto + 1
                        /\ \A i \in 1 .. (pull.pos - 1) : Passed(feed[i])'
                        /\ pull.pc = "applied" => feed'[pull.pos] \in applied'["LAN"]
      BY <2>2 DEF PagePassed, Passed
    <3>1. pull.pos \in Nat /\ pull.upto \in Nat /\ pull.upto <= Len(feed) /\ pull.pos >= 1
      BY DEF Typed, Pieces, PullOK, Pull, PullInRange
    <3>2. pull.pos <= pull.upto + 1 /\ (pull.pc = "applied" => feed[pull.pos] \in applied["LAN"])
      BY DEF ReturnInv, PagePassed
    <3>3. \A i \in 1 .. (pull.pos - 1) : i \in 1 .. Len(feed) /\ Passed(feed[i])
      BY <2>7, <3>1 DEF ReturnInv, PagePassed
    <3>4. pull.pc = "applied" => pull.pos \in 1 .. Len(feed)
      BY <2>7, <3>1 DEF Typed, PullInRange, Stages, Outcomes
    <3> QED BY <2>3, <2>7, <2>9, <3>2, <3>3, <3>4 DEF Keeps
  <2>11. CursorPassed'
    <3>1. \A i \in 1 .. cursor : i \in 1 .. Len(feed) /\ Passed(feed[i])
      BY <2>7 DEF ReturnInv, CursorPassed, PulledOrReturned, Passed, Typed, Pieces, PullOK
    <3>2. \A i \in 1 .. cursor : Passed(feed[i])'
      BY <2>9, <3>1
    <3>3. cursor \in Nat /\ cursor <= Len(feed)
      BY DEF ReturnInv, CursorPassed, Typed, Pieces, PullOK
    <3> QED BY <2>2, <2>7, <3>2, <3>3 DEF CursorPassed, PulledOrReturned, Passed
  <2>12. KnownHandlers' /\ KnownBatches' /\ AnsweredBack'
    BY <2>2, <2>3, StaysReturned
  <2> QED BY <2>6, <2>8, <2>10, <2>11, <2>12 DEF ReturnInv
<1> QED BY <1>1, <1>2

(* A worker's own steps.                                                    *)
LEMMA WorkerReturned ==
    ASSUME Parameters, Typed, Safe, ReturnInv, NEW w \in Workers,
           \/ \E due \in SUBSET Events : List(w, due)
           \/ \E s \in Requests : Send(w, s)
           \/ TimeOut(w) \/ WorkerDies(w)
    PROVE  ReturnInv'
<1>1. UNCHANGED <<lan, applied, cloud, feed, pull, cursor>>
  BY DEF List, Send, TimeOut, WorkerDies, queue, data, inbound
<1>2. Keeps
  BY <1>1 DEF Keeps
<1>3. \A e : (Known(e) <=> Known(e)') /\ (TakenBack(e) <=> TakenBack(e)')
  BY <1>1 DEF Known, TakenBack
<1>4. KnownQueue' /\ KnownFeed' /\ PagePassed' /\ CursorPassed'
  BY <1>1, <1>2, StaysReturned
<1>5. ASSUME NEW due \in SUBSET Events, List(w, due) PROVE ReturnInv'
  <2>1. \A e \in due : Known(e)
    BY <1>5 DEF List, Due, ReturnInv, KnownQueue, Known
  <2>2. batch' = [batch EXCEPT ![w] = due] /\ UNCHANGED <<current, reply, req>>
    BY <1>5 DEF List
  <2>3. KnownBatches'
    BY <1>3, <2>1, <2>2 DEF ReturnInv, KnownBatches, Typed, Pieces, WorkerOK
  <2>4. KnownHandlers' /\ AnsweredBack'
    BY <1>2, <2>2, StaysReturned
  <2> QED BY <1>4, <2>3, <2>4 DEF ReturnInv
<1>6. ASSUME NEW s \in Requests, Send(w, s) PROVE ReturnInv'
  <2>1. PICK e \in batch[w] : req' = [req EXCEPT ![s] = [pc |-> "sent", ev |-> e, from |-> w]]
    BY <1>6 DEF Send
  <2>2. Known(e)
    BY DEF ReturnInv, KnownBatches
  <2>3. \A t \in Requests : req'[t] = IF t = s THEN [pc |-> "sent", ev |-> e, from |-> w]
                                               ELSE req[t]
    BY <2>1 DEF Typed, Pieces, HandlersOK
  <2>4. KnownHandlers'
    <3> SUFFICES ASSUME NEW t \in Requests, req'[t].pc # "idle"
                 PROVE  /\ Known(req[t].ev)'
                        /\ req'[t].ev \in CloudEvents
                             => req'[t].pc \in {"sent", "queued", "applied"}
      BY DEF KnownHandlers
    <3>1. CASE t = s
      <4>1. req'[t].ev = e /\ req'[t].pc = "sent"
        BY <2>3, <3>1
      <4> QED BY <1>1, <2>2, <4>1 DEF Known
    <3>2. CASE t # s
      <4>1. req'[t] = req[t]
        BY <2>3, <3>2
      <4> QED BY <1>1, <4>1 DEF ReturnInv, KnownHandlers, Known
    <3> QED BY <3>1, <3>2
  <2>5. \A v \in Workers : /\ batch'[v] = batch[v]
                           /\ reply'[v] = "200" => reply[v] = "200" /\ current'[v] = current[v]
    BY <1>6 DEF Send, Typed, Pieces, WorkerOK
  <2>6. KnownBatches'
    BY <1>3, <2>5 DEF ReturnInv, KnownBatches, Known
  <2>7. AnsweredBack'
    BY <1>1, <2>5 DEF ReturnInv, AnsweredBack, TakenBack
  <2> QED BY <1>4, <2>4, <2>6, <2>7 DEF ReturnInv
<1>7. ASSUME TimeOut(w) \/ WorkerDies(w) PROVE ReturnInv'
  <2>1. req' = Abandoned(w)
    BY <1>7 DEF TimeOut, WorkerDies
  <2>2. \A s \in Requests : req'[s].pc = req[s].pc /\ req'[s].ev = req[s].ev
    BY <2>1, AbandonedTalk DEF Typed, Pieces
  <2>3. KnownHandlers'
    BY <1>1, <2>2 DEF ReturnInv, KnownHandlers, Known
  <2>4. \A v \in Workers : /\ batch'[v] \subseteq batch[v]
                           /\ reply'[v] = "200" => reply[v] = "200" /\ current'[v] = current[v]
    BY <1>7 DEF TimeOut, WorkerDies, Typed, Pieces, WorkerOK
  <2>5. KnownBatches' /\ AnsweredBack'
    BY <1>1, <2>4 DEF ReturnInv, KnownBatches, AnsweredBack, Known, TakenBack
  <2> QED BY <1>4, <2>3, <2>5 DEF ReturnInv
<1> QED BY <1>5, <1>6, <1>7

(* A worker calls a cloud row SYNCED only when the cloud has.               *)
LEMMA SaveReturned ==
    ASSUME Parameters, Typed, ReturnInv, NEW w \in Workers, SaveNext(w)
    PROVE  ReturnInv'
<1>1. PICK st, n :
         /\ Save(w, st, n)
         /\ st = "SYNCED" => reply[w] = "200"
         /\ reply[w] \in Codes
  <2>1. CASE SaveSynced(w)
    BY <2>1 DEF SaveSynced, Codes
  <2>2. CASE SaveDependency(w)
    BY <2>2 DEF SaveDependency, Codes
  <2>3. CASE SaveFailure(w)
    <3>1. PICK st \in {"RETRY", "FAILED"} : Save(w, st, copy[w][current[w]] + 1)
      BY <2>3 DEF SaveFailure
    <3>2. reply[w] \in Codes
      BY <2>3 DEF SaveFailure, Codes
    <3> QED BY <3>1, <3>2
  <2> QED BY <2>1, <2>2, <2>3 DEF SaveNext
<1>2. current[w] \in batch[w]
  BY <1>1 DEF Typed, Talk, RowInHand, Codes
<1>3. lan' = [lan EXCEPT ![current[w]] = st]
      /\ UNCHANGED <<applied, cloud, req, feed, pull, cursor>>
  BY <1>1 DEF Save, data, inbound
<1>4. Known(current[w]) /\ (st = "SYNCED" => TakenBack(current[w]))
  BY <1>1, <1>2 DEF ReturnInv, KnownBatches, AnsweredBack
<1>5. KnownQueue'
  BY <1>3, <1>4, RowReturned DEF TakenBack, Passed
<1>6. Keeps
  BY <1>3 DEF Keeps
<1>7. KnownHandlers' /\ KnownFeed' /\ PagePassed' /\ CursorPassed'
  BY <1>3, <1>6, StaysReturned
<1>8. \A v \in Workers : /\ batch'[v] \subseteq batch[v]
                         /\ reply'[v] = "200" => reply[v] = "200" /\ current'[v] = current[v]
  BY <1>1 DEF Save, Typed, Pieces, WorkerOK
<1>9. KnownBatches' /\ AnsweredBack'
  BY <1>3, <1>8 DEF ReturnInv, KnownBatches, AnsweredBack, Known, TakenBack
<1> QED BY <1>5, <1>7, <1>9 DEF ReturnInv

(* The cloud answers 200 to a cloud event only when its row says SYNCED.    *)
LEMMA AnswerReturned ==
    ASSUME Parameters, Typed, ReturnInv, Keeps, NEW s \in Requests, NEW code \in Codes,
           Answer(s, code), req[s].pc # "idle",
           code = "200" /\ req[s].ev \in CloudEvents => cloud'[req[s].ev] = "SYNCED"
    PROVE  KnownHandlers' /\ KnownBatches' /\ AnsweredBack'
<1>1. \A t \in Requests : req'[t] = IF t = s THEN NoRequest ELSE req[t]
  BY DEF Answer, Typed, Pieces, HandlersOK
<1>2. UNCHANGED <<batch, current>>
  BY DEF Answer
<1>3. KnownBatches'
  BY <1>2, StaysReturned
<1>4. KnownHandlers'
  <2> SUFFICES ASSUME NEW t \in Requests, req'[t].pc # "idle"
               PROVE  /\ Known(req[t].ev)'
                      /\ req'[t].ev \in CloudEvents
                           => req'[t].pc \in {"sent", "queued", "applied"}
    BY DEF KnownHandlers
  <2>1. req'[t] = req[t]
    BY <1>1 DEF NoRequest
  <2>2. Known(req[t].ev) => (req[t].ev \in CloudEvents => cloud'[req[t].ev] # "ABSENT"
                                /\ Needs[req[t].ev] \subseteq applied'["CLOUD"])
    BY DEF Keeps, Known
  <2> QED BY <2>1, <2>2 DEF ReturnInv, KnownHandlers, Known
<1>5. AnsweredBack'
  <2> SUFFICES ASSUME NEW w \in Workers, reply'[w] = "200" PROVE TakenBack(current[w])'
    BY DEF AnsweredBack
  <2>1. reply'[w] = IF req[s].from = w THEN code ELSE reply[w]
    BY DEF Answer
  <2>2. CASE req[s].from = w
    <3>1. current[w] = req[s].ev /\ code = "200"
      BY <2>1, <2>2 DEF Typed, Talk, Waits
    <3> QED BY <1>2, <3>1 DEF TakenBack
  <2>3. CASE req[s].from # w
    <3>1. TakenBack(current[w])
      BY <2>1, <2>3 DEF ReturnInv, AnsweredBack
    <3> QED BY <1>2, <3>1 DEF TakenBack, Keeps
  <2> QED BY <2>2, <2>3
<1> QED BY <1>3, <1>4, <1>5

LEMMA HandlerReturned ==
    ASSUME Parameters, Typed, ReturnInv, NEW s \in Requests,
           Receive(s) \/ Ingest(s) \/ Finish(s) \/ RequestDies(s)
    PROVE  ReturnInv'
<1> DEFINE e == req[s].ev
<1>1. /\ e \in Events /\ req[s].pc # "idle" /\ Known(e)
      /\ e \in CloudEvents => req[s].pc \in {"sent", "queued", "applied"}
      /\ UNCHANGED <<lan, feed, pull, cursor>>
  BY DEF Receive, Ingest, Finish, RequestDies, Typed, Talk, HandlerHasEvent, Outcomes, ReturnInv,
         KnownHandlers, queue, inbound
<1>2. ASSUME Keeps, \A x \in CloudEvents : cloud'[x] # "ABSENT" => cloud[x] # "ABSENT"
      PROVE  KnownQueue' /\ KnownFeed' /\ PagePassed' /\ CursorPassed'
  <2>1. KnownQueue'
    BY <1>1, <1>2, KeepsFacts DEF ReturnInv, KnownQueue
  <2> QED BY <1>1, <1>2, <2>1, StaysReturned
<1>3. CASE Receive(s)
  <2>1. UNCHANGED applied /\ \A x \in CloudEvents : cloud'[x] = cloud[x]
    BY <1>1, <1>3 DEF Receive, Known, data, Typed, Pieces, CloudOK, Events
  <2>2. Keeps /\ \A x \in CloudEvents : cloud'[x] # "ABSENT" => cloud[x] # "ABSENT"
    BY <2>1 DEF Keeps
  <2>3. CASE cloud[e] = "SYNCED" /\ Answer(s, "200")
    <3>1. "200" \in Codes /\ (e \in CloudEvents => cloud'[e] = "SYNCED")
      BY <2>1, <2>3 DEF Codes
    <3>2. KnownHandlers' /\ KnownBatches' /\ AnsweredBack'
      BY <1>1, <2>2, <2>3, <3>1, AnswerReturned
    <3> QED BY <1>2, <2>2, <3>2 DEF ReturnInv
  <2>4. CASE req' = [req EXCEPT ![s].pc = "queued"] /\ UNCHANGED worker
    <3>1. \A t \in Requests : /\ req'[t].ev = req[t].ev
                              /\ req'[t].pc = IF t = s THEN "queued" ELSE req[t].pc
      BY <2>4 DEF Typed, Pieces, HandlersOK, Request
    <3>2. KnownHandlers'
      BY <1>1, <2>1, <3>1 DEF ReturnInv, KnownHandlers, Known
    <3>3. KnownBatches' /\ AnsweredBack'
      BY <2>2, <2>4, StaysReturned DEF worker
    <3> QED BY <1>2, <2>2, <3>2, <3>3 DEF ReturnInv
  <2> QED BY <1>3, <2>3, <2>4 DEF Receive
<1>4. CASE Ingest(s)
  <2> DEFINE o == Outcome("CLOUD", e)
  <2>1. UNCHANGED <<cloud, worker>> /\ req' = [req EXCEPT ![s].pc = o]
    BY <1>4 DEF Ingest
  <2>2. \A t \in Requests : /\ req'[t].ev = req[t].ev
                            /\ req'[t].pc = IF t = s THEN o ELSE req[t].pc
    BY <2>1 DEF Typed, Pieces, HandlersOK, Request
  <2>3. \A n \in {"LAN", "CLOUD"} : applied[n] \subseteq applied'[n]
    <3>1. CASE o = "applied"
      <4>1. Apply("CLOUD", e)
        BY <1>4, <3>1 DEF Ingest
      <4> QED BY <4>1 DEF Apply, Typed, Pieces, DataOK
    <3>2. CASE o # "applied"
      BY <1>4, <3>2 DEF Ingest, data
    <3> QED BY <3>1, <3>2
  <2>4. Keeps /\ \A x \in CloudEvents : cloud'[x] # "ABSENT" => cloud[x] # "ABSENT"
    BY <2>1, <2>3 DEF Keeps
  <2>5. e \in CloudEvents => o = "applied"
    BY <1>1 DEF Outcome, Known, Parameters
  <2>6. KnownHandlers'
    <3> SUFFICES ASSUME NEW t \in Requests, req'[t].pc # "idle"
                 PROVE  /\ Known(req[t].ev)'
                        /\ req'[t].ev \in CloudEvents
                             => req'[t].pc \in {"sent", "queued", "applied"}
      BY DEF KnownHandlers
    <3>1. Known(req[t].ev) /\ (req[t].ev \in CloudEvents
                                 => req[t].pc \in {"sent", "queued", "applied"})
      BY <1>1, <2>2 DEF ReturnInv, KnownHandlers
    <3>2. Known(req[t].ev)'
      BY <2>1, <2>2, <2>3, <3>1 DEF Known
    <3> QED BY <2>2, <2>5, <3>1, <3>2
  <2>7. KnownBatches' /\ AnsweredBack'
    BY <2>1, <2>4, StaysReturned DEF worker
  <2> QED BY <1>2, <2>4, <2>6, <2>7 DEF ReturnInv
<1>5. CASE Finish(s)
  <2>1. UNCHANGED applied /\ Answer(s, Code[req[s].pc]) /\ req[s].pc \in Outcomes
        /\ cloud' = [cloud EXCEPT ![e] = Verdict[req[s].pc]]
    BY <1>5 DEF Finish, data
  <2>2. \A x \in CloudEvents : cloud'[x] = IF x = e THEN "SYNCED" ELSE cloud[x]
    BY <1>1, <2>1 DEF Outcomes, Verdict, Typed, Pieces, CloudOK, Events
  <2>3. Keeps /\ \A x \in CloudEvents : cloud'[x] # "ABSENT" => cloud[x] # "ABSENT"
    BY <1>1, <2>1, <2>2 DEF Keeps, Known
  <2>4. Code[req[s].pc] \in Codes
    BY <2>1 DEF Outcomes, Code, Codes
  <2>5. KnownHandlers' /\ KnownBatches' /\ AnsweredBack'
    BY <1>1, <2>1, <2>2, <2>3, <2>4, AnswerReturned
  <2> QED BY <1>2, <2>3, <2>5 DEF ReturnInv
<1>6. CASE RequestDies(s)
  <2>1. UNCHANGED <<applied, cloud>> /\ Answer(s, "0") /\ "0" \in Codes /\ "0" # "200"
    BY <1>6 DEF RequestDies, data, Codes
  <2>2. Keeps
    BY <2>1 DEF Keeps
  <2>3. KnownHandlers' /\ KnownBatches' /\ AnsweredBack'
    BY <1>1, <2>1, <2>2, AnswerReturned
  <2> QED BY <1>2, <2>1, <2>2, <2>3 DEF ReturnInv
<1> QED BY <1>3, <1>4, <1>5, <1>6

(* The pull goes on only past what it has applied, or what the queue calls  *)
(* SYNCED.                                                                  *)
LEMMA PullReturned ==
    ASSUME Parameters, Typed, ReturnInv, PullNext \/ PullDies
    PROVE  ReturnInv'
<1> DEFINE e == feed[pull.pos]
<1>1. /\ pull.upto \in Nat /\ pull.pos \in Nat /\ Len(feed) \in Nat /\ cursor \in Nat
      /\ pull \in Pull /\ feed \in Seq(CloudEvents) /\ PullInRange
      /\ \A i \in 1 .. Len(feed) : feed[i] \in CloudEvents
  BY DEF Typed, Pieces, PullOK, Pull
<1>2. UNCHANGED <<cloud, req, batch, reply, current, feed>>
  BY DEF PullNext, PullFetch, PullQueue, PullApply, PullSave, PullEnd, PullDies, worker, inbound
<1>3. \A n \in {"LAN", "CLOUD"} : applied[n] \subseteq applied'[n]
  <2>1. CASE PullApply
    <3>1. UNCHANGED data \/ Apply("LAN", e)
      BY <2>1 DEF PullApply
    <3> QED BY <3>1 DEF Apply, data, Typed, Pieces, DataOK
  <2>2. CASE ~PullApply
    BY <2>2 DEF PullNext, PullFetch, PullQueue, PullSave, PullEnd, PullDies, data
  <2> QED BY <2>1, <2>2
<1>4. Keeps
  BY <1>2, <1>3 DEF Keeps
<1>5. KnownHandlers' /\ KnownBatches' /\ AnsweredBack' /\ KnownFeed'
  BY <1>2, <1>4, StaysReturned
<1>6. CASE PullFetch \/ PullDies \/ PullEnd
  <2>1. UNCHANGED <<lan, applied>>
    BY <1>6 DEF PullFetch, PullDies, PullEnd, queue, data
  <2>2. KnownQueue'
    BY <1>2, <1>4, <2>1, StaysReturned
  <2>3. CASE PullFetch
    <3>1. pull' = [pc |-> "page", pos |-> cursor + 1, upto |-> Len(feed)] /\ cursor' = cursor
          /\ cursor < Len(feed)
      BY <2>3 DEF PullFetch
    <3>2. PagePassed'
      BY <1>1, <1>2, <2>1, <3>1 DEF PagePassed, ReturnInv, CursorPassed, PulledOrReturned, Passed
    <3>3. CursorPassed'
      BY <1>2, <1>4, <3>1, StaysReturned
    <3> QED BY <1>5, <2>2, <3>2, <3>3 DEF ReturnInv
  <2>4. CASE PullDies
    <3>1. pull'.pc = "idle" /\ cursor' = cursor
      BY <2>4 DEF PullDies, NoPull
    <3>2. PagePassed' /\ CursorPassed'
      BY <1>2, <1>4, <3>1, StaysReturned DEF PagePassed
    <3> QED BY <1>5, <2>2, <3>2 DEF ReturnInv
  <2>5. CASE PullEnd
    <3>1. pull'.pc = "idle" /\ cursor' = pull.upto /\ pull.pc = "page" /\ pull.pos > pull.upto
      BY <2>5 DEF PullEnd, NoPull
    <3>2. \A i \in 1 .. pull.upto : Passed(feed[i])
      BY <1>1, <3>1 DEF ReturnInv, PagePassed
    <3>3. PagePassed' /\ CursorPassed'
      BY <1>1, <1>2, <2>1, <3>1, <3>2 DEF PagePassed, CursorPassed, PulledOrReturned, Passed,
         PullInRange
    <3> QED BY <1>5, <2>2, <3>3 DEF ReturnInv
  <2> QED BY <1>6, <2>3, <2>4, <2>5
<1>7. CASE PullQueue
  <2>1. e \in CloudEvents /\ pull.pc = "page" /\ pull.pos <= pull.upto /\ Known(e)
        /\ UNCHANGED <<applied, cursor>> /\ pull.pos \in 1 .. Len(feed)
    BY <1>1, <1>7 DEF PullQueue, PullInRange, ReturnInv, KnownFeed, KnownQueue, data
  <2>2. CursorPassed'
    BY <1>2, <1>4, <2>1, StaysReturned
  <2>3. CASE lan[e] = "SYNCED"
    <3>1. pull' = [pull EXCEPT !.pos = @ + 1] /\ UNCHANGED lan
      BY <1>7, <2>3 DEF PullQueue
    <3>2. Passed(e)
      BY <2>1, <2>3 DEF ReturnInv, KnownQueue
    <3>3. pull'.pc = "page" /\ pull'.pos = pull.pos + 1 /\ pull'.upto = pull.upto
      BY <1>1, <2>1, <3>1 DEF Pull
    <3>4. \A i \in 1 .. pull.pos : Passed(feed[i])
      BY <1>1, <2>1, <3>2 DEF ReturnInv, PagePassed
    <3>5. PagePassed'
      BY <1>1, <1>2, <2>1, <3>3, <3>4 DEF PagePassed, Passed
    <3>6. KnownQueue'
      BY <1>2, <1>4, <3>1, StaysReturned
    <3> QED BY <1>5, <2>2, <3>5, <3>6 DEF ReturnInv
  <2>4. CASE lan[e] # "SYNCED"
    <3>1. /\ pull' = [pull EXCEPT !.pc = "queued"]
          /\ lan' = [lan EXCEPT ![e] = IF @ = "ABSENT" THEN "PENDING" ELSE @]
      BY <1>7, <2>4 DEF PullQueue
    <3>2. pull'.pc = "queued" /\ pull'.pos = pull.pos /\ pull'.upto = pull.upto
      BY <1>1, <3>1 DEF Pull
    <3>3. PagePassed'
      BY <1>2, <2>1, <3>2 DEF ReturnInv, PagePassed, Passed
    <3>4. KnownQueue'
      BY <1>2, <2>1, <2>4, <3>1, RowReturned DEF Typed, Pieces, QueueOK
    <3> QED BY <1>5, <2>2, <3>3, <3>4 DEF ReturnInv
  <2> QED BY <2>3, <2>4
<1>8. CASE PullApply
  <2> DEFINE o == IF live /\ e \in Guarded THEN "blocked" ELSE Outcome("LAN", e)
  <2>1. pull.pc = "queued" /\ pull' = [pull EXCEPT !.pc = o] /\ UNCHANGED <<lan, cursor>>
    BY <1>8 DEF PullApply, queue
  <2>2. pull'.pc = o /\ pull'.pos = pull.pos /\ pull'.upto = pull.upto
    BY <1>1, <2>1 DEF Pull
  <2>3. o = "applied" => e \in applied'["LAN"]
    <3>1. o = "applied" => Apply("LAN", e)
      BY <1>8 DEF PullApply
    <3> QED BY <3>1 DEF Apply, Typed, Pieces, DataOK
  <2>4. \A i \in 1 .. (pull.pos - 1) : i \in 1 .. Len(feed) /\ Passed(feed[i])
    BY <1>1, <2>1 DEF ReturnInv, PagePassed, PullInRange, Stages
  <2>5. \A i \in 1 .. (pull.pos - 1) : Passed(feed[i])'
    BY <1>1, <1>2, <1>3, <2>4 DEF Passed
  <2>6. PagePassed'
    BY <1>2, <2>1, <2>2, <2>3, <2>5 DEF ReturnInv, PagePassed, Passed
  <2>7. KnownQueue' /\ CursorPassed'
    BY <1>2, <1>4, <2>1, StaysReturned
  <2> QED BY <1>5, <2>6, <2>7 DEF ReturnInv
<1>9. CASE PullSave
  <2>1. /\ pull.pc \in Outcomes /\ pull.pos \in 1 .. Len(feed) /\ pull.pos <= pull.upto
        /\ lan' = [lan EXCEPT ![e] = Verdict[pull.pc]] /\ UNCHANGED applied
    BY <1>1, <1>9 DEF PullSave, PullInRange, Stages, Outcomes, data
  <2>2. e \in CloudEvents /\ Known(e)
    BY <1>1, <2>1 DEF ReturnInv, KnownFeed, KnownQueue
  <2>3. Verdict[pull.pc] = "SYNCED" => pull.pc = "applied"
    BY <2>1 DEF Outcomes, Verdict
  <2>4. pull.pc = "applied" => e \in applied["LAN"]
    BY DEF ReturnInv, PagePassed
  <2>5. KnownQueue'
    BY <1>2, <2>1, <2>2, <2>3, <2>4, RowReturned DEF Passed
  <2>6. \A i \in 1 .. (pull.pos - 1) : Passed(feed[i])
    BY <2>1 DEF ReturnInv, PagePassed, Outcomes
  <2>7. CASE pull.pc = "applied"
    <3>1. pull' = [pull EXCEPT !.pc = "page", !.pos = @ + 1] /\ UNCHANGED cursor
      BY <1>9, <2>7 DEF PullSave
    <3>2. pull'.pc = "page" /\ pull'.pos = pull.pos + 1 /\ pull'.upto = pull.upto
      BY <1>1, <3>1 DEF Pull
    <3>3. \A i \in 1 .. pull.pos : Passed(feed[i])
      BY <1>1, <2>4, <2>6, <2>7 DEF Passed
    <3>4. PagePassed'
      BY <1>1, <1>2, <2>1, <3>2, <3>3 DEF PagePassed, Passed
    <3>5. CursorPassed'
      BY <1>2, <1>4, <3>1, StaysReturned
    <3> QED BY <1>5, <2>5, <3>4, <3>5 DEF ReturnInv
  <2>8. CASE pull.pc # "applied"
    <3>1. pull'.pc = "idle" /\ cursor' = pull.pos - 1
      BY <1>9, <2>8 DEF PullSave, NoPull
    <3>2. PagePassed' /\ CursorPassed'
      BY <1>1, <1>2, <2>1, <2>6, <3>1 DEF PagePassed, CursorPassed, PulledOrReturned, Passed
    <3> QED BY <1>5, <2>5, <3>2 DEF ReturnInv
  <2> QED BY <2>7, <2>8
<1> QED BY <1>6, <1>7, <1>8, <1>9 DEF PullNext

LEMMA StepReturned ==
    ASSUME Parameters, Typed, Safe, ReturnInv, [Next]_vars
    PROVE  ReturnInv'
<1>1. ASSUME ResetFailed PROVE ReturnInv'
  <2>1. \A e \in CloudEvents : lan'[e] = IF lan[e] = "FAILED" THEN "RETRY" ELSE lan[e]
    BY <1>1 DEF ResetFailed, Events
  <2>2. UNCHANGED <<cloud, req, applied, batch, reply, current, feed, pull, cursor>>
    BY <1>1 DEF ResetFailed, data, worker, inbound
  <2>3. Keeps
    BY <2>2 DEF Keeps
  <2>4. KnownQueue'
    BY <2>1, <2>2 DEF ReturnInv, KnownQueue, Known, Passed
  <2> QED BY <2>2, <2>3, <2>4, StaysReturned DEF ReturnInv
<1>2. ASSUME Session \/ UNCHANGED vars PROVE ReturnInv'
  <2>1. UNCHANGED <<lan, cloud, req, applied, batch, reply, current, feed, pull, cursor>>
    BY <1>2 DEF Session, vars, queue, data, worker, inbound
  <2>2. Keeps
    BY <2>1 DEF Keeps
  <2> QED BY <2>1, <2>2, StaysReturned DEF ReturnInv
<1>3. ASSUME NEW e \in LanEvents, LanWrite(e) PROVE ReturnInv'
  BY <1>3, WriteReturned DEF Events
<1>4. ASSUME NEW e \in CloudEvents, CloudWrite(e) PROVE ReturnInv'
  BY <1>4, WriteReturned DEF Events
<1> QED
  BY <1>1, <1>2, <1>3, <1>4, WorkerReturned, SaveReturned, HandlerReturned, PullReturned DEF Next

LEMMA InitReturned == ASSUME Parameters PROVE Init => ReturnInv
<1> SUFFICES ASSUME Init PROVE ReturnInv
  OBVIOUS
<1>1. KnownHandlers /\ KnownBatches /\ AnsweredBack
  BY DEF Init, KnownHandlers, KnownBatches, AnsweredBack, NoRequest
<1>2. KnownQueue
  BY DEF Init, KnownQueue, Events
<1>3. KnownFeed /\ PagePassed /\ CursorPassed
  BY DEF Init, KnownFeed, PagePassed, CursorPassed, PulledOrReturned, NoPull
<1> QED BY <1>1, <1>2, <1>3 DEF ReturnInv

(* However a page is cut short, a row pushed back to where it came from, or *)
(* the pull started again, the LAN's cursor passes no event of the cloud    *)
(* that the LAN has not applied and the cloud does not call SYNCED.         *)
THEOREM PulledOrReturnedHolds == Spec => []PulledOrReturned
<1>1. Init => Typed /\ Safe /\ ReturnInv
  BY InitTyped, InitSafe, InitReturned, Parameters
<1>2. Typed /\ Safe /\ ReturnInv /\ [Next]_vars => (Typed /\ Safe /\ ReturnInv)'
  BY StepTyped, StepSafe, StepReturned, Parameters
<1>3. ReturnInv => PulledOrReturned
  BY DEF ReturnInv, CursorPassed
<1> QED BY <1>1, <1>2, <1>3, PTL DEF Spec
=============================================================================
