--------------------------- MODULE ElectionVoting ---------------------------
(***************************************************************************)
(* An election on the LAN: voters vote once per position, IT opens, closes *)
(* and resets a voter's votes, a task closes what is due, and the votes go *)
(* to the cloud through the outbox.  Positions are independent of each     *)
(* other, so the module has one.                                           *)
(*                                                                         *)
(* A vote is one transaction: the vote, its row in the outbox and its audit*)
(* event.  The status of the election is read before it.  A reset is none: *)
(* each of its deletes commits on its own.                                 *)
(***************************************************************************)
EXTENDS AuditChain, Sequences

CONSTANTS
    Voters, Candidates,
    Clerk,       \* the request of IT, or the task: one at a time
    Nobody,
    MaxRetries,  \* SYNC_MAX_RETRIES
    MaxResets,   \* bound: voters whose votes IT resets
    MaxVotes,    \* bound: votes written
    MaxCloses,   \* bound: closings
    MaxFaults    \* bound: votes undone, audit errors, lost answers, dead resets

ASSUME Parameters ==
    /\ Clerk \in Writers /\ Nobody \notin Voters \cup Candidates
    /\ MaxRetries \in Nat /\ MaxResets \in Nat /\ MaxVotes \in Nat
    /\ MaxCloses \in Nat /\ MaxFaults \in Nat

Requests == Writers \ {Clerk}
VoteIds == 1 .. MaxVotes
RowStatus == {"ABSENT", "PENDING", "RETRY", "SYNCED", "FAILED"}

VARIABLES
    status,       \* the election; its schedule closes it like IT does
    made,         \* every vote ever inserted, by id
    votes,        \* ids of the votes in the LAN's table
    outbox, tries,\* LAN: the row of each vote, and its retry_count
    cloudRows,    \* cloud: ids whose rows it has applied
    cloudVote,    \* cloud: the choice it counts for a voter
    push,         \* the row being posted, and the answer
    req,          \* per writer: where it is, its voter and choice, its vote
    stale,        \* the ids a reset listed
    wiped,        \* voters whose votes were reset
    broken,       \* voters whose reset died before it took their rows
    closes, faults  \* bounds

lan == <<made, votes, outbox, tries>>
cloud == <<cloudRows, cloudVote>>
bounds == <<wiped, broken, closes, faults>>
vars == <<status, lan, cloud, push, req, stale, bounds, chain>>

Idle == [pc |-> "idle", voter |-> Nobody, choice |-> Nobody, id |-> 0]
NoPush == [id |-> 0, code |-> "none"]
Stages == {"idle", "checked", "cast", "looking", "logged", "listed", "erased"}

TypeOK ==
    /\ ChainType
    /\ status \in {"OPEN", "CLOSED"}
    /\ made \in Seq([voter : Voters, choice : Candidates])
    /\ votes \subseteq 1 .. Len(made)
    /\ outbox \in [VoteIds -> RowStatus] /\ tries \in [VoteIds -> 0 .. MaxRetries + 1]
    /\ cloudRows \subseteq 1 .. Len(made) /\ cloudVote \in [Voters -> Candidates \cup {Nobody}]
    /\ push \in [id : 0 .. MaxVotes, code : {"none", "waiting", "200", "422", "0"}]
    /\ req \in [Writers -> [pc : Stages, voter : Voters \cup {Nobody},
                            choice : Candidates \cup {Nobody}, id : 0 .. MaxVotes]]
    /\ stale \subseteq VoteIds
    /\ wiped \subseteq Voters /\ broken \subseteq wiped /\ closes \in Nat /\ faults \in Nat

Init ==
    /\ ChainInit
    /\ status = "OPEN"
    /\ made = << >> /\ votes = {}
    /\ outbox = [i \in VoteIds |-> "ABSENT"] /\ tries = [i \in VoteIds |-> 0]
    /\ cloudRows = {} /\ cloudVote = [v \in Voters |-> Nobody]
    /\ push = NoPush
    /\ req = [w \in Writers |-> Idle] /\ stale = {}
    /\ wiped = {} /\ broken = {} /\ closes = 0 /\ faults = 0

Fault == faults < MaxFaults /\ faults' = faults + 1 /\ UNCHANGED <<wiped, closes>>

Of(ids, v) == {i \in ids : made[i].voter = v}
HasVote(v) == Of(votes, v) # {}
Inserted(w) == req[w].pc \in {"cast", "looking", "logged"} /\ req[w].id # 0

(* queue_sync_operation, STRICT_UNIQUE: a row with the same conflict key    *)
(* that has not failed.                                                     *)
Blocked(v) == \E i \in VoteIds : outbox[i] \notin {"ABSENT", "FAILED"} /\ made[i].voter = v

-----------------------------------------------------------------------------
(* A vote.                                                                  *)

(* dispatch: what is due is closed first, so it is not open; the form.      *)
Enter(r, v, c) ==
    /\ r \in Requests /\ req[r].pc = "idle"
    /\ status = "OPEN" /\ ~HasVote(v)
    /\ Len(made) < MaxVotes
    /\ req' = [req EXCEPT ![r] = [pc |-> "checked", voter |-> v, choice |-> c, id |-> 0]]
    /\ UNCHANGED <<status, lan, cloud, push, stale, bounds, chain>>

Insert(r) ==
    LET i == Len(made) + 1 IN
    /\ i <= MaxVotes
    /\ made' = Append(made, [voter |-> req[r].voter, choice |-> req[r].choice])
    /\ req' = [req EXCEPT ![r].pc = "cast", ![r].id = i]
    /\ UNCHANGED <<status, votes, outbox, tries, cloud, push, stale, bounds, chain>>

(* Mutant: no unique constraint on election, position and voter.            *)
CastTwice(r) ==
    /\ req[r].pc = "checked" /\ ~HasVote(req[r].voter) /\ ~Blocked(req[r].voter)
    /\ Insert(r)

(* Mutant: the row in the outbox is append-only.                            *)
CastAppending(r) ==
    /\ req[r].pc = "checked" /\ ~HasVote(req[r].voter)
    /\ \A x \in Writers : Inserted(x) => req[x].voter # req[r].voter
    /\ Insert(r)

(* submit_vote_bundle to its log_election_vote: the insert waits for another*)
(* one of the same voter that is not committed.                             *)
Cast(r) ==
    /\ req[r].pc = "checked" /\ ~HasVote(req[r].voter) /\ ~Blocked(req[r].voter)
    /\ \A x \in Writers : Inserted(x) => req[x].voter # req[r].voter
    /\ Insert(r)

(* "You already voted ...", an IntegrityError, or the outbox's refusal.     *)
Refuse(r) ==
    /\ req[r].pc = "checked"
    /\ HasVote(req[r].voter) \/ Blocked(req[r].voter) \/ Len(made) = MaxVotes
    /\ req' = [req EXCEPT ![r] = Idle]
    /\ UNCHANGED <<status, lan, cloud, push, stale, bounds, chain>>

(* log_event, of the vote or of what the clerk did.                         *)
BeginLog(w) ==
    /\ req[w].pc = "cast"
    /\ Look(w)
    /\ req' = [req EXCEPT ![w].pc = "looking"]
    /\ UNCHANGED <<status, lan, cloud, push, stale, bounds>>

WriteLog(w) ==
    /\ req[w].pc = "looking"
    /\ Write(w, req[w].id)
    /\ req' = [req EXCEPT ![w].pc = "logged"]
    /\ UNCHANGED <<status, lan, cloud, push, stale, bounds>>

(* A DatabaseError is logged and swallowed, the savepoint undone.           *)
LogFails(w) ==
    /\ req[w].pc = "looking" /\ Fault
    /\ RollBack(w)
    /\ req' = [req EXCEPT ![w].pc = "logged"]
    /\ UNCHANGED <<status, lan, cloud, push, stale, broken>>

End(w) ==
    /\ req[w].pc = "logged"
    /\ Commit(w)
    /\ IF req[w].id = 0 THEN UNCHANGED <<votes, outbox>>
       ELSE /\ votes' = votes \cup {req[w].id}
            /\ outbox' = [outbox EXCEPT ![req[w].id] = "PENDING"]
    /\ req' = [req EXCEPT ![w] = Idle]
    /\ UNCHANGED <<status, made, tries, cloud, push, stale, bounds>>

(* The broadcast raises, or the process dies: all of the vote is undone.    *)
Undo(r) ==
    /\ r \in Requests /\ Inserted(r) /\ Fault
    /\ RollBack(r)
    /\ req' = [req EXCEPT ![r] = Idle]
    /\ UNCHANGED <<status, lan, cloud, push, stale, broken>>

-----------------------------------------------------------------------------
(* IT, and the task elections.auto_close_due.                               *)

Log == req' = [req EXCEPT ![Clerk] = [Idle EXCEPT !.pc = "cast"]]

(* close_election, by IT or by auto_close_due_elections.                    *)
Close ==
    /\ req[Clerk].pc = "idle" /\ status = "OPEN" /\ closes < MaxCloses
    /\ status' = "CLOSED" /\ closes' = closes + 1
    /\ Log
    /\ UNCHANGED <<lan, cloud, push, stale, wiped, broken, faults, chain>>

(* open_election: a closed election too, and past its end.                  *)
Open ==
    /\ req[Clerk].pc = "idle" /\ status = "CLOSED"
    /\ status' = "OPEN"
    /\ Log
    /\ UNCHANGED <<lan, cloud, push, stale, bounds, chain>>

(* reset_voter_votes, at any status: the list of votes ...                  *)
ResetList(v) ==
    /\ req[Clerk].pc = "idle" /\ HasVote(v)
    /\ v \notin wiped /\ Cardinality(wiped) < MaxResets
    /\ stale' = Of(votes, v) /\ wiped' = wiped \cup {v}
    /\ req' = [req EXCEPT ![Clerk] = [Idle EXCEPT !.pc = "listed", !.voter = v]]
    /\ UNCHANGED <<status, lan, cloud, push, broken, closes, faults, chain>>

(* ... their deletion ...                                                   *)
ResetVotes ==
    /\ req[Clerk].pc = "listed"
    /\ votes' = votes \ stale /\ stale' = {}
    /\ req' = [req EXCEPT ![Clerk].pc = "erased"]
    /\ UNCHANGED <<status, made, outbox, tries, cloud, push, bounds, chain>>

(* Mutant: only what is still to be sent is taken from the outbox.          *)
ResetUnsent ==
    /\ req[Clerk].pc = "erased"
    /\ outbox' = [i \in VoteIds |-> IF outbox[i] \in {"PENDING", "RETRY"}
                                       /\ made[i].voter = req[Clerk].voter
                                    THEN "ABSENT" ELSE outbox[i]]
    /\ Log
    /\ UNCHANGED <<status, made, votes, tries, cloud, push, stale, bounds, chain>>

(* ... and that of every row with their conflict key.                       *)
ResetRows ==
    /\ req[Clerk].pc = "erased"
    /\ outbox' = [i \in VoteIds |-> IF i <= Len(made) /\ made[i].voter = req[Clerk].voter
                                    THEN "ABSENT" ELSE outbox[i]]
    /\ Log
    /\ UNCHANGED <<status, made, votes, tries, cloud, push, stale, bounds, chain>>

ResetDies ==
    /\ req[Clerk].pc \in {"listed", "erased"} /\ Fault
    /\ broken' = broken \cup {req[Clerk].voter}
    /\ req' = [req EXCEPT ![Clerk] = Idle] /\ stale' = {}
    /\ UNCHANGED <<status, lan, cloud, push, chain>>

-----------------------------------------------------------------------------
(* The push of one row (SyncOutbox has its detail).                         *)

Send(i) ==
    /\ push = NoPush /\ outbox[i] \in {"PENDING", "RETRY"}
    /\ push' = [id |-> i, code |-> "waiting"]
    /\ UNCHANGED <<status, lan, cloud, req, stale, bounds, chain>>

Answer(code) == push' = [push EXCEPT !.code = code]

(* The cloud: a duplicate by its key, a row that breaks STRICT_UNIQUE, or   *)
(* one to apply (_apply_election_vote_event).                               *)
Ingest ==
    LET i == push.id  v == made[i].voter IN
    /\ push.code = "waiting"
    /\ IF i \in cloudRows THEN Answer("200") /\ UNCHANGED cloud
       ELSE IF Of(cloudRows, v) # {} THEN Answer("422") /\ UNCHANGED cloud
       ELSE /\ cloudRows' = cloudRows \cup {i}
            /\ cloudVote' = [cloudVote EXCEPT ![v] = made[i].choice]
            /\ Answer("200")
    /\ UNCHANGED <<status, lan, req, stale, bounds, chain>>

(* The request never arrives, or its answer is lost.                        *)
Lost ==
    /\ push.code \in {"waiting", "200", "422"} /\ Fault
    /\ Answer("0")
    /\ UNCHANGED <<status, lan, cloud, req, stale, broken, chain>>

(* Mutant: only a refusal is a failure.                                     *)
TakenUnlessRefused(code) == code # "422"

Taken(code) == code = "200"

(* Mutant: a row is never given up.                                         *)
NeverSpent(n) == FALSE

(* Mutant: the last retry is not made.                                      *)
SpentEarly(n) == n >= MaxRetries

(* retry_count > max_retries: the row is FAILED.                            *)
Spent(n) == n > MaxRetries

(* process_queue_row; save(update_fields) of a row that is gone raises.     *)
SaveAnswer ==
    LET i == push.id  n == tries[i] + 1 IN
    /\ push.code \in {"200", "422", "0"}
    /\ push' = NoPush
    /\ \/ outbox[i] = "ABSENT" /\ UNCHANGED <<outbox, tries>>
       \/ /\ outbox[i] # "ABSENT" /\ Taken(push.code)
          /\ outbox' = [outbox EXCEPT ![i] = "SYNCED"] /\ UNCHANGED tries
       \/ /\ outbox[i] # "ABSENT" /\ ~Taken(push.code)
          /\ outbox' = [outbox EXCEPT ![i] = IF Spent(n) THEN "FAILED" ELSE "RETRY"]
          /\ tries' = [tries EXCEPT ![i] = n]
    /\ UNCHANGED <<status, made, votes, cloud, req, stale, bounds, chain>>

-----------------------------------------------------------------------------
SendNext == \E i \in VoteIds : Send(i)

Next ==
    \/ \E r \in Requests : Cast(r) \/ Refuse(r) \/ Undo(r)
    \/ \E r \in Requests, v \in Voters, c \in Candidates : Enter(r, v, c)
    \/ \E w \in Writers : BeginLog(w) \/ WriteLog(w) \/ LogFails(w) \/ End(w)
    \/ Close \/ Open
    \/ \E v \in Voters : ResetList(v)
    \/ ResetVotes \/ ResetRows \/ ResetDies
    \/ SendNext \/ Ingest \/ Lost \/ SaveAnswer

Spec == Init /\ [][Next]_vars

(* The push runs again while rows are due, and what it began goes on.       *)
FairSpec == Spec /\ WF_vars(SendNext) /\ WF_vars(Ingest) /\ WF_vars(SaveAnswer)

-----------------------------------------------------------------------------
(* Properties.                                                              *)

(* A voter has one vote at a position, whatever tabs and resets interleave  *)
(* (unique_vote_per_voter_position_in_election).                            *)
OneVote == \A i, j \in votes : made[i].voter = made[j].voter => i = j

(* A vote that stands is in the outbox: no reset takes the row of a vote    *)
(* cast after it (one transaction in submit_vote_bundle, three deletes in   *)
(* reset_voter_votes).                                                      *)
VoteIsQueued == \A i \in votes : outbox[i] # "ABSENT"

(* A voter without a vote can vote ("Voter can now re-vote"): only a reset  *)
(* that is under way, or died half way, leaves the row of a vote that is    *)
(* gone, which blocks the next.                                             *)
NotShutOut ==
    \A v \in Voters \ broken :
        ~HasVote(v) /\ ~(req[Clerk].pc = "erased" /\ req[Clerk].voter = v) => ~Blocked(v)

(* An audit event of a vote is of a vote that was counted: it stands, or IT *)
(* reset it.  The log keeps nothing of a vote that was undone.              *)
LoggedWasCast ==
    \A e \in events : e.about # 0 => e.about \in votes \/ made[e.about].voter \in wiped

LanVote(v) == {made[i].choice : i \in Of(votes, v)}
CloudVote(v) == {cloudVote[v]} \ {Nobody}

(* When every row is SYNCED the cloud counts what the LAN counts, but for   *)
(* voters whose votes were reset.                                           *)
TalliesAgree ==
    (\A i \in VoteIds : outbox[i] \in {"ABSENT", "SYNCED"})
        => \A v \in Voters \ wiped : CloudVote(v) = LanVote(v)

(* A vote that stands is not refused for good by the cloud, as long as no   *)
(* answer is lost (SYNC_DOMAIN_POLICIES: votes are "LAN-authoritative").    *)
LanPrevails == faults = 0 => \A i \in votes : outbox[i] # "FAILED"

(* With fewer lost answers than retries, a vote reaches the cloud, or IT    *)
(* has reset the voter's votes.                                             *)
VoteArrives ==
    \A i \in VoteIds :
        i \in votes ~> \/ i \in cloudRows /\ outbox[i] = "SYNCED"
                      \/ \E v \in wiped : i \in Of(1 .. Len(made), v)
=============================================================================
