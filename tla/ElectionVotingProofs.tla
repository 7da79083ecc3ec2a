----------------------- MODULE ElectionVotingProofs -----------------------
(* Theorems about ElectionVoting and the audit chain inside it, for every   *)
(* value of the constants.                                                  *)
EXTENDS ElectionVoting, TLAPS

Resetting(v) == req[Clerk].pc \in {"listed", "erased"} /\ req[Clerk].voter = v
Erasing(v) == req[Clerk].pc = "erased" /\ req[Clerk].voter = v

(* Fewer lost answers than retries: a row that was never reset is not given *)
(* up.                                                                      *)
Reliable == MaxFaults <= MaxRetries

(* Voters whose rows are still those of their first vote.                   *)
Fresh(v) == v \notin wiped \/ (Reliable /\ Resetting(v))

-----------------------------------------------------------------------------
(* The invariant, in five parts.                                            *)

ClerkStages == {"idle", "cast", "looking", "logged", "listed", "erased"}
VoteStages == {"idle", "checked", "cast", "looking", "logged"}

(* Types, with what each stage of a request holds.                          *)
TableTypes ==
    /\ status \in {"OPEN", "CLOSED"}
    /\ made \in Seq([voter : Voters, choice : Candidates]) /\ Len(made) <= MaxVotes
    /\ votes \subseteq 1 .. Len(made)
    /\ outbox \in [VoteIds -> RowStatus] /\ tries \in [VoteIds -> 0 .. MaxRetries + 1]
    /\ cloudRows \subseteq 1 .. Len(made) /\ cloudVote \in [Voters -> Candidates \cup {Nobody}]
    /\ stale \subseteq VoteIds
    /\ wiped \subseteq Voters /\ broken \subseteq wiped /\ closes \in Nat
    /\ faults \in Nat /\ faults <= MaxFaults
    /\ \A i \in VoteIds : /\ outbox[i] # "ABSENT" => i <= Len(made)
                          /\ outbox[i] \in {"PENDING", "RETRY"} => tries[i] <= MaxRetries
                          /\ i > Len(made) => tries[i] = 0
ReqType == [pc : Stages, voter : Voters \cup {Nobody}, choice : Candidates \cup {Nobody}, id : 0 .. MaxVotes]
ReqTypes ==
    /\ req \in [Writers -> ReqType]
    /\ \A w \in Writers :
          /\ req[w].id <= Len(made)
          /\ \A e \in draft[w] : req[w].pc = "logged" /\ e.about = req[w].id
    /\ \A r \in Requests :
          /\ req[r].pc \in VoteStages /\ (req[r].id # 0 <=> req[r].pc \in {"cast", "looking", "logged"})
          /\ req[r].pc # "idle" => req[r].voter \in Voters /\ req[r].choice \in Candidates
    /\ req[Clerk].pc \in ClerkStages /\ req[Clerk].id = 0
    /\ req[Clerk].pc \in {"listed", "erased"} => req[Clerk].voter \in wiped \ broken
PushTypes ==
    /\ push \in [id : 0 .. MaxVotes, code : {"none", "waiting", "200", "422", "0"}]
    /\ \/ push = NoPush
       \/ /\ push.id \in 1 .. Len(made) /\ push.code # "none"
          /\ outbox[push.id] \in {"ABSENT", "PENDING", "RETRY"}
TypeInv == ChainType /\ TableTypes /\ ReqTypes /\ PushTypes

(* The log is a chain of committed events, and so is what is being written. *)
LinksTo(e) == e.prev < e.id /\ e.id <= lastId /\ e.prev \in {0} \cup Ids(events)
ChainInv ==
    /\ \A e \in events : LinksTo(e)
    /\ \A w \in Writers : \A e \in draft[w] : LinksTo(e)
    /\ \A w \in Writers : seen[w] \in {0} \cup Ids(events)
    /\ \A i \in Ids(events) : i <= lastId

(* A voter has one vote, committed or not; only a reset leaves rows without *)
(* their vote.                                                              *)
VoteInv ==
    /\ OneVote
    /\ \A r \in Writers : Inserted(r) =>
          /\ made[req[r].id].voter = req[r].voter /\ ~HasVote(req[r].voter)
          /\ outbox[req[r].id] = "ABSENT" /\ req[r].id \notin cloudRows /\ push.id # req[r].id
          /\ tries[req[r].id] = 0
    /\ \A r, x \in Writers : Inserted(r) /\ Inserted(x) /\ req[r].voter = req[x].voter => r = x
    /\ \A i \in VoteIds : outbox[i] # "ABSENT" =>
          i \in votes \/ made[i].voter \in broken \/ Erasing(made[i].voter)
    /\ req[Clerk].pc = "listed" => stale = Of(votes, req[Clerk].voter) /\ HasVote(req[Clerk].voter)
    /\ \A e \in events : e.about <= Len(made)
    /\ LoggedWasCast

(* What was counted in the cloud.                                           *)
CountInv ==
    /\ push.code = "200" => push.id \in cloudRows
    /\ \A i \in VoteIds : outbox[i] = "SYNCED" => i \in cloudRows
    /\ \A i, j \in cloudRows : made[i].voter = made[j].voter => i = j
    /\ \A i \in cloudRows : cloudVote[made[i].voter] = made[i].choice
    /\ \A v \in Voters : cloudVote[v] # Nobody => Of(cloudRows, v) # {}

(* A voter whose first rows are there has one row, which nobody refused.    *)
FreshRow(i) ==
    /\ i \in cloudRows \/ push.id = i => outbox[i] # "ABSENT"
    /\ push.id = i => push.code # "422"
    /\ outbox[i] # "ABSENT" =>
          \A j \in VoteIds : outbox[j] # "ABSENT" /\ made[j].voter = made[i].voter => i = j
    /\ tries[i] + (IF push.id = i /\ push.code = "0" THEN 1 ELSE 0) <= faults
    /\ Reliable => outbox[i] # "FAILED"
FreshInv ==
    /\ \A i \in 1 .. Len(made) : Fresh(made[i].voter) => FreshRow(i)
    /\ \A i \in votes : Reliable \/ made[i].voter \notin wiped => outbox[i] # "ABSENT"
    /\ Reliable /\ req[Clerk].pc = "erased" =>
          /\ Blocked(req[Clerk].voter) /\ ~HasVote(req[Clerk].voter)
          /\ \A r \in Writers : Inserted(r) => req[r].voter # req[Clerk].voter

IInv == TypeInv /\ ChainInv /\ VoteInv /\ CountInv /\ FreshInv

-----------------------------------------------------------------------------
(* Facts about the parts of the state.                                      *)

USE DEF VoteIds

LEMMA Init0 == Init => IInv
<1> SUFFICES ASSUME Init PROVE IInv
  OBVIOUS
<1> USE Parameters
<1>1. ChainType /\ TableTypes /\ PushTypes
  BY DEF Init, ChainInit, ChainType, NoEvents, AuditEvent, RowStatus, NoPush, TableTypes, PushTypes
<1>2. ReqTypes
  BY DEF Init, ReqTypes, ReqType, ChainInit, NoEvents, Idle, Stages, Requests, VoteStages, ClerkStages
<1>3. ChainInv
  BY DEF Init, ChainInv, ChainInit, NoEvents, Ids
<1>4. VoteInv
  BY DEF Init, VoteInv, ChainInit, NoEvents, OneVote, LoggedWasCast, Inserted, Idle
<1>5. CountInv
  BY DEF Init, CountInv, NoPush
<1>6. FreshInv
  BY DEF Init, FreshInv, Idle
<1>. QED  BY <1>1, <1>2, <1>3, <1>4, <1>5, <1>6 DEF IInv, TypeInv

LEMMA SeqElement == ASSUME NEW S, NEW s \in Seq(S) PROVE Len(s) \in Nat /\ \A i \in 1 .. Len(s) : s[i] \in S
OBVIOUS

(* Votes get their ids in order, and keep what they say.                    *)
LEMMA MadeTypes ==
    ASSUME TypeInv
    PROVE  /\ Len(made) \in Nat /\ Len(made) <= MaxVotes
           /\ \A i \in 1 .. Len(made) : made[i].voter \in Voters /\ made[i].choice \in Candidates
<1>1. made \in Seq([voter : Voters, choice : Candidates]) /\ Len(made) <= MaxVotes
  BY DEF TypeInv, TableTypes
<1>2. \A i \in 1 .. Len(made) : made[i] \in [voter : Voters, choice : Candidates]
  BY <1>1, SeqElement
<1>. QED  BY <1>1, <1>2

LEMMA InsertMade ==
    ASSUME TypeInv, NEW r \in Requests, req[r].pc = "checked", Insert(r)
    PROVE  /\ Len(made') = Len(made) + 1 /\ Len(made') <= MaxVotes
           /\ \A i \in 1 .. Len(made) : made'[i] = made[i]
           /\ made'[Len(made) + 1] = [voter |-> req[r].voter, choice |-> req[r].choice]
           /\ made' \in Seq([voter : Voters, choice : Candidates])
<1>1. [voter |-> req[r].voter, choice |-> req[r].choice] \in [voter : Voters, choice : Candidates]
  BY DEF TypeInv, ReqTypes
<1>2. made \in Seq([voter : Voters, choice : Candidates])
  BY DEF TypeInv, TableTypes
<1>. QED  BY <1>1, <1>2 DEF Insert

(* The chain variables keep their types whatever a writer does.             *)
LEMMA ChainTypes ==
    ASSUME TypeInv, NEW w \in Writers,
           \/ Look(w) \/ Commit(w) \/ RollBack(w) \/ UNCHANGED chain
           \/ \E about \in Nat : Write(w, about)
    PROVE  ChainType'
<1>1. /\ events \subseteq AuditEvent /\ lastId \in Nat /\ seen \in [Writers -> Nat]
      /\ draft \in [Writers -> SUBSET AuditEvent]
      /\ \A x \in Writers : \A d, e \in draft[x] : d = e
  BY DEF TypeInv, ChainType
<1>2. CASE Look(w)
  BY <1>1, <1>2 DEF Look, ChainType, Ids, AuditEvent
<1>3. CASE Commit(w)
  BY <1>1, <1>3 DEF Commit, ChainType, NoEvents
<1>4. CASE RollBack(w)
  BY <1>1, <1>4 DEF RollBack, ChainType, NoEvents
<1>5. ASSUME NEW about \in Nat, Write(w, about) PROVE ChainType'
  <2>1. [id |-> lastId + 1, prev |-> seen[w], about |-> about] \in AuditEvent
    BY <1>1 DEF AuditEvent
  <2>. QED  BY <1>1, <1>5, <2>1 DEF Write, ChainType
<1>6. CASE UNCHANGED chain
  BY <1>1, <1>6 DEF ChainType, chain
<1>. QED  BY <1>2, <1>3, <1>4, <1>5, <1>6

-----------------------------------------------------------------------------
(* Types.                                                                   *)

(* A request that begins, moves on or ends without a new vote.             *)
LEMMA RequestMoves ==
    ASSUME TypeInv, NEW r \in Requests, NEW new \in ReqType, req' = [req EXCEPT ![r] = new],
           made' = made, wiped' = wiped, broken' = broken,
           new.id <= Len(made), new.pc \in VoteStages,
           new.id # 0 <=> new.pc \in {"cast", "looking", "logged"},
           new.pc # "idle" => new.voter \in Voters /\ new.choice \in Candidates,
           \A x \in Writers \ {r} : draft'[x] = draft[x],
           \A e \in draft'[r] : new.pc = "logged" /\ e.about = new.id
    PROVE  ReqTypes'
<1>1. r \in Writers /\ r # Clerk
  BY DEF Requests
<1>2. req' \in [Writers -> ReqType] /\ req'[r] = new /\ \A x \in Writers \ {r} : req'[x] = req[x]
  BY <1>1 DEF TypeInv, ReqTypes
<1>. QED  BY <1>1, <1>2, Parameters DEF TypeInv, ReqTypes, Requests

(* The clerk that begins, moves on or ends.                                 *)
LEMMA ClerkMoves ==
    ASSUME TypeInv, NEW new \in ReqType, req' = [req EXCEPT ![Clerk] = new],
           made' = made, new.id = 0, new.pc \in ClerkStages,
           new.pc \in {"listed", "erased"} => new.voter \in wiped' \ broken',
           \A x \in Writers \ {Clerk} : draft'[x] = draft[x],
           \A e \in draft'[Clerk] : new.pc = "logged" /\ e.about = 0
    PROVE  ReqTypes'
<1>1. Clerk \in Writers /\ Len(made) \in Nat
  BY Parameters, MadeTypes
<1>2. req' \in [Writers -> ReqType] /\ req'[Clerk] = new /\ \A x \in Writers \ {Clerk} : req'[x] = req[x]
  BY <1>1 DEF TypeInv, ReqTypes
<1>. QED  BY <1>1, <1>2 DEF TypeInv, ReqTypes, Requests

LEMMA TypeStep == IInv /\ [Next]_vars => TypeInv'
<1> SUFFICES ASSUME IInv, [Next]_vars PROVE TypeInv'
  OBVIOUS
<1> USE Parameters
<1>0. ChainType /\ TableTypes /\ ReqTypes /\ PushTypes /\ TypeInv
  BY DEF IInv, TypeInv
<1>a. \A w \in Writers : req[w] \in ReqType
  BY <1>0 DEF ReqTypes
<1>b. Idle \in ReqType /\ Idle.pc = "idle" /\ Idle.id = 0
  BY DEF Idle, ReqType, Stages
<1>c. Len(made) \in Nat /\ Nobody \notin Voters /\ Clerk \in Writers
  BY MadeTypes, <1>0
<1>d. \A i \in VoteIds : /\ outbox[i] # "ABSENT" => i <= Len(made)
                         /\ outbox[i] \in {"PENDING", "RETRY"} => tries[i] <= MaxRetries
                         /\ i > Len(made) => tries[i] = 0
  BY <1>0, Zenon DEF TableTypes
<1>e. outbox \in [VoteIds -> RowStatus] /\ tries \in [VoteIds -> 0 .. MaxRetries + 1]
  BY <1>0 DEF TableTypes
<1>1. ASSUME NEW r \in Requests, NEW v \in Voters, NEW c \in Candidates, Enter(r, v, c) PROVE TypeInv'
  <2> DEFINE new == [pc |-> "checked", voter |-> v, choice |-> c, id |-> 0]
  <2>1. /\ new \in ReqType /\ draft[r] = {} /\ r # Clerk /\ r \in Writers /\ req' = [req EXCEPT ![r] = new]
        /\ UNCHANGED <<made, wiped, broken, draft>>
    BY <1>0, <1>1 DEF ReqType, Stages, Enter, ReqTypes, Requests, lan, bounds, chain
  <2>4. new.id = 0 /\ new.pc = "checked" /\ new.voter \in Voters /\ new.choice \in Candidates
    OBVIOUS
  <2>5. new.pc \in VoteStages /\ new.id <= Len(made)
    BY <1>c DEF VoteStages
  <2>. HIDE DEF new
  <2>2. ReqTypes'
    BY <1>0, <2>1, <2>4, <2>5, RequestMoves
  <2>3. ChainType' /\ TableTypes' /\ PushTypes'
    BY <1>0, <1>1, ChainTypes DEF Enter, lan, cloud, bounds, TableTypes, PushTypes, Requests
  <2>. QED  BY <2>2, <2>3 DEF TypeInv
<1>2. ASSUME NEW r \in Requests, Cast(r) PROVE TypeInv'
  <2>1. Insert(r) /\ req[r].pc = "checked" /\ r # Clerk /\ r \in Writers
    BY <1>2 DEF Cast, Requests
  <2>2. /\ Len(made') = Len(made) + 1 /\ Len(made') <= MaxVotes
        /\ made' \in Seq([voter : Voters, choice : Candidates])
        /\ UNCHANGED <<status, votes, outbox, tries, cloud, push, stale, bounds, chain>>
    BY <1>0, <2>1, InsertMade DEF Insert
  <2> DEFINE new == [req[r] EXCEPT !.pc = "cast", !.id = Len(made) + 1]
  <2>12. req[r] \in ReqType /\ Len(made) + 1 \in 0 .. MaxVotes
    BY <1>a, <1>c, <2>1, <2>2
  <2>3. /\ new \in ReqType /\ new.pc = "cast" /\ new.id = Len(made) + 1
        /\ new.voter = req[r].voter /\ new.choice = req[r].choice
    BY <2>12 DEF ReqType, Stages
  <2>4. req' = [req EXCEPT ![r] = new]
    BY <1>0, <2>1 DEF Insert, ReqTypes
  <2>. HIDE DEF new
  <2>5. draft[r] = {}
    BY <1>0, <2>1 DEF ReqTypes
  <2>6. req' \in [Writers -> ReqType]
    BY <1>0, <2>3, <2>4 DEF ReqTypes
  <2>7. \A w \in Writers \ {r} : req'[w] = req[w] /\ req[w].id \in Nat
    BY <1>0, <2>4 DEF ReqTypes, ReqType
  <2>8. req'[r] = new
    BY <1>0, <2>1, <2>4 DEF ReqTypes
  <2>9. ReqTypes'
    BY <1>0, <1>c, <2>1, <2>2, <2>3, <2>5, <2>6, <2>7, <2>8 DEF ReqTypes, VoteStages, chain, bounds, Requests
  <2>10. TableTypes'
    BY <1>0, <1>c, <2>2 DEF TableTypes, cloud, bounds
  <2>11. ChainType' /\ PushTypes'
    BY <1>0, <1>c, <2>1, <2>2, ChainTypes DEF PushTypes
  <2>. QED  BY <2>9, <2>10, <2>11 DEF TypeInv
<1>3. ASSUME NEW r \in Requests, Refuse(r) PROVE TypeInv'
  <2>1. draft[r] = {} /\ UNCHANGED <<made, wiped, broken, draft>> /\ req' = [req EXCEPT ![r] = Idle]
    BY <1>0, <1>3 DEF Refuse, Requests, lan, bounds, chain, ReqTypes
  <2>4. Idle.id <= Len(made) /\ Idle.pc \in VoteStages
    BY <1>b, <1>c DEF VoteStages
  <2>3. ReqTypes'
    BY <1>0, <1>b, <2>1, <2>4, RequestMoves
  <2>2. ChainType' /\ TableTypes' /\ PushTypes'
    BY <1>0, <1>3, ChainTypes DEF Refuse, lan, cloud, bounds, TableTypes, PushTypes, Requests
  <2>. QED  BY <2>2, <2>3 DEF TypeInv
(* A writer's next stage of its audit event.                                *)
<1>4. ASSUME NEW w \in Writers, NEW pc \in {"looking", "logged"}, req[w].pc \in {"cast", "looking"},
             req' = [req EXCEPT ![w].pc = pc], UNCHANGED <<made, wiped>>, broken' = broken,
             \A x \in Writers \ {w} : draft'[x] = draft[x],
             \A e \in draft'[w] : pc = "logged" /\ e.about = req[w].id
      PROVE  ReqTypes'
  <2> DEFINE new == [req[w] EXCEPT !.pc = pc]
  <2>1. /\ new \in ReqType /\ new.pc = pc /\ new.id = req[w].id
        /\ new.voter = req[w].voter /\ new.choice = req[w].choice
    BY <1>a DEF ReqType, Stages
  <2>2. req' = [req EXCEPT ![w] = new]
    BY <1>0, <1>4 DEF ReqTypes
  <2>. HIDE DEF new
  <2>3. new.id <= Len(made)
    BY <1>0, <2>1 DEF ReqTypes
  <2>4. CASE w # Clerk
    <3>1. /\ w \in Requests /\ new.pc \in VoteStages /\ (new.id # 0 <=> new.pc \in {"cast", "looking", "logged"})
          /\ new.voter \in Voters /\ new.choice \in Candidates
      BY <1>0, <1>4, <2>1, <2>4 DEF ReqTypes, VoteStages, Requests
    <3>2. UNCHANGED <<made, wiped, broken>> /\ \A e \in draft'[w] : new.pc = "logged" /\ e.about = new.id
      BY <1>4, <2>1
    <3>3. \A x \in Writers \ {w} : draft'[x] = draft[x]
      BY <1>4
    <3>. QED  BY <1>0, <2>1, <2>2, <2>3, <3>1, <3>2, <3>3, RequestMoves
  <2>5. CASE w = Clerk
    <3>1. new.pc \in ClerkStages /\ new.id = 0 /\ new.pc \notin {"listed", "erased"}
      BY <1>0, <1>4, <2>1, <2>5 DEF ReqTypes, ClerkStages
    <3>. QED  BY <1>0, <1>4, <2>1, <2>2, <2>5, <3>1, ClerkMoves
  <2>. QED  BY <2>4, <2>5
<1>5. ASSUME NEW w \in Writers, BeginLog(w) PROVE TypeInv'
  <2>1. draft[w] = {}
    BY <1>0, <1>5 DEF BeginLog, ReqTypes
  <2>2. ReqTypes'
    BY <1>4, <1>5, <2>1 DEF BeginLog, Look, lan, bounds
  <2>3. ChainType' /\ TableTypes' /\ PushTypes'
    BY <1>0, <1>5, ChainTypes DEF BeginLog, lan, cloud, bounds, TableTypes, PushTypes
  <2>. QED  BY <2>2, <2>3 DEF TypeInv
<1>6. ASSUME NEW w \in Writers, WriteLog(w) PROVE TypeInv'
  <2>1. \A e \in draft'[w] : e.about = req[w].id
    BY <1>0, <1>6 DEF WriteLog, Write, ChainType
  <2>2. \A x \in Writers \ {w} : draft'[x] = draft[x]
    BY <1>0, <1>6 DEF WriteLog, Write, ChainType
  <2>3. ReqTypes'
    BY <1>4, <1>6, <2>1, <2>2 DEF WriteLog, lan, bounds
  <2>4. req[w].id \in Nat
    BY <1>a DEF ReqType
  <2>5. ChainType' /\ TableTypes' /\ PushTypes'
    BY <1>0, <1>6, <2>4, ChainTypes DEF WriteLog, lan, cloud, bounds, TableTypes, PushTypes
  <2>. QED  BY <2>3, <2>5 DEF TypeInv
<1>7. ASSUME NEW w \in Writers, LogFails(w) PROVE TypeInv'
  <2>1. draft'[w] = {} /\ \A x \in Writers \ {w} : draft'[x] = draft[x]
    BY <1>0, <1>7 DEF LogFails, RollBack, ChainType, NoEvents
  <2>2. ReqTypes'
    BY <1>4, <1>7, <2>1 DEF LogFails, lan, Fault
  <2>3. ChainType' /\ TableTypes' /\ PushTypes'
    BY <1>0, <1>7, ChainTypes DEF LogFails, Fault, lan, cloud, TableTypes, PushTypes
  <2>. QED  BY <2>2, <2>3 DEF TypeInv
(* A writer that is done.                                                   *)
<1>8. ASSUME NEW w \in Writers, req' = [req EXCEPT ![w] = Idle], UNCHANGED <<made, wiped, broken>>,
             Commit(w) \/ RollBack(w)
      PROVE  ReqTypes'
  <2>1. draft'[w] = {} /\ \A x \in Writers \ {w} : draft'[x] = draft[x]
    BY <1>0, <1>8 DEF Commit, RollBack, ChainType, NoEvents
  <2>2. CASE w # Clerk
    <3>1. w \in Requests /\ Idle.id <= Len(made) /\ Idle.pc \in VoteStages
      BY <1>b, <1>c, <2>2 DEF Requests, VoteStages
    <3>. QED  BY <1>0, <1>b, <1>8, <2>1, <3>1, RequestMoves
  <2>3. CASE w = Clerk
    BY <1>0, <1>b, <1>8, <2>1, <2>3, ClerkMoves DEF ClerkStages
  <2>. QED  BY <2>2, <2>3
<1>9. ASSUME NEW w \in Writers, End(w) PROVE TypeInv'
  <2>1. ReqTypes'
    BY <1>8, <1>9 DEF End, bounds
  <2>2. ChainType'
    BY <1>0, <1>9, ChainTypes DEF End
  <2>3. CASE req[w].id = 0
    BY <1>0, <1>9, <2>1, <2>2, <2>3 DEF End, TypeInv, TableTypes, PushTypes, cloud, bounds
  <2>4. CASE req[w].id # 0
    <3>1. /\ req[w].id \in 1 .. Len(made) /\ outbox[req[w].id] = "ABSENT"
          /\ tries[req[w].id] <= MaxRetries /\ push.id # req[w].id
      BY <1>0, <1>9, <1>a, <2>4 DEF End, ReqTypes, ReqType, IInv, VoteInv, Inserted
    <3>4. /\ outbox' = [outbox EXCEPT ![req[w].id] = "PENDING"] /\ votes' = votes \cup {req[w].id}
          /\ UNCHANGED <<status, made, tries, cloud, push, stale, bounds>>
      BY <1>9, <2>4 DEF End
    <3>5. /\ outbox' \in [VoteIds -> RowStatus] /\ votes' \subseteq 1 .. Len(made)
          /\ \A i \in VoteIds : outbox'[i] = outbox[i] \/ (i = req[w].id /\ outbox'[i] = "PENDING")
      BY <1>0, <3>1, <3>4 DEF TableTypes, RowStatus
    <3>2. TableTypes'
      BY <1>0, <1>c, <3>1, <3>4, <3>5 DEF TableTypes, cloud, bounds
    <3>3. PushTypes'
      BY <1>0, <1>9, <2>4, <3>1 DEF End, PushTypes, TableTypes
    <3>. QED  BY <2>1, <2>2, <3>2, <3>3 DEF TypeInv
  <2>. QED  BY <2>3, <2>4
<1>10. ASSUME NEW r \in Requests, Undo(r) PROVE TypeInv'
  <2>1. r \in Writers
    BY DEF Requests
  <2>2. ReqTypes'
    BY <1>8, <1>10, <2>1 DEF Undo, Fault, lan
  <2>3. ChainType' /\ TableTypes' /\ PushTypes'
    BY <1>0, <1>10, <2>1, ChainTypes DEF Undo, Fault, lan, cloud, TableTypes, PushTypes
  <2>. QED  BY <2>2, <2>3 DEF TypeInv
(* The clerk's steps.                                                       *)
<1>11. ASSUME NEW new \in ReqType, req' = [req EXCEPT ![Clerk] = new], UNCHANGED <<made, chain>>,
              req[Clerk].pc # "logged", wiped \subseteq wiped',
              new.pc \in {"idle", "cast", "listed", "erased"}, new.id = 0,
              new.pc \in {"listed", "erased"} => new.voter \in wiped' \ broken'
       PROVE  ReqTypes'
  <2>1. draft[Clerk] = {} /\ draft' = draft
    BY <1>0, <1>c, <1>11 DEF ReqTypes, chain
  <2>. QED  BY <1>0, <1>11, <2>1, ClerkMoves DEF ClerkStages
<1>12. /\ [Idle EXCEPT !.pc = "cast"] \in ReqType
       /\ [Idle EXCEPT !.pc = "cast"].pc = "cast" /\ [Idle EXCEPT !.pc = "cast"].id = 0
  BY DEF Idle, ReqType, Stages
<1>13. CASE Close
  <2>1. ReqTypes'
    BY <1>11, <1>12, <1>13 DEF Close, Log, lan
  <2>2. ChainType' /\ TableTypes' /\ PushTypes'
    BY <1>0, <1>c, <1>13, ChainTypes DEF Close, lan, cloud, TableTypes, PushTypes
  <2>. QED  BY <2>1, <2>2 DEF TypeInv
<1>14. CASE Open
  <2>1. ReqTypes'
    BY <1>11, <1>12, <1>14 DEF Open, Log, lan, bounds
  <2>2. ChainType' /\ TableTypes' /\ PushTypes'
    BY <1>0, <1>c, <1>14, ChainTypes DEF Open, lan, cloud, bounds, TableTypes, PushTypes
  <2>. QED  BY <2>1, <2>2 DEF TypeInv
<1>15. ASSUME NEW v \in Voters, ResetList(v) PROVE TypeInv'
  <2>1. /\ [Idle EXCEPT !.pc = "listed", !.voter = v] \in ReqType
        /\ [Idle EXCEPT !.pc = "listed", !.voter = v].pc = "listed"
        /\ [Idle EXCEPT !.pc = "listed", !.voter = v].id = 0
        /\ [Idle EXCEPT !.pc = "listed", !.voter = v].voter = v
    BY <1>b DEF ReqType, Stages
  <2>2. v \notin broken
    BY <1>0, <1>15 DEF ResetList, TableTypes
  <2>3. ReqTypes'
    <3> DEFINE new == [Idle EXCEPT !.pc = "listed", !.voter = v]
    <3>1. req' = [req EXCEPT ![Clerk] = new] /\ UNCHANGED <<made, chain>> /\ req[Clerk].pc # "logged"
      BY <1>15 DEF ResetList, lan
    <3>2. wiped \subseteq wiped' /\ v \in wiped' \ broken'
      BY <1>15, <2>2 DEF ResetList
    <3>. HIDE DEF new
    <3>3. new \in ReqType /\ new.pc = "listed" /\ new.id = 0 /\ new.voter = v
      BY <2>1 DEF new
    <3>. QED  BY <1>11, <3>1, <3>2, <3>3
  <2>6. votes \subseteq VoteIds
    BY <1>0, <1>c DEF TableTypes
  <2>4. Of(votes, v) \subseteq VoteIds
    BY <2>6 DEF Of
  <2>5. ChainType' /\ TableTypes' /\ PushTypes'
    <3>1. ChainType'
      BY <1>0, <1>c, <1>15, ChainTypes DEF ResetList
    <3>2. /\ UNCHANGED <<status, lan, cloud, push, broken, closes, faults>>
          /\ stale' \subseteq VoteIds /\ wiped' \subseteq Voters /\ broken' \subseteq wiped'
      BY <1>0, <1>15, <2>4 DEF ResetList, TableTypes
    <3>3. TableTypes'
      BY <1>0, <3>2 DEF lan, cloud, TableTypes
    <3>4. PushTypes'
      BY <1>0, <3>2 DEF lan, PushTypes
    <3>. QED  BY <3>1, <3>3, <3>4
  <2>. QED  BY <2>3, <2>5 DEF TypeInv
<1>16. CASE ResetVotes
  <2> DEFINE new == [req[Clerk] EXCEPT !.pc = "erased"]
  <2>1. new \in ReqType /\ new.pc = "erased" /\ new.id = req[Clerk].id /\ new.voter = req[Clerk].voter
    BY <1>a, <1>c DEF ReqType, Stages
  <2>2. req' = [req EXCEPT ![Clerk] = new]
    BY <1>0, <1>16 DEF ResetVotes, ReqTypes
  <2>. HIDE DEF new
  <2>3. ReqTypes'
    BY <1>0, <1>11, <1>16, <2>1, <2>2 DEF ResetVotes, bounds, ReqTypes
  <2>4. ChainType' /\ TableTypes' /\ PushTypes'
    BY <1>0, <1>c, <1>16, ChainTypes DEF ResetVotes, cloud, bounds, TableTypes, PushTypes
  <2>. QED  BY <2>3, <2>4 DEF TypeInv
<1>17. CASE ResetRows
  <2>1. ReqTypes'
    BY <1>11, <1>12, <1>17 DEF ResetRows, Log, bounds
  <2>2. outbox' \in [VoteIds -> RowStatus] /\ \A i \in VoteIds : outbox'[i] \in {outbox[i], "ABSENT"}
    BY <1>0, <1>17 DEF ResetRows, TableTypes, RowStatus
  <2>3. TableTypes'
    BY <1>0, <1>17, <2>2 DEF ResetRows, cloud, bounds, TableTypes
  <2>4. PushTypes'
    BY <1>0, <1>c, <1>17, <2>2 DEF ResetRows, TableTypes, PushTypes
  <2>5. ChainType'
    BY <1>0, <1>c, <1>17, ChainTypes DEF ResetRows
  <2>. QED  BY <2>1, <2>3, <2>4, <2>5 DEF TypeInv
<1>18. CASE ResetDies
  <2>1. ReqTypes'
    BY <1>11, <1>b, <1>18 DEF ResetDies, Fault, lan
  <2>2. TableTypes'
    <3>1. /\ UNCHANGED <<status, lan, cloud, wiped, closes>> /\ stale' = {}
          /\ faults' = faults + 1 /\ faults < MaxFaults
          /\ broken' = broken \cup {req[Clerk].voter} /\ req[Clerk].voter \in wiped
      BY <1>0, <1>18 DEF ResetDies, Fault, ReqTypes
    <3>2. /\ faults' \in Nat /\ faults' <= MaxFaults /\ broken' \subseteq wiped' /\ wiped' \subseteq Voters
          /\ stale' \subseteq VoteIds
      BY <1>0, <3>1 DEF TableTypes
    <3>. QED  BY <1>0, <3>1, <3>2 DEF TableTypes, lan, cloud
  <2>3. ChainType' /\ PushTypes'
    BY <1>0, <1>c, <1>18, ChainTypes DEF ResetDies, lan, PushTypes
  <2>. QED  BY <2>1, <2>2, <2>3 DEF TypeInv
(* The push.                                                                *)
<1>19. ASSUME UNCHANGED <<req, made, wiped, broken, chain>> PROVE ReqTypes' /\ ChainType'
  BY <1>0, <1>19 DEF ReqTypes, ChainType, chain
<1>20. CASE SendNext
  <2>1. PICK i \in VoteIds : Send(i)
    BY <1>20 DEF SendNext
  <2>2. i \in 1 .. Len(made)
    <3>1. outbox[i] # "ABSENT" /\ i \in VoteIds
      BY <2>1 DEF Send
    <3>2. i <= Len(made)
      BY <1>d, <3>1
    <3>. QED  BY <1>c, <3>1, <3>2
  <2>3. PushTypes'
    BY <2>1, <2>2 DEF Send, PushTypes, lan
  <2>4. TableTypes'
    BY <1>0, <2>1 DEF Send, TableTypes, lan, cloud, bounds
  <2>. QED  BY <1>19, <2>1, <2>3, <2>4 DEF Send, lan, bounds, TypeInv
<1>21. CASE Ingest
  <2>1. push.id \in 1 .. Len(made) /\ made[push.id].voter \in Voters /\ made[push.id].choice \in Candidates
    BY <1>0, <1>21, MadeTypes DEF Ingest, PushTypes, NoPush
  <2>2. PushTypes'
    BY <1>0, <1>21 DEF Ingest, Answer, PushTypes, NoPush, lan
  <2>3. TableTypes'
    BY <1>0, <1>21, <2>1 DEF Ingest, TableTypes, lan, cloud, bounds
  <2>. QED  BY <1>19, <1>21, <2>2, <2>3 DEF Ingest, lan, bounds, TypeInv
<1>22. CASE Lost
  <2>1. PushTypes'
    BY <1>0, <1>22 DEF Lost, Answer, PushTypes, NoPush, lan
  <2>2. TableTypes'
    BY <1>0, <1>22 DEF Lost, Fault, TableTypes, lan, cloud
  <2>. QED  BY <1>19, <1>22, <2>1, <2>2 DEF Lost, Fault, lan, TypeInv
<1>23. CASE SaveAnswer
  <2>1. push.id \in 1 .. Len(made) /\ push.id \in VoteIds /\ outbox[push.id] \in {"ABSENT", "PENDING", "RETRY"}
    BY <1>0, <1>c, <1>23 DEF SaveAnswer, PushTypes, NoPush, TableTypes
  <2>2. PushTypes'
    BY <1>23 DEF SaveAnswer, PushTypes, NoPush
  <2>3. tries[push.id] \in 0 .. MaxRetries + 1 /\ (outbox[push.id] # "ABSENT" => tries[push.id] <= MaxRetries)
    BY <1>d, <1>e, <2>1
  <2> DEFINE i == push.id  n == tries[push.id] + 1
  <2>5. tries[i] \in Nat /\ n \in Nat /\ (outbox[i] # "ABSENT" => n \in 0 .. MaxRetries + 1)
    BY <2>3
  <2>6. UNCHANGED <<status, made, votes, cloud, stale, bounds>>
    BY <1>23 DEF SaveAnswer
  <2>7. \/ outbox' = outbox /\ tries' = tries
        \/ outbox' = [outbox EXCEPT ![i] = "SYNCED"] /\ tries' = tries
        \/ /\ outbox' = [outbox EXCEPT ![i] = IF n > MaxRetries THEN "FAILED" ELSE "RETRY"]
           /\ tries' = [tries EXCEPT ![i] = n] /\ outbox[i] # "ABSENT"
    BY <1>23 DEF SaveAnswer, Spent
  <2>8. i \in VoteIds /\ outbox \in [VoteIds -> RowStatus] /\ tries \in [VoteIds -> 0 .. MaxRetries + 1]
    BY <1>0, <2>1 DEF TableTypes
  <2>. HIDE DEF i, n
  <2>9. outbox' \in [VoteIds -> RowStatus]
    BY <2>7, <2>8 DEF RowStatus
  <2>10. tries' \in [VoteIds -> 0 .. MaxRetries + 1]
    BY <2>5, <2>7, <2>8
  <2>11. \A j \in VoteIds \ {i} : outbox'[j] = outbox[j] /\ tries'[j] = tries[j]
    BY <2>7, <2>8
  <2>12. outbox'[i] \in {"PENDING", "RETRY"} => tries'[i] <= MaxRetries
    BY <1>d, <2>5, <2>7, <2>8
  <2>13. i <= Len(made)
    BY <2>1, <1>c DEF i
  <2>14. \A j \in VoteIds : /\ outbox'[j] # "ABSENT" => j <= Len(made)
                            /\ outbox'[j] \in {"PENDING", "RETRY"} => tries'[j] <= MaxRetries
                            /\ j > Len(made) => tries'[j] = 0
    BY <1>c, <1>d, <2>8, <2>11, <2>12, <2>13
  <2>4. TableTypes'
    BY <1>0, <2>6, <2>9, <2>10, <2>14 DEF TableTypes, cloud, bounds
  <2>. QED  BY <1>19, <1>23, <2>2, <2>4 DEF SaveAnswer, bounds, TypeInv
<1>24. CASE UNCHANGED vars
  BY <1>0, <1>24, <1>19 DEF vars, lan, cloud, bounds, TypeInv, TableTypes, PushTypes
<1>. QED
  BY <1>1, <1>2, <1>3, <1>5, <1>6, <1>7, <1>9, <1>10, <1>13, <1>14, <1>15, <1>16, <1>17, <1>18,
     <1>20, <1>21, <1>22, <1>23, <1>24 DEF Next

-----------------------------------------------------------------------------
(* The chain of events.                                                     *)

LEMMA ChainMoves ==
    ASSUME TypeInv, ChainInv, NEW w \in Writers,
           \/ Look(w) \/ Commit(w) \/ RollBack(w) \/ UNCHANGED chain
           \/ \E about \in Nat : Write(w, about)
    PROVE  ChainInv'
<1>1. /\ events \subseteq AuditEvent /\ lastId \in Nat /\ seen \in [Writers -> Nat]
      /\ draft \in [Writers -> SUBSET AuditEvent]
  BY DEF TypeInv, ChainType
<1>2. CASE Look(w)
  BY <1>1, <1>2 DEF Look, ChainInv, LinksTo
<1>3. CASE Commit(w)
  <2>1. \A e \in events' : LinksTo(e)
    BY <1>1, <1>3 DEF Commit, ChainInv
  <2>2. Ids(events) \subseteq Ids(events') /\ lastId' = lastId
    BY <1>3 DEF Commit, Ids
  <2>3. \A e : LinksTo(e) => LinksTo(e)'
    BY <2>2 DEF LinksTo
  <2>4. \A e \in events' : LinksTo(e)'
    BY <2>1, <2>3
  <2>5. \A x \in Writers : draft'[x] \subseteq draft[x] /\ seen'[x] \in {0, seen[x]}
    BY <1>1, <1>3 DEF Commit, NoEvents
  <2>6. \A x \in Writers : \A e \in draft'[x] : LinksTo(e)'
    BY <2>3, <2>5 DEF ChainInv
  <2>7. \A i \in Ids(events') : i <= lastId
    BY <2>1 DEF Ids, LinksTo
  <2>8. \A x \in Writers : seen'[x] \in {0} \cup Ids(events')
    BY <2>2, <2>5 DEF ChainInv
  <2>. QED  BY <2>2, <2>4, <2>6, <2>7, <2>8 DEF ChainInv, Ids
<1>4. CASE RollBack(w)
  <2>1. \A x \in Writers : draft'[x] \subseteq draft[x] /\ seen'[x] \in {0, seen[x]}
    BY <1>1, <1>4 DEF RollBack, NoEvents
  <2>. QED  BY <1>4, <2>1 DEF RollBack, ChainInv, LinksTo
<1>5. ASSUME NEW about \in Nat, Write(w, about) PROVE ChainInv'
  <2> DEFINE new == [id |-> lastId + 1, prev |-> seen[w], about |-> about]
  <2>1. seen[w] \in {0} \cup Ids(events) /\ seen[w] <= lastId
    BY <1>1 DEF ChainInv
  <2>2. new.prev < new.id /\ new.id <= lastId' /\ new.prev \in {0} \cup Ids(events)
    BY <1>1, <1>5, <2>1 DEF Write
  <2>. HIDE DEF new
  <2>3. \A e : e = new => LinksTo(e)'
    BY <1>5, <2>2 DEF Write, LinksTo
  <2>4. \A e \in AuditEvent : LinksTo(e) => LinksTo(e)'
    BY <1>1, <1>5 DEF Write, LinksTo, AuditEvent
  <2>5. draft'[w] = {new} /\ \A x \in Writers \ {w} : draft'[x] = draft[x]
    BY <1>1, <1>5 DEF Write, new
  <2>9. \A x \in Writers : \A e \in draft[x] : e \in AuditEvent /\ LinksTo(e)
    BY <1>1 DEF ChainInv
  <2>6. \A x \in Writers : \A e \in draft'[x] : LinksTo(e)'
    BY <2>3, <2>4, <2>5, <2>9
  <2>7. \A e \in events : LinksTo(e)'
    BY <1>1, <2>4 DEF ChainInv
  <2>8. \A i \in Ids(events) : i <= lastId + 1
    <3>1. \A i \in Ids(events) : i <= lastId /\ i \in Nat
      BY <1>1 DEF ChainInv, Ids, AuditEvent
    <3>. QED  BY <1>1, <3>1
  <2>. QED  BY <1>5, <2>6, <2>7, <2>8 DEF Write, ChainInv
<1>6. CASE UNCHANGED chain
  BY <1>6 DEF ChainInv, chain, LinksTo, Ids
<1>. QED  BY <1>2, <1>3, <1>4, <1>5, <1>6

LEMMA ChainStep == IInv /\ [Next]_vars => ChainInv'
<1> SUFFICES ASSUME IInv, [Next]_vars PROVE ChainInv'
  OBVIOUS
<1>1. TypeInv /\ ChainInv /\ Clerk \in Writers
  BY Parameters DEF IInv
<1>2. ASSUME UNCHANGED chain PROVE ChainInv'
  BY <1>1, <1>2, ChainMoves
<1>3. ASSUME NEW r \in Requests, Undo(r) PROVE ChainInv'
  BY <1>1, <1>3, ChainMoves DEF Undo, Requests
<1>4. ASSUME NEW w \in Writers, BeginLog(w) \/ LogFails(w) \/ End(w) PROVE ChainInv'
  BY <1>1, <1>4, ChainMoves DEF BeginLog, LogFails, End
<1>5. ASSUME NEW w \in Writers, WriteLog(w) PROVE ChainInv'
  <2>1. req[w].id \in Nat
    BY <1>1 DEF TypeInv, ReqTypes, ReqType
  <2>. QED  BY <1>1, <1>5, <2>1, ChainMoves DEF WriteLog
<1>. QED
  BY <1>2, <1>3, <1>4, <1>5 DEF Next, vars, Cast, Insert, Refuse, Enter, Close, Open, ResetList,
     ResetVotes, ResetRows, ResetDies, SendNext, Send, Ingest, Lost, SaveAnswer

-----------------------------------------------------------------------------
(* Steps that touch no vote, no row and no reset.                           *)

Quiet ==
    /\ UNCHANGED <<made, votes, outbox, tries, cloud, push, stale, events, wiped, broken>>
    /\ faults \in Nat /\ faults' \in Nat /\ faults <= faults'
    /\ \A x \in Writers : Inserted(x)' =>
          Inserted(x) /\ req'[x].id = req[x].id /\ req'[x].voter = req[x].voter
    /\ \A v : (Resetting(v)' <=> Resetting(v)) /\ (Erasing(v)' <=> Erasing(v))
    /\ req'[Clerk].pc \in {"listed", "erased"} \/ req[Clerk].pc \in {"listed", "erased"} =>
          req'[Clerk].pc = req[Clerk].pc /\ req'[Clerk].voter = req[Clerk].voter

(* One writer moves; what the others have inserted stays.                   *)
LEMMA QuietMoves ==
    ASSUME TypeInv, NEW w \in Writers, \A x \in Writers \ {w} : req'[x] = req[x],
           UNCHANGED <<made, votes, outbox, tries, cloud, push, stale, events, wiped, broken>>,
           faults' \in {faults, faults + 1},
           Inserted(w)' => Inserted(w) /\ req'[w].id = req[w].id /\ req'[w].voter = req[w].voter,
           w = Clerk => /\ req[w].pc \notin {"listed", "erased"}
                        /\ req'[w].pc \notin {"listed", "erased"}
    PROVE  Quiet
<1>1. faults \in Nat /\ faults' \in Nat /\ faults <= faults' /\ Clerk \in Writers
  BY Parameters DEF TypeInv, TableTypes
<1>2. \A x \in Writers : Inserted(x)' =>
          Inserted(x) /\ req'[x].id = req[x].id /\ req'[x].voter = req[x].voter
  BY DEF Inserted
<1>3. \/ req'[Clerk] = req[Clerk]
      \/ req[Clerk].pc \notin {"listed", "erased"} /\ req'[Clerk].pc \notin {"listed", "erased"}
  BY <1>1
<1>. QED  BY <1>1, <1>2, <1>3 DEF Quiet, Resetting, Erasing

LEMMA QuietSteps ==
    ASSUME TypeInv,
           \/ \E r \in Requests : Refuse(r) \/ Undo(r)
           \/ \E r \in Requests, v \in Voters, c \in Candidates : Enter(r, v, c)
           \/ \E w \in Writers : BeginLog(w) \/ WriteLog(w) \/ LogFails(w)
           \/ Close \/ Open \/ UNCHANGED vars
    PROVE  Quiet
<1>1. req \in [Writers -> ReqType] /\ faults \in Nat /\ Clerk \in Writers
  BY Parameters DEF TypeInv, ReqTypes, TableTypes
<1>2. ASSUME NEW r \in Requests, Refuse(r) \/ Undo(r) PROVE Quiet
  <2>1. /\ r \in Writers /\ r # Clerk /\ req' = [req EXCEPT ![r] = Idle]
        /\ UNCHANGED <<made, votes, outbox, tries, cloud, push, stale, events, wiped, broken>>
        /\ faults' \in {faults, faults + 1}
    BY <1>2 DEF Refuse, Undo, Fault, RollBack, lan, bounds, chain, Requests
  <2>2. req'[r] = Idle /\ \A x \in Writers \ {r} : req'[x] = req[x]
    BY <1>1, <2>1
  <2>3. ~Inserted(r)'
    BY <2>2 DEF Inserted, Idle
  <2>. QED  BY <2>1, <2>2, <2>3, QuietMoves
<1>3. ASSUME NEW r \in Requests, NEW v \in Voters, NEW c \in Candidates, Enter(r, v, c) PROVE Quiet
  <2>1. /\ r \in Writers /\ r # Clerk
        /\ req' = [req EXCEPT ![r] = [pc |-> "checked", voter |-> v, choice |-> c, id |-> 0]]
        /\ UNCHANGED <<made, votes, outbox, tries, cloud, push, stale, events, wiped, broken>>
        /\ faults' \in {faults, faults + 1}
    BY <1>3 DEF Enter, lan, bounds, chain, Requests
  <2>2. req'[r].pc = "checked" /\ \A x \in Writers \ {r} : req'[x] = req[x]
    BY <1>1, <2>1
  <2>3. ~Inserted(r)'
    BY <2>2 DEF Inserted
  <2>. QED  BY <2>1, <2>2, <2>3, QuietMoves
<1>4. ASSUME NEW w \in Writers, BeginLog(w) \/ WriteLog(w) \/ LogFails(w) PROVE Quiet
  <2>1. PICK pc \in {"looking", "logged"} : req' = [req EXCEPT ![w].pc = pc]
    BY <1>4 DEF BeginLog, WriteLog, LogFails
  <2>2. /\ req[w].pc \in {"cast", "looking"}
        /\ UNCHANGED <<made, votes, outbox, tries, cloud, push, stale, events, wiped, broken>>
        /\ faults' \in {faults, faults + 1}
    BY <1>4 DEF BeginLog, WriteLog, LogFails, Look, Write, RollBack, Fault, lan, bounds
  <2>3. req[w] \in ReqType
    BY <1>1
  <2>4. /\ req'[w].pc = pc /\ req'[w].id = req[w].id /\ req'[w].voter = req[w].voter
        /\ \A x \in Writers \ {w} : req'[x] = req[x]
    BY <1>1, <2>1, <2>3 DEF ReqType
  <2>5. Inserted(w)' => Inserted(w)
    BY <2>2, <2>4 DEF Inserted
  <2>. QED  BY <2>2, <2>4, <2>5, QuietMoves
<1>5. CASE Close \/ Open
  <2>1. /\ req' = [req EXCEPT ![Clerk] = [Idle EXCEPT !.pc = "cast"]] /\ req[Clerk].pc = "idle"
        /\ UNCHANGED <<made, votes, outbox, tries, cloud, push, stale, events, wiped, broken>>
        /\ faults' \in {faults, faults + 1}
    BY <1>5 DEF Close, Open, Log, lan, bounds, chain
  <2>2. req'[Clerk].pc = "cast" /\ req'[Clerk].id = 0 /\ \A x \in Writers \ {Clerk} : req'[x] = req[x]
    BY <1>1, <2>1 DEF Idle
  <2>3. ~Inserted(Clerk)'
    BY <2>2 DEF Inserted
  <2>. QED  BY <1>1, <2>1, <2>2, <2>3, QuietMoves
<1>6. CASE UNCHANGED vars
  BY <1>1, <1>6 DEF vars, lan, cloud, bounds, chain, Quiet, Resetting, Erasing, Inserted
<1>. QED  BY <1>2, <1>3, <1>4, <1>5, <1>6

-----------------------------------------------------------------------------
(* What was counted in the cloud.                                           *)

LEMMA CountStep == IInv /\ [Next]_vars => CountInv'
<1> SUFFICES ASSUME IInv, [Next]_vars PROVE CountInv'
  OBVIOUS
<1> USE Parameters
<1>1. TypeInv /\ CountInv
  BY DEF IInv
<1>2. /\ cloudRows \subseteq 1 .. Len(made) /\ Len(made) \in Nat /\ Len(made) <= MaxVotes
      /\ outbox \in [VoteIds -> RowStatus] /\ cloudVote \in [Voters -> Candidates \cup {Nobody}]
      /\ \A i \in 1 .. Len(made) : made[i].voter \in Voters /\ made[i].choice \in Candidates
  BY <1>1, MadeTypes DEF TypeInv, TableTypes
<1>3. ASSUME UNCHANGED <<made, cloud>>, push'.code = "200" => UNCHANGED push,
             \A i \in VoteIds : outbox'[i] = "SYNCED" => i \in cloudRows
      PROVE  CountInv'
  BY <1>1, <1>3 DEF CountInv, cloud, Of
<1>4. \A i \in VoteIds : outbox[i] = "SYNCED" => i \in cloudRows
  BY <1>1 DEF CountInv
<1>5. ASSUME Quiet PROVE CountInv'
  BY <1>3, <1>4, <1>5 DEF Quiet
<1>6. ASSUME NEW r \in Requests, Cast(r) PROVE CountInv'
  <2>1. Insert(r) /\ req[r].pc = "checked"
    BY <1>6 DEF Cast
  <2>2. /\ \A i \in 1 .. Len(made) : made'[i] = made[i]
        /\ UNCHANGED <<outbox, cloudRows, cloudVote, push>>
    BY <1>1, <2>1, InsertMade DEF Insert, cloud
  <2>3. \A v \in Voters : Of(cloudRows, v)' = Of(cloudRows, v)
    BY <1>2, <2>2 DEF Of
  <2>4. \A i \in cloudRows : made'[i] = made[i]
    BY <1>2, <2>2
  <2>. QED  BY <1>1, <2>2, <2>3, <2>4 DEF CountInv
<1>7. ASSUME NEW w \in Writers, End(w) PROVE CountInv'
  <2>1. \A i \in VoteIds : outbox'[i] = "SYNCED" => outbox[i] = "SYNCED"
    BY <1>2, <1>7 DEF End
  <2>. QED  BY <1>3, <1>4, <1>7, <2>1 DEF End
<1>8. ASSUME (\E v \in Voters : ResetList(v)) \/ ResetVotes \/ ResetRows \/ ResetDies PROVE CountInv'
  <2>1. \A i \in VoteIds : outbox'[i] = "SYNCED" => outbox[i] = "SYNCED"
    BY <1>2, <1>8 DEF ResetList, ResetVotes, ResetRows, ResetDies, lan
  <2>. QED  BY <1>3, <1>4, <1>8, <2>1 DEF ResetList, ResetVotes, ResetRows, ResetDies, lan
<1>9. CASE SendNext
  <2>1. PICK i \in VoteIds : Send(i)
    BY <1>9 DEF SendNext
  <2>. QED  BY <1>3, <1>4, <2>1 DEF Send, lan
<1>10. CASE Ingest
  <2> DEFINE i == push.id  v == made[i].voter
  <2>1. i \in 1 .. Len(made) /\ i \in VoteIds /\ v \in Voters /\ push' = [push EXCEPT !.code = push'.code]
        /\ UNCHANGED <<made, outbox>>
    BY <1>1, <1>2, <1>10 DEF Ingest, Answer, TypeInv, PushTypes, NoPush, lan
  <2>2. CASE UNCHANGED cloud /\ (push'.code = "200" => i \in cloudRows)
    BY <1>1, <2>1, <2>2 DEF CountInv, cloud, Of, TypeInv, PushTypes
  <2>3. CASE /\ Of(cloudRows, v) = {} /\ cloudRows' = cloudRows \cup {i}
             /\ cloudVote' = [cloudVote EXCEPT ![v] = made[i].choice]
    <3>1. push'.id = i
      BY <1>1, <2>1 DEF TypeInv, PushTypes
    <3>2. \A j \in cloudRows : made[j].voter # v /\ made[j].voter \in Voters
      BY <1>2, <2>3 DEF Of
    <3>3. \A j \in cloudRows' : cloudVote'[made[j].voter] = made[j].choice
      BY <1>1, <1>2, <2>1, <2>3, <3>2 DEF CountInv
    <3>4. \A j, k \in cloudRows' : made[j].voter = made[k].voter => j = k
      BY <1>1, <2>3, <3>2 DEF CountInv
    <3>5. \A u \in Voters : cloudVote'[u] # Nobody => Of(cloudRows, u)' # {}
      BY <1>1, <1>2, <2>1, <2>3 DEF CountInv, Of
    <3>. QED  BY <1>1, <2>1, <2>3, <3>1, <3>3, <3>4, <3>5 DEF CountInv
  <2>4. CASE i \in cloudRows
    BY <1>10, <2>2, <2>4 DEF Ingest
  <2>5. CASE i \notin cloudRows /\ Of(cloudRows, v) # {}
    <3>1. push' = [push EXCEPT !.code = "422"] /\ UNCHANGED cloud
      BY <1>10, <2>5 DEF Ingest, Answer
    <3>2. push'.code = "422"
      BY <1>1, <3>1 DEF TypeInv, PushTypes
    <3>. QED  BY <2>2, <3>1, <3>2
  <2>6. CASE i \notin cloudRows /\ Of(cloudRows, v) = {}
    BY <1>10, <2>3, <2>6 DEF Ingest
  <2>. QED  BY <2>4, <2>5, <2>6
<1>11. CASE Lost
  BY <1>1, <1>3, <1>4, <1>11 DEF Lost, Answer, lan, TypeInv, PushTypes
<1>12. CASE SaveAnswer
  <2>1. \A i \in VoteIds : outbox'[i] = "SYNCED" => i \in cloudRows
    BY <1>1, <1>2, <1>12 DEF SaveAnswer, CountInv, Taken
  <2>. QED  BY <1>3, <1>12, <2>1 DEF SaveAnswer, NoPush
<1>. QED
  BY <1>1, <1>5, <1>6, <1>7, <1>8, <1>9, <1>10, <1>11, <1>12, QuietSteps DEF Next

-----------------------------------------------------------------------------
(* The votes of the LAN.                                                    *)

LEMMA VoteQuiet == ASSUME IInv, Quiet PROVE VoteInv'
<1>1. VoteInv
  BY DEF IInv
<1>2. \A v : HasVote(v)' = HasVote(v) /\ Of(votes, v)' = Of(votes, v)
  BY DEF Quiet, HasVote, Of
<1>3. OneVote' /\ LoggedWasCast' /\ \A e \in events' : e.about <= Len(made')
  BY <1>1 DEF Quiet, VoteInv, OneVote, LoggedWasCast
<1>4. \A r \in Writers : Inserted(r)' =>
          /\ made'[req'[r].id].voter = req'[r].voter /\ ~HasVote(req[r].voter)'
          /\ outbox'[req'[r].id] = "ABSENT" /\ req'[r].id \notin cloudRows' /\ push'.id # req'[r].id
          /\ tries'[req'[r].id] = 0
  BY <1>1, <1>2 DEF Quiet, VoteInv, cloud
<1>5. \A r, x \in Writers : Inserted(r)' /\ Inserted(x)' /\ req'[r].voter = req'[x].voter => r = x
  BY <1>1 DEF Quiet, VoteInv
<1>6. \A i \in VoteIds : outbox'[i] # "ABSENT" =>
          i \in votes' \/ made'[i].voter \in broken' \/ Erasing(made[i].voter)'
  BY <1>1 DEF Quiet, VoteInv
<1>7. req'[Clerk].pc = "listed" => stale' = Of(votes, req[Clerk].voter)' /\ HasVote(req[Clerk].voter)'
  BY <1>1, <1>2 DEF Quiet, VoteInv
<1>. QED  BY <1>3, <1>4, <1>5, <1>6, <1>7 DEF VoteInv

(* What the push changes.                                                   *)
LEMMA VotePushed ==
    ASSUME IInv, UNCHANGED <<made, votes, req, stale, events, wiped, broken>>,
           \A i \in VoteIds : outbox'[i] # "ABSENT" => outbox[i] # "ABSENT",
           \A r \in Writers : Inserted(r) =>
              /\ req[r].id \notin cloudRows' /\ push'.id # req[r].id
              /\ outbox'[req[r].id] = "ABSENT" /\ tries'[req[r].id] = 0
    PROVE  VoteInv'
<1>1. VoteInv
  BY DEF IInv
<1>2. \A r \in Writers : Inserted(r)' = Inserted(r)
  BY DEF Inserted
<1>. QED  BY <1>1, <1>2 DEF VoteInv, OneVote, LoggedWasCast, HasVote, Of, Erasing

LEMMA VoteStep == IInv /\ [Next]_vars => VoteInv'
<1> SUFFICES ASSUME IInv, [Next]_vars PROVE VoteInv'
  OBVIOUS
<1> USE Parameters
<1>1. TypeInv /\ VoteInv
  BY DEF IInv
<1>2. /\ votes \subseteq 1 .. Len(made) /\ cloudRows \subseteq 1 .. Len(made)
      /\ Len(made) \in Nat /\ Len(made) <= MaxVotes /\ Clerk \in Writers
      /\ outbox \in [VoteIds -> RowStatus] /\ tries \in [VoteIds -> 0 .. MaxRetries + 1]
      /\ \A i \in VoteIds : /\ outbox[i] # "ABSENT" => i <= Len(made)
                            /\ i > Len(made) => tries[i] = 0
  <2>1. TableTypes
    BY <1>1 DEF TypeInv
  <2>2. \A i \in VoteIds : /\ outbox[i] # "ABSENT" => i <= Len(made)
                           /\ i > Len(made) => tries[i] = 0
    BY <2>1, Zenon DEF TableTypes
  <2>. QED  BY <1>1, <2>1, <2>2, MadeTypes DEF TableTypes
<1>3. req \in [Writers -> ReqType] /\ \A w \in Writers : req[w].id \in Nat /\ req[w].id <= Len(made)
  BY <1>1 DEF TypeInv, ReqTypes, ReqType
<1>4. push = NoPush \/ (push.id \in 1 .. Len(made) /\ outbox[push.id] # "SYNCED")
  BY <1>1 DEF TypeInv, PushTypes
<1>5. ASSUME NEW r \in Requests, Cast(r) PROVE VoteInv'
  <2>1. /\ Insert(r) /\ req[r].pc = "checked" /\ r \in Writers /\ r # Clerk
        /\ ~HasVote(req[r].voter) /\ \A x \in Writers : Inserted(x) => req[x].voter # req[r].voter
    BY <1>5 DEF Cast, Requests
  <2>2. /\ Len(made') = Len(made) + 1 /\ Len(made') <= MaxVotes
        /\ \A i \in 1 .. Len(made) : made'[i] = made[i]
        /\ made'[Len(made) + 1].voter = req[r].voter
    <3>1. /\ Len(made') = Len(made) + 1 /\ Len(made') <= MaxVotes
          /\ \A i \in 1 .. Len(made) : made'[i] = made[i]
          /\ made'[Len(made) + 1] = [voter |-> req[r].voter, choice |-> req[r].choice]
      BY <1>1, <2>1, InsertMade
    <3>. QED  BY <3>1
  <2>3. /\ UNCHANGED <<votes, outbox, tries, cloudRows, push, stale, events, wiped, broken>>
        /\ req' = [req EXCEPT ![r].pc = "cast", ![r].id = Len(made) + 1]
    BY <2>1 DEF Insert, cloud, bounds, chain
  <2>4. req[r] \in ReqType
    BY <1>3, <2>1
  <2>5. /\ req'[r].pc = "cast" /\ req'[r].id = Len(made) + 1 /\ req'[r].voter = req[r].voter
        /\ \A x \in Writers \ {r} : req'[x] = req[x]
    BY <1>3, <2>1, <2>3, <2>4 DEF ReqType
  <2>6. \A v : Of(votes, v)' = Of(votes, v) /\ HasVote(v)' = HasVote(v)
    BY <1>2, <2>2, <2>3 DEF Of, HasVote
  <2>7. \A x \in Writers \ {r} : Inserted(x)' => Inserted(x)
    BY <2>5 DEF Inserted
  <2>8. /\ outbox[Len(made) + 1] = "ABSENT" /\ tries[Len(made) + 1] = 0
        /\ Len(made) + 1 \notin cloudRows /\ push.id # Len(made) + 1
    <3>1. Len(made) + 1 \in VoteIds /\ Len(made) + 1 > Len(made)
      BY <1>2, <2>2
    <3>. QED  BY <1>2, <1>4, <3>1 DEF NoPush
  <2>9. ASSUME NEW x \in Writers, Inserted(x)'
        PROVE  /\ made'[req'[x].id].voter = req'[x].voter /\ ~HasVote(req[x].voter)'
               /\ outbox'[req'[x].id] = "ABSENT" /\ req'[x].id \notin cloudRows' /\ push'.id # req'[x].id
               /\ tries'[req'[x].id] = 0
    <3>1. CASE x = r
      BY <2>1, <2>2, <2>3, <2>5, <2>6, <2>8, <3>1
    <3>2. CASE x # r
      <4>1. Inserted(x) /\ req'[x] = req[x] /\ req[x].id \in 1 .. Len(made)
        BY <1>3, <2>5, <2>7, <2>9, <3>2 DEF Inserted
      <4>2. made'[req'[x].id] = made[req[x].id]
        BY <2>2, <4>1
      <4>3. /\ made[req[x].id].voter = req[x].voter /\ ~HasVote(req[x].voter)
            /\ outbox[req[x].id] = "ABSENT" /\ req[x].id \notin cloudRows /\ push.id # req[x].id
            /\ tries[req[x].id] = 0
        BY <1>1, <4>1 DEF VoteInv
      <4>4. ~HasVote(req[x].voter)'
        BY <2>6, <4>1, <4>3
      <4>5. made'[req'[x].id].voter = req'[x].voter
        BY <4>1, <4>2, <4>3
      <4>6. outbox'[req'[x].id] = "ABSENT" /\ tries'[req'[x].id] = 0
        BY <2>3, <4>1, <4>3
      <4>7. req'[x].id \notin cloudRows' /\ push'.id # req'[x].id
        <5>1. cloudRows' = cloudRows /\ push' = push /\ req'[x].id = req[x].id
          BY <2>3, <4>1
        <5>. QED  BY <4>3, <5>1
      <4>. QED  BY <4>4, <4>5, <4>6, <4>7
    <3>. QED  BY <3>1, <3>2
  <2>10. \A x, y \in Writers : Inserted(x)' /\ Inserted(y)' /\ req'[x].voter = req'[y].voter => x = y
    BY <1>1, <2>1, <2>5, <2>7 DEF VoteInv
  <2>11. \A v : Erasing(v)' = Erasing(v)
    BY <1>2, <2>1, <2>5 DEF Erasing
  <2>12. \A i \in VoteIds : outbox'[i] # "ABSENT" =>
            i \in votes' \/ made'[i].voter \in broken' \/ (\E v : v = made'[i].voter /\ Erasing(v)')
    <3>. SUFFICES ASSUME NEW i \in VoteIds, outbox'[i] # "ABSENT"
                  PROVE i \in votes' \/ made'[i].voter \in broken' \/ (\E v : v = made'[i].voter /\ Erasing(v)')
      OBVIOUS
    <3>1. i \in 1 .. Len(made) /\ outbox[i] # "ABSENT" /\ made'[i] = made[i]
      BY <1>2, <2>2, <2>3
    <3>. QED  BY <1>1, <2>3, <2>11, <3>1 DEF VoteInv
  <2>13. OneVote'
    BY <1>1, <1>2, <2>2, <2>3 DEF OneVote, VoteInv
  <2>14. \A e \in events : e.about \in Nat /\ (e.about # 0 => made'[e.about] = made[e.about])
    BY <1>1, <1>2, <2>2 DEF VoteInv, TypeInv, ChainType, AuditEvent
  <2>15. LoggedWasCast' /\ \A e \in events' : e.about <= Len(made')
    BY <1>1, <1>2, <2>2, <2>3, <2>14 DEF LoggedWasCast, VoteInv
  <2>16. req'[Clerk].pc = "listed" => stale' = Of(votes, req[Clerk].voter)' /\ HasVote(req[Clerk].voter)'
    BY <1>1, <1>2, <2>1, <2>3, <2>5, <2>6 DEF VoteInv
  <2>. QED  BY <2>9, <2>10, <2>12, <2>13, <2>15, <2>16 DEF VoteInv
<1>6. ASSUME NEW w \in Writers, End(w) PROVE VoteInv'
  <2>1. /\ req[w].pc = "logged" /\ req' = [req EXCEPT ![w] = Idle]
        /\ events' = events \cup draft[w]
        /\ UNCHANGED <<made, tries, cloudRows, push, stale, wiped, broken>>
    BY <1>6 DEF End, Commit, cloud, bounds
  <2>2. req'[w] = Idle /\ ~Inserted(w)' /\ \A x \in Writers \ {w} : req'[x] = req[x]
    BY <1>3, <2>1 DEF Inserted, Idle
  <2>3. \A x \in Writers : Inserted(x)' => x # w /\ Inserted(x)
    BY <2>2 DEF Inserted
  <2>4. \A v : Erasing(v)' = Erasing(v)
    BY <1>2, <2>1, <2>2 DEF Erasing, Idle
  <2>5. /\ \A i \in votes' : i \in votes \/ (i = req[w].id /\ Inserted(w))
        /\ votes \subseteq votes' /\ (req[w].id # 0 => req[w].id \in votes')
        /\ \A i \in VoteIds : outbox'[i] = outbox[i] \/ (i = req[w].id /\ Inserted(w))
    BY <1>2, <1>6, <2>1 DEF End, Inserted
  <2>6. Inserted(w) => made[req[w].id].voter = req[w].voter /\ ~HasVote(req[w].voter)
    BY <1>1 DEF VoteInv
  <2>7. OneVote'
    BY <1>1, <2>1, <2>5, <2>6 DEF VoteInv, OneVote, HasVote, Of
  <2>8. ASSUME NEW x \in Writers, Inserted(x)'
        PROVE  /\ made'[req'[x].id].voter = req'[x].voter /\ ~HasVote(req[x].voter)'
               /\ outbox'[req'[x].id] = "ABSENT" /\ req'[x].id \notin cloudRows' /\ push'.id # req'[x].id
               /\ tries'[req'[x].id] = 0
    <3>1. /\ Inserted(x) /\ x # w /\ req'[x] = req[x] /\ req[x].id \in VoteIds
          /\ made[req[x].id].voter = req[x].voter /\ ~HasVote(req[x].voter)
          /\ (Inserted(w) => req[w].voter # req[x].voter)
      BY <1>1, <1>2, <1>3, <2>2, <2>3, <2>8 DEF VoteInv, Inserted
    <3>2. ~HasVote(req[x].voter)'
      BY <2>1, <2>5, <2>6, <3>1 DEF HasVote, Of
    <3>3. outbox'[req[x].id] = outbox[req[x].id]
      BY <2>5, <2>6, <3>1
    <3>. QED  BY <1>1, <2>1, <3>1, <3>2, <3>3 DEF VoteInv
  <2>9. \A x, y \in Writers : Inserted(x)' /\ Inserted(y)' /\ req'[x].voter = req'[y].voter => x = y
    BY <1>1, <2>2, <2>3 DEF VoteInv
  <2>10. \A i \in VoteIds : outbox'[i] # "ABSENT" =>
            i \in votes' \/ made'[i].voter \in broken' \/ (\E v : v = made'[i].voter /\ Erasing(v)')
    <3>. SUFFICES ASSUME NEW i \in VoteIds, outbox'[i] # "ABSENT"
                  PROVE i \in votes' \/ made'[i].voter \in broken' \/ (\E v : v = made'[i].voter /\ Erasing(v)')
      OBVIOUS
    <3>1. outbox[i] # "ABSENT" \/ i \in votes'
      BY <2>5 DEF Inserted
    <3>. QED  BY <1>1, <2>1, <2>4, <2>5, <3>1 DEF VoteInv
  <2>11. \A e \in events' : e.about <= Len(made')
    BY <1>1, <1>3, <2>1 DEF VoteInv, TypeInv, ReqTypes
  <2>12. \A e \in draft[w] : e.about = req[w].id
    BY <1>1 DEF TypeInv, ReqTypes
  <2>13. LoggedWasCast'
    BY <1>1, <2>1, <2>5, <2>12 DEF VoteInv, LoggedWasCast
  <2>14. req'[Clerk].pc = "listed" => stale' = Of(votes, req[Clerk].voter)' /\ HasVote(req[Clerk].voter)'
    <3>. SUFFICES ASSUME req'[Clerk].pc = "listed"
                  PROVE stale' = Of(votes, req[Clerk].voter)' /\ HasVote(req[Clerk].voter)'
      OBVIOUS
    <3>1. req'[Clerk] = req[Clerk] /\ stale = Of(votes, req[Clerk].voter) /\ HasVote(req[Clerk].voter)
      BY <1>1, <1>2, <2>2 DEF VoteInv, Idle
    <3>2. Inserted(w) => req[w].voter # req[Clerk].voter
      BY <2>6, <3>1
    <3>. QED  BY <2>1, <2>5, <2>6, <3>1, <3>2 DEF HasVote, Of
  <2>. QED  BY <2>7, <2>8, <2>9, <2>10, <2>11, <2>13, <2>14 DEF VoteInv
<1>7. ASSUME NEW v \in Voters, ResetList(v) PROVE VoteInv'
  <2>1. /\ req[Clerk].pc = "idle" /\ HasVote(v) /\ stale' = Of(votes, v) /\ wiped' = wiped \cup {v}
        /\ req' = [req EXCEPT ![Clerk] = [Idle EXCEPT !.pc = "listed", !.voter = v]]
        /\ UNCHANGED <<made, votes, outbox, tries, cloudRows, push, events, broken>>
    BY <1>7 DEF ResetList, lan, cloud, chain
  <2>2. Idle \in [pc : {"idle"}, voter : {Nobody}, choice : {Nobody}, id : {0}]
    BY DEF Idle
  <2>3. /\ req'[Clerk].pc = "listed" /\ req'[Clerk].voter = v
        /\ \A x \in Writers \ {Clerk} : req'[x] = req[x]
    BY <1>2, <1>3, <2>1, <2>2
  <2>4. \A x \in Writers : Inserted(x)' => Inserted(x) /\ req'[x] = req[x]
    BY <2>3 DEF Inserted
  <2>5. \A u : ~Erasing(u)
    BY <2>1 DEF Erasing
  <2>6. LoggedWasCast' /\ OneVote' /\ \A e \in events' : e.about <= Len(made')
    BY <1>1, <2>1 DEF VoteInv, LoggedWasCast, OneVote
  <2>7. VoteInv'
    <3>1. \A x \in Writers : Inserted(x)' =>
             /\ made'[req'[x].id].voter = req'[x].voter /\ ~HasVote(req[x].voter)'
             /\ outbox'[req'[x].id] = "ABSENT" /\ req'[x].id \notin cloudRows' /\ push'.id # req'[x].id
             /\ tries'[req'[x].id] = 0
      <4>1. \A u : HasVote(u)' <=> HasVote(u)
        BY <2>1 DEF HasVote, Of
      <4>2. SUFFICES ASSUME NEW x \in Writers, Inserted(x)'
                     PROVE  /\ made'[req'[x].id].voter = req'[x].voter /\ ~HasVote(req[x].voter)'
                            /\ outbox'[req'[x].id] = "ABSENT" /\ req'[x].id \notin cloudRows' /\ push'.id # req'[x].id
                            /\ tries'[req'[x].id] = 0
        OBVIOUS
      <4>3. Inserted(x) /\ req'[x] = req[x]
        BY <2>4, <4>2
      <4>4. /\ made[req[x].id].voter = req[x].voter /\ ~HasVote(req[x].voter)
            /\ outbox[req[x].id] = "ABSENT" /\ req[x].id \notin cloudRows /\ push.id # req[x].id
            /\ tries[req[x].id] = 0
        BY <1>1, <4>3 DEF VoteInv
      <4>5. ~HasVote(req[x].voter)'
        BY <4>1, <4>3, <4>4
      <4>6. outbox'[req[x].id] = "ABSENT" /\ UNCHANGED <<made, cloudRows, push, tries>>
        BY <2>1, <2>4, <4>3, <4>4
      <4>. QED  BY <4>3, <4>4, <4>5, <4>6
    <3>2. \A x, y \in Writers : Inserted(x)' /\ Inserted(y)' /\ req'[x].voter = req'[y].voter => x = y
      BY <1>1, <2>4 DEF VoteInv
    <3>3. \A i \in VoteIds : outbox'[i] # "ABSENT" => i \in votes' \/ made'[i].voter \in broken'
      BY <1>1, <2>1, <2>5 DEF VoteInv
    <3>4. stale' = Of(votes, req[Clerk].voter)' /\ HasVote(req[Clerk].voter)'
      BY <2>1, <2>3 DEF HasVote, Of
    <3>. QED  BY <2>6, <3>1, <3>2, <3>3, <3>4 DEF VoteInv
  <2>. QED  BY <2>7
<1>8. CASE ResetVotes
  <2>1. /\ req[Clerk].pc = "listed" /\ votes' = votes \ stale
        /\ req' = [req EXCEPT ![Clerk].pc = "erased"]
        /\ UNCHANGED <<made, outbox, tries, cloudRows, push, events, wiped, broken>>
    BY <1>8 DEF ResetVotes, cloud, bounds, chain
  <2>2. req[Clerk] \in ReqType
    BY <1>2, <1>3
  <2>3. /\ req'[Clerk].pc = "erased" /\ req'[Clerk].voter = req[Clerk].voter
        /\ \A x \in Writers \ {Clerk} : req'[x] = req[x]
    BY <1>2, <1>3, <2>1, <2>2 DEF ReqType
  <2>4. \A x \in Writers : Inserted(x)' => Inserted(x) /\ req'[x] = req[x]
    BY <2>3 DEF Inserted
  <2>5. stale = Of(votes, req[Clerk].voter) /\ req[Clerk].voter \in wiped
    BY <1>1, <2>1 DEF VoteInv, TypeInv, ReqTypes
  <2>6. \A i \in votes : i \in votes' \/ made[i].voter = req[Clerk].voter
    BY <2>1, <2>5 DEF Of
  <2>7. LoggedWasCast' /\ OneVote' /\ \A e \in events' : e.about <= Len(made')
    BY <1>1, <2>1, <2>5, <2>6 DEF VoteInv, LoggedWasCast, OneVote
  <2>8. \A i \in VoteIds : outbox[i] # "ABSENT" =>
            i \in votes' \/ made[i].voter \in broken \/ made[i].voter = req[Clerk].voter
    BY <1>1, <2>1, <2>6 DEF VoteInv, Erasing
  <2>. QED  BY <1>1, <2>1, <2>3, <2>4, <2>7, <2>8 DEF VoteInv, HasVote, Of, Erasing
<1>9. CASE ResetRows
  <2>1. /\ req[Clerk].pc = "erased" /\ req' = [req EXCEPT ![Clerk] = [Idle EXCEPT !.pc = "cast"]]
        /\ outbox' = [i \in VoteIds |-> IF i <= Len(made) /\ made[i].voter = req[Clerk].voter
                                        THEN "ABSENT" ELSE outbox[i]]
        /\ UNCHANGED <<made, votes, tries, cloudRows, push, events, wiped, broken>>
    BY <1>9 DEF ResetRows, Log, cloud, bounds, chain
  <2>2. req'[Clerk].pc = "cast" /\ req'[Clerk].id = 0 /\ \A x \in Writers \ {Clerk} : req'[x] = req[x]
    BY <1>2, <1>3, <2>1 DEF Idle
  <2>3. \A x \in Writers : Inserted(x)' => Inserted(x) /\ req'[x] = req[x]
    BY <2>2 DEF Inserted
  <2>4. \A i \in VoteIds : /\ outbox'[i] # "ABSENT" => outbox'[i] = outbox[i] /\ made[i].voter # req[Clerk].voter
                           /\ outbox[i] = "ABSENT" => outbox'[i] = "ABSENT"
    BY <1>2, <2>1
  <2>5. \A x \in Writers : Inserted(x) => outbox[req[x].id] = "ABSENT" /\ req[x].id \in VoteIds
    BY <1>1, <1>2, <1>3 DEF VoteInv, Inserted
  <2>6. LoggedWasCast' /\ OneVote' /\ \A e \in events' : e.about <= Len(made')
    BY <1>1, <2>1 DEF VoteInv, LoggedWasCast, OneVote
  <2>7. \A i \in VoteIds : outbox'[i] # "ABSENT" => i \in votes \/ made[i].voter \in broken
    BY <1>1, <2>4 DEF VoteInv, Erasing
  <2>8. VoteInv'
    <3>1. \A x \in Writers : Inserted(x)' =>
             /\ made'[req'[x].id].voter = req'[x].voter /\ ~HasVote(req[x].voter)'
             /\ outbox'[req'[x].id] = "ABSENT" /\ req'[x].id \notin cloudRows' /\ push'.id # req'[x].id
             /\ tries'[req'[x].id] = 0
      <4>1. \A u : HasVote(u)' <=> HasVote(u)
        BY <2>1 DEF HasVote, Of
      <4>2. SUFFICES ASSUME NEW x \in Writers, Inserted(x)'
                     PROVE  /\ made'[req'[x].id].voter = req'[x].voter /\ ~HasVote(req[x].voter)'
                            /\ outbox'[req'[x].id] = "ABSENT" /\ req'[x].id \notin cloudRows' /\ push'.id # req'[x].id
                            /\ tries'[req'[x].id] = 0
        OBVIOUS
      <4>3. Inserted(x) /\ req'[x] = req[x]
        BY <2>3, <4>2
      <4>4. /\ made[req[x].id].voter = req[x].voter /\ ~HasVote(req[x].voter)
            /\ outbox[req[x].id] = "ABSENT" /\ req[x].id \notin cloudRows /\ push.id # req[x].id
            /\ tries[req[x].id] = 0
        BY <1>1, <4>3 DEF VoteInv
      <4>5. ~HasVote(req[x].voter)'
        BY <4>1, <4>3, <4>4
      <4>6. outbox'[req[x].id] = "ABSENT" /\ UNCHANGED <<made, cloudRows, push, tries>>
        BY <2>1, <2>4, <2>5, <4>3, <4>4
      <4>. QED  BY <4>3, <4>4, <4>5, <4>6
    <3>2. \A x, y \in Writers : Inserted(x)' /\ Inserted(y)' /\ req'[x].voter = req'[y].voter => x = y
      BY <1>1, <2>3 DEF VoteInv
    <3>. QED  BY <2>1, <2>2, <2>6, <2>7, <3>1, <3>2 DEF VoteInv
  <2>. QED  BY <2>8
<1>10. CASE ResetDies
  <2>1. /\ req[Clerk].pc \in {"listed", "erased"} /\ req' = [req EXCEPT ![Clerk] = Idle]
        /\ broken' = broken \cup {req[Clerk].voter}
        /\ UNCHANGED <<made, votes, outbox, tries, cloudRows, push, events, wiped>>
    BY <1>10 DEF ResetDies, Fault, lan, cloud, chain
  <2>2. req'[Clerk] = Idle /\ Idle.pc = "idle" /\ \A x \in Writers \ {Clerk} : req'[x] = req[x]
    BY <1>2, <1>3, <2>1 DEF Idle
  <2>3. \A x \in Writers : Inserted(x)' => Inserted(x) /\ req'[x] = req[x]
    BY <2>2 DEF Inserted
  <2>4. LoggedWasCast' /\ OneVote' /\ \A e \in events' : e.about <= Len(made')
    BY <1>1, <2>1 DEF VoteInv, LoggedWasCast, OneVote
  <2>5. \A i \in VoteIds : outbox'[i] # "ABSENT" => i \in votes \/ made[i].voter \in broken'
    BY <1>1, <2>1 DEF VoteInv, Erasing
  <2>. QED  BY <1>1, <2>1, <2>2, <2>3, <2>4, <2>5 DEF VoteInv, HasVote, Of
<1>11. \A r \in Writers : Inserted(r) =>
          /\ req[r].id \in VoteIds /\ outbox[req[r].id] = "ABSENT" /\ req[r].id \notin cloudRows
          /\ push.id # req[r].id /\ tries[req[r].id] = 0
  BY <1>1, <1>2, <1>3 DEF VoteInv, Inserted
<1>12. CASE SendNext
  <2>1. PICK i \in VoteIds : Send(i)
    BY <1>12 DEF SendNext
  <2>2. push'.id = i /\ outbox[i] # "ABSENT"
    BY <2>1 DEF Send
  <2>. QED  BY <1>11, <2>1, <2>2, VotePushed DEF Send, lan, cloud, bounds, chain
<1>13. CASE Ingest
  <2>1. push'.id = push.id /\ cloudRows' \subseteq cloudRows \cup {push.id}
    BY <1>1, <1>13 DEF Ingest, Answer, cloud, TypeInv, PushTypes
  <2>. QED  BY <1>11, <1>13, <2>1, VotePushed DEF Ingest, lan, bounds, chain
<1>14. CASE Lost
  <2>1. push'.id = push.id
    BY <1>1, <1>14 DEF Lost, Answer, TypeInv, PushTypes
  <2>. QED  BY <1>11, <1>14, <2>1, VotePushed DEF Lost, Fault, lan, cloud, chain
<1>15. CASE SaveAnswer
  <2>1. /\ push'.id = 0
        /\ UNCHANGED <<made, votes, req, stale, events, wiped, broken, cloudRows>>
    BY <1>15 DEF SaveAnswer, NoPush, cloud, bounds, chain
  <2>2. \A i \in VoteIds : outbox'[i] # "ABSENT" => outbox[i] # "ABSENT"
    BY <1>2, <1>15 DEF SaveAnswer
  <2>3. \A i \in VoteIds : i # push.id => tries'[i] = tries[i]
    BY <1>2, <1>15 DEF SaveAnswer
  <2>4. \A r \in Writers : Inserted(r) => req[r].id # 0
    BY DEF Inserted
  <2>. QED  BY <1>11, <2>1, <2>2, <2>3, <2>4, VotePushed
<1>16. ASSUME Quiet PROVE VoteInv'
  BY <1>16, VoteQuiet
<1>. QED
  BY <1>1, <1>5, <1>6, <1>7, <1>8, <1>9, <1>10, <1>12, <1>13, <1>14, <1>15, <1>16, QuietSteps DEF Next

-----------------------------------------------------------------------------
(* The first rows of a voter.                                               *)

(* No vote was cast, no row is new, no voter is fresh again: what each row  *)
(* of a fresh voter must still say.                                         *)
LEMMA FreshKept ==
    ASSUME IInv, UNCHANGED made, \A v : Fresh(v)' => Fresh(v),
           \A i \in VoteIds : outbox'[i] # "ABSENT" => outbox[i] # "ABSENT",
           \A i \in 1 .. Len(made) : Fresh(made[i].voter)' =>
              /\ i \in cloudRows' \/ push'.id = i => outbox'[i] # "ABSENT"
              /\ push'.id = i => push'.code # "422"
              /\ tries'[i] + (IF push'.id = i /\ push'.code = "0" THEN 1 ELSE 0) <= faults'
              /\ Reliable => outbox'[i] # "FAILED"
    PROVE  \A i \in 1 .. Len(made') : Fresh(made[i].voter)' => FreshRow(i)'
<1>. SUFFICES ASSUME NEW i \in 1 .. Len(made), Fresh(made[i].voter)'
              PROVE  FreshRow(i)'
  OBVIOUS
<1>1. FreshRow(i)
  BY DEF IInv, FreshInv
<1>2. \A j \in VoteIds : outbox'[i] # "ABSENT" /\ outbox'[j] # "ABSENT" /\ made[j].voter = made[i].voter => i = j
  <2>1. Len(made) \in Nat /\ i \in VoteIds
    BY Parameters, MadeTypes DEF IInv
  <2>. QED  BY <1>1, <2>1 DEF FreshRow
<1>3. /\ i \in cloudRows' \/ push'.id = i => outbox'[i] # "ABSENT"
      /\ push'.id = i => push'.code # "422"
      /\ tries'[i] + (IF push'.id = i /\ push'.code = "0" THEN 1 ELSE 0) <= faults'
      /\ Reliable => outbox'[i] # "FAILED"
  OBVIOUS
<1>. QED  BY <1>2, <1>3 DEF FreshRow, Reliable

LEMMA FreshQuiet == ASSUME IInv, Quiet PROVE FreshInv'
<1>1. FreshInv /\ TypeInv
  BY DEF IInv
<1>2. /\ UNCHANGED <<made, votes, outbox, tries, cloudRows, push, wiped>>
      /\ \A v : (Fresh(v)' <=> Fresh(v)) /\ (Erasing(v)' <=> Erasing(v))
      /\ faults \in Nat /\ faults' \in Nat /\ faults <= faults'
  BY DEF Quiet, Fresh, cloud
<1>3. Len(made) \in Nat /\ Len(made) <= MaxVotes /\ tries \in [VoteIds -> 0 .. MaxRetries + 1]
  BY <1>1, MadeTypes DEF TypeInv, TableTypes
<1>4. \A i \in 1 .. Len(made) : Fresh(made[i].voter)' =>
          /\ i \in cloudRows' \/ push'.id = i => outbox'[i] # "ABSENT"
          /\ push'.id = i => push'.code # "422"
          /\ tries'[i] + (IF push'.id = i /\ push'.code = "0" THEN 1 ELSE 0) <= faults'
          /\ Reliable => outbox'[i] # "FAILED"
  <2>. SUFFICES ASSUME NEW i \in 1 .. Len(made), Fresh(made[i].voter)
                PROVE  /\ i \in cloudRows \/ push.id = i => outbox[i] # "ABSENT"
                       /\ push.id = i => push.code # "422"
                       /\ tries[i] + (IF push.id = i /\ push.code = "0" THEN 1 ELSE 0) <= faults'
                       /\ Reliable => outbox[i] # "FAILED"
    BY <1>2
  <2>1. FreshRow(i)
    BY <1>1 DEF FreshInv
  <2>2. tries[i] \in Nat
    BY Parameters, <1>3
  <2>. QED  BY <1>2, <2>1, <2>2 DEF FreshRow
<1>5. \A i \in 1 .. Len(made') : Fresh(made[i].voter)' => FreshRow(i)'
  BY <1>2, <1>4, FreshKept
<1>6. \A i \in votes' : Reliable \/ made'[i].voter \notin wiped' => outbox'[i] # "ABSENT"
  BY <1>1, <1>2 DEF FreshInv
<1>7. Reliable /\ req'[Clerk].pc = "erased" =>
          /\ Blocked(req[Clerk].voter)' /\ ~HasVote(req[Clerk].voter)'
          /\ \A r \in Writers : Inserted(r)' => req'[r].voter # req'[Clerk].voter
  <2>. SUFFICES ASSUME Reliable, req'[Clerk].pc = "erased"
                PROVE  /\ Blocked(req[Clerk].voter)' /\ ~HasVote(req[Clerk].voter)'
                       /\ \A r \in Writers : Inserted(r)' => req'[r].voter # req'[Clerk].voter
    OBVIOUS
  <2>1. req[Clerk].pc = "erased" /\ req'[Clerk].voter = req[Clerk].voter
    BY DEF Quiet
  <2>2. Blocked(req[Clerk].voter)' /\ ~HasVote(req[Clerk].voter)'
    BY <1>1, <1>2, <2>1 DEF FreshInv, Blocked, HasVote, Of
  <2>3. \A r \in Writers : Inserted(r)' => Inserted(r) /\ req'[r].voter = req[r].voter
    BY DEF Quiet
  <2>. QED  BY <1>1, <2>1, <2>2, <2>3 DEF FreshInv
<1>. QED  BY <1>5, <1>6, <1>7 DEF FreshInv

(* What the push changes.                                                   *)
LEMMA FreshPushed ==
    ASSUME IInv, UNCHANGED <<made, votes, req, wiped>>,
           \A i \in VoteIds : outbox'[i] # "ABSENT" <=> outbox[i] # "ABSENT",
           \A i \in 1 .. Len(made) : Fresh(made[i].voter) /\ FreshRow(i) =>
              /\ i \in cloudRows' \/ push'.id = i => outbox'[i] # "ABSENT"
              /\ push'.id = i => push'.code # "422"
              /\ tries'[i] + (IF push'.id = i /\ push'.code = "0" THEN 1 ELSE 0) <= faults'
              /\ Reliable => outbox'[i] # "FAILED"
    PROVE  FreshInv'
<1>1. FreshInv /\ TypeInv
  BY DEF IInv
<1>2. /\ Len(made) \in Nat /\ Len(made) <= MaxVotes /\ votes \subseteq 1 .. Len(made)
      /\ \A i \in VoteIds : outbox[i] # "ABSENT" => i \in 1 .. Len(made)
  <2>1. TableTypes
    BY <1>1 DEF TypeInv
  <2>2. \A i \in VoteIds : outbox[i] # "ABSENT" => i <= Len(made)
    BY <2>1, Zenon DEF TableTypes
  <2>3. Len(made) \in Nat /\ Len(made) <= MaxVotes /\ votes \subseteq 1 .. Len(made)
    BY <1>1, <2>1, MadeTypes DEF TableTypes
  <2>. QED  BY <2>2, <2>3, Parameters
<1>3. \A v : (Fresh(v)' <=> Fresh(v))
  BY DEF Fresh, Resetting
<1>4. \A i \in 1 .. Len(made) : Fresh(made[i].voter)' =>
          /\ i \in cloudRows' \/ push'.id = i => outbox'[i] # "ABSENT"
          /\ push'.id = i => push'.code # "422"
          /\ tries'[i] + (IF push'.id = i /\ push'.code = "0" THEN 1 ELSE 0) <= faults'
          /\ Reliable => outbox'[i] # "FAILED"
  BY <1>1, <1>3 DEF FreshInv
<1>5. \A i \in 1 .. Len(made') : Fresh(made[i].voter)' => FreshRow(i)'
  BY <1>3, <1>4, FreshKept
<1>6. \A i \in votes' : Reliable \/ made'[i].voter \notin wiped' => outbox'[i] # "ABSENT"
  BY <1>1, <1>2, Parameters DEF FreshInv
<1>7. Reliable /\ req'[Clerk].pc = "erased" =>
          /\ Blocked(req[Clerk].voter)' /\ ~HasVote(req[Clerk].voter)'
          /\ \A r \in Writers : Inserted(r)' => req'[r].voter # req'[Clerk].voter
  <2>. SUFFICES ASSUME Reliable, req[Clerk].pc = "erased"
                PROVE  /\ Blocked(req[Clerk].voter)' /\ ~HasVote(req[Clerk].voter)'
                       /\ \A r \in Writers : Inserted(r)' => req'[r].voter # req'[Clerk].voter
    OBVIOUS
  <2>1. /\ Blocked(req[Clerk].voter) /\ ~HasVote(req[Clerk].voter)
        /\ \A r \in Writers : Inserted(r) => req[r].voter # req[Clerk].voter
    BY <1>1 DEF FreshInv
  <2>2. PICK i \in VoteIds : outbox[i] \notin {"ABSENT", "FAILED"} /\ made[i].voter = req[Clerk].voter
    BY <2>1 DEF Blocked
  <2>3. i \in 1 .. Len(made) /\ Fresh(made[i].voter)
    BY <1>2, <2>2 DEF Fresh, Resetting
  <2>4. outbox'[i] \notin {"ABSENT", "FAILED"}
    BY <1>3, <1>4, <2>2, <2>3
  <2>5. Blocked(req[Clerk].voter)'
    BY <2>2, <2>4 DEF Blocked
  <2>. QED  BY <2>1, <2>5 DEF HasVote, Of, Inserted
<1>. QED  BY <1>5, <1>6, <1>7 DEF FreshInv

LEMMA FreshStep == IInv /\ [Next]_vars => FreshInv'
<1> SUFFICES ASSUME IInv, [Next]_vars PROVE FreshInv'
  OBVIOUS
<1> USE Parameters
<1>1. TypeInv /\ VoteInv /\ CountInv /\ FreshInv
  BY DEF IInv
<1>2. /\ votes \subseteq 1 .. Len(made) /\ cloudRows \subseteq 1 .. Len(made)
      /\ Len(made) \in Nat /\ Len(made) <= MaxVotes /\ Clerk \in Writers
      /\ outbox \in [VoteIds -> RowStatus] /\ tries \in [VoteIds -> 0 .. MaxRetries + 1]
      /\ faults \in Nat /\ faults <= MaxFaults
      /\ \A i \in VoteIds : /\ outbox[i] # "ABSENT" => i <= Len(made)
                            /\ i > Len(made) => tries[i] = 0
  <2>1. TableTypes
    BY <1>1 DEF TypeInv
  <2>2. \A i \in VoteIds : /\ outbox[i] # "ABSENT" => i <= Len(made)
                           /\ i > Len(made) => tries[i] = 0
    BY <2>1, Zenon DEF TableTypes
  <2>. QED  BY <1>1, <2>1, <2>2, MadeTypes DEF TableTypes
<1>3. req \in [Writers -> ReqType] /\ \A w \in Writers : req[w].id \in Nat /\ req[w].id <= Len(made)
  BY <1>1 DEF TypeInv, ReqTypes, ReqType
<1>4. /\ push \in [id : 0 .. MaxVotes, code : {"none", "waiting", "200", "422", "0"}]
      /\ push = NoPush \/ (push.id \in 1 .. Len(made) /\ push.code # "none")
  BY <1>1 DEF TypeInv, PushTypes
<1>5. \A i \in 1 .. Len(made) : i \in VoteIds /\ tries[i] \in Nat
  BY <1>2
<1>6. ASSUME Quiet PROVE FreshInv'
  BY <1>6, FreshQuiet
(* The push.                                                                *)
<1>7. CASE SendNext
  <2>1. PICK i \in VoteIds : Send(i)
    BY <1>7 DEF SendNext
  <2>2. /\ push = NoPush /\ outbox[i] # "ABSENT" /\ push' = [id |-> i, code |-> "waiting"]
        /\ UNCHANGED <<made, votes, req, wiped, outbox, tries, cloudRows, faults>>
    BY <2>1 DEF Send, lan, cloud, bounds
  <2>3. push.code = "none" /\ push'.id = i /\ push'.code = "waiting"
    BY <2>2 DEF NoPush
  <2>. QED  BY <2>2, <2>3, FreshPushed DEF FreshRow
<1>8. CASE Ingest
  <2> DEFINE i == push.id  v == made[i].voter
  <2>1. /\ i \in 1 .. Len(made) /\ push.code = "waiting"
        /\ UNCHANGED <<made, votes, req, wiped, outbox, tries, faults>>
    BY <1>4, <1>8 DEF Ingest, NoPush, lan, bounds
  <2>2. push'.id = i /\ push'.code \in {"200", "422"} /\ cloudRows' \subseteq cloudRows \cup {i}
    BY <1>4, <1>8 DEF Ingest, Answer, cloud
  <2>3. push'.code = "422" => i \notin cloudRows /\ Of(cloudRows, v) # {}
    BY <1>4, <1>8 DEF Ingest, Answer
  <2>4. Fresh(v) /\ FreshRow(i) => push'.code # "422"
    <3>. SUFFICES ASSUME Fresh(v), FreshRow(i), push'.code = "422" PROVE FALSE
      OBVIOUS
    <3>1. PICK j \in cloudRows : made[j].voter = v
      BY <2>3 DEF Of
    <3>2. j # i /\ j \in VoteIds /\ i \in VoteIds /\ outbox[i] # "ABSENT"
      BY <1>2, <1>5, <2>1, <2>3, <3>1 DEF FreshRow
    <3>3. outbox[j] = "ABSENT"
      BY <3>1, <3>2 DEF FreshRow
    <3>4. FreshRow(j)
      BY <1>1, <1>2, <3>1 DEF FreshInv
    <3>. QED  BY <3>1, <3>3, <3>4 DEF FreshRow
  <2>. QED  BY <1>5, <2>1, <2>2, <2>4, FreshPushed DEF FreshRow
<1>9. CASE Lost
  <2>1. /\ push.code \in {"waiting", "200", "422"} /\ push' = [push EXCEPT !.code = "0"]
        /\ faults' = faults + 1
        /\ UNCHANGED <<made, votes, req, wiped, outbox, tries, cloudRows>>
    BY <1>9 DEF Lost, Answer, Fault, lan, cloud
  <2>2. push'.id = push.id /\ push'.code = "0"
    BY <1>4, <2>1
  <2>. QED  BY <1>2, <1>5, <2>1, <2>2, FreshPushed DEF FreshRow
<1>10. CASE SaveAnswer
  <2> DEFINE i == push.id  n == tries[push.id] + 1
  <2>1. /\ push.code \in {"200", "422", "0"} /\ push'.id = 0
        /\ UNCHANGED <<made, votes, req, wiped, cloudRows, faults>>
    BY <1>10 DEF SaveAnswer, NoPush, cloud, bounds
  <2>2. i \in 1 .. Len(made) /\ i \in VoteIds /\ tries[i] \in Nat /\ n \in Nat
    BY <1>2, <1>4, <1>5, <2>1 DEF NoPush
  <2>3. \/ outbox' = outbox /\ tries' = tries /\ outbox[i] = "ABSENT"
        \/ outbox' = [outbox EXCEPT ![i] = "SYNCED"] /\ tries' = tries /\ outbox[i] # "ABSENT"
        \/ /\ outbox' = [outbox EXCEPT ![i] = IF n > MaxRetries THEN "FAILED" ELSE "RETRY"]
           /\ tries' = [tries EXCEPT ![i] = n] /\ outbox[i] # "ABSENT" /\ push.code # "200"
    BY <1>10 DEF SaveAnswer, Spent, Taken
  <2>. HIDE DEF n
  <2>4. \A j \in VoteIds : /\ outbox'[j] # "ABSENT" <=> outbox[j] # "ABSENT"
                           /\ j # i => outbox'[j] = outbox[j] /\ tries'[j] = tries[j]
    BY <1>2, <2>2, <2>3
  <2>5. ASSUME FreshRow(i) PROVE tries'[i] <= faults' /\ (Reliable => outbox'[i] # "FAILED")
    <3>1. CASE push.code = "0"
      <4>1. n <= faults /\ tries[i] <= faults
        BY <1>2, <2>2, <2>5, <3>1 DEF FreshRow, n
      <4>2. Reliable => ~(n > MaxRetries)
        BY <1>2, <2>2, <4>1 DEF Reliable
      <4>3. outbox'[i] = outbox[i] \/ outbox'[i] # "FAILED" \/ n > MaxRetries
        BY <1>2, <2>2, <2>3
      <4>4. tries'[i] \in {tries[i], n}
        BY <1>2, <2>2, <2>3
      <4>. QED  BY <2>1, <2>5, <4>1, <4>2, <4>3, <4>4 DEF FreshRow
    <3>2. CASE push.code = "200"
      BY <1>2, <2>1, <2>2, <2>3, <2>5, <3>2 DEF FreshRow
    <3>3. push.code # "422"
      BY <2>5 DEF FreshRow
    <3>. QED  BY <2>1, <3>1, <3>2, <3>3
  <2>6. ASSUME NEW j \in 1 .. Len(made), FreshRow(j)
        PROVE  /\ j \in cloudRows' \/ push'.id = j => outbox'[j] # "ABSENT"
               /\ push'.id = j => push'.code # "422"
               /\ tries'[j] + (IF push'.id = j /\ push'.code = "0" THEN 1 ELSE 0) <= faults'
               /\ Reliable => outbox'[j] # "FAILED"
    <3>1. push'.id # j /\ j \in VoteIds /\ (j \in cloudRows => outbox'[j] # "ABSENT")
      <4>1. j \in VoteIds /\ j # 0 /\ cloudRows' = cloudRows
        BY <1>2, <1>5, <2>1
      <4>2. j \in cloudRows => outbox[j] # "ABSENT"
        BY <2>6 DEF FreshRow
      <4>. QED  BY <2>1, <2>4, <4>1, <4>2
    <3>2. tries'[j] <= faults' /\ tries'[j] \in Nat /\ (Reliable => outbox'[j] # "FAILED")
      <4>1. CASE j = i
        <5>1. tries'[i] \in Nat
          BY <1>2, <2>2, <2>3
        <5>. QED  BY <2>5, <2>6, <4>1, <5>1
      <4>2. CASE j # i
        <5>1. tries'[j] = tries[j] /\ outbox'[j] = outbox[j] /\ tries[j] \in Nat /\ faults' = faults
          BY <1>5, <2>1, <2>4, <4>2
        <5>2. tries[j] <= faults /\ (Reliable => outbox[j] # "FAILED")
          BY <1>2, <2>6, <5>1 DEF FreshRow
        <5>. QED  BY <5>1, <5>2
      <4>. QED  BY <4>1, <4>2
    <3>. QED  BY <2>1, <3>1, <3>2
  <2>7. \A j \in VoteIds : outbox'[j] # "ABSENT" <=> outbox[j] # "ABSENT"
    BY <2>4
  <2>. HIDE DEF i
  <2>. QED  BY <2>1, <2>6, <2>7, FreshPushed
(* A vote.                                                                  *)
<1>11. ASSUME NEW r \in Requests, Cast(r) PROVE FreshInv'
  <2>1. /\ Insert(r) /\ req[r].pc = "checked" /\ r \in Writers /\ r # Clerk
        /\ ~HasVote(req[r].voter) /\ ~Blocked(req[r].voter)
    BY <1>11 DEF Cast, Requests
  <2>2. /\ Len(made') = Len(made) + 1 /\ Len(made') <= MaxVotes
        /\ \A i \in 1 .. Len(made) : made'[i] = made[i]
    BY <1>1, <2>1, InsertMade
  <2>3. /\ UNCHANGED <<votes, outbox, tries, cloudRows, push, wiped, faults>>
        /\ req' = [req EXCEPT ![r].pc = "cast", ![r].id = Len(made) + 1]
    BY <2>1 DEF Insert, cloud, bounds
  <2>4. req[r] \in ReqType
    BY <1>3, <2>1
  <2>5. /\ req'[r].voter = req[r].voter /\ \A x \in Writers \ {r} : req'[x] = req[x]
    BY <1>3, <2>1, <2>3, <2>4 DEF ReqType
  <2>6. \A v : Fresh(v)' <=> Fresh(v)
    BY <1>2, <2>1, <2>3, <2>5 DEF Fresh, Resetting
  <2>7. \A j \in VoteIds : outbox[j] # "ABSENT" => j \in 1 .. Len(made) /\ made'[j] = made[j]
    BY <1>2, <2>2
  <2>8. ASSUME NEW i \in 1 .. Len(made'), Fresh(made[i].voter)' PROVE FreshRow(i)'
    <3>1. CASE i = Len(made) + 1
      <4>1. i \notin cloudRows /\ push.id # i /\ i \in VoteIds
        BY <1>2, <1>4, <2>2, <3>1 DEF NoPush
      <4>2. outbox[i] = "ABSENT" /\ tries[i] = 0
        BY <1>2, <3>1, <4>1
      <4>. QED  BY <1>2, <2>3, <4>1, <4>2 DEF FreshRow
    <3>2. CASE i # Len(made) + 1
      <4>1. i \in 1 .. Len(made) /\ made'[i] = made[i]
        BY <1>2, <2>2, <3>2
      <4>2. Fresh(made[i].voter)
        <5>1. \A v : v = made'[i].voter => Fresh(v)'
          BY <2>8
        <5>. QED  BY <2>6, <4>1, <5>1
      <4>3. FreshRow(i)
        BY <1>1, <4>1, <4>2 DEF FreshInv
      <4>. QED  BY <2>3, <2>7, <4>1, <4>3 DEF FreshRow, Reliable
    <3>. QED  BY <3>1, <3>2
  <2>9. \A i \in votes : made'[i] = made[i]
    BY <1>2, <2>2
  <2>10. \A i \in votes' : Reliable \/ made'[i].voter \notin wiped' => outbox'[i] # "ABSENT"
    BY <1>1, <2>3, <2>9 DEF FreshInv
  <2>11. Reliable /\ req'[Clerk].pc = "erased" =>
          /\ Blocked(req[Clerk].voter)' /\ ~HasVote(req[Clerk].voter)'
          /\ \A x \in Writers : Inserted(x)' => req'[x].voter # req'[Clerk].voter
    <3>. SUFFICES ASSUME Reliable, req'[Clerk].pc = "erased"
                  PROVE  /\ Blocked(req[Clerk].voter)' /\ ~HasVote(req[Clerk].voter)'
                         /\ \A x \in Writers : Inserted(x)' => req'[x].voter # req'[Clerk].voter
      OBVIOUS
    <3>1. /\ req'[Clerk] = req[Clerk] /\ Blocked(req[Clerk].voter) /\ ~HasVote(req[Clerk].voter)
          /\ \A x \in Writers : Inserted(x) => req[x].voter # req[Clerk].voter
      BY <1>1, <1>2, <2>1, <2>5 DEF FreshInv
    <3>2. Blocked(req[Clerk].voter)'
      BY <2>3, <2>7, <3>1 DEF Blocked
    <3>3. ~HasVote(req[Clerk].voter)'
      BY <2>3, <2>9, <3>1 DEF HasVote, Of
    <3>4. req[r].voter # req[Clerk].voter
      BY <2>1, <3>1
    <3>5. \A x \in Writers \ {r} : Inserted(x)' => Inserted(x)
      BY <2>5 DEF Inserted
    <3>. QED  BY <2>5, <3>1, <3>2, <3>3, <3>4, <3>5
  <2>. QED  BY <2>8, <2>10, <2>11 DEF FreshInv
<1>12. ASSUME NEW w \in Writers, End(w) PROVE FreshInv'
  <2>1. /\ req[w].pc = "logged" /\ req' = [req EXCEPT ![w] = Idle]
        /\ UNCHANGED <<made, tries, cloudRows, push, wiped, faults>>
    BY <1>12 DEF End, cloud, bounds
  <2>2. req'[w] = Idle /\ ~Inserted(w)' /\ \A x \in Writers \ {w} : req'[x] = req[x]
    BY <1>3, <2>1 DEF Inserted, Idle
  <2>3. \A x \in Writers : Inserted(x)' => Inserted(x) /\ req'[x] = req[x]
    BY <2>2 DEF Inserted
  <2>4. \A v : Fresh(v)' <=> Fresh(v)
    BY <1>2, <2>1, <2>2 DEF Fresh, Resetting, Idle
  <2>5. CASE req[w].id = 0
    <3>1. UNCHANGED <<votes, outbox>>
      BY <1>12, <2>5 DEF End
    <3>2. \A i \in 1 .. Len(made') : Fresh(made[i].voter)' => FreshRow(i)'
      BY <1>1, <2>1, <2>4, <3>1 DEF FreshInv, FreshRow, Reliable
    <3>3. req'[Clerk].pc = "erased" => req[Clerk].pc = "erased" /\ req'[Clerk] = req[Clerk]
      BY <1>2, <2>2 DEF Idle
    <3>. QED  BY <1>1, <2>1, <2>3, <3>1, <3>2, <3>3 DEF FreshInv, Blocked, HasVote, Of
  <2>6. CASE req[w].id # 0
    <3> DEFINE k == req[w].id  u == req[w].voter
    <3>1. /\ Inserted(w) /\ k \in 1 .. Len(made) /\ k \in VoteIds /\ made[k].voter = u /\ ~HasVote(u)
          /\ outbox[k] = "ABSENT" /\ push.id # k /\ tries[k] = 0
      BY <1>1, <1>2, <1>3, <2>1, <2>6 DEF VoteInv, Inserted
    <3>2. votes' = votes \cup {k} /\ outbox'[k] = "PENDING" /\ \A i \in VoteIds \ {k} : outbox'[i] = outbox[i]
      BY <1>2, <1>12, <2>6, <3>1 DEF End
    <3>3. w # Clerk
      BY <1>1, <2>6 DEF TypeInv, ReqTypes
    <3>4. req'[Clerk] = req[Clerk]
      BY <1>2, <2>2, <3>3
    <3>. HIDE DEF k, u
    <3>5. ASSUME NEW j \in VoteIds, outbox[j] # "ABSENT", made[j].voter = u, Fresh(u) PROVE FALSE
      <4>1. j \notin votes
        BY <3>1, <3>5 DEF HasVote, Of
      <4>2. u \in broken \/ Erasing(u)
        BY <1>1, <3>5, <4>1 DEF VoteInv
      <4>3. u \in wiped /\ Resetting(u) /\ Reliable
        BY <1>1, <3>5, <4>2 DEF TypeInv, TableTypes, ReqTypes, Erasing, Fresh
      <4>4. Erasing(u)
        BY <1>1, <4>2, <4>3 DEF TypeInv, ReqTypes, Resetting
      <4>. QED  BY <1>1, <3>1, <4>3, <4>4 DEF FreshInv, Erasing, u
    <3>6. ASSUME NEW i \in 1 .. Len(made'), Fresh(made[i].voter)' PROVE FreshRow(i)'
      <4>1. Fresh(made[i].voter) /\ i \in 1 .. Len(made) /\ i \in VoteIds
        BY <1>2, <2>1, <2>4, <3>6
      <4>2. FreshRow(i)
        BY <1>1, <4>1 DEF FreshInv
      <4>3. CASE i = k
        <5>1. \A j \in VoteIds : outbox'[j] # "ABSENT" /\ made[j].voter = made[i].voter => i = j
          BY <3>1, <3>2, <3>5, <4>1, <4>3
        <5>. QED  BY <1>2, <2>1, <3>1, <3>2, <4>3, <5>1 DEF FreshRow
      <4>4. CASE i # k
        <5>1. outbox'[i] = outbox[i]
          BY <3>2, <4>1, <4>4
        <5>2. outbox[i] # "ABSENT" => made[i].voter # u
          BY <3>5, <4>1
        <5>3. outbox[i] # "ABSENT" =>
                 \A j \in VoteIds : outbox'[j] # "ABSENT" /\ made[j].voter = made[i].voter => i = j
          BY <3>1, <3>2, <4>2, <5>2 DEF FreshRow
        <5>. QED  BY <2>1, <4>2, <5>1, <5>3 DEF FreshRow, Reliable
      <4>. QED  BY <4>3, <4>4
    <3>7. \A i \in votes' : Reliable \/ made'[i].voter \notin wiped' => outbox'[i] # "ABSENT"
      BY <1>1, <1>2, <2>1, <3>2 DEF FreshInv
    <3>8. Reliable /\ req'[Clerk].pc = "erased" =>
            /\ Blocked(req[Clerk].voter)' /\ ~HasVote(req[Clerk].voter)'
            /\ \A x \in Writers : Inserted(x)' => req'[x].voter # req'[Clerk].voter
      <4>. SUFFICES ASSUME Reliable, req'[Clerk].pc = "erased"
                    PROVE  /\ Blocked(req[Clerk].voter)' /\ ~HasVote(req[Clerk].voter)'
                           /\ \A x \in Writers : Inserted(x)' => req'[x].voter # req'[Clerk].voter
        OBVIOUS
      <4>1. /\ Blocked(req[Clerk].voter) /\ ~HasVote(req[Clerk].voter)
            /\ \A x \in Writers : Inserted(x) => req[x].voter # req[Clerk].voter
        BY <1>1, <3>4 DEF FreshInv
      <4>2. Blocked(req[Clerk].voter)'
        BY <2>1, <3>1, <3>2, <3>4, <4>1 DEF Blocked
      <4>3. u # req[Clerk].voter
        BY <3>1, <4>1 DEF u
      <4>4. ~HasVote(req[Clerk].voter)'
        BY <2>1, <3>1, <3>2, <3>4, <4>1, <4>3 DEF HasVote, Of
      <4>. QED  BY <2>3, <3>4, <4>1, <4>2, <4>4
    <3>. QED  BY <3>6, <3>7, <3>8 DEF FreshInv
  <2>. QED  BY <2>5, <2>6
(* A reset.                                                                 *)
<1>13. ASSUME NEW v \in Voters, ResetList(v) PROVE FreshInv'
  <2>1. /\ req[Clerk].pc = "idle" /\ wiped' = wiped \cup {v} /\ v \notin wiped
        /\ req' = [req EXCEPT ![Clerk] = [Idle EXCEPT !.pc = "listed", !.voter = v]]
        /\ UNCHANGED <<made, votes, outbox, tries, cloudRows, push, faults>>
    BY <1>13 DEF ResetList, lan, cloud
  <2>2. Idle \in [pc : {"idle"}, voter : {Nobody}, choice : {Nobody}, id : {0}]
    BY DEF Idle
  <2>3. req'[Clerk].pc = "listed" /\ req'[Clerk].voter = v
    BY <1>2, <1>3, <2>1, <2>2
  <2>4. \A u : Fresh(u)' => Fresh(u)
    BY <2>1, <2>3 DEF Fresh, Resetting
  <2>5. \A i \in 1 .. Len(made') : Fresh(made[i].voter)' => FreshRow(i)'
    BY <1>1, <2>1, <2>4 DEF FreshInv, FreshRow, Reliable
  <2>. QED  BY <1>1, <2>1, <2>3, <2>5 DEF FreshInv
<1>14. CASE ResetVotes
  <2>1. /\ req[Clerk].pc = "listed" /\ votes' = votes \ stale
        /\ req' = [req EXCEPT ![Clerk].pc = "erased"]
        /\ UNCHANGED <<made, outbox, tries, cloudRows, push, wiped, faults>>
    BY <1>14 DEF ResetVotes, cloud, bounds
  <2>2. req[Clerk] \in ReqType
    BY <1>2, <1>3
  <2>3. /\ req'[Clerk].pc = "erased" /\ req'[Clerk].voter = req[Clerk].voter
        /\ \A x \in Writers \ {Clerk} : req'[x] = req[x]
    BY <1>2, <1>3, <2>1, <2>2 DEF ReqType
  <2>4. \A x \in Writers : Inserted(x)' => Inserted(x) /\ req'[x] = req[x]
    BY <2>3 DEF Inserted
  <2>5. \A v : Fresh(v)' <=> Fresh(v)
    BY <2>1, <2>3 DEF Fresh, Resetting
  <2>6. \A i \in 1 .. Len(made') : Fresh(made[i].voter)' => FreshRow(i)'
    BY <1>1, <2>1, <2>5 DEF FreshInv, FreshRow, Reliable
  <2>7. stale = Of(votes, req[Clerk].voter) /\ HasVote(req[Clerk].voter)
    BY <1>1, <2>1 DEF VoteInv
  <2>8. PICK i \in votes : made[i].voter = req[Clerk].voter
    BY <2>7 DEF HasVote, Of
  <2>9. Reliable => outbox[i] # "ABSENT" /\ Fresh(made[i].voter) /\ i \in VoteIds
    BY <1>1, <1>2, <2>1, <2>8 DEF FreshInv, Fresh, Resetting
  <2>10. Reliable => outbox[i] # "FAILED"
    BY <1>1, <1>2, <2>8, <2>9 DEF FreshInv, FreshRow
  <2>11. Reliable => Blocked(req[Clerk].voter)'
    BY <2>1, <2>3, <2>8, <2>9, <2>10 DEF Blocked
  <2>12. ~HasVote(req[Clerk].voter)'
    BY <2>1, <2>3, <2>7 DEF HasVote, Of
  <2>13. \A x \in Writers : Inserted(x)' => req'[x].voter # req'[Clerk].voter
    BY <1>1, <2>3, <2>4, <2>7 DEF VoteInv
  <2>14. \A j \in votes' : Reliable \/ made'[j].voter \notin wiped' => outbox'[j] # "ABSENT"
    BY <1>1, <2>1 DEF FreshInv
  <2>. QED  BY <2>6, <2>11, <2>12, <2>13, <2>14 DEF FreshInv
<1>15. CASE ResetRows
  <2>1. /\ req[Clerk].pc = "erased" /\ req' = [req EXCEPT ![Clerk] = [Idle EXCEPT !.pc = "cast"]]
        /\ outbox' = [i \in VoteIds |-> IF i <= Len(made) /\ made[i].voter = req[Clerk].voter
                                        THEN "ABSENT" ELSE outbox[i]]
        /\ UNCHANGED <<made, votes, tries, cloudRows, push, wiped, faults>>
    BY <1>15 DEF ResetRows, Log, cloud, bounds
  <2>2. req'[Clerk].pc = "cast"
    BY <1>2, <1>3, <2>1 DEF Idle
  <2>3. req[Clerk].voter \in wiped
    BY <1>1, <2>1 DEF TypeInv, ReqTypes
  <2>4. \A v : Fresh(v)' => Fresh(v) /\ v # req[Clerk].voter
    BY <2>1, <2>2, <2>3 DEF Fresh, Resetting
  <2>5. \A i \in VoteIds : outbox'[i] # "ABSENT" => outbox[i] # "ABSENT"
    BY <2>1
  <2>6. ASSUME NEW i \in 1 .. Len(made), Fresh(made[i].voter)'
        PROVE  /\ i \in cloudRows' \/ push'.id = i => outbox'[i] # "ABSENT"
               /\ push'.id = i => push'.code # "422"
               /\ tries'[i] + (IF push'.id = i /\ push'.code = "0" THEN 1 ELSE 0) <= faults'
               /\ Reliable => outbox'[i] # "FAILED"
    <3>1. \A v : v = made[i].voter => Fresh(v)'
      BY <2>1, <2>6
    <3>2. FreshRow(i) /\ made[i].voter # req[Clerk].voter
      BY <1>1, <2>4, <3>1 DEF FreshInv
    <3>3. outbox'[i] = outbox[i]
      BY <1>5, <2>1, <3>2
    <3>. QED  BY <2>1, <3>2, <3>3 DEF FreshRow
  <2>7. \A i \in 1 .. Len(made') : Fresh(made[i].voter)' => FreshRow(i)'
    <3>1. \A v : Fresh(v)' => Fresh(v)
      BY <2>4
    <3>2. made' = made
      BY <2>1
    <3>. QED  BY <2>5, <2>6, <3>1, <3>2, FreshKept
  <2>8. ASSUME NEW i \in votes, Reliable \/ made[i].voter \notin wiped PROVE outbox'[i] # "ABSENT"
    <3>1. outbox[i] # "ABSENT" /\ i \in VoteIds
      BY <1>1, <1>2, <2>8 DEF FreshInv
    <3>2. made[i].voter # req[Clerk].voter
      BY <1>1, <2>1, <2>3, <2>8 DEF FreshInv, HasVote, Of
    <3>. QED  BY <2>1, <3>1, <3>2
  <2>. QED  BY <2>1, <2>2, <2>7, <2>8 DEF FreshInv
<1>16. CASE ResetDies
  <2>1. /\ req' = [req EXCEPT ![Clerk] = Idle] /\ faults' = faults + 1
        /\ UNCHANGED <<made, votes, outbox, tries, cloudRows, push, wiped>>
    BY <1>16 DEF ResetDies, Fault, lan, cloud
  <2>2. req'[Clerk].pc = "idle"
    BY <1>2, <1>3, <2>1 DEF Idle
  <2>3. \A v : Fresh(v)' => Fresh(v)
    BY <2>1, <2>2 DEF Fresh, Resetting
  <2>4. ASSUME NEW i \in 1 .. Len(made), Fresh(made[i].voter)'
        PROVE  /\ i \in cloudRows' \/ push'.id = i => outbox'[i] # "ABSENT"
               /\ push'.id = i => push'.code # "422"
               /\ tries'[i] + (IF push'.id = i /\ push'.code = "0" THEN 1 ELSE 0) <= faults'
               /\ Reliable => outbox'[i] # "FAILED"
    <3>1. \A v : v = made[i].voter => Fresh(v)'
      BY <2>1, <2>4
    <3>2. FreshRow(i)
      BY <1>1, <2>3, <3>1 DEF FreshInv
    <3>. QED  BY <1>2, <1>5, <2>1, <3>2 DEF FreshRow
  <2>5. \A i \in 1 .. Len(made') : Fresh(made[i].voter)' => FreshRow(i)'
    <3>1. made' = made /\ \A i \in VoteIds : outbox'[i] # "ABSENT" => outbox[i] # "ABSENT"
      BY <2>1
    <3>. QED  BY <2>3, <2>4, <3>1, FreshKept
  <2>. QED  BY <1>1, <2>1, <2>2, <2>5 DEF FreshInv
<1>. QED
  BY <1>1, <1>6, <1>7, <1>8, <1>9, <1>10, <1>11, <1>12, <1>13, <1>14, <1>15, <1>16, QuietSteps DEF Next

-----------------------------------------------------------------------------
(* The theorems.                                                            *)

LEMMA Invariance == Spec => []IInv
<1>1. IInv /\ [Next]_vars => IInv'
  BY TypeStep, ChainStep, VoteStep, CountStep, FreshStep DEF IInv
<1>. QED  BY <1>1, Init0, PTL DEF Spec

(* Every table, request and event keeps its type: a vote's id, its row and  *)
(* its audit event name each other whatever interleaves.                    *)
THEOREM TypeCorrect == Spec => []TypeOK
<1>1. IInv => TypeOK
  BY DEF IInv, TypeInv, TableTypes, ReqTypes, ReqType, PushTypes, TypeOK
<1>. QED  BY <1>1, Invariance, PTL

(* However many requests a voter sends at once, and whatever IT resets, one *)
(* vote stands (submit_vote_bundle, the constraint on the table).           *)
THEOREM OneVoteHolds == Spec => []OneVote
<1>1. IInv => OneVote
  BY DEF IInv, VoteInv
<1>. QED  BY <1>1, Invariance, PTL

(* With fewer faults than retries, a vote that stands has its row: no reset *)
(* takes the row of a vote cast after it.  A row that FAILED does not block *)
(* the next vote while the reset still runs, hence the assumption.          *)
THEOREM VoteIsQueuedHolds ==
    ASSUME Reliable
    PROVE  Spec => []VoteIsQueued
<1>1. IInv => VoteIsQueued
  BY DEF IInv, FreshInv, VoteIsQueued
<1>. QED  BY <1>1, Invariance, PTL

(* A voter without a vote is not blocked by a row that is left, unless a    *)
(* reset of this voter is between its deletes or died there.                *)
THEOREM NotShutOutHolds == Spec => []NotShutOut
<1>1. IInv => NotShutOut
  BY DEF IInv, VoteInv, NotShutOut, Blocked, HasVote, Of, Erasing
<1>. QED  BY <1>1, Invariance, PTL

(* Whatever writers look, write, commit and undo at once, every event links *)
(* to an earlier one that is in the log.                                    *)
THEOREM LinksHoldHolds == Spec => []LinksHold
<1>1. IInv => LinksHold
  BY DEF IInv, ChainInv, LinksTo, LinksHold
<1>. QED  BY <1>1, Invariance, PTL

(* The audit log speaks of no vote that was not counted.                    *)
THEOREM LoggedWasCastHolds == Spec => []LoggedWasCast
<1>1. IInv => LoggedWasCast
  BY DEF IInv, VoteInv
<1>. QED  BY <1>1, Invariance, PTL

(* Once every row is SYNCED the cloud and the LAN count the same for every  *)
(* voter whose votes were never reset.                                      *)
THEOREM TalliesAgreeHolds == Spec => []TalliesAgree
<1>1. ASSUME IInv PROVE TalliesAgree
  <2>. SUFFICES ASSUME \A i \in VoteIds : outbox[i] \in {"ABSENT", "SYNCED"}, NEW v \in Voters \ wiped
                PROVE  CloudVote(v) = LanVote(v)
    BY DEF TalliesAgree
  <2>1. TypeInv /\ VoteInv /\ CountInv /\ FreshInv
    BY <1>1 DEF IInv
  <2>2. /\ votes \subseteq VoteIds /\ votes \subseteq 1 .. Len(made)
        /\ cloudRows \subseteq VoteIds /\ cloudRows \subseteq 1 .. Len(made)
        /\ v \notin broken /\ ~Erasing(v)
    BY <2>1, MadeTypes, Parameters DEF TypeInv, TableTypes, ReqTypes, Erasing
  <2>3. \A i \in Of(votes, v) : i \in cloudRows /\ made[i].voter = v
    BY <2>1, <2>2 DEF FreshInv, CountInv, Of
  <2>4. \A i \in Of(cloudRows, v) : i \in votes /\ made[i].voter = v
    <3>. SUFFICES ASSUME NEW i \in cloudRows, made[i].voter = v PROVE i \in votes
      BY DEF Of
    <3>1. FreshRow(i)
      BY <2>1, <2>2 DEF FreshInv, Fresh
    <3>2. outbox[i] # "ABSENT" /\ i \in VoteIds
      BY <2>2, <3>1 DEF FreshRow
    <3>. QED  BY <2>1, <2>2, <3>2 DEF VoteInv
  <2>5. Of(votes, v) = Of(cloudRows, v)
    BY <2>3, <2>4 DEF Of
  <2>6. \A i \in Of(votes, v) : cloudVote[v] = made[i].choice /\ made[i].choice # Nobody
    BY <2>1, <2>2, <2>3, MadeTypes, Parameters DEF CountInv, Of
  <2>7. CASE Of(votes, v) = {}
    <3>1. cloudVote[v] = Nobody
      BY <2>1, <2>5, <2>7 DEF CountInv
    <3>. QED  BY <2>7, <3>1 DEF CloudVote, LanVote
  <2>8. CASE Of(votes, v) # {}
    BY <2>6, <2>8 DEF CloudVote, LanVote
  <2>. QED  BY <2>7, <2>8
<1>. QED  BY <1>1, Invariance, PTL
=============================================================================
