----------------------------- MODULE AuditChain -----------------------------
(***************************************************************************)
(* The audit log: every event carries the hash of the event before it.  A  *)
(* writer locks the last event it sees, waits for the lock if it must, and *)
(* writes its own in its transaction, or in the transaction around it.  The*)
(* database re-reads a row it waited for, not which row is the last, so two*)
(* writers that looked at once link to the same event.                     *)
(*                                                                         *)
(* A hash is the id of the event it is of; what it covers is not modelled. *)
(* The modules that log EXTEND this one and give the writers their steps.  *)
(***************************************************************************)
EXTENDS Naturals, FiniteSets

CONSTANTS Writers  \* requests and tasks that log an event

VARIABLES
    events,   \* committed: id, previous_event_hash, the vote it is about
    lastId,   \* the table's sequence
    seen,     \* per writer: the event it saw last and locks
    draft     \* per writer: its event before the commit, if any

chain == <<events, lastId, seen, draft>>

AuditEvent == [id : Nat, prev : Nat, about : Nat]
NoEvents == {}

ChainType ==
    /\ events \subseteq AuditEvent /\ lastId \in Nat
    /\ seen \in [Writers -> Nat]
    /\ draft \in [Writers -> SUBSET AuditEvent]
    /\ \A w \in Writers : \A d, e \in draft[w] : d = e

ChainInit ==
    /\ events = NoEvents /\ lastId = 0
    /\ seen = [w \in Writers |-> 0] /\ draft = [w \in Writers |-> NoEvents]

Ids(es) == {e.id : e \in es}
IsLast(i) == \A j \in Ids(events) : j <= i

(* select_for_update().order_by("-id").first(): the row is chosen when the  *)
(* statement starts.                                                        *)
Look(w) ==
    /\ \E i \in {0} \cup Ids(events) : IsLast(i) /\ seen' = [seen EXCEPT ![w] = i]
    /\ UNCHANGED <<events, lastId, draft>>

(* Another transaction holds the row.  There is nothing to lock in an empty *)
(* log.                                                                     *)
RowHeld(w) == seen[w] # 0 /\ \E x \in Writers \ {w} : draft[x] # {} /\ seen[x] = seen[w]

(* Mutant: the new event links to the id before its own.                    *)
WriteAfterId(w, about) ==
    /\ ~RowHeld(w)
    /\ lastId' = lastId + 1
    /\ draft' = [draft EXCEPT ![w] = {[id |-> lastId + 1, prev |-> lastId, about |-> about]}]
    /\ UNCHANGED <<events, seen>>

(* The lock is there: AuditEvent.objects.create, and the hash saved.        *)
Write(w, about) ==
    /\ ~RowHeld(w)
    /\ lastId' = lastId + 1
    /\ draft' = [draft EXCEPT ![w] = {[id |-> lastId + 1, prev |-> seen[w], about |-> about]}]
    /\ UNCHANGED <<events, seen>>

(* Mutant: the events are kept whatever becomes of the transaction.         *)
RollBackKeeping(w) ==
    /\ events' = events \cup draft[w]
    /\ seen' = [seen EXCEPT ![w] = 0] /\ draft' = [draft EXCEPT ![w] = NoEvents]
    /\ UNCHANGED lastId

(* The outer transaction ends.                                              *)
RollBack(w) ==
    /\ seen' = [seen EXCEPT ![w] = 0] /\ draft' = [draft EXCEPT ![w] = NoEvents]
    /\ UNCHANGED <<events, lastId>>

Commit(w) ==
    /\ events' = events \cup draft[w]
    /\ seen' = [seen EXCEPT ![w] = 0] /\ draft' = [draft EXCEPT ![w] = NoEvents]
    /\ UNCHANGED lastId

(* Every event links to an earlier event that is in the log, or begins it:  *)
(* what a transaction took back is no one's predecessor (log_event reads    *)
(* committed rows only).                                                    *)
LinksHold == \A e \in events : e.prev < e.id /\ e.prev \in {0} \cup Ids(events)
=============================================================================
