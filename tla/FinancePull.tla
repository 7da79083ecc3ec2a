---------------------------- MODULE FinancePull ----------------------------
(***************************************************************************)
(* Online payments: a student pays at a gateway in the cloud; the callback *)
(* page, the gateway's webhook and a task verify the reference and record  *)
(* the payment; the LAN server pulls what the cloud recorded, with a       *)
(* timestamp as its cursor, and writes its own copy of the payment.        *)
(*                                                                         *)
(* A verification is one transaction under the row lock of the reference.  *)
(* The pull is none: every statement commits on its own, and the cursor is *)
(* saved last.                                                             *)
(***************************************************************************)
EXTENDS Naturals, Sequences, FiniteSets

CONSTANTS
    Txns,       \* gateway transactions, each with its reference
    Newcomers,  \* those whose student the LAN does not know at first
    Verifiers,  \* requests and tasks that verify one
    Nobody,
    Limit,      \* rows of one export (250)
    Overlap,    \* may others write between a stamp and its commit, or
                \* between the pull's lookup and its write?
    MaxClock,   \* bound: stamped writes of the cloud
    MaxCrashes  \* bound: pulls that die

ASSUME Parameters ==
    /\ IsFiniteSet(Txns) /\ Newcomers \subseteq Txns /\ Nobody \notin Verifiers
    /\ Overlap \in BOOLEAN
    /\ Limit \in Nat \ {0} /\ MaxClock \in Nat /\ MaxCrashes \in Nat

References == {"own", "other"}  \* gateway_reference: the reference, or the gateway's number
Times == 0 .. MaxClock

(* The cloud's row, and its payment: source_updated_at; updated_at of the   *)
(* row; updated_at of the payment; how many payments were recorded.         *)
CloudRow == [status : {"NONE", "INITIALIZED", "PAID"}, ref : References, src : Times,
             upd : Times, pupd : Times, void : BOOLEAN, payments : 0 .. 2]
NoCloudRow == [status |-> "NONE", ref |-> "own", src |-> 0, upd |-> 0, pupd |-> 0,
               void |-> FALSE, payments |-> 0]

(* A payment of the LAN: booked by the pull, or by the bursar with the      *)
(* right or another amount.                                                 *)
Payment == [ref : References, void : BOOLEAN, by : {"pull", "same", "differs"}]
(* The LAN's gateway row: source_updated_at (0: no row), payment is set.    *)
LanRow == [at : Times, linked : BOOLEAN]

Item == [txn : Txns, ref : References, at : Times, void : BOOLEAN]
Pull == [pc : {"idle", "item", "looked", "paid", "linked"}, items : Seq(Item),
         latest : Times, found : Nat]
Idle == [pc |-> "idle", items |-> << >>, latest |-> 0, found |-> 0]

VARIABLES
    row,       \* cloud
    clock,     \* the last stamp the cloud gave
    verifier,  \* per verifier: where it is, its transaction, its stamp
    rowlock,   \* select_for_update on the row
    payments,  \* LAN: the payments of a reference
    lanrow,    \* LAN: its gateway row
    receipts,  \* LAN: transactions whose payment has a receipt
    known,     \* LAN: transactions whose student exists
    skipped,   \* LAN: transactions with a SKIPPED event
    cursor,    \* LAN: last_synced_at
    pull,      \* LAN: the pull under way
    crashes    \* bound

cloud == <<row, clock, verifier, rowlock>>
lan == <<payments, lanrow, receipts, known, skipped, cursor>>
vars == <<cloud, lan, pull, crashes>>

Verification == [pc : {"idle", "locked", "stamped"}, txn : Txns \cup {Nobody}, at : Times]
NoVerification == [pc |-> "idle", txn |-> Nobody, at |-> 0]

TypeOK ==
    /\ row \in [Txns -> CloudRow] /\ clock \in Times
    /\ verifier \in [Verifiers -> Verification]
    /\ rowlock \in [Txns -> Verifiers \cup {Nobody}]
    /\ payments \in [Txns -> Seq(Payment)] /\ lanrow \in [Txns -> LanRow]
    /\ receipts \subseteq Txns /\ known \subseteq Txns /\ skipped \subseteq Txns
    /\ cursor \in 0 .. clock /\ crashes \in Nat
    /\ pull \in Pull /\ pull.latest <= clock

Init ==
    /\ row = [t \in Txns |-> NoCloudRow] /\ clock = 0
    /\ verifier = [v \in Verifiers |-> NoVerification]
    /\ rowlock = [t \in Txns |-> Nobody]
    /\ payments = [t \in Txns |-> << >>] /\ lanrow = [t \in Txns |-> [at |-> 0, linked |-> FALSE]]
    /\ receipts = {} /\ known = Txns \ Newcomers /\ skipped = {} /\ cursor = 0
    /\ pull = Idle /\ crashes = 0

-----------------------------------------------------------------------------
(* The cloud.                                                               *)

(* Nobody else writes while a verification has its stamp and not committed. *)
Alone == Overlap \/ \A v \in Verifiers : verifier[v].pc # "stamped"
Now == clock + 1
Tick == Alone /\ clock < MaxClock /\ clock' = Now

Initialize(t) ==
    /\ row[t].status = "NONE"
    /\ row' = [row EXCEPT ![t].status = "INITIALIZED"]
    /\ UNCHANGED <<clock, verifier, rowlock, lan, pull, crashes>>

(* The callback page saves the parameters of its URL into the row, and then *)
(* verifies like the webhook and the task.                                  *)
Callback(t, rrr) ==
    /\ row[t].status # "NONE" /\ rowlock[t] = Nobody /\ Tick
    /\ row' = [row EXCEPT ![t].upd = Now, ![t].ref = IF rrr THEN "other" ELSE @]
    /\ UNCHANGED <<verifier, rowlock, lan, pull, crashes>>

(* A verification that finds the reference paid already, or which the       *)
(* gateway denies, changes nothing (FAILED is rolled back with the rest).   *)
(* From some moment on the gateway says yes.                                *)
ToRecord(t) == row[t].status = "INITIALIZED"

(* Mutant: the row is read and not locked.                                  *)
ReadRow(v, t) ==
    /\ verifier[v].pc = "idle" /\ ToRecord(t)
    /\ verifier' = [verifier EXCEPT ![v] = [@ EXCEPT !.pc = "locked", !.txn = t]]
    /\ rowlock' = [rowlock EXCEPT ![t] = v]
    /\ UNCHANGED <<row, clock, lan, pull, crashes>>

Lock(v, t) ==
    /\ verifier[v].pc = "idle" /\ rowlock[t] = Nobody /\ ToRecord(t)
    /\ verifier' = [verifier EXCEPT ![v] = [@ EXCEPT !.pc = "locked", !.txn = t]]
    /\ rowlock' = [rowlock EXCEPT ![t] = v]
    /\ UNCHANGED <<row, clock, lan, pull, crashes>>

Ended(v) == verifier' = [verifier EXCEPT ![v] = NoVerification]

Stamp(v) ==
    /\ verifier[v].pc = "locked" /\ Tick
    /\ verifier' = [verifier EXCEPT ![v].pc = "stamped", ![v].at = Now]
    /\ UNCHANGED <<row, rowlock, lan, pull, crashes>>

Commit(v) ==
    LET t == verifier[v].txn  at == verifier[v].at IN
    /\ verifier[v].pc = "stamped"
    /\ row' = [row EXCEPT ![t].status = "PAID", ![t].src = at, ![t].upd = at, ![t].pupd = at,
                          ![t].payments = @ + 1]
    /\ rowlock' = [rowlock EXCEPT ![t] = Nobody] /\ Ended(v)
    /\ UNCHANGED <<clock, lan, pull, crashes>>

VerifierDies(v) ==
    /\ verifier[v].pc # "idle" /\ Ended(v)
    /\ rowlock' = [t \in Txns |-> IF rowlock[t] = v THEN Nobody ELSE rowlock[t]]
    /\ UNCHANGED <<row, clock, lan, pull, crashes>>

(* The bursar voids the payment: the row of the gateway is not touched.     *)
VoidInCloud(t) ==
    /\ row[t].status = "PAID" /\ ~row[t].void /\ Tick
    /\ row' = [row EXCEPT ![t].void = TRUE, ![t].pupd = Now]
    /\ UNCHANGED <<verifier, rowlock, lan, pull, crashes>>

-----------------------------------------------------------------------------
(* finance_payment_delta_payload: in the order of source_updated_at.        *)

Later(a, b) == IF a > b THEN a ELSE b
Newer(t) == cursor = 0 \/ Later(Later(row[t].src, row[t].upd), row[t].pupd) > cursor
(* Mutant: what is not paid yet is exported too.                            *)
DueUnpaid == {t \in Txns : row[t].status # "NONE" /\ Newer(t)}
Due == {t \in Txns : row[t].status = "PAID" /\ Newer(t)}

(* What is due, or the first Limit of it.                                   *)
Pages ==
    {p \in UNION {[1 .. n -> Due] : n \in 0 .. Limit} :
        LET on == {p[i] : i \in DOMAIN p} IN
        /\ \A i, j \in DOMAIN p : i < j => p[i] # p[j] /\ row[p[i]].src <= row[p[j]].src
        /\ on = Due \/ DOMAIN p = 1 .. Limit
        /\ \A t \in on, u \in Due \ on : row[t].src <= row[u].src}
ItemOf(t) == [txn |-> t, ref |-> row[t].ref, void |-> row[t].void,
              at |-> Later(row[t].src, row[t].upd)]

(* latest_timestamp                                                         *)
IsLatest(at, p) ==
    LET times == {cursor} \cup {ItemOf(p[i]).at : i \in DOMAIN p} IN
    at \in times /\ \A other \in times : other <= at

FetchPage(p, at) ==
    /\ pull.pc = "idle" /\ IsLatest(at, p)
    /\ pull' = [Idle EXCEPT !.pc = "item", !.latest = at,
                            !.items = [i \in DOMAIN p |-> ItemOf(p[i])]]

(* Mutant: the cursor is saved before the items are worked through.         *)
FetchAndAdvance ==
    /\ \E p \in Pages, at \in Times : FetchPage(p, at) /\ cursor' = at
    /\ UNCHANGED <<cloud, payments, lanrow, receipts, known, skipped, crashes>>

Fetch ==
    /\ \E p \in Pages, at \in Times : FetchPage(p, at)
    /\ UNCHANGED <<cloud, lan, crashes>>

-----------------------------------------------------------------------------
(* reconcile_cloud_payment_item, on the first item that is left.            *)

Working == pull.pc = "item" /\ pull.items # << >>
item == Head(pull.items)
NextItem == pull' = [pull EXCEPT !.pc = "item", !.items = Tail(@), !.found = 0]

(* existing_payment: the LAN's payment under either reference, 0 if none.   *)
(* Mutant: only the gateway's reference is searched.                        *)
FoundByGateway(t, ref) ==
    LET hits == {n \in DOMAIN payments[t] : payments[t][n].ref = ref} IN
    IF hits = {} THEN 0 ELSE CHOOSE n \in hits : TRUE
Found(t, ref) ==
    LET hits == {n \in DOMAIN payments[t] : payments[t][n].ref \in {ref, "own"}} IN
    IF hits = {} THEN 0 ELSE CHOOSE n \in hits : TRUE

Existing == Found(item.txn, item.ref)
Conflict == Existing # 0 /\ payments[item.txn][Existing].by = "differs"

Skip ==
    /\ Working /\ item.txn \notin known
    /\ skipped' = skipped \cup {item.txn} /\ NextItem
    /\ UNCHANGED <<cloud, payments, lanrow, receipts, known, cursor, crashes>>

(* Mutant: a conflict raises.                                               *)
ConflictRaises ==
    /\ Working /\ item.txn \in known /\ Conflict
    /\ pull' = Idle
    /\ UNCHANGED <<cloud, lan, crashes>>

RecordConflict ==
    /\ Working /\ item.txn \in known /\ Conflict
    /\ NextItem
    /\ UNCHANGED <<cloud, lan, crashes>>

(* The gateway row is there now; a linked one that is as new is a duplicate.*)
LookUp ==
    LET r == lanrow[item.txn] IN
    /\ Working /\ item.txn \in known /\ ~Conflict
    /\ lanrow' = [lanrow EXCEPT ![item.txn].at = IF r.at = 0 THEN item.at ELSE @]
    /\ IF r.linked /\ r.at >= item.at
          THEN NextItem
          ELSE pull' = [pull EXCEPT !.pc = "looked", !.found = Existing]
    /\ UNCHANGED <<cloud, payments, receipts, known, skipped, cursor, crashes>>

(* A payment is created, or the one found takes over the void flag.  The    *)
(* bursar's own has a receipt, and Payment.save refuses the cloud's note.   *)
Pay ==
    LET t == item.txn  n == pull.found IN
    /\ pull.pc = "looked"
    /\ \/ /\ n = 0
          /\ payments' = [payments EXCEPT ![t] =
                            Append(@, [ref |-> item.ref, void |-> item.void, by |-> "pull"])]
          /\ pull' = [pull EXCEPT !.pc = "paid"]
       \/ /\ n # 0 /\ payments[t][n].by = "pull"
          /\ payments' = [payments EXCEPT ![t][n].void = item.void]
          /\ pull' = [pull EXCEPT !.pc = "paid"]
       \/ /\ n # 0 /\ payments[t][n].by = "same"
          /\ pull' = Idle /\ UNCHANGED payments
    /\ UNCHANGED <<cloud, lanrow, receipts, known, skipped, cursor, crashes>>

Link ==
    /\ pull.pc = "paid"
    /\ lanrow' = [lanrow EXCEPT ![item.txn] = [at |-> item.at, linked |-> TRUE]]
    /\ pull' = [pull EXCEPT !.pc = "linked"]
    /\ UNCHANGED <<cloud, payments, receipts, known, skipped, cursor, crashes>>

IssueReceipt ==
    /\ pull.pc = "linked"
    /\ receipts' = receipts \cup {item.txn} /\ NextItem
    /\ UNCHANGED <<cloud, payments, lanrow, known, skipped, cursor, crashes>>

(* Mutant: the cursor becomes the present time.                             *)
AdvanceToNow ==
    /\ pull.pc = "item" /\ pull.items = << >>
    /\ cursor' = Now /\ pull' = Idle
    /\ UNCHANGED <<cloud, payments, lanrow, receipts, known, skipped, crashes>>

Advance ==
    /\ pull.pc = "item" /\ pull.items = << >>
    /\ cursor' = pull.latest /\ pull' = Idle
    /\ UNCHANGED <<cloud, payments, lanrow, receipts, known, skipped, crashes>>

PullDies ==
    /\ pull.pc # "idle" /\ crashes < MaxCrashes
    /\ pull' = Idle /\ crashes' = crashes + 1
    /\ UNCHANGED <<cloud, lan>>

-----------------------------------------------------------------------------
(* Others on the LAN.                                                       *)

StudentArrives(t) ==
    /\ t \notin known /\ known' = known \cup {t}
    /\ UNCHANGED <<cloud, payments, lanrow, receipts, skipped, cursor, pull, crashes>>

(* The bursar books by hand a payment the LAN does not have yet.            *)
BookByHand(t, amount) ==
    /\ t \in known /\ row[t].status # "NONE" /\ payments[t] = << >>
    /\ Overlap \/ pull.pc \notin {"looked", "paid"}
    /\ payments' = [payments EXCEPT ![t] =
                      <<[ref |-> "own", void |-> FALSE, by |-> amount]>>]
    /\ receipts' = receipts \cup {t}
    /\ UNCHANGED <<cloud, lanrow, known, skipped, cursor, pull, crashes>>

-----------------------------------------------------------------------------
PullNext ==
    \/ Fetch \/ Skip \/ RecordConflict \/ LookUp \/ Pay \/ Link \/ IssueReceipt \/ Advance

Next ==
    \/ \E t \in Txns :
          \/ Initialize(t) \/ VoidInCloud(t) \/ StudentArrives(t)
          \/ \E amount \in {"same", "differs"} : BookByHand(t, amount)
          \/ \E rrr \in BOOLEAN : Callback(t, rrr)
    \/ \E v \in Verifiers :
          \/ Stamp(v) \/ Commit(v) \/ VerifierDies(v)
          \/ \E t \in Txns : Lock(v, t)
    \/ PullNext \/ PullDies

Spec == Init /\ [][Next]_vars

(* The pull is started again and again, and goes on.                        *)
FairSpec == Spec /\ WF_vars(PullNext)

-----------------------------------------------------------------------------
(* Properties.                                                              *)

(* A reference is paid once in the cloud, though the callback, the webhook  *)
(* and the task verify it at the same moment, or one dies and is repeated.  *)
PaidOnce == \A t \in Txns : row[t].payments <= 1

(* The LAN has one payment of a reference, though a pull dies between two   *)
(* of its commits and is run again, the bursar books the payment before it, *)
(* and a late callback changes the gateway's reference.                     *)
ImportedOnce == \A t \in Txns : Len(payments[t]) <= 1

(* The cursor passes a payment only when the LAN has it, or has recorded    *)
(* that its student is unknown (the cursor row is saved after the items).  *)
NothingPassed ==
    \A t \in Txns :
        row[t].status = "PAID" /\ row[t].src <= cursor => payments[t] # << >> \/ t \in skipped

(* Both nodes' books keep the promise of PaymentLedger.                     *)
Imported == {t \in Txns : \E n \in DOMAIN payments[t] : payments[t][n].by = "pull"}
Cancelled == {t \in Txns : \E n \in DOMAIN payments[t] : payments[t][n].void}
Ledger == INSTANCE PaymentLedger WITH
    Refs <- Txns,
    recorded <- [t \in Txns |-> row[t].payments],
    voided <- {t \in Txns : row[t].void},
    booked <- [t \in Txns |-> Len(payments[t])],
    imported <- Imported, cancelled <- Cancelled,
    receipted <- receipts
LedgerHolds == Ledger!Spec

(* Whatever the cloud recorded reaches the LAN, when the pull is run again  *)
(* after it died; but not when the bursar has booked such a payment by hand *)
(* (its receipt makes the pull fail at it, every time).                     *)
PaidIsImported ==
    \A t \in Txns : row[t].status = "PAID" ~>
        \/ payments[t] # << >> \/ t \in skipped
        \/ \E u \in Txns : \E n \in DOMAIN payments[u] : payments[u][n].by = "same"
=============================================================================
