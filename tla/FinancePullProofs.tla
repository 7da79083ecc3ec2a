------------------------ MODULE FinancePullProofs ------------------------
(* Theorems about FinancePull, for every value of its constants.            *)
EXTENDS FinancePull, FiniteSetTheorems, TLAPS

-----------------------------------------------------------------------------
(* The cloud.                                                               *)

(* A reference that is being verified is locked by its verifier and not     *)
(* paid; only what is paid has a payment; nothing is stamped in the future. *)
CloudInv ==
    /\ row \in [Txns -> CloudRow] /\ clock \in Times
    /\ verifier \in [Verifiers -> Verification]
    /\ rowlock \in [Txns -> Verifiers \cup {Nobody}]
    /\ \A t \in Txns : row[t].payments = IF row[t].status = "PAID" THEN 1 ELSE 0
    /\ \A t \in Txns : row[t].src <= clock /\ row[t].upd <= clock
    /\ \A v \in Verifiers : verifier[v].at <= clock
    /\ \A v \in Verifiers : verifier[v].pc # "idle" =>
          /\ verifier[v].txn \in Txns
          /\ rowlock[verifier[v].txn] = v
          /\ row[verifier[v].txn].status = "INITIALIZED"

LEMMA CloudInit == Init => CloudInv
BY Parameters DEF Init, CloudInv, CloudRow, NoCloudRow, References, Times, NoVerification, Verification

LEMMA CloudStep == CloudInv /\ [Next]_vars => CloudInv'
<1> SUFFICES ASSUME CloudInv, [Next]_vars PROVE CloudInv'
  OBVIOUS
<1> USE Parameters
<1>1. ASSUME NEW t \in Txns, Initialize(t) PROVE CloudInv'
  BY <1>1 DEF CloudInv, Initialize, CloudRow, References, Times
<1>2. ASSUME NEW t \in Txns, NEW rrr \in BOOLEAN, Callback(t, rrr) PROVE CloudInv'
  <2>1. clock' = clock + 1 /\ clock' \in Times
    BY <1>2 DEF CloudInv, Callback, Tick, Now, Times
  <2>2. row' \in [Txns -> CloudRow]
    <3>1. row[t] \in CloudRow
      BY DEF CloudInv
    <3>2. [row[t] EXCEPT !.upd = clock', !.ref = IF rrr THEN "other" ELSE @] \in CloudRow
      BY <3>1, <2>1 DEF CloudRow, References
    <3>3. row' = [row EXCEPT ![t] = [row[t] EXCEPT !.upd = clock', !.ref = IF rrr THEN "other" ELSE @]]
      BY <1>2, <2>1 DEF CloudInv, Callback, Now
    <3>. QED  BY <3>2, <3>3 DEF CloudInv
  <2>3. \A u \in Txns : /\ row'[u].status = row[u].status /\ row'[u].payments = row[u].payments
                        /\ row'[u].src = row[u].src /\ row'[u].upd \in {row[u].upd, clock'}
    BY <1>2, <2>1 DEF CloudInv, Callback, Now, CloudRow
  <2>4. \A u \in Txns : row[u].src \in Nat /\ row[u].upd \in Nat
    BY DEF CloudInv, CloudRow, Times
  <2>5. clock \in Nat /\ \A v \in Verifiers : verifier[v].at \in Nat
    BY DEF CloudInv, Times, Verification
  <2>6. verifier' = verifier /\ rowlock' = rowlock
    BY <1>2 DEF Callback
  <2>. QED  BY <2>1, <2>2, <2>3, <2>4, <2>5, <2>6 DEF CloudInv
<1>3. ASSUME NEW v \in Verifiers, NEW t \in Txns, Lock(v, t) PROVE CloudInv'
  <2>. DEFINE new == [verifier[v] EXCEPT !.pc = "locked", !.txn = t]
  <2>1. new \in Verification /\ new.pc = "locked" /\ new.txn = t /\ new.at = verifier[v].at
    <3>1. verifier[v] \in Verification
      BY DEF CloudInv
    <3>. QED  BY <3>1 DEF Verification
  <2>2. verifier' = [verifier EXCEPT ![v] = new]
    BY <1>3 DEF CloudInv, Lock
  <2>3. verifier[v].at \in Nat /\ verifier[v].at <= clock
    BY <1>3 DEF CloudInv, Lock, Verification, Times
  <2>. HIDE DEF new
  <2>4. \A w \in Verifiers \ {v} : verifier[w].pc # "idle" => verifier[w].txn # t
    BY <1>3 DEF CloudInv, Lock
  <2>. QED  BY <1>3, <2>1, <2>2, <2>3, <2>4 DEF CloudInv, Lock, ToRecord
<1>4. ASSUME NEW v \in Verifiers, Stamp(v) PROVE CloudInv'
  <2>1. clock' = clock + 1 /\ clock' \in Times
    BY <1>4 DEF CloudInv, Stamp, Tick, Now, Times
  <2>. DEFINE new == [verifier[v] EXCEPT !.pc = "stamped", !.at = clock']
  <2>2. new \in Verification /\ new.pc = "stamped" /\ new.txn = verifier[v].txn /\ new.at = clock'
    <3>1. verifier[v] \in Verification
      BY DEF CloudInv
    <3>. QED  BY <3>1, <2>1 DEF Verification
  <2>3. verifier' = [verifier EXCEPT ![v] = new]
    BY <1>4, <2>1 DEF CloudInv, Stamp, Now
  <2>. HIDE DEF new
  <2>4. \A w \in Verifiers :
           /\ verifier'[w].at <= clock' /\ verifier'[w].txn = verifier[w].txn
           /\ verifier'[w].pc # "idle" => verifier[w].pc # "idle"
    BY <1>4, <2>1, <2>2, <2>3 DEF CloudInv, Stamp, Times, Verification
  <2>5. verifier' \in [Verifiers -> Verification]
    BY <2>2, <2>3 DEF CloudInv
  <2>. QED  BY <1>4, <2>1, <2>4, <2>5 DEF CloudInv, Stamp, CloudRow, Times
<1>5. ASSUME NEW v \in Verifiers, Commit(v) PROVE CloudInv'
  <2>. DEFINE t == verifier[v].txn  at == verifier[v].at
              new == [row[t] EXCEPT !.status = "PAID", !.src = at, !.upd = at, !.pupd = at,
                                    !.payments = @ + 1]
  <2>1. /\ t \in Txns /\ at \in Times /\ at <= clock
        /\ row[t] \in CloudRow /\ row[t].payments = 0
    BY <1>5 DEF CloudInv, Commit, Verification
  <2>2. /\ new \in CloudRow /\ new.status = "PAID" /\ new.payments = 1
        /\ new.src = at /\ new.upd = at
    <3>0. row[t].payments + 1 = 1 /\ 1 \in 0 .. 2
      BY <2>1
    <3>. HIDE DEF t, at
    <3>1. new \in CloudRow
      BY <2>1, <3>0 DEF CloudRow
    <3>. QED  BY <3>1, <2>1 DEF CloudRow
  <2>3. row' = [row EXCEPT ![t] = new]
    BY <1>5 DEF CloudInv, Commit
  <2>4. \A w \in Verifiers \ {v} : verifier[w].pc # "idle" => verifier[w].txn # t
    BY <1>5 DEF CloudInv, Commit
  <2>5. /\ verifier' \in [Verifiers -> Verification] /\ verifier'[v].pc = "idle"
        /\ verifier'[v].at = 0
        /\ \A w \in Verifiers \ {v} : verifier'[w] = verifier[w]
    BY <1>5 DEF CloudInv, Commit, Ended, NoVerification, Verification, Times
  <2>6. rowlock' = [rowlock EXCEPT ![t] = Nobody] /\ clock' = clock
    BY <1>5 DEF Commit
  <2>. HIDE DEF new, t, at
  <2>7. verifier[v].txn = t
    BY DEF t
  <2>. QED  BY <2>1, <2>2, <2>3, <2>4, <2>5, <2>6, <2>7 DEF CloudInv, Times
<1>6. ASSUME NEW v \in Verifiers, VerifierDies(v) PROVE CloudInv'
  BY <1>6 DEF CloudInv, VerifierDies, Ended, NoVerification, Verification, Times
<1>7. ASSUME NEW t \in Txns, VoidInCloud(t) PROVE CloudInv'
  <2>1. clock' = clock + 1 /\ clock' \in Times
    BY <1>7 DEF CloudInv, VoidInCloud, Tick, Now, Times
  <2>2. row' \in [Txns -> CloudRow]
    <3>1. row[t] \in CloudRow
      BY DEF CloudInv
    <3>2. [row[t] EXCEPT !.void = TRUE, !.pupd = clock'] \in CloudRow
      BY <3>1, <2>1 DEF CloudRow
    <3>3. row' = [row EXCEPT ![t] = [row[t] EXCEPT !.void = TRUE, !.pupd = clock']]
      BY <1>7, <2>1 DEF CloudInv, VoidInCloud, Now
    <3>. QED  BY <3>2, <3>3 DEF CloudInv
  <2>3. \A u \in Txns : /\ row'[u].status = row[u].status /\ row'[u].payments = row[u].payments
                        /\ row'[u].src = row[u].src /\ row'[u].upd = row[u].upd
    BY <1>7 DEF CloudInv, VoidInCloud, CloudRow
  <2>4. \A u \in Txns : row[u].src \in Nat /\ row[u].upd \in Nat
    BY DEF CloudInv, CloudRow, Times
  <2>5. clock \in Nat /\ \A v \in Verifiers : verifier[v].at \in Nat
    BY DEF CloudInv, Times, Verification
  <2>6. verifier' = verifier /\ rowlock' = rowlock
    BY <1>7 DEF VoidInCloud
  <2>. QED  BY <2>1, <2>2, <2>3, <2>4, <2>5, <2>6 DEF CloudInv
<1>8. ASSUME NEW t \in Txns, StudentArrives(t) PROVE CloudInv'
  BY <1>8 DEF CloudInv, StudentArrives, cloud
<1>9. ASSUME NEW t \in Txns, NEW amount \in {"same", "differs"}, BookByHand(t, amount) PROVE CloudInv'
  BY <1>9 DEF CloudInv, BookByHand, cloud
<1>10. CASE PullNext \/ PullDies \/ UNCHANGED vars
  BY <1>10 DEF CloudInv, PullNext, PullDies, Fetch, Skip, RecordConflict, LookUp, Pay, Link,
               IssueReceipt, Advance, cloud, vars
<1>. QED
  BY <1>1, <1>2, <1>3, <1>4, <1>5, <1>6, <1>7, <1>8, <1>9, <1>10 DEF Next

(* A reference is paid once in the cloud, whatever number of callbacks,     *)
(* webhooks and tasks verify it at the same moment or after a death: the    *)
(* row lock is held from the reading of the status to the commit.           *)
THEOREM PaidOnceHolds == Spec => []PaidOnce
<1>1. CloudInv => PaidOnce
  BY DEF CloudInv, PaidOnce
<1>. QED  BY <1>1, CloudInit, CloudStep, PTL DEF Spec

-----------------------------------------------------------------------------
(* The LAN.                                                                 *)

LanTypes ==
    /\ payments \in [Txns -> Seq(Payment)] /\ lanrow \in [Txns -> LanRow]
    /\ receipts \subseteq Txns /\ known \subseteq Txns /\ skipped \subseteq Txns
    /\ cursor \in 0 .. clock /\ crashes \in Nat
    /\ pull \in Pull /\ pull.latest <= clock
    /\ pull.pc \in {"looked", "paid", "linked"} => pull.items # << >>

LEMMA ItemsLeft ==
    ASSUME NEW items \in Seq(Item), items # << >>
    PROVE  /\ Head(items) = items[1] /\ Head(items) \in Item /\ 1 \in DOMAIN items
           /\ Tail(items) \in Seq(Item)
           /\ \A i \in DOMAIN Tail(items) : i + 1 \in DOMAIN items /\ Tail(items)[i] = items[i + 1]
           /\ \A i \in DOMAIN items : i # 1 => i - 1 \in DOMAIN Tail(items)
OBVIOUS

(* What the working steps do to the list.                                   *)
LEMMA NextItemTypes ==
    ASSUME LanTypes, pull.items # << >>, NextItem
    PROVE  /\ pull' \in Pull /\ pull'.pc = "item" /\ pull'.latest = pull.latest
           /\ pull'.items = Tail(pull.items) /\ pull'.found = 0
<1>1. pull.items \in Seq(Item) /\ pull \in Pull
  BY DEF LanTypes, Pull
<1>2. Tail(pull.items) \in Seq(Item)
  BY <1>1, ItemsLeft
<1>. QED  BY <1>1, <1>2 DEF NextItem, Pull

LEMMA FetchTypes ==
    ASSUME CloudInv, LanTypes, NEW p \in Pages, NEW at \in Times, FetchPage(p, at)
    PROVE  /\ pull' \in Pull /\ pull'.latest <= clock /\ pull'.latest = at
           /\ pull'.pc = "item" /\ pull'.found = 0
           /\ DOMAIN pull'.items = DOMAIN p
           /\ \A i \in DOMAIN p : p[i] \in Txns /\ pull'.items[i] = ItemOf(p[i])
<1>1. PICK n \in 0 .. Limit : p \in [1 .. n -> Due]
  BY DEF Pages
<1>2. \A t \in Due : t \in Txns /\ ItemOf(t) \in Item /\ ItemOf(t).at <= clock
  <2>1. TAKE t \in Due
  <2>2. t \in Txns /\ row[t] \in CloudRow /\ row[t].src <= clock /\ row[t].upd <= clock
    BY DEF Due, CloudInv
  <2>3. Later(row[t].src, row[t].upd) \in Times /\ Later(row[t].src, row[t].upd) <= clock
    BY <2>2 DEF Later, CloudRow
  <2>. QED  BY <2>2, <2>3 DEF ItemOf, Item, CloudRow
<1>3. [i \in DOMAIN p |-> ItemOf(p[i])] \in Seq(Item)
  BY <1>1, <1>2, Parameters
<1>4. at <= clock
  BY <1>1, <1>2 DEF FetchPage, IsLatest, LanTypes, CloudInv, Times
<1>. QED  BY <1>1, <1>2, <1>3, <1>4 DEF FetchPage, Idle, Pull

LEMMA CurrentItem ==
    ASSUME LanTypes, pull.items # << >>
    PROVE  /\ item \in Item /\ item.txn \in Txns /\ 1 \in DOMAIN pull.items
           /\ item = pull.items[1]
<1>1. pull.items \in Seq(Item)
  BY DEF LanTypes, Pull
<1>. QED  BY <1>1, ItemsLeft DEF item, Item

LEMMA LanInit == Init => LanTypes
BY Parameters DEF Init, LanTypes, Idle, Pull, LanRow, Times, Payment

(* The clock does not run backwards.                                        *)
LEMMA ClockStep == CloudInv /\ [Next]_vars => clock' \in Nat /\ clock <= clock'
<1> SUFFICES ASSUME CloudInv, [Next]_vars PROVE clock' \in Nat /\ clock <= clock'
  OBVIOUS
<1>1. clock \in Nat
  BY DEF CloudInv, Times
<1>2. ASSUME NEW t \in Txns, NEW rrr \in BOOLEAN, Callback(t, rrr) PROVE Tick
  BY <1>2 DEF Callback
<1>3. ASSUME NEW v \in Verifiers, Stamp(v) PROVE Tick
  BY <1>3 DEF Stamp
<1>4. ASSUME NEW t \in Txns, VoidInCloud(t) PROVE Tick
  BY <1>4 DEF VoidInCloud
<1>5. ASSUME PullNext PROVE clock' = clock
  BY <1>5 DEF PullNext, Fetch, Skip, RecordConflict, LookUp, Pay, Link, IssueReceipt, Advance, cloud
<1>6. Tick \/ clock' = clock
  BY <1>2, <1>3, <1>4, <1>5 DEF Next, Initialize, Lock, Commit, VerifierDies, StudentArrives,
     BookByHand, PullDies, cloud, vars
<1>. QED  BY <1>1, <1>6 DEF Tick, Now

LEMMA LanStep == CloudInv /\ LanTypes /\ [Next]_vars => LanTypes'
<1> SUFFICES ASSUME CloudInv, LanTypes, [Next]_vars PROVE LanTypes'
  OBVIOUS
<1> USE Parameters
<1>0. clock' \in Nat /\ clock \in Nat /\ clock <= clock' /\ cursor \in Nat /\ pull.latest \in Nat
  BY ClockStep DEF CloudInv, LanTypes, Pull, Times
<1>1. ASSUME UNCHANGED <<lan, pull, crashes>> PROVE LanTypes'
  BY <1>0, <1>1 DEF LanTypes, lan
<1>2. ASSUME NEW t \in Txns, StudentArrives(t) PROVE LanTypes'
  BY <1>2 DEF LanTypes, StudentArrives, cloud
<1>3. ASSUME NEW t \in Txns, NEW amount \in {"same", "differs"}, BookByHand(t, amount) PROVE LanTypes'
  <2>1. <<[ref |-> "own", void |-> FALSE, by |-> amount]>> \in Seq(Payment)
    BY DEF Payment, References
  <2>. QED  BY <1>3, <2>1 DEF LanTypes, BookByHand, cloud
<1>4. CASE Fetch
  BY <1>4, FetchTypes DEF LanTypes, Fetch, lan, cloud
<1>5. CASE Skip
  BY <1>5, NextItemTypes, CurrentItem DEF LanTypes, Skip, Working, cloud
<1>6. CASE RecordConflict
  BY <1>6, NextItemTypes DEF LanTypes, RecordConflict, Working, lan, cloud
<1>7. CASE LookUp
  <2>1. item.at \in Times /\ item.txn \in Txns /\ pull.items # << >>
    BY <1>7, CurrentItem DEF LookUp, Working, Item
  <2>2. lanrow' \in [Txns -> LanRow]
    BY <1>7, <2>1 DEF LookUp, LanTypes, LanRow
  <2>3. Existing \in Nat
    <3>1. DOMAIN payments[item.txn] \subseteq Nat
      BY <2>1 DEF LanTypes
    <3>. QED  BY <3>1 DEF Existing, Found
  <2>4. pull' \in Pull /\ pull'.latest <= clock
        /\ (pull'.pc \in {"looked", "paid", "linked"} => pull'.items # << >>)
    BY <1>7, <2>1, <2>3, NextItemTypes DEF LookUp, LanTypes, Pull
  <2>. QED  BY <1>7, <2>2, <2>4 DEF LookUp, LanTypes, cloud
<1>8. CASE Pay
  <2>1. item \in Item /\ item.txn \in Txns /\ pull.items # << >>
    BY <1>8, CurrentItem DEF Pay, LanTypes
  <2>2. pull' \in Pull /\ pull'.latest <= clock
        /\ (pull'.pc \in {"looked", "paid", "linked"} => pull'.items # << >>)
    <3>1. pull' = [pull EXCEPT !.pc = "paid"] \/ pull' = Idle
      BY <1>8 DEF Pay
    <3>2. Idle \in Pull /\ Idle.pc = "idle" /\ Idle.latest <= clock
      BY <1>0, Parameters DEF Idle, Pull, Times
    <3>. QED  BY <2>1, <3>1, <3>2 DEF LanTypes, Pull
  <2>3. payments' \in [Txns -> Seq(Payment)]
    <3>1. [ref |-> item.ref, void |-> item.void, by |-> "pull"] \in Payment
      BY <2>1 DEF Item, Payment
    <3>2. Append(payments[item.txn], [ref |-> item.ref, void |-> item.void, by |-> "pull"]) \in Seq(Payment)
      BY <2>1, <3>1 DEF LanTypes
    <3>3. item.void \in BOOLEAN
      BY <2>1 DEF Item
    <3>4. ASSUME NEW n \in DOMAIN payments[item.txn]
          PROVE  [payments[item.txn] EXCEPT ![n].void = item.void] \in Seq(Payment)
      <4>1. payments[item.txn] \in Seq(Payment)
        BY <2>1 DEF LanTypes
      <4>2. payments[item.txn][n] \in Payment
        BY <4>1
      <4>3. [payments[item.txn][n] EXCEPT !.void = item.void] \in Payment
        BY <3>3, <4>2 DEF Payment
      <4>. QED  BY <4>1, <4>3
    <3>5. ASSUME NEW n, n \notin DOMAIN payments[item.txn]
          PROVE  [payments[item.txn] EXCEPT ![n].void = item.void] = payments[item.txn]
      BY <2>1, <3>5 DEF LanTypes
    <3>6. \A new \in Seq(Payment) : [payments EXCEPT ![item.txn] = new] \in [Txns -> Seq(Payment)]
      BY <2>1 DEF LanTypes
    <3>7. [payments[item.txn] EXCEPT ![pull.found].void = item.void] \in Seq(Payment)
      <4>1. payments[item.txn] \in Seq(Payment)
        BY <2>1 DEF LanTypes
      <4>2. CASE pull.found \in DOMAIN payments[item.txn]
        BY <3>4, <4>2
      <4>3. CASE pull.found \notin DOMAIN payments[item.txn]
        BY <3>5, <4>1, <4>3
      <4>. QED  BY <4>2, <4>3
    <3>. QED  BY <1>8, <3>2, <3>6, <3>7 DEF Pay, LanTypes
  <2>. QED  BY <1>8, <2>2, <2>3 DEF Pay, LanTypes, cloud
<1>9. CASE Link
  <2>1. item \in Item /\ item.txn \in Txns /\ pull.items # << >>
    BY <1>9, CurrentItem DEF Link, LanTypes
  <2>2. [at |-> item.at, linked |-> TRUE] \in LanRow
    BY <2>1 DEF Item, LanRow
  <2>. QED  BY <1>9, <2>1, <2>2 DEF Link, LanTypes, Pull, cloud
<1>10. CASE IssueReceipt
  BY <1>10, NextItemTypes, CurrentItem DEF LanTypes, IssueReceipt, cloud
<1>11. CASE Advance
  BY <1>0, <1>11 DEF LanTypes, Advance, cloud, Idle, Pull, Times, CloudInv
<1>12. CASE PullDies
  BY <1>0, <1>12 DEF LanTypes, PullDies, cloud, lan, Idle, Pull, Times, CloudInv
<1>. QED
  BY <1>1, <1>2, <1>3, <1>4, <1>5, <1>6, <1>7, <1>8, <1>9, <1>10, <1>11, <1>12
     DEF Next, PullNext, Initialize, Callback, Lock, Stamp, Commit, VerifierDies, VoidInCloud, vars

(* Every reachable state has the types the runs check, whatever the number  *)
(* of transactions, verifiers and crashes.                                  *)
THEOREM TypeCorrect == Spec => []TypeOK
<1>1. CloudInv /\ LanTypes => TypeOK
  BY DEF CloudInv, LanTypes, TypeOK
<1>. QED  BY <1>1, CloudInit, CloudStep, LanInit, LanStep, PTL DEF Spec

-----------------------------------------------------------------------------
(* One payment on the LAN.                                                  *)

(* An item carries the gateway's reference when a payment does: the row has *)
(* it, and gives it back no more.  So the lookup finds what there is.       *)
ItemFits(i) ==
    /\ i.ref = "other" => row[i.txn].ref = "other"
    /\ \A n \in DOMAIN payments[i.txn] : payments[i.txn][n].ref = "other" => i.ref = "other"
ImportInv ==
    /\ \A t \in Txns : Len(payments[t]) <= 1
    /\ \A t \in Txns : \A n \in DOMAIN payments[t] :
          payments[t][n].ref = "other" => row[t].ref = "other"
    /\ \A i, j \in DOMAIN pull.items : pull.items[i].txn = pull.items[j].txn => i = j
    /\ \A i \in DOMAIN pull.items : ItemFits(pull.items[i])
    /\ pull.pc = "looked" =>
          /\ pull.found = 0 => payments[item.txn] = << >>
          /\ pull.found # 0 => pull.found \in DOMAIN payments[item.txn]

LEMMA ImportInit == Init => ImportInv
BY DEF Init, ImportInv, Idle

LEMMA ItemTxns == LanTypes => \A i \in DOMAIN pull.items : pull.items[i] \in Item /\ pull.items[i].txn \in Txns
<1>1. LanTypes => pull.items \in Seq(Item)
  BY DEF LanTypes, Pull
<1>2. LanTypes => \A i \in DOMAIN pull.items : pull.items[i] \in Item
  BY <1>1
<1>. QED  BY <1>2 DEF Item

(* A reference of the gateway stays.                                        *)
LEMMA RefStays ==
    ASSUME CloudInv, [Next]_vars
    PROVE  \A t \in Txns : row[t].ref = "other" => row'[t].ref = "other"
<1>1. row \in [Txns -> CloudRow]
  BY DEF CloudInv
<1>2. ASSUME NEW t \in Txns, Initialize(t) PROVE \A u \in Txns : row'[u].ref = row[u].ref
  BY <1>1, <1>2 DEF Initialize, CloudRow
<1>3. ASSUME NEW t \in Txns, NEW rrr \in BOOLEAN, Callback(t, rrr)
      PROVE \A u \in Txns : row'[u].ref \in {row[u].ref, "other"}
  BY <1>1, <1>3 DEF Callback, CloudRow
<1>4. ASSUME NEW v \in Verifiers, Commit(v) PROVE \A u \in Txns : row'[u].ref = row[u].ref
  BY <1>1, <1>4 DEF Commit, CloudRow
<1>5. ASSUME NEW t \in Txns, VoidInCloud(t) PROVE \A u \in Txns : row'[u].ref = row[u].ref
  BY <1>1, <1>5 DEF VoidInCloud, CloudRow
<1>6. ASSUME PullNext PROVE row' = row
  BY <1>6 DEF PullNext, Fetch, Skip, RecordConflict, LookUp, Pay, Link, IssueReceipt, Advance, cloud
<1>. QED
  BY <1>2, <1>3, <1>4, <1>5, <1>6
     DEF Next, Lock, Stamp, VerifierDies, StudentArrives, BookByHand, PullDies, cloud, vars

(* A step that leaves the payments and shortens the list, or leaves it.     *)
LEMMA ImportKeeps ==
    ASSUME CloudInv, LanTypes, ImportInv, [Next]_vars, payments' = payments,
           \/ pull' = pull
           \/ pull'.items = << >> /\ pull'.pc # "looked"
           \/ pull'.items = Tail(pull.items) /\ pull.items # << >> /\ pull'.pc # "looked"
    PROVE  ImportInv'
<1>1. \A i \in DOMAIN pull.items : \A x : x = pull.items[i] => ItemFits(x)'
  <2>1. \A x : x.txn \in Txns /\ ItemFits(x) => ItemFits(x)'
    BY RefStays DEF ItemFits
  <2>. QED  BY <2>1, ItemTxns DEF ImportInv
<1>2. \A t \in Txns : \A n \in DOMAIN payments[t] :
          payments[t][n].ref = "other" => row'[t].ref = "other"
  BY RefStays DEF ImportInv
<1>3. CASE pull' = pull
  BY <1>1, <1>2, <1>3 DEF ImportInv, item, ItemFits
<1>4. CASE pull'.items = << >> /\ pull'.pc # "looked"
  BY <1>2, <1>4 DEF ImportInv
<1>5. CASE pull'.items = Tail(pull.items) /\ pull.items # << >> /\ pull'.pc # "looked"
  <2>1. pull.items \in Seq(Item)
    BY DEF LanTypes, Pull
  <2>2. \A i \in DOMAIN pull'.items : i \in Nat /\ i + 1 \in DOMAIN pull.items
                                     /\ pull'.items[i] = pull.items[i + 1]
    BY <1>5, <2>1, ItemsLeft
  <2>3. \A i, j \in DOMAIN pull'.items : pull'.items[i].txn = pull'.items[j].txn => i = j
    BY <2>2 DEF ImportInv
  <2>4. \A i \in DOMAIN pull'.items : ItemFits(pull.items[i])'
    BY <1>1, <2>2 DEF ItemFits
  <2>. QED  BY <1>2, <1>5, <2>3, <2>4 DEF ImportInv
<1>. QED  BY <1>3, <1>4, <1>5

LEMMA ImportStep ==
    ASSUME ~Overlap
    PROVE  CloudInv /\ LanTypes /\ ImportInv /\ [Next]_vars => ImportInv'
<1> SUFFICES ASSUME CloudInv, LanTypes, ImportInv, [Next]_vars PROVE ImportInv'
  OBVIOUS
<1>1. CASE payments' = payments /\ pull' = pull
  BY <1>1, ImportKeeps
<1>2. ASSUME NEW t \in Txns, NEW amount \in {"same", "differs"}, BookByHand(t, amount) PROVE ImportInv'
  <2>1. pull.pc # "looked" /\ pull' = pull /\ row' = row
    BY <1>2 DEF BookByHand, cloud
  <2>2. payments' = [payments EXCEPT ![t] = <<[ref |-> "own", void |-> FALSE, by |-> amount]>>]
    BY <1>2 DEF BookByHand
  <2>3. \A u \in Txns : Len(payments'[u]) <= 1
    BY <2>2 DEF ImportInv, LanTypes
  <2>4. \A u \in Txns : \A n \in DOMAIN payments'[u] :
           payments'[u][n].ref = "other" => u # t /\ payments'[u] = payments[u]
    BY <2>2 DEF LanTypes
  <2>5. \A i \in DOMAIN pull.items : ItemFits(pull.items[i])'
    BY <2>1, <2>4, ItemTxns DEF ImportInv, ItemFits
  <2>. QED  BY <2>1, <2>3, <2>4, <2>5 DEF ImportInv
<1>3. CASE Fetch
  <2>1. PICK p \in Pages, at \in Times : FetchPage(p, at)
    BY <1>3 DEF Fetch
  <2>2. pull'.pc = "item" /\ DOMAIN pull'.items = DOMAIN p /\ row' = row /\ payments' = payments
        /\ \A i \in DOMAIN p : p[i] \in Txns /\ pull'.items[i] = ItemOf(p[i])
    BY <1>3, <2>1, FetchTypes DEF Fetch, cloud, lan
  <2>3. \A i, j \in DOMAIN p : p[i] = p[j] => i = j
    <3>1. \A i, j \in DOMAIN p : i \in Int /\ j \in Int /\ (i < j => p[i] # p[j])
      BY Parameters DEF Pages
    <3>. QED  BY <3>1
  <2>4. \A i \in DOMAIN p : \A x : x = ItemOf(p[i]) => ItemFits(x)'
    BY <2>2 DEF ItemFits, ItemOf, ImportInv
  <2>5. \A i \in DOMAIN pull'.items : ItemFits(pull.items[i])'
    BY <2>2, <2>4 DEF ItemFits
  <2>6. \A i, j \in DOMAIN pull'.items : pull'.items[i].txn = pull'.items[j].txn => i = j
    <3>1. \A t : ItemOf(t).txn = t
      BY DEF ItemOf
    <3>2. \A i \in DOMAIN p : pull'.items[i].txn = p[i]
      BY <2>2, <3>1
    <3>. QED  BY <2>2, <2>3, <3>2
  <2>. QED  BY <2>2, <2>5, <2>6 DEF ImportInv
<1>4. CASE Skip \/ RecordConflict \/ IssueReceipt
  <2>1. NextItem /\ pull.items # << >> /\ payments' = payments
    BY <1>4 DEF Skip, RecordConflict, IssueReceipt, Working, lan, LanTypes
  <2>. QED  BY <2>1, NextItemTypes, ImportKeeps
<1>5. CASE LookUp
  <2>1. pull.items # << >> /\ payments' = payments /\ row' = row
    BY <1>5 DEF LookUp, Working, cloud
  <2>2. CASE NextItem
    BY <2>1, <2>2, NextItemTypes, ImportKeeps
  <2>3. CASE pull' = [pull EXCEPT !.pc = "looked", !.found = Existing]
    <3>1. pull'.items = pull.items /\ pull'.found = Existing /\ item' = item
      BY <2>3 DEF LanTypes, Pull, item
    <3> DEFINE t == item.txn
               hits == {n \in DOMAIN payments[t] : payments[t][n].ref \in {item.ref, "own"}}
    <3>2. t \in Txns /\ item \in Item /\ ItemFits(item)
      BY <2>1, CurrentItem DEF ImportInv
    <3>3. payments[t] \in Seq(Payment) /\ \A n \in DOMAIN payments[t] : n # 0 /\ payments[t][n] \in Payment
      BY <3>2 DEF LanTypes
    <3>4. CASE hits = {}
      <4>1. Existing = 0
        BY <3>4 DEF Existing, Found
      <4>2. \A n \in DOMAIN payments[t] : n \in hits
        <5>1. TAKE n \in DOMAIN payments[t]
        <5>2. payments[t][n].ref \in {"own", "other"}
          BY <3>3 DEF Payment, References
        <5>3. payments[t][n].ref = "other" => item.ref = "other"
          BY <3>2 DEF ItemFits
        <5>. QED  BY <5>2, <5>3
      <4>3. payments[t] = << >>
        BY <3>3, <3>4, <4>2
      <4>. QED  BY <2>1, <3>1, <4>1, <4>3 DEF ImportInv, ItemFits
    <3>5. CASE hits # {}
      <4>1. Existing \in hits
        BY <3>5 DEF Existing, Found
      <4>2. Existing \in DOMAIN payments[t] /\ Existing # 0
        BY <3>3, <4>1
      <4>. QED  BY <2>1, <3>1, <4>2 DEF ImportInv, ItemFits
    <3>. QED  BY <3>4, <3>5
  <2>. QED  BY <1>5, <2>2, <2>3 DEF LookUp
<1>6. CASE Pay
  <2> DEFINE t == item.txn  n == pull.found
  <2>1. /\ t \in Txns /\ item \in Item /\ ItemFits(item) /\ row' = row /\ pull.items # << >>
        /\ 1 \in DOMAIN pull.items /\ item = pull.items[1] /\ payments[t] \in Seq(Payment)
    BY <1>6, CurrentItem DEF ImportInv, Pay, cloud, LanTypes
  <2>2. CASE payments' = payments /\ pull' = Idle
    BY <2>2, ImportKeeps DEF Idle
  <2>3. ASSUME pull' = [pull EXCEPT !.pc = "paid"], NEW new, payments' = [payments EXCEPT ![t] = new],
               Len(new) <= 1,
               \A m \in DOMAIN new : new[m].ref = "other" => item.ref = "other"
        PROVE  ImportInv'
    <3>1. pull'.items = pull.items /\ pull'.pc = "paid"
      BY <2>3 DEF LanTypes, Pull
    <3>2. payments'[t] = new /\ \A u \in Txns \ {t} : payments'[u] = payments[u]
      BY <2>1, <2>3 DEF LanTypes
    <3>3. \A i \in DOMAIN pull.items : ItemFits(pull.items[i])'
      <4>1. TAKE i \in DOMAIN pull.items
      <4>2. pull.items[i].txn \in Txns /\ ItemFits(pull.items[i])
        BY ItemTxns DEF ImportInv
      <4>3. CASE pull.items[i].txn = t
        <5>1. i = 1
          BY <2>1, <4>3 DEF ImportInv
        <5>. QED  BY <2>1, <2>3, <3>1, <3>2, <5>1 DEF ItemFits
      <4>4. CASE pull.items[i].txn # t
        BY <2>1, <3>1, <3>2, <4>2, <4>4 DEF ItemFits
      <4>. QED  BY <4>3, <4>4
    <3>4. \A u \in Txns : Len(payments'[u]) <= 1
      BY <2>3, <3>2 DEF ImportInv
    <3>5. \A u \in Txns : \A m \in DOMAIN payments'[u] :
             payments'[u][m].ref = "other" => row'[u].ref = "other"
      BY <2>1, <2>3, <3>2 DEF ImportInv, ItemFits
    <3>. QED  BY <3>1, <3>3, <3>4, <3>5 DEF ImportInv
  <2>4. CASE n = 0
    <3> DEFINE new == Append(payments[t], [ref |-> item.ref, void |-> item.void, by |-> "pull"])
    <3>1. payments[t] = << >>
      BY <1>6, <2>4 DEF Pay, ImportInv
    <3>2. new = <<[ref |-> item.ref, void |-> item.void, by |-> "pull"]>>
      BY <3>1
    <3>3. Len(new) <= 1 /\ \A m \in DOMAIN new : new[m].ref = "other" => item.ref = "other"
      BY <3>2
    <3>4. payments' = [payments EXCEPT ![t] = new] /\ pull' = [pull EXCEPT !.pc = "paid"]
      BY <1>6, <2>4 DEF Pay
    <3>. QED  BY <2>3, <3>3, <3>4
  <2>5. CASE n # 0 /\ ~(payments' = payments /\ pull' = Idle)
    <3> DEFINE new == [payments[t] EXCEPT ![n].void = item.void]
    <3>1. n \in DOMAIN payments[t] /\ Len(payments[t]) <= 1
      BY <1>6, <2>1, <2>5 DEF Pay, ImportInv
    <3>2. new \in Seq(Payment) /\ Len(new) = Len(payments[t]) /\ DOMAIN new = DOMAIN payments[t]
      <4>1. payments[t][n] \in Payment
        BY <2>1, <3>1
      <4>2. [payments[t][n] EXCEPT !.void = item.void] \in Payment
        BY <2>1, <4>1 DEF Payment, Item
      <4>. QED  BY <2>1, <3>1, <4>2
    <3>3. \A m \in DOMAIN new : new[m].ref = payments[t][m].ref
      BY <2>1, <3>1 DEF Payment
    <3>4. \A m \in DOMAIN new : new[m].ref = "other" => item.ref = "other"
      BY <2>1, <3>2, <3>3 DEF ItemFits
    <3>5. payments' = [payments EXCEPT ![t] = new] /\ pull' = [pull EXCEPT !.pc = "paid"]
      BY <1>6, <2>5 DEF Pay
    <3>. QED  BY <2>3, <3>1, <3>2, <3>4, <3>5
  <2>. QED  BY <2>2, <2>4, <2>5
<1>7. CASE Link
  <2>1. pull'.items = pull.items /\ pull'.pc = "linked" /\ payments' = payments /\ row' = row
    BY <1>7 DEF Link, cloud, LanTypes, Pull
  <2>. QED  BY <2>1 DEF ImportInv, ItemFits
<1>8. CASE Advance \/ PullDies
  BY <1>8, ImportKeeps DEF Advance, PullDies, lan, Idle
<1>. QED
  BY <1>1, <1>2, <1>3, <1>4, <1>5, <1>6, <1>7, <1>8
     DEF Next, PullNext, Initialize, Callback, Lock, Stamp, Commit, VerifierDies, VoidInCloud,
         StudentArrives, vars, lan

(* The LAN books a reference once, whatever number of pulls die half way,   *)
(* as long as the bursar does not book it between the pull's lookup and its *)
(* write: the lookup under both references finds what an earlier pull wrote.*)
THEOREM ImportedOnceHolds == ASSUME ~Overlap PROVE Spec => []ImportedOnce
<1>1. ImportInv => ImportedOnce
  BY DEF ImportInv, ImportedOnce
<1>2. CloudInv /\ LanTypes /\ ImportInv /\ [Next]_vars => ImportInv'
  BY ImportStep
<1>. QED  BY <1>1, <1>2, CloudInit, CloudStep, LanInit, LanStep, ImportInit, PTL DEF Spec

-----------------------------------------------------------------------------
(* What the cursor has passed.                                              *)

Done(t) == payments[t] # << >> \/ t \in skipped

(* A verification that has its stamp is the only one, and nothing else      *)
(* carries that stamp or a later one, in the cloud or in the pull.          *)
StampInv ==
    \A v \in Verifiers : verifier[v].pc = "stamped" =>
        /\ verifier[v].at = clock
        /\ \A w \in Verifiers : verifier[w].pc = "stamped" => w = v
        /\ \A t \in Txns : row[t].src < clock /\ row[t].upd < clock
        /\ cursor < clock /\ pull.latest < clock

(* What the pull under way will pass is on its list, until it is done.      *)
PassInv ==
    /\ NothingPassed
    /\ \A t \in Txns : lanrow[t].linked => payments[t] # << >>
    /\ pull.pc \in {"paid", "linked"} => payments[item.txn] # << >>
    /\ pull.pc # "idle" =>
          \A t \in Txns : row[t].status = "PAID" /\ row[t].src <= pull.latest =>
              Done(t) \/ \E i \in DOMAIN pull.items : pull.items[i].txn = t

LEMMA PassInit == Init => StampInv /\ PassInv
BY DEF Init, StampInv, PassInv, NothingPassed, Idle, NoVerification, NoCloudRow

(* The LAN leaves the cloud alone.                                          *)
LEMMA StampStep ==
    ASSUME ~Overlap
    PROVE  CloudInv /\ LanTypes /\ StampInv /\ [Next]_vars => StampInv'
<1> SUFFICES ASSUME CloudInv, LanTypes, StampInv, [Next]_vars PROVE StampInv'
  OBVIOUS
<1>1. /\ clock \in Nat /\ cursor \in Nat /\ cursor <= clock /\ pull.latest \in Nat /\ pull.latest <= clock
      /\ row \in [Txns -> CloudRow] /\ verifier \in [Verifiers -> Verification]
      /\ \A t \in Txns : /\ row[t].src \in Nat /\ row[t].src <= clock
                         /\ row[t].upd \in Nat /\ row[t].upd <= clock
  BY DEF CloudInv, LanTypes, CloudRow, Pull, Times
<1>2. ASSUME Tick, verifier' = verifier PROVE StampInv'
  BY <1>2 DEF Tick, Alone, StampInv
<1>3. ASSUME NEW t \in Txns, Initialize(t) PROVE StampInv'
  <2>1. \A u \in Txns : row'[u].src = row[u].src /\ row'[u].upd = row[u].upd
    BY <1>1, <1>3 DEF Initialize, CloudRow
  <2>. QED  BY <1>3, <2>1 DEF StampInv, Initialize, lan
<1>4. ASSUME NEW v \in Verifiers, Stamp(v) PROVE StampInv'
  <2>1. /\ clock' = clock + 1 /\ \A w \in Verifiers : verifier[w].pc # "stamped"
        /\ cursor' = cursor /\ pull' = pull /\ row' = row
    BY <1>4 DEF Stamp, Tick, Now, Alone, lan
  <2>2. /\ verifier'[v].at = clock'
        /\ \A w \in Verifiers \ {v} : verifier'[w] = verifier[w]
    BY <1>1, <1>4, <2>1 DEF Stamp, Verification, Now
  <2>. QED  BY <1>1, <2>1, <2>2 DEF StampInv
<1>5. ASSUME NEW v \in Verifiers, Commit(v) PROVE StampInv'
  <2>1. \A w \in Verifiers : verifier'[w].pc # "stamped"
    BY <1>1, <1>5 DEF Commit, Ended, NoVerification, StampInv
  <2>. QED  BY <2>1 DEF StampInv
<1>6. ASSUME NEW v \in Verifiers, VerifierDies(v) PROVE StampInv'
  <2>1. \A w \in Verifiers : verifier'[w].pc = "stamped" => verifier'[w] = verifier[w]
    BY <1>1, <1>6 DEF VerifierDies, Ended, NoVerification
  <2>. QED  BY <1>6, <2>1 DEF StampInv, VerifierDies, lan
<1>7. ASSUME NEW v \in Verifiers, NEW t \in Txns, Lock(v, t) PROVE StampInv'
  <2>1. \A w \in Verifiers : verifier'[w].pc = "stamped" => verifier'[w] = verifier[w]
    BY <1>1, <1>7 DEF Lock, Verification
  <2>. QED  BY <1>7, <2>1 DEF StampInv, Lock, lan
<1>8. CASE Fetch
  <2>1. PICK p \in Pages, at \in Times : FetchPage(p, at)
    BY <1>8 DEF Fetch
  <2>2. pull'.latest = at /\ \A i \in DOMAIN p : p[i] \in Txns
    BY <2>1, FetchTypes
  <2>3. at = cursor \/ \E t \in Txns : at \in {row[t].src, row[t].upd}
    BY <2>1, <2>2 DEF FetchPage, IsLatest, ItemOf, Later
  <2>. QED  BY <1>8, <2>2, <2>3 DEF StampInv, Fetch, cloud, lan
<1>9. CASE Advance
  BY <1>1, <1>9 DEF StampInv, Advance, cloud, Idle
<1>10. CASE Skip \/ RecordConflict \/ LookUp \/ Pay \/ Link \/ IssueReceipt \/ PullDies
  <2>1. pull'.latest \in {pull.latest, 0}
    <3>1. pull \in Pull /\ Idle.latest = 0
      BY DEF LanTypes, Idle
    <3>2. NextItem => pull'.latest = pull.latest
      BY <3>1 DEF NextItem, Pull
    <3>3. LookUp => pull'.latest = pull.latest
      BY <3>1, <3>2 DEF LookUp, Pull
    <3>4. Pay => pull'.latest \in {pull.latest, 0}
      BY <3>1 DEF Pay, Pull
    <3>5. Link => pull'.latest = pull.latest
      BY <3>1 DEF Link, Pull
    <3>. QED
      BY <1>10, <3>1, <3>2, <3>3, <3>4, <3>5 DEF Skip, RecordConflict, IssueReceipt, PullDies
  <2>2. row' = row /\ clock' = clock /\ verifier' = verifier /\ cursor' = cursor
    BY <1>10 DEF Skip, RecordConflict, LookUp, Pay, Link, IssueReceipt, PullDies, cloud, lan
  <2>. QED  BY <1>1, <2>1, <2>2 DEF StampInv
<1>11. CASE UNCHANGED <<cloud, cursor, pull>>
  BY <1>11 DEF StampInv, cloud
<1>. QED
  BY <1>2, <1>3, <1>4, <1>5, <1>6, <1>7, <1>8, <1>9, <1>10, <1>11
     DEF Next, PullNext, Callback, VoidInCloud, StudentArrives, BookByHand, vars, lan

(* A page that is not full holds all that is due.                           *)
LEMMA PageIsAll ==
    ASSUME Cardinality(Txns) < Limit, NEW p \in Pages, NEW t \in Due
    PROVE  \E i \in DOMAIN p : p[i] = t
<1> USE Parameters
<1>1. PICK n \in 0 .. Limit : p \in [1 .. n -> Due]
  BY DEF Pages
<1>2. \A i, j \in DOMAIN p : i < j => p[i] # p[j]
  BY DEF Pages
<1>3. ASSUME DOMAIN p = 1 .. Limit PROVE FALSE
  <2>1. p \in [1 .. Limit -> Txns]
    BY <1>1, <1>3 DEF Due
  <2>2. IsFiniteSet(1 .. Limit) /\ Cardinality(1 .. Limit) = Limit
    BY FS_Interval
  <2>3. PICK i, j \in 1 .. Limit : i # j /\ p[i] = p[j]
    <3>1. Cardinality(Txns) < Cardinality(1 .. Limit)
      BY <2>2
    <3>. QED  BY <2>1, <2>2, <3>1, FS_PigeonHole
  <2>4. i < j \/ j < i
    BY <2>3
  <2>. QED  BY <1>2, <1>3, <2>3, <2>4
<1>. QED  BY <1>3 DEF Pages

(* A step that takes the first item off the list when it is done.           *)
LEMMA PassNext ==
    ASSUME LanTypes, PassInv, UNCHANGED <<cloud, payments, cursor>>, skipped \subseteq skipped',
           \A t \in Txns : lanrow'[t].linked => lanrow[t].linked,
           pull.pc # "idle", pull.items # << >>, NextItem,
           payments[item.txn] # << >> \/ item.txn \in skipped'
    PROVE  PassInv'
<1>1. /\ pull'.latest = pull.latest /\ pull'.pc = "item" /\ pull'.items = Tail(pull.items)
      /\ pull.items \in Seq(Item) /\ item = pull.items[1]
  BY NextItemTypes, CurrentItem DEF LanTypes, Pull
<1>2. ASSUME NEW t \in Txns, row[t].status = "PAID", row[t].src <= pull.latest
      PROVE  \/ payments[t] # << >> \/ t \in skipped'
             \/ \E i \in DOMAIN pull'.items : pull'.items[i].txn = t
  <2>1. Done(t) \/ \E i \in DOMAIN pull.items : pull.items[i].txn = t
    BY <1>2 DEF PassInv
  <2>2. ASSUME NEW i \in DOMAIN pull.items, pull.items[i].txn = t, i # 1
        PROVE  \E j \in DOMAIN pull'.items : pull'.items[j].txn = t
    <3>1. i - 1 \in DOMAIN pull'.items /\ pull'.items[i - 1] = pull.items[i]
      BY <1>1, <2>2, ItemsLeft
    <3>. QED  BY <2>2, <3>1
  <2>. QED  BY <1>1, <2>1, <2>2 DEF Done
<1>. QED  BY <1>1, <1>2 DEF PassInv, NothingPassed, Done, cloud

LEMMA PassStep ==
    ASSUME ~Overlap, Cardinality(Txns) < Limit
    PROVE  CloudInv /\ LanTypes /\ ImportInv /\ StampInv /\ PassInv /\ [Next]_vars => PassInv'
<1> SUFFICES ASSUME CloudInv, LanTypes, ImportInv, StampInv, PassInv, [Next]_vars PROVE PassInv'
  OBVIOUS
<1>0. /\ clock \in Nat /\ cursor \in Nat /\ pull.latest \in Nat
      /\ row \in [Txns -> CloudRow] /\ \A t \in Txns : row[t].src \in Nat /\ row[t].upd \in Nat
  BY DEF CloudInv, LanTypes, CloudRow, Pull, Times
(* A step of the cloud that pays nothing.                                   *)
<1>1. ASSUME UNCHANGED <<lan, pull>>,
             \A t \in Txns : row'[t].status = "PAID" => row[t].status = "PAID" /\ row'[t].src = row[t].src
      PROVE  PassInv'
  BY <1>1 DEF PassInv, NothingPassed, Done, lan, item
<1>2. ASSUME NEW t \in Txns, Initialize(t) PROVE PassInv'
  <2>1. \A u \in Txns : row'[u].status = "PAID" => row[u].status = "PAID" /\ row'[u].src = row[u].src
    BY <1>0, <1>2 DEF Initialize, CloudRow
  <2>. QED  BY <1>1, <1>2, <2>1 DEF Initialize
<1>3. ASSUME NEW t \in Txns, NEW rrr \in BOOLEAN, Callback(t, rrr) PROVE PassInv'
  <2>1. \A u \in Txns : row'[u].status = row[u].status /\ row'[u].src = row[u].src
    BY <1>0, <1>3 DEF Callback, CloudRow
  <2>. QED  BY <1>1, <1>3, <2>1 DEF Callback
<1>4. ASSUME NEW t \in Txns, VoidInCloud(t) PROVE PassInv'
  <2>1. \A u \in Txns : row'[u].status = row[u].status /\ row'[u].src = row[u].src
    BY <1>0, <1>4 DEF VoidInCloud, CloudRow
  <2>. QED  BY <1>1, <1>4, <2>1 DEF VoidInCloud
<1>5. ASSUME NEW v \in Verifiers, Commit(v) PROVE PassInv'
  <2>1. verifier[v].at = clock /\ cursor < clock /\ pull.latest < clock /\ UNCHANGED <<lan, pull>>
    BY <1>5 DEF Commit, StampInv
  <2>2. \A u \in Txns : \/ row'[u].src = clock
                        \/ row'[u].status = row[u].status /\ row'[u].src = row[u].src
    BY <1>0, <1>5, <2>1 DEF Commit, CloudRow
  <2>. QED  BY <1>0, <2>1, <2>2 DEF PassInv, NothingPassed, Done, lan, item
<1>6. ASSUME NEW t \in Txns, StudentArrives(t) PROVE PassInv'
  BY <1>6 DEF StudentArrives, PassInv, NothingPassed, Done, cloud, item
<1>7. ASSUME NEW t \in Txns, NEW amount \in {"same", "differs"}, BookByHand(t, amount) PROVE PassInv'
  <2>1. \A u \in Txns : payments[u] # << >> => payments'[u] # << >>
    BY <1>7 DEF BookByHand, LanTypes
  <2>2. pull' = pull /\ item' = item /\ (pull.pc \in {"paid", "linked"} => item.txn \in Txns)
    BY <1>7, CurrentItem DEF BookByHand, LanTypes, item
  <2>. QED  BY <1>7, <2>1, <2>2 DEF BookByHand, PassInv, NothingPassed, Done, cloud
<1>8. CASE Fetch
  <2>1. PICK p \in Pages, at \in Times : FetchPage(p, at)
    BY <1>8 DEF Fetch
  <2>2. /\ pull'.latest = at /\ pull'.pc = "item" /\ DOMAIN pull'.items = DOMAIN p
        /\ \A i \in DOMAIN p : p[i] \in Txns /\ pull'.items[i].txn = p[i]
        /\ UNCHANGED <<cloud, lan>>
    <3>1. \A t : ItemOf(t).txn = t
      BY DEF ItemOf
    <3>. QED  BY <1>8, <2>1, <3>1, FetchTypes DEF Fetch
  <2>3. ASSUME NEW t \in Txns, row[t].status = "PAID"
        PROVE  Done(t) \/ \E i \in DOMAIN p : p[i] = t
    <3>1. CASE t \in Due
      BY <3>1, PageIsAll
    <3>2. CASE t \notin Due
      <4>1. row[t].src <= cursor
        BY <1>0, <2>3, <3>2 DEF Due, Newer, Later, CloudRow, Times
      <4>. QED  BY <2>3, <4>1 DEF PassInv, NothingPassed, Done
    <3>. QED  BY <3>1, <3>2
  <2>. QED  BY <2>2, <2>3 DEF PassInv, NothingPassed, Done, cloud, lan
<1>9. CASE Skip
  <2>1. pull.pc # "idle" /\ pull.items # << >> /\ NextItem /\ item.txn \in skipped'
        /\ UNCHANGED <<cloud, payments, cursor, lanrow>> /\ skipped \subseteq skipped'
    BY <1>9 DEF Skip, Working
  <2>. QED  BY <2>1, PassNext
<1>10. CASE RecordConflict
  <2>1. pull.pc # "idle" /\ pull.items # << >> /\ NextItem /\ payments[item.txn] # << >>
        /\ UNCHANGED <<cloud, payments, cursor, lanrow, skipped>>
    BY <1>10, CurrentItem DEF RecordConflict, Working, Conflict, Existing, Found, lan
  <2>. QED  BY <2>1, PassNext
<1>11. CASE LookUp
  <2>1. /\ pull.pc = "item" /\ pull.items # << >> /\ item.txn \in Txns
        /\ UNCHANGED <<cloud, payments, cursor, skipped>>
    BY <1>11, CurrentItem DEF LookUp, Working
  <2>2. \A t \in Txns : lanrow'[t].linked = lanrow[t].linked
    BY <1>11, <2>1 DEF LookUp, LanTypes, LanRow
  <2>3. CASE lanrow[item.txn].linked /\ NextItem
    <3>1. payments[item.txn] # << >>
      BY <2>1, <2>3 DEF PassInv
    <3>. QED  BY <2>1, <2>2, <2>3, <3>1, PassNext
  <2>4. CASE pull' = [pull EXCEPT !.pc = "looked", !.found = Existing]
    <3>1. pull'.items = pull.items /\ pull'.latest = pull.latest /\ pull'.pc = "looked"
      BY <2>4 DEF LanTypes, Pull
    <3>. QED  BY <2>1, <2>2, <3>1 DEF PassInv, NothingPassed, Done, cloud
  <2>. QED  BY <1>11, <2>3, <2>4 DEF LookUp
<1>12. CASE Pay
  <2>1. item.txn \in Txns /\ payments[item.txn] \in Seq(Payment) /\ item \in Item /\ pull.pc = "looked"
        /\ UNCHANGED <<cloud, cursor, lanrow, skipped>>
    BY <1>12, CurrentItem DEF Pay, LanTypes
  <2>2. \A t \in Txns : payments[t] # << >> => payments'[t] # << >>
    <3>1. payments[item.txn] # << >> =>
             [payments[item.txn] EXCEPT ![pull.found].void = item.void] # << >>
      BY <2>1
    <3>2. Append(payments[item.txn], [ref |-> item.ref, void |-> item.void, by |-> "pull"]) # << >>
      BY <2>1
    <3>. QED  BY <1>12, <2>1, <3>1, <3>2 DEF Pay, LanTypes
  <2>3. CASE pull' = Idle
    BY <2>1, <2>2, <2>3 DEF PassInv, NothingPassed, Done, cloud, Idle
  <2>4. CASE pull' = [pull EXCEPT !.pc = "paid"]
    <3>1. pull'.items = pull.items /\ pull'.latest = pull.latest /\ pull'.pc = "paid" /\ item' = item
      BY <2>4 DEF LanTypes, Pull, item
    <3>2. payments'[item.txn] # << >>
      <4>1. pull.found = 0 \/ payments[item.txn] # << >>
        BY <1>12, <2>1 DEF ImportInv, Pay
      <4>. QED  BY <1>12, <2>1, <2>2, <4>1 DEF Pay, LanTypes
    <3>. QED  BY <2>1, <2>2, <3>1, <3>2 DEF PassInv, NothingPassed, Done, cloud
  <2>. QED  BY <1>12, <2>3, <2>4 DEF Pay
<1>13. CASE Link
  <2>1. item.txn \in Txns /\ pull.pc = "paid" /\ UNCHANGED <<cloud, payments, cursor, skipped>>
    BY <1>13, CurrentItem DEF Link, LanTypes
  <2>2. pull'.items = pull.items /\ pull'.latest = pull.latest /\ pull'.pc = "linked" /\ item' = item
    BY <1>13 DEF Link, LanTypes, Pull, item
  <2>3. \A t \in Txns : lanrow'[t].linked => lanrow[t].linked \/ t = item.txn
    BY <1>13, <2>1 DEF Link, LanTypes
  <2>. QED  BY <2>1, <2>2, <2>3 DEF PassInv, NothingPassed, Done, cloud
<1>14. CASE IssueReceipt
  <2>1. pull.pc = "linked" /\ pull.items # << >> /\ NextItem /\ payments[item.txn] # << >>
        /\ UNCHANGED <<cloud, payments, cursor, lanrow, skipped>>
    BY <1>14 DEF IssueReceipt, LanTypes, PassInv
  <2>. QED  BY <2>1, PassNext
<1>15. CASE Advance
  BY <1>15 DEF Advance, PassInv, NothingPassed, Done, cloud, Idle
<1>16. CASE PullDies
  BY <1>16 DEF PullDies, PassInv, NothingPassed, Done, cloud, lan, Idle
<1>17. CASE UNCHANGED <<row, lan, pull>>
  BY <1>17, <1>1
<1>. QED
  BY <1>2, <1>3, <1>4, <1>5, <1>6, <1>7, <1>8, <1>9, <1>10, <1>11, <1>12, <1>13, <1>14, <1>15,
     <1>16, <1>17 DEF Next, PullNext, Lock, Stamp, VerifierDies, vars, cloud

(* The cursor passes no payment of the cloud that the LAN has not got or    *)
(* recorded as SKIPPED, though pulls die and payments are confirmed while   *)
(* one works, if a page holds all that is due and stamps become visible in  *)
(* their order.                                                             *)
THEOREM NothingPassedHolds ==
    ASSUME ~Overlap, Cardinality(Txns) < Limit PROVE Spec => []NothingPassed
<1>1. PassInv => NothingPassed
  BY DEF PassInv
<1>2. CloudInv /\ LanTypes /\ StampInv /\ [Next]_vars => StampInv'
  BY StampStep
<1>3. CloudInv /\ LanTypes /\ ImportInv /\ StampInv /\ PassInv /\ [Next]_vars => PassInv'
  BY PassStep
<1>4. CloudInv /\ LanTypes /\ ImportInv /\ [Next]_vars => ImportInv'
  BY ImportStep
<1>. QED
  BY <1>1, <1>2, <1>3, <1>4, ImportInit, CloudInit, CloudStep, LanInit, LanStep, PassInit, PTL DEF Spec
-----------------------------------------------------------------------------
(* The books of both nodes keep the promise of PaymentLedger.               *)

(* What the pull has listed is recorded, and void only if it is void in the *)
(* cloud; a payment the LAN calls void is listed as void from then on.      *)
ItemTrue(i) ==
    /\ row[i.txn].status = "PAID" /\ (i.void => row[i.txn].void)
    /\ \A n \in DOMAIN payments[i.txn] : payments[i.txn][n].void => i.void
LedgerInv ==
    /\ \A t \in Txns : \A n \in DOMAIN payments[t] : payments[t][n].void => row[t].void
    /\ \A i \in DOMAIN pull.items : ItemTrue(pull.items[i])
    /\ pull.pc \in {"paid", "linked"} => payments[item.txn] # << >>

LEMMA LedgerInit == Init => LedgerInv
BY DEF Init, LedgerInv, Idle

(* The cloud takes nothing back.                                            *)
LEMMA RowStays ==
    ASSUME CloudInv, [Next]_vars
    PROVE  \A t \in Txns : /\ row[t].status = "PAID" => row'[t].status = "PAID"
                           /\ row[t].void => row'[t].void
<1>1. row \in [Txns -> CloudRow]
  BY DEF CloudInv
<1> DEFINE Stays == \A t \in Txns : /\ row[t].status = "PAID" => row'[t].status = "PAID"
                                    /\ row[t].void => row'[t].void
<1>2. ASSUME NEW t \in Txns, Initialize(t) PROVE Stays
  BY <1>1, <1>2 DEF Initialize, CloudRow
<1>3. ASSUME NEW t \in Txns, NEW rrr \in BOOLEAN, Callback(t, rrr) PROVE Stays
  BY <1>1, <1>3 DEF Callback, CloudRow
<1>4. ASSUME NEW v \in Verifiers, Commit(v) PROVE Stays
  BY <1>1, <1>4 DEF Commit, CloudRow
<1>5. ASSUME NEW t \in Txns, VoidInCloud(t) PROVE Stays
  BY <1>1, <1>5 DEF VoidInCloud, CloudRow
<1>6. ASSUME PullNext PROVE row' = row
  BY <1>6 DEF PullNext, Fetch, Skip, RecordConflict, LookUp, Pay, Link, IssueReceipt, Advance, cloud
<1>. QED
  BY <1>2, <1>3, <1>4, <1>5, <1>6
     DEF Next, Lock, Stamp, VerifierDies, StudentArrives, BookByHand, PullDies, cloud, vars

(* What the pull does to a payment: it appends one where there is none, or  *)
(* gives the one there is the item's void flag, or raises.                  *)
LEMMA PayDoes ==
    ASSUME CloudInv, LanTypes, ImportInv, LedgerInv, Pay
    PROVE  LET t == item.txn  n == pull.found IN
           /\ t \in Txns /\ item \in Item /\ ItemTrue(item) /\ pull.items # << >>
           /\ payments[t] \in Seq(Payment)
           /\ \/ /\ payments[t] = << >> /\ pull' = [pull EXCEPT !.pc = "paid"]
                 /\ payments' = [payments EXCEPT ![t] =
                        <<[ref |-> item.ref, void |-> item.void, by |-> "pull"]>>]
              \/ /\ n \in DOMAIN payments[t] /\ payments[t][n].by = "pull"
                 /\ payments' = [payments EXCEPT ![t][n].void = item.void]
                 /\ pull' = [pull EXCEPT !.pc = "paid"]
              \/ pull' = Idle /\ payments' = payments
<1> DEFINE t == item.txn  n == pull.found
<1>1. /\ pull.items # << >> /\ t \in Txns /\ item \in Item /\ 1 \in DOMAIN pull.items
      /\ item = pull.items[1] /\ payments[t] \in Seq(Payment)
  BY CurrentItem DEF Pay, LanTypes
<1>2. ItemTrue(item)
  BY <1>1 DEF LedgerInv
<1>3. CASE n = 0
  BY <1>1, <1>2, <1>3 DEF Pay, ImportInv
<1>4. CASE n # 0
  BY <1>1, <1>2, <1>4 DEF Pay, ImportInv
<1>. QED  BY <1>3, <1>4

(* The payment of one reference changes, and takes its flag from its item.  *)
LEMMA PayVoids ==
    ASSUME CloudInv, LanTypes, ImportInv, LedgerInv, Pay
    PROVE  LET t == item.txn IN
           \/ pull' = Idle /\ payments' = payments
           \/ /\ pull' = [pull EXCEPT !.pc = "paid"]
              /\ \A u \in Txns \ {t} : payments'[u] = payments[u]
              /\ Len(payments'[t]) = 1 /\ DOMAIN payments'[t] = {1}
              /\ payments'[t][1].void = item.void /\ payments'[t][1].by = "pull"
              /\ \/ payments[t] = << >>
                 \/ DOMAIN payments[t] = {1} /\ Len(payments[t]) = 1 /\ payments[t][1].by = "pull"
<1> DEFINE t == item.txn  n == pull.found
<1>1. t \in Txns /\ item \in Item /\ payments[t] \in Seq(Payment) /\ Len(payments[t]) <= 1
      /\ payments \in [Txns -> Seq(Payment)]
  BY PayDoes DEF ImportInv, LanTypes
<1>2. CASE /\ payments[t] = << >> /\ pull' = [pull EXCEPT !.pc = "paid"]
           /\ payments' = [payments EXCEPT ![t] =
                              <<[ref |-> item.ref, void |-> item.void, by |-> "pull"]>>]
  BY <1>1, <1>2
<1>3. CASE /\ n \in DOMAIN payments[t] /\ payments[t][n].by = "pull"
           /\ payments' = [payments EXCEPT ![t][n].void = item.void]
           /\ pull' = [pull EXCEPT !.pc = "paid"]
  <2>0. \A s \in Seq(Payment) : \A m : m \in DOMAIN s /\ Len(s) <= 1 =>
           m = 1 /\ Len(s) = 1 /\ DOMAIN s = {1}
    OBVIOUS
  <2>1. n = 1 /\ Len(payments[t]) = 1 /\ DOMAIN payments[t] = {1}
    BY <1>1, <1>3, <2>0
  <2>2. payments[t][1] \in Payment
    BY <1>1, <2>1
  <2>3. /\ payments'[t] = [payments[t] EXCEPT ![1] = [payments[t][1] EXCEPT !.void = item.void]]
        /\ \A u \in Txns \ {t} : payments'[u] = payments[u]
    BY <1>1, <1>3, <2>1
  <2>4. /\ [payments[t][1] EXCEPT !.void = item.void] \in Payment
        /\ [payments[t][1] EXCEPT !.void = item.void].void = item.void
        /\ [payments[t][1] EXCEPT !.void = item.void].by = "pull"
    BY <1>1, <1>3, <2>1, <2>2 DEF Payment, Item
  <2>. QED  BY <1>1, <1>3, <2>1, <2>3, <2>4
<1>. QED  BY <1>2, <1>3, PayDoes

LEMMA LedgerKeeps ==
    ASSUME CloudInv, LanTypes, LedgerInv, [Next]_vars, payments' = payments,
           \/ pull' = pull
           \/ pull'.items = << >> /\ pull'.pc \notin {"paid", "linked"}
           \/ pull'.items = Tail(pull.items) /\ pull.items # << >> /\ pull'.pc \notin {"paid", "linked"}
    PROVE  LedgerInv'
<1>1. \A i \in DOMAIN pull.items : \A x : x = pull.items[i] => ItemTrue(x)'
  <2>1. \A x : x.txn \in Txns /\ ItemTrue(x) => ItemTrue(x)'
    BY RowStays DEF ItemTrue
  <2>. QED  BY <2>1, ItemTxns DEF LedgerInv
<1>2. \A t \in Txns : \A n \in DOMAIN payments[t] : payments[t][n].void => row'[t].void
  BY RowStays DEF LedgerInv
<1>3. CASE pull' = pull
  BY <1>1, <1>2, <1>3 DEF LedgerInv, item, ItemTrue
<1>4. CASE pull'.items = << >> /\ pull'.pc \notin {"paid", "linked"}
  BY <1>2, <1>4 DEF LedgerInv
<1>5. CASE pull'.items = Tail(pull.items) /\ pull.items # << >> /\ pull'.pc \notin {"paid", "linked"}
  <2>1. pull.items \in Seq(Item)
    BY DEF LanTypes, Pull
  <2>2. \A i \in DOMAIN pull'.items : i + 1 \in DOMAIN pull.items /\ pull'.items[i] = pull.items[i + 1]
    BY <1>5, <2>1, ItemsLeft
  <2>3. \A i \in DOMAIN pull'.items : ItemTrue(pull.items[i])'
    BY <1>1, <2>2 DEF ItemTrue
  <2>. QED  BY <1>2, <1>5, <2>3 DEF LedgerInv
<1>. QED  BY <1>3, <1>4, <1>5

LEMMA LedgerStep ==
    CloudInv /\ LanTypes /\ ImportInv /\ LedgerInv /\ [Next]_vars => LedgerInv'
<1> SUFFICES ASSUME CloudInv, LanTypes, ImportInv, LedgerInv, [Next]_vars PROVE LedgerInv'
  OBVIOUS
<1>1. CASE payments' = payments /\ pull' = pull
  BY <1>1, LedgerKeeps
<1>2. ASSUME NEW t \in Txns, NEW amount \in {"same", "differs"}, BookByHand(t, amount) PROVE LedgerInv'
  <2>1. /\ pull' = pull /\ row' = row
        /\ payments' = [payments EXCEPT ![t] = <<[ref |-> "own", void |-> FALSE, by |-> amount]>>]
    BY <1>2 DEF BookByHand, cloud
  <2>2. \A u \in Txns : \A n \in DOMAIN payments'[u] :
           payments'[u][n].void => n \in DOMAIN payments[u] /\ payments[u][n].void
    BY <2>1 DEF LanTypes
  <2>3. \A u \in Txns : payments[u] # << >> => payments'[u] # << >>
    BY <2>1 DEF LanTypes
  <2>4. \A i \in DOMAIN pull.items : ItemTrue(pull.items[i])'
    BY <2>1, <2>2, ItemTxns DEF LedgerInv, ItemTrue
  <2>5. pull.pc \in {"paid", "linked"} => item.txn \in Txns
    BY CurrentItem DEF LanTypes
  <2>. QED  BY <2>1, <2>2, <2>3, <2>4, <2>5 DEF LedgerInv, item
<1>3. CASE Fetch
  <2>1. PICK p \in Pages, at \in Times : FetchPage(p, at)
    BY <1>3 DEF Fetch
  <2>2. pull'.pc = "item" /\ DOMAIN pull'.items = DOMAIN p /\ row' = row /\ payments' = payments
        /\ \A i \in DOMAIN p : p[i] \in Txns /\ pull'.items[i] = ItemOf(p[i])
    BY <1>3, <2>1, FetchTypes DEF Fetch, cloud, lan
  <2>3. \A i \in DOMAIN p : row[p[i]].status = "PAID"
    BY DEF Pages, Due
  <2>4. \A i \in DOMAIN p : \A x : x = ItemOf(p[i]) => ItemTrue(x)'
    BY <2>2, <2>3 DEF ItemTrue, ItemOf, LedgerInv
  <2>5. \A i \in DOMAIN pull'.items : ItemTrue(pull.items[i])'
    BY <2>2, <2>4 DEF ItemTrue
  <2>. QED  BY <2>2, <2>5 DEF LedgerInv
<1>4. CASE Skip \/ RecordConflict \/ IssueReceipt
  <2>1. NextItem /\ pull.items # << >> /\ payments' = payments
    BY <1>4 DEF Skip, RecordConflict, IssueReceipt, Working, lan, LanTypes
  <2>. QED  BY <2>1, NextItemTypes, LedgerKeeps
<1>5. CASE LookUp
  <2>1. pull.items # << >> /\ payments' = payments /\ row' = row
    BY <1>5 DEF LookUp, Working, cloud
  <2>2. CASE NextItem
    BY <2>1, <2>2, NextItemTypes, LedgerKeeps
  <2>3. CASE pull' = [pull EXCEPT !.pc = "looked", !.found = Existing]
    <3>1. pull'.items = pull.items /\ pull'.pc = "looked"
      BY <2>3 DEF LanTypes, Pull
    <3>. QED  BY <2>1, <3>1 DEF LedgerInv, ItemTrue
  <2>. QED  BY <1>5, <2>2, <2>3 DEF LookUp
<1>6. CASE Pay
  <2> DEFINE t == item.txn
  <2>1. CASE pull' = Idle /\ payments' = payments
    BY <2>1, LedgerKeeps DEF Idle
  <2>2. CASE ~(pull' = Idle /\ payments' = payments)
    <3>1. /\ pull' = [pull EXCEPT !.pc = "paid"]
          /\ \A u \in Txns \ {t} : payments'[u] = payments[u]
          /\ DOMAIN payments'[t] = {1} /\ payments'[t][1].void = item.void
      BY <1>6, <2>2, PayVoids
    <3>2. t \in Txns /\ ItemTrue(item) /\ row' = row /\ pull.items # << >>
      BY <1>6, PayDoes DEF Pay, cloud
    <3>3. pull'.items = pull.items /\ item' = item
      BY <3>1 DEF LanTypes, Pull, item
    <3>4. 1 \in DOMAIN pull.items /\ item = pull.items[1]
      BY <3>2, CurrentItem
    <3>5. \A i \in DOMAIN pull.items : ItemTrue(pull.items[i])'
      <4>1. TAKE i \in DOMAIN pull.items
      <4>2. pull.items[i].txn \in Txns /\ ItemTrue(pull.items[i])
        BY ItemTxns DEF LedgerInv
      <4>3. CASE pull.items[i].txn = t
        <5>1. i = 1
          BY <3>4, <4>3 DEF ImportInv
        <5>. QED  BY <3>1, <3>2, <3>3, <3>4, <5>1 DEF ItemTrue
      <4>4. CASE pull.items[i].txn # t
        BY <3>1, <3>2, <3>3, <4>2, <4>4 DEF ItemTrue
      <4>. QED  BY <4>3, <4>4
    <3>6. \A u \in Txns : \A m \in DOMAIN payments'[u] : payments'[u][m].void => row'[u].void
      BY <3>1, <3>2 DEF LedgerInv, ItemTrue
    <3>7. payments'[item'.txn] # << >>
      BY <3>1, <3>3
    <3>. QED  BY <3>3, <3>5, <3>6, <3>7 DEF LedgerInv
  <2>. QED  BY <2>1, <2>2
<1>7. CASE Link
  <2>1. /\ pull'.items = pull.items /\ item' = item /\ payments' = payments /\ row' = row
        /\ pull.pc = "paid"
    BY <1>7 DEF Link, cloud, LanTypes, Pull, item
  <2>. QED  BY <2>1 DEF LedgerInv, ItemTrue
<1>8. CASE Advance \/ PullDies
  BY <1>8, LedgerKeeps DEF Advance, PullDies, lan, Idle
<1>. QED
  BY <1>1, <1>2, <1>3, <1>4, <1>5, <1>6, <1>7, <1>8
     DEF Next, PullNext, Initialize, Callback, Lock, Stamp, Commit, VerifierDies, VoidInCloud,
         StudentArrives, vars, lan

LEMMA OneOrNone == ASSUME NEW n \in Nat, n # 0, n <= 1 PROVE n = 1
OBVIOUS

LEMMA OneLeft == ASSUME NEW s \in Seq(Payment), s # << >>, Len(s) <= 1 PROVE Len(s) = 1
<1>1. Len(s) \in Nat
  OBVIOUS
<1>2. Len(s) # 0
  OBVIOUS
<1>. QED  BY <1>1, <1>2, OneOrNone

(* A step that touches no book.                                             *)
LEMMA BooksStay ==
    ASSUME \A t \in Txns : row'[t].payments = row[t].payments /\ row'[t].void = row[t].void,
           UNCHANGED <<payments, receipts>>
    PROVE  UNCHANGED Ledger!vars
BY DEF Ledger!vars, Imported, Cancelled

LEMMA LedgerMaps ==
    CloudInv /\ LanTypes /\ ImportInv /\ LedgerInv /\ [Next]_vars => [Ledger!Next]_(Ledger!vars)
<1> SUFFICES ASSUME CloudInv, LanTypes, ImportInv, LedgerInv, [Next]_vars
             PROVE  Ledger!Next \/ UNCHANGED Ledger!vars
  OBVIOUS
<1> DEFINE Kept == Ledger!Next \/ UNCHANGED Ledger!vars
<1>0. row \in [Txns -> CloudRow]
  BY DEF CloudInv
<1>1. ASSUME NEW t \in Txns,
             Initialize(t) \/ StudentArrives(t) \/ \E rrr \in BOOLEAN : Callback(t, rrr)
      PROVE  Kept
  <2>1. \A u \in Txns : row'[u].payments = row[u].payments /\ row'[u].void = row[u].void
    BY <1>0, <1>1 DEF Initialize, StudentArrives, Callback, CloudRow, cloud
  <2>. QED  BY <1>1, <2>1, BooksStay DEF Initialize, StudentArrives, Callback, lan
<1>2. ASSUME NEW t \in Txns, VoidInCloud(t) PROVE Kept
  <2>1. /\ \A u \in Txns : row'[u].payments = row[u].payments
        /\ row'[t].void /\ \A u \in Txns \ {t} : row'[u].void = row[u].void
        /\ UNCHANGED <<payments, receipts>>
    BY <1>0, <1>2 DEF VoidInCloud, CloudRow, lan
  <2>2. row[t].payments = 1
    BY <1>2 DEF VoidInCloud, CloudInv
  <2>. QED  BY <2>1, <2>2 DEF Ledger!Void, Ledger!Next, Imported, Cancelled
<1>3. ASSUME NEW t \in Txns, NEW amount \in {"same", "differs"}, BookByHand(t, amount) PROVE Kept
  <2>1. /\ payments[t] = << >> /\ row' = row /\ receipts' = receipts \cup {t}
        /\ payments' = [payments EXCEPT ![t] = <<[ref |-> "own", void |-> FALSE, by |-> amount]>>]
    BY <1>3 DEF BookByHand, cloud
  <2>2. /\ Len(payments[t]) = 0 /\ Len(payments'[t]) = 1
        /\ \A u \in Txns \ {t} : payments'[u] = payments[u]
    BY <2>1 DEF LanTypes
  <2>3. Imported' = Imported /\ Cancelled' = Cancelled
    BY <2>1 DEF Imported, Cancelled, LanTypes
  <2> DEFINE book == [u \in Txns |-> Len(payments[u])]
  <2>4. book[t] = 0 /\ book' = [book EXCEPT ![t] = 1]
    BY <2>2
  <2>. QED  BY <2>1, <2>3, <2>4 DEF Ledger!BookByHand, Ledger!Once, Ledger!Next
<1>4. ASSUME NEW v \in Verifiers, Commit(v) PROVE Kept
  <2> DEFINE t == verifier[v].txn
  <2>1. t \in Txns /\ row[t].payments = 0
    BY <1>4 DEF Commit, CloudInv
  <2> DEFINE at == verifier[v].at
             paid == [row[t] EXCEPT !.status = "PAID", !.src = at, !.upd = at, !.pupd = at,
                                    !.payments = @ + 1]
  <2>0. row' = [row EXCEPT ![t] = paid] /\ UNCHANGED <<payments, receipts>>
    BY <1>0, <1>4, <2>1 DEF Commit, lan
  <2>3. paid.payments = 1 /\ paid.void = row[t].void
    BY <1>0, <2>1 DEF CloudRow
  <2>. HIDE DEF paid
  <2>2. /\ row'[t].payments = 1 /\ \A u \in Txns \ {t} : row'[u] = row[u]
        /\ \A u \in Txns : row'[u].void = row[u].void
        /\ UNCHANGED <<payments, receipts>>
    BY <1>0, <2>0, <2>1, <2>3
  <2>. QED  BY <2>1, <2>2 DEF Ledger!Record, Ledger!Once, Ledger!Next, Imported, Cancelled
<1>5. ASSUME NEW v \in Verifiers,
             Stamp(v) \/ VerifierDies(v) \/ \E t \in Txns : Lock(v, t)
      PROVE  Kept
  BY <1>5, BooksStay DEF Stamp, VerifierDies, Lock, lan
<1>6. CASE Fetch \/ Skip \/ RecordConflict \/ LookUp \/ Link \/ Advance \/ PullDies
  BY <1>6, BooksStay DEF Fetch, Skip, RecordConflict, LookUp, Link, Advance, PullDies, cloud, lan
<1>7. CASE Pay
  <2> DEFINE t == item.txn
  <2>1. t \in Txns /\ ItemTrue(item) /\ row' = row /\ receipts' = receipts
    BY <1>7, PayDoes DEF Pay, cloud
  <2>2. row[t].payments = 1 /\ (item.void => row[t].void)
    BY <2>1 DEF ItemTrue, CloudInv
  <2>3. CASE pull' = Idle /\ payments' = payments
    BY <2>1, <2>3, BooksStay
  <2>4. CASE ~(pull' = Idle /\ payments' = payments)
    <3>1. /\ \A u \in Txns \ {t} : payments'[u] = payments[u]
          /\ Len(payments'[t]) = 1 /\ DOMAIN payments'[t] = {1}
          /\ payments'[t][1].void = item.void /\ payments'[t][1].by = "pull"
          /\ \/ payments[t] = << >>
             \/ DOMAIN payments[t] = {1} /\ Len(payments[t]) = 1 /\ payments[t][1].by = "pull"
      BY <1>7, <2>4, PayVoids
    <3>2. Imported' = Imported \cup {t}
      BY <2>1, <3>1 DEF Imported
    <3>3. Cancelled' = IF item.void THEN Cancelled \cup {t} ELSE Cancelled
      BY <2>1, <3>1 DEF Cancelled, ItemTrue
    <3>4. CASE payments[t] = << >>
      BY <2>1, <2>2, <3>1, <3>2, <3>3, <3>4 DEF Ledger!Import, Ledger!Once, Ledger!Next
    <3>5. CASE DOMAIN payments[t] = {1} /\ Len(payments[t]) = 1 /\ payments[t][1].by = "pull"
      <4>1. Imported' = Imported /\ t \in Imported
        BY <2>1, <3>2, <3>5 DEF Imported
      <4>2. UNCHANGED [u \in Txns |-> Len(payments[u])]
        BY <2>1, <3>1, <3>5
      <4>3. CASE item.void
        BY <2>1, <2>2, <3>3, <4>1, <4>2, <4>3 DEF Ledger!Cancel, Ledger!Next
      <4>4. CASE ~item.void
        BY <2>1, <3>3, <4>1, <4>2, <4>4 DEF Ledger!vars
      <4>. QED  BY <4>3, <4>4
    <3>. QED  BY <3>1, <3>4, <3>5
  <2>. QED  BY <2>3, <2>4
<1>8. CASE IssueReceipt
  <2>1. /\ item.txn \in Txns /\ payments[item.txn] # << >>
        /\ UNCHANGED <<row, payments>> /\ receipts' = receipts \cup {item.txn}
    BY <1>8, CurrentItem DEF IssueReceipt, LanTypes, LedgerInv, cloud
  <2>2. Len(payments[item.txn]) = 1
    BY <2>1, OneLeft DEF LanTypes, ImportInv
  <2>. QED  BY <2>1, <2>2 DEF Ledger!Receipt, Ledger!Next, Imported, Cancelled
<1>9. CASE UNCHANGED vars
  BY <1>9, BooksStay DEF vars, lan, cloud
<1>. QED  BY <1>1, <1>2, <1>3, <1>4, <1>5, <1>6, <1>7, <1>8, <1>9 DEF Next, PullNext

(* The books of both nodes are those of PaymentLedger, if the bursar books  *)
(* nothing between the pull's lookup and its write: each reference once, a  *)
(* void only in the direction of the LAN, and nothing taken back.           *)
THEOREM BooksAreLedger == ASSUME ~Overlap PROVE Spec => LedgerHolds
<1>1. Init => Ledger!Init
  BY DEF Init, Ledger!Init, NoCloudRow, Imported, Cancelled
<1>2. CloudInv /\ LanTypes /\ ImportInv /\ [Next]_vars => ImportInv'
  BY ImportStep
<1>. QED
  BY <1>1, <1>2, CloudInit, CloudStep, LanInit, LanStep, ImportInit, LedgerInit, LedgerStep,
     LedgerMaps, PTL DEF Spec, LedgerHolds, Ledger!Spec
=============================================================================
