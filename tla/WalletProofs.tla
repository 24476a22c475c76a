--------------------------- MODULE WalletProofs ---------------------------
(***************************************************************************)
(* Theorems about Wallet for any number of subscribers, cards, plans and   *)
(* workers: types, the audit trail, purchases that are all or nothing, and *)
(* the refinement of AtomicWallet. Then about the other ways a subscriber  *)
(* comes by service and loses it, as MCHotspot composes them, for any      *)
(* number of logins, clients, prices, subscriptions and units of use:      *)
(* vouchers that open what they should, sign-ups that keep what was paid,  *)
(* limits and quotas under which the group served is the one held.         *)
(***************************************************************************)
EXTENDS Wallet, MCHotspot, TLAPS, FiniteSetTheorems, SequenceTheorems, WellFoundedInduction

Redeeming == {"redeem_save", "credit", "credit_commit"}
Buying == {"debit", "debit_check", "activate"}

Labels == {"idle"} \cup Redeeming \cup Buying

\* The arguments r fit the place l in the handlers.
WellFormed(l, r) ==
  \/ l = "idle" /\ r = NoRequest
  \/ /\ l \in Redeeming /\ r \in Requests
     /\ r.ref \in Cards /\ r.type = "refill_card"
     /\ l = "credit_commit" => CardValue[r.ref] > 0
  \/ /\ l \in Buying /\ r \in Requests
     /\ r.ref \in Plans /\ r.type \in DebitTypes
     /\ l \in {"debit_check", "activate"} => Price[r.ref] > 0

HasRequest == \A w \in Workers : WellFormed(pc[w], req[w])

\* Between the lock and the commit a worker holds the row, so what it read is
\* still the balance (less the price, once the debit is written).
HoldsTheRow ==
  \A w \in Workers :
    /\ pc[w] \in {"credit_commit", "debit_check", "activate"} => lock[req[w].sub] = w
    /\ pc[w] \in {"credit_commit", "debit_check"} => seen[w] = balance[req[w].sub]
    /\ pc[w] = "activate" => /\ seen[w] = balance[req[w].sub] - Price[req[w].ref]
                             /\ seen[w] >= 0

IInv == TypeOK /\ HasRequest /\ HoldsTheRow /\ LedgerExplainsBalance

-----------------------------------------------------------------------------
(* Lemmas about the operators                                              *)

\* activate_subscription keeps the rows well typed.
LEMMA ActivatedType ==
  ASSUME NEW rows \in Rows, NEW p \in Plans
  PROVE  Activated(rows, p) \in Rows
<1> DEFINE Row == [plan : Plans, status : {"active", "expired"}]
           old == [i \in DOMAIN rows |-> [rows[i] EXCEPT !.status = "expired"]]
<1>1. rows \in Seq(Row) BY DEF Rows
<1>2. Len(rows) \in Nat /\ DOMAIN rows = 1 .. Len(rows) BY <1>1
<1>3. ASSUME NEW i \in DOMAIN rows
      PROVE  [rows[i] EXCEPT !.status = "expired"] \in Row
  <2>1. rows[i] \in Row BY <1>1, <1>2, ElementOfSeq
  <2> QED BY <2>1
<1>4. old \in [1 .. Len(rows) -> Row] BY <1>2, <1>3
<1>5. old \in Seq(Row) BY <1>2, <1>4
<1>6. [plan |-> p, status |-> "active"] \in Row OBVIOUS
<1>7. Append(old, [plan |-> p, status |-> "active"]) \in Seq(Row)
  BY <1>5, <1>6
<1> QED BY <1>7 DEF Activated, Rows

\* One more row that continues the balance keeps a ledger explained.
Explained(L) == \A i \in DOMAIN L :
                  /\ L[i].after >= 0
                  /\ L[i].after = (IF i = 1 THEN 0 ELSE L[i - 1].after) + L[i].amount

LEMMA ExplainedAppend ==
  ASSUME NEW L \in Seq(Entries), NEW e \in Entries, Explained(L),
         e.after >= 0, e.after = LedgerBalance(L) + e.amount
  PROVE  /\ Explained(Append(L, e))
         /\ LedgerBalance(Append(L, e)) = e.after
         /\ Append(L, e) \in Seq(Entries)
<1> DEFINE M == Append(L, e)
<1>1. /\ M \in Seq(Entries) /\ Len(M) = Len(L) + 1 /\ M[Len(L) + 1] = e
      /\ \A i \in 1 .. Len(L) : M[i] = L[i]
      /\ DOMAIN M = 1 .. Len(L) + 1 /\ DOMAIN L = 1 .. Len(L) /\ Len(L) \in Nat
  OBVIOUS
<1>2. M # <<>> BY <1>1, EmptySeq
<1> HIDE DEF M
<1>3. LedgerBalance(M) = e.after BY <1>1, <1>2 DEF LedgerBalance
<1>4. ASSUME NEW i \in DOMAIN M
      PROVE  /\ M[i].after >= 0
             /\ M[i].after = (IF i = 1 THEN 0 ELSE M[i - 1].after) + M[i].amount
  <2>1. CASE i \in 1 .. Len(L)
    <3>1. M[i] = L[i] /\ (i # 1 => M[i - 1] = L[i - 1]) BY <1>1, <2>1
    <3> QED BY <3>1, <1>1, <2>1 DEF Explained
  <2>2. CASE i = Len(L) + 1
    <3>1. CASE L = <<>> BY <3>1, <1>1, <2>2 DEF LedgerBalance
    <3>2. CASE L # <<>>
      <4>1. Len(L) # 0 BY <3>2, EmptySeq
      <4>2. Len(L) >= 1 /\ i - 1 = Len(L) /\ i # 1 BY <4>1, <1>1, <2>2
      <4>3. M[i - 1] = L[Len(L)] BY <4>2, <1>1
      <4> QED BY <4>2, <4>3, <3>2, <1>1, <2>2 DEF LedgerBalance
    <3> QED BY <3>1, <3>2
  <2> QED BY <1>1, <2>1, <2>2
<1> QED BY <1>1, <1>3, <1>4 DEF Explained, M

-----------------------------------------------------------------------------
(* Types                                                                   *)

LEMMA TypeInit == Init => TypeOK /\ HasRequest
<1> SUFFICES ASSUME Init PROVE TypeOK /\ HasRequest OBVIOUS
<1> USE DEF Init
<1>1. <<>> \in Seq(Entries) /\ <<>> \in Rows
      /\ <<>> \in Seq([plan : Plans, amount : Nat])
  BY EmptySeq DEF Rows
<1>2. TypeOK BY <1>1, NoOneAssumption DEF TypeOK, CardRows
<1>3. HasRequest BY DEF HasRequest, WellFormed
<1> QED BY <1>2, <1>3

\* When worker w moves to l, only its own arguments have to be looked at.
LEMMA Moves ==
  ASSUME TypeOK, HasRequest, NEW w \in Workers, NEW l \in Labels, Goto(w, l),
         \A v \in Workers : v # w => req'[v] = req[v], WellFormed(l, req'[w])
  PROVE  /\ HasRequest'
         /\ pc' \in [Workers -> {"idle", "redeem_save", "credit", "credit_commit",
                                 "debit", "debit_check", "activate"}]
<1>1. pc' = [pc EXCEPT ![w] = l] BY DEF Goto
<1>2. pc \in [Workers -> {"idle", "redeem_save", "credit", "credit_commit",
                          "debit", "debit_check", "activate"}]
  BY DEF TypeOK
<1>3. ASSUME NEW v \in Workers PROVE WellFormed(pc[v], req[v])'
  <2>1. CASE v = w BY <1>1, <1>2, <2>1
  <2>2. CASE v # w BY <1>1, <1>2, <2>2 DEF HasRequest
  <2> QED BY <2>1, <2>2
<1>4. HasRequest' BY <1>3 DEF HasRequest
<1>5. l \in {"idle", "redeem_save", "credit", "credit_commit",
             "debit", "debit_check", "activate"}
  BY DEF Labels, Redeeming, Buying
<1> QED BY <1>1, <1>2, <1>4, <1>5

\* A request that is over leaves its worker idle.
LEMMA Returns ==
  ASSUME TypeOK, HasRequest, NEW w \in Workers, Return(w)
  PROVE  /\ HasRequest'
         /\ pc' \in [Workers -> {"idle", "redeem_save", "credit", "credit_commit",
                                 "debit", "debit_check", "activate"}]
         /\ req' \in [Workers -> Requests \cup {NoRequest}]
         /\ seen' \in [Workers -> Int]
<1>1. /\ Goto(w, "idle") /\ req' = [req EXCEPT ![w] = NoRequest]
      /\ seen' = [seen EXCEPT ![w] = 0] /\ "idle" \in Labels
  BY DEF Return, Labels
<1>2. req \in [Workers -> Requests \cup {NoRequest}] /\ seen \in [Workers -> Int]
  BY DEF TypeOK
<1>3. WellFormed("idle", req'[w]) /\ \A v \in Workers : v # w => req'[v] = req[v]
  BY <1>1, <1>2 DEF WellFormed
<1>4. HasRequest' /\ pc' \in [Workers -> {"idle", "redeem_save", "credit",
                 "credit_commit", "debit", "debit_check", "activate"}]
  BY <1>1, <1>3, Moves
<1> QED BY <1>1, <1>2, <1>4

\* Every action keeps the types and the arguments of the handlers.
LEMMA TypeStep == TypeOK /\ HasRequest /\ [Next]_vars => TypeOK' /\ HasRequest'
<1> SUFFICES ASSUME TypeOK, HasRequest, [Next]_vars PROVE TypeOK' /\ HasRequest'
  OBVIOUS
<1>1. ASSUME NEW w \in Workers, NEW s \in Subscribers, NEW c \in Cards,
             RedeemLookup(w, s, c)
      PROVE  TypeOK' /\ HasRequest'
  <2> DEFINE r == [sub |-> s, type |-> "refill_card", ref |-> c]
  <2>1. r \in Requests BY DEF Requests
  <2>2. req' = [req EXCEPT ![w] = r] /\ Goto(w, "redeem_save")
    BY <1>1 DEF RedeemLookup
  <2>3. req \in [Workers -> Requests \cup {NoRequest}] BY DEF TypeOK
  <2>4. req'[w] = r /\ \A v \in Workers : v # w => req'[v] = req[v]
    BY <2>2, <2>3
  <2>5. WellFormed("redeem_save", r) /\ "redeem_save" \in Labels
    BY <2>1 DEF WellFormed, Redeeming, Labels
  <2>6. HasRequest' /\ pc' \in [Workers -> {"idle", "redeem_save", "credit",
                 "credit_commit", "debit", "debit_check", "activate"}]
    BY <2>2, <2>4, <2>5, Moves
  <2>7. req' \in [Workers -> Requests \cup {NoRequest}] BY <2>1, <2>2, <2>3
  <2> QED BY <1>1, <2>6, <2>7 DEF TypeOK, RedeemLookup
<1>2. ASSUME NEW w \in Workers, NEW s \in Subscribers, NEW p \in Plans,
             PurchaseStart(w, s, p) \/ RenewStart(w, s, p)
      PROVE  TypeOK' /\ HasRequest'
  <2>0. PICK k \in DebitTypes :
           /\ req' = [req EXCEPT ![w] = [sub |-> s, type |-> k, ref |-> p]]
           /\ Goto(w, "debit")
           /\ UNCHANGED <<balance, ledger, lock, card, subscriptions, payments, seen>>
    BY <1>2 DEF PurchaseStart, RenewStart, DebitTypes
  <2> DEFINE r == [sub |-> s, type |-> k, ref |-> p]
  <2>1. r \in Requests BY DEF Requests
  <2>3. req \in [Workers -> Requests \cup {NoRequest}] BY DEF TypeOK
  <2>4. req'[w] = r /\ \A v \in Workers : v # w => req'[v] = req[v]
    BY <2>0, <2>3
  <2>5. WellFormed("debit", r) /\ "debit" \in Labels
    BY <2>1 DEF WellFormed, Buying, Labels
  <2>6. HasRequest' /\ pc' \in [Workers -> {"idle", "redeem_save", "credit",
                 "credit_commit", "debit", "debit_check", "activate"}]
    BY <2>0, <2>4, <2>5, Moves
  <2>7. req' \in [Workers -> Requests \cup {NoRequest}] BY <2>0, <2>1, <2>3
  <2> QED BY <2>0, <2>6, <2>7 DEF TypeOK
<1>3. ASSUME NEW w \in Workers, RedeemSave(w) PROVE TypeOK' /\ HasRequest'
  <2>1. /\ WellFormed("redeem_save", req[w]) /\ Goto(w, "credit")
        /\ req' = req /\ "credit" \in Labels
    BY <1>3 DEF RedeemSave, HasRequest, Labels, Redeeming
  <2>2. WellFormed("credit", req'[w])
    BY <2>1 DEF WellFormed, Redeeming, Buying
  <2>3. HasRequest' /\ pc' \in [Workers -> {"idle", "redeem_save", "credit",
                 "credit_commit", "debit", "debit_check", "activate"}]
    BY <2>1, <2>2, Moves
  <2>4. req[w].sub \in Subscribers /\ req[w].ref \in Cards
    BY <2>1 DEF WellFormed, Redeeming, Buying, Requests
  <2>5. card' \in [Cards -> CardRows]
    BY <1>3, <2>4 DEF RedeemSave, TypeOK, CardRows
  <2> QED BY <1>3, <2>3, <2>5 DEF TypeOK, RedeemSave
<1>4. ASSUME NEW w \in Workers, CreditLock(w) \/ DebitLock(w)
      PROVE  TypeOK' /\ HasRequest'
  <2>0. PICK l \in {"credit_commit", "debit_check"} :
           Goto(w, l) /\ WellFormed(l, req[w])
    <3>1. CASE CreditLock(w)
      <4>1. WellFormed("credit_commit", req[w])
        BY <3>1 DEF CreditLock, HasRequest, WellFormed, Redeeming, Buying
      <4> QED BY <3>1, <4>1 DEF CreditLock
    <3>2. CASE DebitLock(w)
      <4>1. WellFormed("debit_check", req[w])
        BY <3>2 DEF DebitLock, HasRequest, WellFormed, Redeeming, Buying
      <4> QED BY <3>2, <4>1 DEF DebitLock
    <3> QED BY <1>4, <3>1, <3>2
  <2>1. /\ req' = req /\ lock' = [lock EXCEPT ![req[w].sub] = w]
        /\ seen' = [seen EXCEPT ![w] = balance[req[w].sub]]
        /\ UNCHANGED <<balance, ledger, card, subscriptions, payments>>
    BY <1>4 DEF CreditLock, DebitLock
  <2>2. req[w].sub \in Subscribers
    BY <2>0 DEF WellFormed, Requests
  <2>3. l \in Labels /\ WellFormed(l, req'[w])
    BY <2>0, <2>1 DEF Labels, Redeeming, Buying
  <2>4. HasRequest' /\ pc' \in [Workers -> {"idle", "redeem_save", "credit",
                 "credit_commit", "debit", "debit_check", "activate"}]
    BY <2>0, <2>1, <2>3, Moves
  <2> QED BY <2>1, <2>2, <2>4 DEF TypeOK
<1>5. ASSUME NEW w \in Workers,
             CreditRefused(w) \/ DebitRefused(w) \/ DebitInsufficient(w)
      PROVE  TypeOK' /\ HasRequest'
  <2>1. /\ Return(w) /\ lock' \in [Subscribers -> Workers \cup {NoOne}]
        /\ UNCHANGED <<balance, ledger, card, subscriptions, payments>>
    BY <1>5 DEF CreditRefused, DebitRefused, DebitInsufficient, Unlock, TypeOK
  <2> QED BY <2>1, Returns DEF TypeOK
<1>6. ASSUME NEW w \in Workers, DebitWrite(w) PROVE TypeOK' /\ HasRequest'
  <2>1. /\ WellFormed("debit_check", req[w]) /\ Goto(w, "activate")
        /\ req' = req /\ "activate" \in Labels
    BY <1>6 DEF DebitWrite, HasRequest, Labels, Buying
  <2>2. WellFormed("activate", req'[w])
    BY <2>1 DEF WellFormed, Redeeming, Buying
  <2>3. HasRequest' /\ pc' \in [Workers -> {"idle", "redeem_save", "credit",
                 "credit_commit", "debit", "debit_check", "activate"}]
    BY <2>1, <2>2, Moves
  <2>4. Price[req[w].ref] \in Nat
    BY <2>1, PriceAssumption DEF WellFormed, Redeeming
  <2>5. seen' \in [Workers -> Int] BY <1>6, <2>4 DEF DebitWrite, TypeOK
  <2> QED BY <1>6, <2>3, <2>5 DEF TypeOK, DebitWrite
<1>7. ASSUME NEW w \in Workers, CreditCommit(w) PROVE TypeOK' /\ HasRequest'
  <2> DEFINE e == [amount |-> CardValue[req[w].ref],
                   after |-> seen[w] + CardValue[req[w].ref],
                   type |-> req[w].type, ref |-> req[w].ref]
  <2>1. WellFormed("credit_commit", req[w]) BY <1>7 DEF CreditCommit, HasRequest
  <2>2. /\ req[w].sub \in Subscribers /\ req[w].ref \in Cards
        /\ req[w].type = "refill_card"
    BY <2>1 DEF WellFormed, Redeeming, Buying, Requests
  <2>3. CardValue[req[w].ref] \in Nat /\ seen[w] \in Int
    BY <2>2, CardValueAssumption DEF TypeOK
  <2>4. e \in Entries BY <2>2, <2>3 DEF Entries
  <2>5. Append(ledger[req[w].sub], e) \in Seq(Entries) BY <2>2, <2>4 DEF TypeOK
  <2>6. /\ ledger' = [ledger EXCEPT ![req[w].sub] = Append(@, e)]
        /\ balance' = [balance EXCEPT ![req[w].sub] = e.after]
        /\ lock' = [lock EXCEPT ![req[w].sub] = NoOne]
        /\ Return(w) /\ UNCHANGED <<card, subscriptions, payments>>
    BY <1>7 DEF CreditCommit, Unlock
  <2>7. e.after \in Int BY <2>3
  <2> QED BY <2>2, <2>5, <2>6, <2>7, Returns DEF TypeOK
<1>8. ASSUME NEW w \in Workers, BuyCommit(w) PROVE TypeOK' /\ HasRequest'
  <2> DEFINE s == req[w].sub
             p == req[w].ref
             e == [amount |-> -Price[p], after |-> seen[w], type |-> req[w].type,
                   ref |-> p]
             y == [plan |-> p, amount |-> Price[p]]
  <2>1. WellFormed("activate", req[w]) BY <1>8 DEF BuyCommit, HasRequest
  <2>2. s \in Subscribers /\ p \in Plans /\ req[w].type \in DebitTypes
    BY <2>1 DEF WellFormed, Redeeming, Buying, Requests
  <2>3. Price[p] \in Nat /\ seen[w] \in Int
    BY <2>2, PriceAssumption DEF TypeOK
  <2>4. e \in Entries /\ y \in [plan : Plans, amount : Nat]
    BY <2>2, <2>3 DEF Entries
  <2>a. /\ ledger[s] \in Seq(Entries)
        /\ payments[s] \in Seq([plan : Plans, amount : Nat])
    BY <2>2 DEF TypeOK
  <2>5. /\ Append(ledger[s], e) \in Seq(Entries)
        /\ Append(payments[s], y) \in Seq([plan : Plans, amount : Nat])
    <3> HIDE DEF s, e, y
    <3>1. Append(ledger[s], e) \in Seq(Entries) BY <2>4, <2>a
    <3>2. Append(payments[s], y) \in Seq([plan : Plans, amount : Nat])
      BY <2>4, <2>a
    <3> QED BY <3>1, <3>2
  <2>6. Activated(subscriptions[s], p) \in Rows
    BY <2>2, ActivatedType DEF TypeOK
  <2>7. /\ ledger' = [ledger EXCEPT ![s] = Append(@, e)]
        /\ balance' = [balance EXCEPT ![s] = seen[w]]
        /\ subscriptions' = [subscriptions EXCEPT ![s] = Activated(@, p)]
        /\ payments' = [payments EXCEPT ![s] = Append(@, y)]
        /\ lock' = [lock EXCEPT ![s] = NoOne]
        /\ Return(w) /\ UNCHANGED card
    BY <1>8 DEF BuyCommit, Unlock
  <2> HIDE DEF s, p, e, y
  <2> QED BY <2>2, <2>3, <2>5, <2>6, <2>7, Returns DEF TypeOK
<1>9. ASSUME NEW w \in Workers, Crash(w) PROVE TypeOK' /\ HasRequest'
  BY <1>9, Returns DEF Crash, TypeOK
<1>10. ASSUME NEW c \in Cards, AdminSetCard(c) PROVE TypeOK' /\ HasRequest'
  <2>1. card \in [Cards -> CardRows] BY DEF TypeOK
  <2>2. /\ card[c] \in CardRows
        /\ \E z \in {"unused", "disabled"} : card' = [card EXCEPT ![c].status = z]
    BY <1>10, <2>1 DEF AdminSetCard
  <2>3. PICK z \in {"unused", "disabled"} : card' = [card EXCEPT ![c].status = z] BY <2>2
  <2>4. [card[c] EXCEPT !.status = z] \in CardRows BY <2>2 DEF CardRows
  <2>5. card' \in [Cards -> CardRows] BY <2>1, <2>3, <2>4
  <2> QED BY <1>10, <2>5 DEF AdminSetCard, TypeOK, HasRequest
<1>11. CASE UNCHANGED vars BY <1>11 DEF vars, TypeOK, HasRequest
<1> QED
  BY <1>1, <1>2, <1>3, <1>4, <1>5, <1>6, <1>7, <1>8, <1>9, <1>10, <1>11
  DEF Next, Arrive, Step

-----------------------------------------------------------------------------
(* The row lock and the ledger                                             *)

Holding == {"credit_commit", "debit_check", "activate"}

LEMMA LockInit == Init => HoldsTheRow /\ LedgerExplainsBalance
BY EmptySeq DEF Init, HoldsTheRow, LedgerExplainsBalance, LedgerBalance

\* A worker that takes no lock and a row nobody else holds disturb nothing.
LEMMA OthersHold ==
  ASSUME TypeOK, HoldsTheRow, NEW w \in Workers,
         \A v \in Workers : v # w => /\ pc'[v] = pc[v] /\ req'[v] = req[v]
                                     /\ seen'[v] = seen[v],
         \A v \in Workers : v # w /\ pc[v] \in Holding =>
              /\ lock'[req[v].sub] = v
              /\ balance'[req[v].sub] = balance[req[v].sub],
         pc'[w] \in Holding => lock'[req'[w].sub] = w,
         pc'[w] \in {"credit_commit", "debit_check"} => seen'[w] = balance'[req'[w].sub],
         pc'[w] = "activate" =>
            seen'[w] = balance'[req'[w].sub] - Price[req'[w].ref] /\ seen'[w] >= 0
  PROVE  HoldsTheRow'
<1> SUFFICES ASSUME NEW v \in Workers
             PROVE  /\ pc'[v] \in Holding => lock'[req'[v].sub] = v
                    /\ pc'[v] \in {"credit_commit", "debit_check"} =>
                         seen'[v] = balance'[req'[v].sub]
                    /\ pc'[v] = "activate" =>
                         /\ seen'[v] = balance'[req'[v].sub] - Price[req'[v].ref]
                         /\ seen'[v] >= 0
  BY DEF HoldsTheRow, Holding
<1>1. CASE v = w BY <1>1
<1>2. CASE v # w BY <1>2 DEF HoldsTheRow, Holding
<1> QED BY <1>1, <1>2

\* A commit appends to one ledger the row that explains the new balance.
LEMMA LedgerGrows ==
  ASSUME TypeOK, LedgerExplainsBalance, NEW s \in Subscribers, NEW e \in Entries,
         e.after >= 0, e.after = balance[s] + e.amount,
         ledger' = [ledger EXCEPT ![s] = Append(@, e)],
         balance' = [balance EXCEPT ![s] = e.after]
  PROVE  LedgerExplainsBalance'
<1>1. /\ ledger \in [Subscribers -> Seq(Entries)]
      /\ balance \in [Subscribers -> Int]
  BY DEF TypeOK
<1>2. /\ Explained(ledger[s]) /\ balance[s] = LedgerBalance(ledger[s])
      /\ ledger[s] \in Seq(Entries)
  BY <1>1 DEF LedgerExplainsBalance, Explained
<1>3. /\ Explained(Append(ledger[s], e))
      /\ LedgerBalance(Append(ledger[s], e)) = e.after
  BY <1>2, ExplainedAppend
<1>4. /\ ledger'[s] = Append(ledger[s], e) /\ balance'[s] = e.after
      /\ \A t \in Subscribers : t # s => ledger'[t] = ledger[t] /\ balance'[t] = balance[t]
  BY <1>1
<1>5. ASSUME NEW t \in Subscribers
      PROVE  Explained(ledger'[t]) /\ balance'[t] = LedgerBalance(ledger'[t])
  <2>1. CASE t = s BY <2>1, <1>3, <1>4
  <2>2. CASE t # s
    BY <2>2, <1>4 DEF LedgerExplainsBalance, Explained
  <2> QED BY <2>1, <2>2
<1> QED BY <1>5 DEF LedgerExplainsBalance, LedgerBalance, Explained

LEMMA LockStep == IInv /\ [Next]_vars => HoldsTheRow' /\ LedgerExplainsBalance'
<1> SUFFICES ASSUME IInv, [Next]_vars
             PROVE  HoldsTheRow' /\ LedgerExplainsBalance'
  OBVIOUS
<1> USE DEF IInv
<1>a. /\ pc \in [Workers -> {"idle", "redeem_save", "credit", "credit_commit",
                             "debit", "debit_check", "activate"}]
      /\ req \in [Workers -> Requests \cup {NoRequest}]
      /\ seen \in [Workers -> Int]
      /\ lock \in [Subscribers -> Workers \cup {NoOne}]
      /\ balance \in [Subscribers -> Int]
  BY DEF TypeOK
<1>b. \A v \in Workers : pc[v] \in Holding =>
        lock[req[v].sub] = v /\ req[v].sub \in Subscribers /\ v # NoOne
  BY NoOneAssumption
  DEF HoldsTheRow, HasRequest, WellFormed, Redeeming, Buying, Holding, Requests
<1>1. ASSUME NEW w \in Workers, UNCHANGED <<balance, ledger, lock>>, pc'[w] \notin Holding,
             \A v \in Workers : v # w => /\ pc'[v] = pc[v] /\ req'[v] = req[v]
                                         /\ seen'[v] = seen[v]
      PROVE  HoldsTheRow' /\ LedgerExplainsBalance'
  <2>1. HoldsTheRow'
    BY <1>1, <1>b, OthersHold DEF Holding
  <2> QED BY <1>1, <2>1 DEF LedgerExplainsBalance, LedgerBalance
<1>2. ASSUME NEW w \in Workers, CreditLock(w) \/ DebitLock(w)
      PROVE  HoldsTheRow' /\ LedgerExplainsBalance'
  <2> DEFINE s == req[w].sub
  <2>1. /\ lock[s] = NoOne /\ lock' = [lock EXCEPT ![s] = w]
        /\ seen' = [seen EXCEPT ![w] = balance[s]] /\ pc'[w] # "activate"
        /\ UNCHANGED <<balance, ledger, req>> /\ pc[w] \in {"credit", "debit"}
        /\ \A v \in Workers : v # w => pc'[v] = pc[v]
    BY <1>2, <1>a DEF CreditLock, DebitLock, Goto
  <2>2. s \in Subscribers
    BY <2>1 DEF HasRequest, WellFormed, Redeeming, Buying, Requests
  <2>3. lock'[s] = w /\ \A t \in Subscribers : t # s => lock'[t] = lock[t]
    BY <2>1, <2>2, <1>a
  <2>4. seen'[w] = balance'[req'[w].sub] BY <2>1, <1>a
  <2>5. \A v \in Workers : v # w => /\ pc'[v] = pc[v] /\ req'[v] = req[v]
                                    /\ seen'[v] = seen[v]
    BY <2>1, <1>a
  <2>6. \A v \in Workers : v # w /\ pc[v] \in Holding =>
              /\ lock'[req[v].sub] = v
              /\ balance'[req[v].sub] = balance[req[v].sub]
    BY <1>b, <2>1, <2>3
  <2>7. HoldsTheRow'
    BY <2>1, <2>3, <2>4, <2>5, <2>6, OthersHold
  <2> QED BY <2>1, <2>7 DEF LedgerExplainsBalance, LedgerBalance
<1>3. ASSUME NEW w \in Workers, DebitInsufficient(w) \/ Crash(w)
      PROVE  HoldsTheRow' /\ LedgerExplainsBalance'
  <2>1. /\ Return(w) /\ UNCHANGED <<balance, ledger>>
        /\ \A t \in Subscribers : lock[t] # w => lock'[t] = lock[t]
    <3>1. CASE DebitInsufficient(w)
      <4>1. lock[req[w].sub] = w /\ lock' = [lock EXCEPT ![req[w].sub] = NoOne]
        BY <3>1, <1>b DEF DebitInsufficient, Holding, Unlock
      <4> QED BY <3>1, <4>1, <1>a DEF DebitInsufficient
    <3>2. CASE Crash(w) BY <3>2, <1>a DEF Crash
    <3> QED BY <1>3, <3>1, <3>2
  <2>2. /\ pc'[w] = "idle"
        /\ \A v \in Workers : v # w => /\ pc'[v] = pc[v] /\ req'[v] = req[v]
                                       /\ seen'[v] = seen[v]
    BY <2>1, <1>a DEF Return, Goto
  <2>3. \A v \in Workers : v # w /\ pc[v] \in Holding =>
              /\ lock'[req[v].sub] = v
              /\ balance'[req[v].sub] = balance[req[v].sub]
    BY <1>b, <2>1
  <2>4. HoldsTheRow' BY <2>2, <2>3, OthersHold DEF Holding
  <2> QED BY <2>1, <2>4 DEF LedgerExplainsBalance, LedgerBalance
<1>4. ASSUME NEW w \in Workers, DebitWrite(w)
      PROVE  HoldsTheRow' /\ LedgerExplainsBalance'
  <2>1. /\ pc[w] = "debit_check" /\ pc' = [pc EXCEPT ![w] = "activate"]
        /\ seen[w] >= Price[req[w].ref]
        /\ seen' = [seen EXCEPT ![w] = @ - Price[req[w].ref]]
        /\ UNCHANGED <<balance, ledger, lock, req>>
    BY <1>4 DEF DebitWrite, Goto
  <2>2. seen[w] = balance[req[w].sub] /\ lock[req[w].sub] = w
    BY <2>1 DEF HoldsTheRow
  <2>3. Price[req[w].ref] \in Nat /\ seen[w] \in Int
    BY <2>1, <1>a, PriceAssumption DEF HasRequest, WellFormed, Redeeming
  <2>4. /\ seen'[w] = balance'[req'[w].sub] - Price[req'[w].ref]
        /\ seen'[w] >= 0 /\ lock'[req'[w].sub] = w /\ pc'[w] = "activate"
    BY <2>1, <2>2, <2>3, <1>a
  <2>5. \A v \in Workers : v # w => /\ pc'[v] = pc[v] /\ req'[v] = req[v]
                                    /\ seen'[v] = seen[v]
    BY <2>1, <1>a
  <2>6. HoldsTheRow' BY <2>1, <2>4, <2>5, <1>b, OthersHold
  <2> QED BY <2>1, <2>6 DEF LedgerExplainsBalance, LedgerBalance
<1>5. ASSUME NEW w \in Workers, NEW e \in Entries, NEW s \in Subscribers,
             Return(w), s = req[w].sub, pc[w] \in Holding,
             e.after >= 0, e.after = balance[s] + e.amount,
             ledger' = [ledger EXCEPT ![s] = Append(@, e)],
             balance' = [balance EXCEPT ![s] = e.after],
             lock' = [lock EXCEPT ![s] = NoOne]
      PROVE  HoldsTheRow' /\ LedgerExplainsBalance'
  <2>1. LedgerExplainsBalance' BY <1>5, LedgerGrows
  <2>2. /\ pc'[w] = "idle"
        /\ \A v \in Workers : v # w => /\ pc'[v] = pc[v] /\ req'[v] = req[v]
                                       /\ seen'[v] = seen[v]
    BY <1>5, <1>a DEF Return, Goto
  <2>3. lock[s] = w BY <1>5, <1>b
  <2>4. \A t \in Subscribers : t # s => lock'[t] = lock[t] /\ balance'[t] = balance[t]
    BY <1>5, <1>a
  <2>5. \A v \in Workers : v # w /\ pc[v] \in Holding =>
              /\ lock'[req[v].sub] = v
              /\ balance'[req[v].sub] = balance[req[v].sub]
    BY <1>b, <2>3, <2>4
  <2>6. HoldsTheRow' BY <2>2, <2>5, OthersHold DEF Holding
  <2> QED BY <2>1, <2>6
<1>6. ASSUME NEW w \in Workers, CreditCommit(w)
      PROVE  HoldsTheRow' /\ LedgerExplainsBalance'
  <2> DEFINE s == req[w].sub
             v == CardValue[req[w].ref]
             e == [amount |-> v, after |-> seen[w] + v, type |-> req[w].type,
                   ref |-> req[w].ref]
  <2>1. pc[w] = "credit_commit" /\ WellFormed("credit_commit", req[w])
    BY <1>6 DEF CreditCommit, HasRequest
  <2>2. /\ s \in Subscribers /\ req[w].ref \in Cards
        /\ req[w].type = "refill_card" /\ v \in Nat
    BY <2>1, CardValueAssumption DEF WellFormed, Redeeming, Buying, Requests
  <2>3. seen[w] = balance[s] /\ seen[w] \in Int
    BY <2>1, <1>a DEF HoldsTheRow
  <2>4. balance[s] >= 0
    <3>1. ledger[s] \in Seq(Entries) BY <2>2 DEF TypeOK
    <3>2. CASE ledger[s] = <<>>
      BY <3>2, <2>2 DEF LedgerExplainsBalance, LedgerBalance
    <3>3. CASE ledger[s] # <<>>
      <4>1. Len(ledger[s]) \in DOMAIN ledger[s] BY <3>1, <3>3, EmptySeq, LenProperties
      <4> QED BY <4>1, <3>3, <2>2 DEF LedgerExplainsBalance, LedgerBalance
    <3> QED BY <3>2, <3>3
  <2>5. e \in Entries /\ e.after >= 0 /\ e.after = balance[s] + e.amount
    BY <2>2, <2>3, <2>4 DEF Entries
  <2>6. /\ Return(w) /\ ledger' = [ledger EXCEPT ![s] = Append(@, e)]
        /\ balance' = [balance EXCEPT ![s] = e.after]
        /\ lock' = [lock EXCEPT ![s] = NoOne]
    BY <1>6 DEF CreditCommit, Unlock
  <2> HIDE DEF s, v, e
  <2>7. s = req[w].sub BY DEF s
  <2> QED BY <2>1, <2>2, <2>5, <2>6, <2>7, <1>5 DEF Holding
<1>7. ASSUME NEW w \in Workers, BuyCommit(w)
      PROVE  HoldsTheRow' /\ LedgerExplainsBalance'
  <2> DEFINE s == req[w].sub
             p == req[w].ref
             e == [amount |-> -Price[p], after |-> seen[w], type |-> req[w].type,
                   ref |-> p]
  <2>1. pc[w] = "activate" /\ WellFormed("activate", req[w])
    BY <1>7 DEF BuyCommit, HasRequest
  <2>2. /\ s \in Subscribers /\ p \in Plans
        /\ req[w].type \in DebitTypes /\ Price[p] \in Nat
    BY <2>1, PriceAssumption DEF WellFormed, Redeeming, Buying, Requests
  <2>3. seen[w] = balance[s] - Price[p] /\ seen[w] \in Int /\ seen[w] >= 0
        /\ balance[s] \in Int
    BY <2>1, <2>2, <1>a DEF HoldsTheRow
  <2>5. e \in Entries /\ e.after >= 0 /\ e.after = balance[s] + e.amount
    BY <2>2, <2>3 DEF Entries
  <2>6. /\ Return(w) /\ ledger' = [ledger EXCEPT ![s] = Append(@, e)]
        /\ balance' = [balance EXCEPT ![s] = e.after]
        /\ lock' = [lock EXCEPT ![s] = NoOne]
    BY <1>7 DEF BuyCommit, Unlock
  <2> HIDE DEF s, p, e
  <2>7. s = req[w].sub BY DEF s
  <2> QED BY <2>1, <2>2, <2>5, <2>6, <2>7, <1>5 DEF Holding
<1>8. ASSUME NEW w \in Workers, NEW s \in Subscribers,
             \/ \E c \in Cards : RedeemLookup(w, s, c)
             \/ \E p \in Plans : PurchaseStart(w, s, p) \/ RenewStart(w, s, p)
      PROVE  HoldsTheRow' /\ LedgerExplainsBalance'
  <2>1. /\ UNCHANGED <<balance, ledger, lock, seen>>
        /\ pc'[w] \in {"redeem_save", "debit"}
        /\ \A v \in Workers : v # w => pc'[v] = pc[v] /\ req'[v] = req[v]
    BY <1>8, <1>a DEF RedeemLookup, PurchaseStart, RenewStart, Goto
  <2> QED BY <2>1, <1>1 DEF Holding
<1>9. ASSUME NEW w \in Workers, RedeemSave(w) \/ CreditRefused(w) \/ DebitRefused(w)
      PROVE  HoldsTheRow' /\ LedgerExplainsBalance'
  <2>1. /\ UNCHANGED <<balance, ledger, lock>>
        /\ pc'[w] \in {"credit", "idle"}
        /\ \A v \in Workers : v # w => /\ pc'[v] = pc[v] /\ req'[v] = req[v]
                                       /\ seen'[v] = seen[v]
    BY <1>9, <1>a DEF RedeemSave, CreditRefused, DebitRefused, Return, Goto
  <2> QED BY <2>1, <1>1 DEF Holding
<1>10. CASE \E c \in Cards : AdminSetCard(c)
  BY <1>10 DEF AdminSetCard, HoldsTheRow, LedgerExplainsBalance, LedgerBalance
<1>11. CASE UNCHANGED vars
  BY <1>11 DEF vars, HoldsTheRow, LedgerExplainsBalance, LedgerBalance
<1> QED
  BY <1>2, <1>3, <1>4, <1>6, <1>7, <1>8, <1>9, <1>10, <1>11 DEF Next, Arrive, Step

-----------------------------------------------------------------------------
(* Theorems                                                                *)

LEMMA IInvHolds == Spec => []IInv
<1>1. Init => IInv BY TypeInit, LockInit DEF IInv
<1>2. IInv /\ [Next]_vars => IInv' BY TypeStep, LockStep DEF IInv
<1> QED BY <1>1, <1>2, PTL DEF Spec

\* Every variable of the wallet model keeps its type.
THEOREM TypeCorrect == Spec => []TypeOK
<1>1. IInv => TypeOK BY DEF IInv
<1> QED BY <1>1, IInvHolds, PTL

\* The audit trail explains every balance, with any number of workers that
\* may be killed at any statement: the row lock of credit_wallet and
\* debit_wallet is what it takes.
THEOREM AuditTrail == Spec => []LedgerExplainsBalance
<1>1. IInv => LedgerExplainsBalance BY DEF IInv
<1> QED BY <1>1, IInvHolds, PTL

-----------------------------------------------------------------------------
(* Debits and what they bought                                             *)

\* Course-of-values induction: what fails somewhere fails at a least place.
Below == {p \in Nat \X Nat : p[1] < p[2]}

LEMMA LeastIndex ==
  ASSUME NEW T, T \subseteq Nat, T # {}
  PROVE  \E m \in T : \A k \in T : m <= k
<1>1. IsWellFoundedOn(Below, Nat) BY NatLessThanWellFounded DEF OpToRel, Below
<1>2. PICK m \in T : \A k \in T : <<k, m>> \notin Below BY <1>1, WFMin, Zenon
<1>3. \A k \in T : ~(k < m) BY <1>2 DEF Below
<1> QED BY <1>2, <1>3

\* The debits known after one ledger row more.
Noted(debits, e) == IF e.amount < 0 THEN Append(debits, e) ELSE debits

\* h[i] is the sequence of the debits among the first i rows of L.
Filters(h, L, n) == /\ h \in [0..n -> Seq(Entries)] /\ h[0] = <<>>
                    /\ \A i \in 1..n : h[i] = Noted(h[i - 1], L[i])

LEMMA NotedType ==
  ASSUME NEW D \in Seq(Entries), NEW e \in Entries PROVE Noted(D, e) \in Seq(Entries)
BY DEF Noted

\* A filter of n rows extends to row n + 1.
LEMMA FilterOneMore ==
  ASSUME NEW n \in Nat, NEW L, NEW h, Filters(h, L, n), NEW M,
         \A i \in 1..n : M[i] = L[i], M[n + 1] \in Entries
  PROVE  \E g : Filters(g, M, n + 1) /\ g[n + 1] = Noted(h[n], M[n + 1])
<1> DEFINE g == [i \in 0..(n + 1) |-> IF i = n + 1 THEN Noted(h[n], M[n + 1]) ELSE h[i]]
<1>1. n \in 0..n /\ 0 \in 0..n /\ n + 1 \in 0..(n + 1) /\ 0 # n + 1 OBVIOUS
<1>2. h[0] = <<>> /\ \A i \in 0..n : h[i] \in Seq(Entries) BY <1>1 DEF Filters
<1>3. Noted(h[n], M[n + 1]) \in Seq(Entries) BY <1>1, <1>2, NotedType
<1>4. /\ g \in [0..(n + 1) -> Seq(Entries)] /\ g[0] = <<>>
      /\ g[n + 1] = Noted(h[n], M[n + 1]) /\ \A i \in 0..n : g[i] = h[i]
  BY <1>1, <1>2, <1>3
<1> HIDE DEF g
<1>5. ASSUME NEW i \in 1..(n + 1) PROVE g[i] = Noted(g[i - 1], M[i])
  <2>1. CASE i = n + 1
    <3>1. i - 1 = n BY <2>1
    <3> QED BY <1>1, <1>4, <2>1, <3>1
  <2>2. CASE i # n + 1
    <3>1. i \in 1..n /\ i - 1 \in 0..n /\ i \in 0..n BY <2>2
    <3> QED BY <1>4, <3>1 DEF Filters
  <2> QED BY <2>1, <2>2
<1>6. Filters(g, M, n + 1) BY <1>4, <1>5 DEF Filters
<1> QED BY <1>4, <1>6

\* Every ledger has one.
LEMMA FilterExists ==
  ASSUME NEW L \in Seq(Entries)
  PROVE  \A n \in 0..Len(L) : \E h : Filters(h, L, n)
<1> DEFINE Bare == {n \in 0..Len(L) : ~ \E h : Filters(h, L, n)}
<1>0. Len(L) \in Nat OBVIOUS
<1>1. /\ Bare \subseteq Nat
      /\ \A n : n \in Bare <=> n \in 0..Len(L) /\ ~ \E h : Filters(h, L, n)
  BY <1>0
<1> HIDE DEF Bare
<1> SUFFICES ASSUME Bare # {} PROVE FALSE BY <1>1
<1>2. PICK m \in Bare : \A k \in Bare : m <= k BY <1>1, LeastIndex
<1>3. m \in 0..Len(L) /\ ~ \E h : Filters(h, L, m) BY <1>1, <1>2
<1>4. CASE m = 0
  <2> DEFINE g == [i \in 0..0 |-> <<>>]
  <2>1. g \in [0..0 -> Seq(Entries)] /\ g[0] = <<>> OBVIOUS
  <2> HIDE DEF g
  <2>2. Filters(g, L, 0) BY <2>1 DEF Filters
  <2> QED BY <1>3, <1>4, <2>2
<1>5. CASE m # 0
  <2>1. m - 1 \in 0..Len(L) /\ m - 1 \in Nat /\ ~(m <= m - 1) /\ (m - 1) + 1 = m
    BY <1>0, <1>3, <1>5
  <2>2. PICK h : Filters(h, L, m - 1) BY <1>1, <1>2, <2>1
  <2>3. L[m] \in Entries BY <1>0, <1>3, <1>5, ElementOfSeq
  <2>4. \E g : Filters(g, L, (m - 1) + 1) BY <2>1, <2>2, <2>3, FilterOneMore
  <2> QED BY <1>3, <2>1, <2>4
<1> QED BY <1>4, <1>5

\* Debits is what it ends with.
LEMMA DebitsFilter ==
  ASSUME NEW L \in Seq(Entries), NEW h, Filters(h, L, Len(L))
  PROVE  Debits(L) = h[Len(L)]
<1> DEFINE n == Len(L)
           Run(f) == [i \in 0..n |-> IF i = 0 THEN <<>>
                                     ELSE IF L[i].amount < 0 THEN Append(f[i - 1], L[i])
                                     ELSE f[i - 1]]
           p == CHOOSE f : f = Run(f)
           Wrong == {i \in 0..n : p[i] # h[i]}
<1>1. n \in Nat /\ n \in 0..n OBVIOUS
<1>2. h = Run(h)
  <2>1. \A i \in 0..n : h[i] = Run(h)[i]
    <3>1. \A i \in 0..n : i = 0 \/ i \in 1..n BY <1>1
    <3> QED BY <3>1 DEF Filters, Noted
  <2> QED BY <2>1 DEF Filters
<1>3. p = Run(p) BY <1>2
<1>4. Debits(L) = p[n] BY DEF Debits
<1> HIDE DEF p
<1>5. \A i \in 0..n : p[i] = IF i = 0 THEN <<>> ELSE Noted(p[i - 1], L[i])
  BY <1>3 DEF Noted
<1>6. Wrong = {}
  <2>0. Wrong \subseteq Nat /\ \A i : i \in Wrong <=> i \in 0..n /\ p[i] # h[i] OBVIOUS
  <2> HIDE DEF Wrong
  <2> SUFFICES ASSUME Wrong # {} PROVE FALSE OBVIOUS
  <2>1. PICK m \in Wrong : \A k \in Wrong : m <= k BY <2>0, LeastIndex
  <2>2. m \in 0..n /\ p[m] # h[m] BY <2>0, <2>1
  <2>3. m # 0 BY <1>5, <2>2 DEF Filters
  <2>4. m \in 1..n /\ m - 1 \in 0..n BY <1>1, <2>2, <2>3
  <2>5. p[m - 1] = h[m - 1] BY <1>1, <2>0, <2>1, <2>2, <2>4
  <2> QED BY <1>5, <2>2, <2>4, <2>5 DEF Filters
<1> QED BY <1>1, <1>4, <1>6

LEMMA DebitsEmpty == Debits(<<>>) = <<>>
<1>1. <<>> \in Seq(Entries) /\ Len(<<>>) = 0 BY EmptySeq
<1>2. ASSUME NEW L \in Seq(Entries), Len(L) = 0 PROVE Debits(L) = <<>>
  <2>1. Len(L) \in 0..Len(L) BY <1>2
  <2>2. PICK h : Filters(h, L, Len(L)) BY <2>1, FilterExists
  <2> QED BY <1>2, <2>2, DebitsFilter DEF Filters
<1> QED BY <1>1, <1>2

\* A ledger row more is a debit more, or none.
LEMMA DebitsAppend ==
  ASSUME NEW L \in Seq(Entries), NEW e \in Entries
  PROVE  Debits(L) \in Seq(Entries) /\ Debits(Append(L, e)) = Noted(Debits(L), e)
<1> DEFINE n == Len(L)
           M == Append(L, e)
<1>1. /\ n \in Nat /\ n \in 0..n /\ M \in Seq(Entries) /\ Len(M) = n + 1
      /\ M[n + 1] = e /\ \A i \in 1..n : M[i] = L[i]
  OBVIOUS
<1> HIDE DEF M
<1>2. PICK h : Filters(h, L, n) BY <1>1, FilterExists
<1>3. Debits(L) = h[n] /\ h[n] \in Seq(Entries) BY <1>1, <1>2, DebitsFilter DEF Filters
<1>4. PICK g : Filters(g, M, n + 1) /\ g[n + 1] = Noted(h[n], M[n + 1])
  BY <1>1, <1>2, FilterOneMore
<1>5. Debits(M) = g[n + 1] BY <1>1, <1>4, DebitsFilter
<1> QED BY <1>1, <1>3, <1>4, <1>5 DEF M

Paid == [plan : Plans, amount : Nat]

\* A debit, a subscription and a payment of the same plan keep the three in step.
LEMMA SamePlansAppend ==
  ASSUME NEW D \in Seq(Entries), NEW rows \in Rows, NEW P \in Seq(Paid),
         SamePlans(D, rows, P), NEW p \in Plans, NEW e \in Entries,
         e.ref = p, e.amount = -Price[p], Price[p] \in Nat
  PROVE  SamePlans(Append(D, e), Activated(rows, p),
                   Append(P, [plan |-> p, amount |-> Price[p]]))
<1> DEFINE Row == [plan : Plans, status : {"active", "expired"}]
           old == [i \in DOMAIN rows |-> [rows[i] EXCEPT !.status = "expired"]]
           new == [plan |-> p, status |-> "active"]
           y == [plan |-> p, amount |-> Price[p]]
           n == Len(rows)
<1>1. /\ rows \in Seq(Row) /\ n \in Nat /\ DOMAIN rows = 1..n
      /\ Len(D) = n /\ Len(P) = n /\ DOMAIN D = 1..n
  BY LenProperties DEF Rows, SamePlans
<1>2. \A i \in 1..n : rows[i] \in Row BY <1>1, ElementOfSeq
<1>3. old \in [1..n -> Row] /\ \A i \in 1..n : old[i].plan = rows[i].plan BY <1>1, <1>2
<1>4. old \in Seq(Row) /\ Len(old) = n BY <1>1, <1>3
<1>5. new \in Row /\ new.plan = p /\ y \in Paid BY DEF Paid
<1>6. \A i \in 1..n : rows[i].plan = D[i].ref /\ P[i] = [plan |-> D[i].ref, amount |-> -D[i].amount]
  BY <1>1 DEF SamePlans
<1>7. y = [plan |-> e.ref, amount |-> -e.amount] OBVIOUS
<1>13. Activated(rows, p) = Append(old, new) BY DEF Activated
<1> HIDE DEF old, new, Row, n, y
<1>8. /\ Len(Append(old, new)) = n + 1 /\ Append(old, new)[n + 1] = new
      /\ \A i \in 1..n : Append(old, new)[i] = old[i]
  BY <1>1, <1>4, <1>5
<1>9. /\ Len(Append(D, e)) = n + 1 /\ Append(D, e)[n + 1] = e
      /\ \A i \in 1..n : Append(D, e)[i] = D[i] /\ DOMAIN Append(D, e) = 1..(n + 1)
  BY <1>1
<1>10. /\ Len(Append(P, y)) = n + 1 /\ Append(P, y)[n + 1] = y
       /\ \A i \in 1..n : Append(P, y)[i] = P[i]
  BY <1>1, <1>5
<1>a. DOMAIN Append(D, e) = 1..(n + 1) BY <1>1
<1>11. ASSUME NEW i \in 1..(n + 1)
       PROVE  /\ Append(old, new)[i].plan = Append(D, e)[i].ref
              /\ Append(P, y)[i] = [plan |-> Append(D, e)[i].ref,
                                    amount |-> -Append(D, e)[i].amount]
  <2>1. CASE i = n + 1 BY <1>5, <1>7, <1>8, <1>9, <1>10, <2>1
  <2>2. CASE i # n + 1
    <3>1. i \in 1..n BY <1>1, <2>2
    <3> QED BY <1>3, <1>6, <1>8, <1>9, <1>10, <3>1
  <2> QED BY <2>1, <2>2
<1>12. SamePlans(Append(D, e), Append(old, new), Append(P, y))
  BY <1>a, <1>8, <1>9, <1>10, <1>11 DEF SamePlans
<1> QED BY <1>12, <1>13 DEF y

LEMMA DebitsInit == Init => DebitsBuyPlans
<1> SUFFICES ASSUME Init, NEW s \in Subscribers
             PROVE  SamePlans(Debits(ledger[s]), subscriptions[s], payments[s])
  BY DEF DebitsBuyPlans
<1>1. ledger[s] = <<>> /\ subscriptions[s] = <<>> /\ payments[s] = <<>> BY DEF Init
<1>2. DOMAIN <<>> = {} OBVIOUS
<1> QED BY <1>1, <1>2, DebitsEmpty DEF SamePlans

LEMMA DebitsStep == IInv /\ DebitsBuyPlans /\ [Next]_vars => DebitsBuyPlans'
<1> SUFFICES ASSUME IInv, DebitsBuyPlans, [Next]_vars PROVE DebitsBuyPlans'
  OBVIOUS
<1>a. /\ ledger \in [Subscribers -> Seq(Entries)]
      /\ subscriptions \in [Subscribers -> Rows]
      /\ payments \in [Subscribers -> Seq(Paid)]
      /\ seen \in [Workers -> Int]
  BY DEF IInv, TypeOK, Paid
<1>1. ASSUME UNCHANGED <<ledger, subscriptions, payments>> PROVE DebitsBuyPlans'
  BY <1>1 DEF DebitsBuyPlans
<1>2. ASSUME NEW w \in Workers, CreditCommit(w) PROVE DebitsBuyPlans'
  <2> DEFINE s == req[w].sub
             v == CardValue[req[w].ref]
             e == [amount |-> v, after |-> seen[w] + v, type |-> req[w].type,
                   ref |-> req[w].ref]
  <2>1. WellFormed("credit_commit", req[w]) BY <1>2 DEF CreditCommit, IInv, HasRequest
  <2>2. /\ s \in Subscribers /\ req[w].ref \in Cards
        /\ req[w].type = "refill_card" /\ v \in Nat
    BY <2>1, CardValueAssumption DEF WellFormed, Redeeming, Buying, Requests
  <2>3. e \in Entries /\ ~(e.amount < 0) BY <1>a, <2>2 DEF Entries
  <2>4. /\ ledger' = [ledger EXCEPT ![s] = Append(@, e)]
        /\ UNCHANGED <<subscriptions, payments>>
    BY <1>2 DEF CreditCommit
  <2> HIDE DEF s, v, e
  <2>5. ledger'[s] = Append(ledger[s], e) /\ \A t \in Subscribers \ {s} : ledger'[t] = ledger[t]
    BY <1>a, <2>2, <2>4
  <2>6. Debits(Append(ledger[s], e)) = Debits(ledger[s])
    BY <1>a, <2>2, <2>3, DebitsAppend DEF Noted
  <2>7. \A t \in Subscribers : Debits(ledger'[t]) = Debits(ledger[t]) BY <2>5, <2>6
  <2> QED BY <2>4, <2>7 DEF DebitsBuyPlans
<1>3. ASSUME NEW w \in Workers, BuyCommit(w) PROVE DebitsBuyPlans'
  <2> DEFINE s == req[w].sub
             p == req[w].ref
             e == [amount |-> -Price[p], after |-> seen[w], type |-> req[w].type,
                   ref |-> p]
             y == [plan |-> p, amount |-> Price[p]]
  <2>1. WellFormed("activate", req[w]) BY <1>3 DEF BuyCommit, IInv, HasRequest
  <2>2. /\ s \in Subscribers /\ p \in Plans /\ Price[p] \in Nat /\ Price[p] > 0
        /\ req[w].type \in DebitTypes
    BY <2>1, PriceAssumption DEF WellFormed, Redeeming, Buying, Requests
  <2>3. e \in Entries /\ e.amount < 0 /\ e.ref = p /\ e.amount = -Price[p]
    BY <1>a, <2>2 DEF Entries
  <2>4. /\ ledger' = [ledger EXCEPT ![s] = Append(@, e)]
        /\ subscriptions' = [subscriptions EXCEPT ![s] = Activated(@, p)]
        /\ payments' = [payments EXCEPT ![s] = Append(@, y)]
    BY <1>3 DEF BuyCommit
  <2> HIDE DEF s, p, e
  <2>5. /\ ledger'[s] = Append(ledger[s], e) /\ payments'[s] = Append(payments[s], y)
        /\ subscriptions'[s] = Activated(subscriptions[s], p)
        /\ \A t \in Subscribers \ {s} : /\ ledger'[t] = ledger[t] /\ payments'[t] = payments[t]
                                        /\ subscriptions'[t] = subscriptions[t]
    <3> HIDE DEF y
    <3> QED BY <1>a, <2>2, <2>4
  <2>6. /\ Debits(ledger[s]) \in Seq(Entries)
        /\ Debits(ledger'[s]) = Append(Debits(ledger[s]), e)
    BY <1>a, <2>2, <2>3, <2>5, DebitsAppend DEF Noted
  <2>7. SamePlans(Debits(ledger[s]), subscriptions[s], payments[s])
    BY <2>2 DEF DebitsBuyPlans
  <2>8. /\ subscriptions[s] \in Rows /\ payments[s] \in Seq(Paid) BY <1>a, <2>2
  <2>9. SamePlans(Debits(ledger'[s]), subscriptions'[s], payments'[s])
    BY <2>2, <2>3, <2>5, <2>6, <2>7, <2>8, SamePlansAppend
  <2> QED BY <2>5, <2>9 DEF DebitsBuyPlans
<1>4. CASE UNCHANGED vars BY <1>4, <1>1 DEF vars
<1>5. CASE \E c \in Cards : AdminSetCard(c) BY <1>5, <1>1 DEF AdminSetCard
<1>6. ASSUME NEW w \in Workers, Arrive(w) \/ Crash(w) PROVE DebitsBuyPlans'
  BY <1>6, <1>1 DEF Arrive, Crash, RedeemLookup, PurchaseStart, RenewStart
<1>7. ASSUME NEW w \in Workers, Step(w), ~CreditCommit(w), ~BuyCommit(w)
      PROVE  DebitsBuyPlans'
  BY <1>7, <1>1
  DEF Step, RedeemSave, CreditRefused, CreditLock, DebitRefused, DebitLock,
      DebitInsufficient, DebitWrite
<1> QED BY <1>2, <1>3, <1>4, <1>5, <1>6, <1>7 DEF Next

\* A purchase or a renewal from the wallet is all or nothing for any number of
\* workers that may be killed at any statement: every debit has its subscription
\* and its payment, in the order of the debits.
THEOREM AllOrNothing == Spec => []DebitsBuyPlans
<1>1. Init => DebitsBuyPlans BY DebitsInit
<1>2. IInv /\ DebitsBuyPlans /\ [Next]_vars => DebitsBuyPlans' BY DebitsStep
<1> QED BY <1>1, <1>2, IInvHolds, PTL DEF Spec

-----------------------------------------------------------------------------
(* Refinement                                                              *)

\* An activation adds one plan to the plans of the rows.
LEMMA PlansOfActivated ==
  ASSUME NEW rows \in Rows, NEW p \in Plans
  PROVE  PlansOf(Activated(rows, p)) = Append(PlansOf(rows), p)
<1> DEFINE Row == [plan : Plans, status : {"active", "expired"}]
           old == [i \in DOMAIN rows |-> [rows[i] EXCEPT !.status = "expired"]]
           new == [plan |-> p, status |-> "active"]
           n == Len(rows)
<1>1. rows \in Seq(Row) /\ n \in Nat /\ DOMAIN rows = 1 .. n
  BY LenProperties DEF Rows
<1>2. \A i \in 1 .. n : rows[i] \in Row BY <1>1, ElementOfSeq
<1>3. old \in [1 .. n -> Row] /\ \A i \in 1 .. n : old[i].plan = rows[i].plan
  BY <1>1, <1>2
<1>4. old \in Seq(Row) /\ Len(old) = n BY <1>1, <1>3
<1>5. new \in Row /\ new.plan = p OBVIOUS
<1> HIDE DEF old, new, Row, n
<1>6. /\ DOMAIN Append(old, new) = 1 .. n + 1
      /\ \A i \in 1 .. n : Append(old, new)[i] = old[i]
      /\ Append(old, new)[n + 1] = new
  BY <1>1, <1>4, <1>5
<1>7. PlansOf(rows) \in [1 .. n -> Plans] /\ \A i \in 1 .. n : PlansOf(rows)[i] = rows[i].plan
  BY <1>1, <1>2 DEF PlansOf, Row
<1>8. PlansOf(rows) \in Seq(Plans) /\ Len(PlansOf(rows)) = n BY <1>1, <1>7
<1>9. /\ DOMAIN Append(PlansOf(rows), p) = 1 .. n + 1
      /\ \A i \in 1 .. n : Append(PlansOf(rows), p)[i] = rows[i].plan
      /\ Append(PlansOf(rows), p)[n + 1] = p
  BY <1>1, <1>7, <1>8
<1>10. Append(PlansOf(rows), p) = [i \in 1 .. n + 1 |-> Append(PlansOf(rows), p)[i]]
  <2> DEFINE L == PlansOf(rows)
             M == Append(L, p)
  <2>1. L \in Seq(Plans) /\ Len(L) = n BY <1>8
  <2> HIDE DEF L
  <2>2. M \in Seq(Plans) /\ Len(M) = n + 1 BY <2>1
  <2>3. M \in [1 .. n + 1 -> Plans] BY <2>2, LenProperties
  <2> HIDE DEF M
  <2>4. M = [i \in 1 .. n + 1 |-> M[i]] BY <2>3
  <2> QED BY <2>4 DEF M, L
<1>11. ASSUME NEW i \in 1 .. n + 1
       PROVE  Append(old, new)[i].plan = Append(PlansOf(rows), p)[i]
  <2>1. i \in 1 .. n \/ i = n + 1 BY <1>1
  <2> QED BY <2>1, <1>3, <1>5, <1>6, <1>9
<1>12. PlansOf(Append(old, new)) = [i \in 1 .. n + 1 |-> Append(PlansOf(rows), p)[i]]
  BY <1>6, <1>11 DEF PlansOf
<1>13. Activated(rows, p) = Append(old, new) BY DEF Activated, old, new
<1> QED BY <1>10, <1>12, <1>13

Bought == [s \in Subscribers |-> PlansOf(subscriptions[s])]

LEMMA RefinementStep == IInv /\ [Next]_vars => [Atomic!Next]_<<balance, Bought>>
<1> SUFFICES ASSUME IInv, [Next]_vars PROVE [Atomic!Next]_<<balance, Bought>>
  OBVIOUS
<1>1. ASSUME UNCHANGED <<balance, subscriptions>> PROVE [Atomic!Next]_<<balance, Bought>>
  BY <1>1 DEF Bought
<1>2. ASSUME NEW w \in Workers, CreditCommit(w) PROVE [Atomic!Next]_<<balance, Bought>>
  <2>1. WellFormed("credit_commit", req[w]) /\ seen[w] = balance[req[w].sub]
    BY <1>2 DEF CreditCommit, IInv, HasRequest, HoldsTheRow
  <2>2. /\ req[w].sub \in Subscribers /\ req[w].ref \in Cards
        /\ CardValue[req[w].ref] > 0
    BY <2>1 DEF WellFormed, Redeeming, Buying, Requests
  <2>3. balance \in [Subscribers -> Int] BY DEF IInv, TypeOK
  <2>4. balance' = [balance EXCEPT ![req[w].sub] = @ + CardValue[req[w].ref]]
    BY <1>2, <2>1, <2>2, <2>3 DEF CreditCommit
  <2>5. Bought' = Bought BY <1>2 DEF CreditCommit, Bought
  <2>6. Atomic!Credit(req[w].sub, req[w].ref)
    BY <2>2, <2>4, <2>5 DEF Atomic!Credit, Bought
  <2> QED BY <2>2, <2>6 DEF Atomic!Next
<1>3. ASSUME NEW w \in Workers, BuyCommit(w) PROVE [Atomic!Next]_<<balance, Bought>>
  <2> DEFINE s == req[w].sub
             p == req[w].ref
  <2>1. /\ WellFormed("activate", req[w]) /\ seen[w] >= 0
        /\ seen[w] = balance[s] - Price[p]
    BY <1>3 DEF BuyCommit, IInv, HasRequest, HoldsTheRow
  <2>2. s \in Subscribers /\ p \in Plans /\ Price[p] > 0
    BY <2>1 DEF WellFormed, Redeeming, Buying, Requests
  <2>3. /\ balance \in [Subscribers -> Int] /\ Price[p] \in Nat
        /\ subscriptions \in [Subscribers -> Rows]
    BY <2>2, PriceAssumption DEF IInv, TypeOK
  <2>4. /\ balance' = [balance EXCEPT ![s] = @ - Price[p]]
        /\ 0 < Price[p] /\ Price[p] <= balance[s]
    BY <1>3, <2>1, <2>2, <2>3 DEF BuyCommit
  <2>5. /\ subscriptions' = [subscriptions EXCEPT ![s] = Activated(@, p)]
        /\ PlansOf(Activated(subscriptions[s], p)) = Append(Bought[s], p)
    BY <1>3, <2>2, <2>3, PlansOfActivated DEF BuyCommit, Bought
  <2>6. Bought' = [Bought EXCEPT ![s] = Append(@, p)]
    BY <2>2, <2>3, <2>5 DEF Bought
  <2>7. Atomic!Buy(s, p) BY <2>4, <2>6 DEF Atomic!Buy, Bought
  <2> QED BY <2>2, <2>7 DEF Atomic!Next
<1>4. CASE UNCHANGED vars BY <1>4, <1>1 DEF vars
<1>5. CASE \E c \in Cards : AdminSetCard(c) BY <1>5, <1>1 DEF AdminSetCard
<1>6. ASSUME NEW w \in Workers, Arrive(w) \/ Crash(w)
      PROVE  [Atomic!Next]_<<balance, Bought>>
  BY <1>6, <1>1 DEF Arrive, Crash, RedeemLookup, PurchaseStart, RenewStart
<1>7. ASSUME NEW w \in Workers, Step(w), ~CreditCommit(w), ~BuyCommit(w)
      PROVE  [Atomic!Next]_<<balance, Bought>>
  BY <1>7, <1>1
  DEF Step, RedeemSave, CreditRefused, CreditLock, DebitRefused, DebitLock,
      DebitInsufficient, DebitWrite
<1> QED BY <1>2, <1>3, <1>4, <1>5, <1>6, <1>7 DEF Next

\* Seen from outside, every credit and every purchase is one step: no update is
\* lost, no purchase overdraws, no plan is given without its debit.
THEOREM Refinement == Spec => RefinesAtomicWallet
<1>1. Init => Atomic!Init
  BY DEF Init, Atomic!Init, PlansOf
<1>2. [Next]_vars /\ IInv => [Atomic!Next]_<<balance, Bought>> BY RefinementStep
<1> QED BY <1>1, <1>2, IInvHolds, PTL DEF Spec, RefinesAtomicWallet, Atomic!Spec, Bought

-----------------------------------------------------------------------------
(* Vouchers                                                                *)

\* Who is where.
Here(place) == \E p \in Logins : at[p] = place
PlacesApart ==
  /\ \A p \in Logins : at[p] \in {"idle", "lapsed", "unpaid", "create", "save", "subscribe", "grant", "again"}
  /\ at[V!Sweep] \in {"idle", "marked", "ended"}
  /\ at[V!Dealer] \in {"idle", "toggle"}
\* The account is made once, hence the voucher is given away once.
GivenOnce ==
  /\ account <=> voucher.owned \/ Here("save")
  /\ \A p, q \in Logins : at[p] = "save" => ~voucher.owned /\ (at[q] = "save" => p = q)
\* A voucher that is nobody's is not running, and nothing of it is paid.
NobodysRests ==
  ~voucher.owned => /\ voucher.status \in {"unused", "disabled"} /\ at[V!Sweep] = "idle"
                    /\ ~Here("lapsed") /\ ~Here("unpaid")
\* One that is running, and its service, or who will bring it about.
Running ==
  voucher.owned /\ ~passed =>
    /\ voucher.status = "active" /\ at[V!Sweep] = "idle" /\ ~Here("lapsed") /\ ~Here("unpaid")
    /\ Here("subscribe") \/ (paid = "active" /\ (access \/ Here("grant")))
\* The toggle of a batch: first the cards, then the batch.
Toggling ==
  /\ at[V!Dealer] = "toggle" => copy[V!Dealer].batch = batch
  /\ batch = (IF at[V!Dealer] = "toggle" THEN "active" ELSE "disabled") => voucher.status # "unused"
Unkilled == GivenOnce /\ NobodysRests /\ Running /\ Toggling
\* One at a time: who lets in a voucher finds it unexpired.
OneActor == \A a, b \in V!Actors : at[a] # "idle" /\ at[b] # "idle" => a = b
ExpiredOut ==
  /\ voucher.status = "expired" => ~access \/ Here("unpaid") \/ at[V!Sweep] = "ended"
  /\ Here("create") \/ Here("save") \/ Here("subscribe") \/ Here("grant") \/ Here("again")
       => voucher.status # "expired"
CardInv ==
  /\ V!TypeOK /\ PlacesApart
  /\ scene # "kills" => Unkilled
  /\ scene = "card" => OneActor /\ ExpiredOut

LEMMA CardInit == MCInit => CardInv
<1> SUFFICES ASSUME MCInit PROVE CardInv OBVIOUS
<1>1. /\ voucher = [status |-> "unused", owned |-> FALSE] /\ batch = "active" /\ passed \in BOOLEAN
      /\ account = FALSE /\ paid = "none" /\ access = FALSE
      /\ at = [a \in V!Actors |-> "idle"] /\ copy = [a \in V!Actors |-> V!Nothing]
  BY DEF MCInit, V!Init
<1>2. \A a \in V!Actors : at[a] = "idle" BY <1>1
<1>3. \A p \in Logins : p \in V!Actors BY DEF V!Actors
<1>4. V!Sweep \in V!Actors /\ V!Dealer \in V!Actors BY DEF V!Actors
<1>5. V!TypeOK BY <1>1 DEF V!TypeOK, V!Rows, V!Statuses, V!Places, V!Copies, V!Nothing
<1>6. PlacesApart BY <1>2, <1>3, <1>4 DEF PlacesApart
<1>7. Unkilled BY <1>1, <1>2, <1>3, <1>4 DEF Unkilled, GivenOnce, NobodysRests, Running, Toggling, Here
<1>8. OneActor /\ ExpiredOut BY <1>1, <1>2, <1>3, <1>4 DEF OneActor, ExpiredOut, Here
<1> QED BY <1>5, <1>6, <1>7, <1>8 DEF CardInv

LEMMA CardRest == ASSUME CardInv PROVE VouchersHold
<1>1. \A p \in Logins : p \in V!Actors BY DEF V!Actors
<1>2. V!Sweep \in V!Actors /\ V!Dealer \in V!Actors BY DEF V!Actors
<1>3. V!TypeOK BY DEF CardInv
<1>4. ASSUME V!Quiet PROVE /\ at[V!Sweep] = "idle" /\ at[V!Dealer] = "idle"
                           /\ \A place \in {"save", "subscribe", "grant", "unpaid"} : ~Here(place)
  BY <1>1, <1>2, <1>4 DEF V!Quiet, Here
<1>5. scene = "card" => V!ExpiredStaysOut BY <1>4 DEF CardInv, ExpiredOut, V!ExpiredStaysOut
<1>6. ASSUME scene # "kills" PROVE V!RunningIsServed /\ V!NoOrphan /\ V!DisabledBatchHolds
  <2>1. Unkilled BY <1>6 DEF CardInv
  <2>2. V!NoOrphan BY <1>4, <2>1 DEF Unkilled, GivenOnce, V!NoOrphan
  <2>3. V!DisabledBatchHolds BY <1>4, <2>1 DEF Unkilled, Toggling, V!DisabledBatchHolds
  <2>4. V!RunningIsServed
    BY <1>3, <1>4, <2>1 DEF Unkilled, NobodysRests, Running, V!RunningIsServed, V!TypeOK, V!Rows
  <2> QED BY <2>2, <2>3, <2>4
<1> QED BY <1>3, <1>5, <1>6 DEF VouchersHold

LEMMA ActorsAre ==
  /\ \A p \in Logins : p \in V!Actors /\ p # V!Sweep /\ p # V!Dealer
  /\ V!Sweep \in V!Actors /\ V!Dealer \in V!Actors /\ V!Sweep # V!Dealer
  /\ \A a \in V!Actors : a \in Logins \/ a = V!Sweep \/ a = V!Dealer
BY LoginsAssumption DEF V!Actors, V!Sweep, V!Dealer

\* Where a request or a command gets by a step.
LEMMA LoginMoves ==
  ASSUME CardInv, NEW p \in Logins, V!Login(p) \/ V!Continue(p)
  PROVE  /\ copy' \in [V!Actors -> V!Copies] /\ copy'[V!Dealer] = copy[V!Dealer]
         /\ \E place \in {"idle", "lapsed", "unpaid", "create", "save", "subscribe", "grant", "again"} :
              at' = [at EXCEPT ![p] = place]
<1>1. V!Row \in V!Copies /\ V!Nothing \in V!Copies
  BY DEF CardInv, V!TypeOK, V!Row, V!Rows, V!Copies, V!Nothing, V!Statuses
<1>2. copy \in [V!Actors -> V!Copies] /\ at \in [V!Actors -> V!Places] BY DEF CardInv, V!TypeOK
<1>3. p \in V!Actors /\ p # V!Dealer BY ActorsAre
<1>4. copy' = copy \/ copy' = [copy EXCEPT ![p] = V!Row] \/ copy' = [copy EXCEPT ![p] = V!Nothing]
  BY DEF V!Login, V!Continue, V!Lapse, V!Unpay, V!Create, V!Save, V!Subscribe, V!Grant, V!Return
<1>5. \E place \in {"idle", "lapsed", "unpaid", "create", "save", "subscribe", "grant", "again"} :
        at' = [at EXCEPT ![p] = place]
  <2>1. CASE V!Login(p)
    <3>1. CASE V!Refused(V!Row) /\ UNCHANGED at
      <4>1. at[p] = "idle" BY <2>1 DEF V!Login
      <4>2. at' = [at EXCEPT ![p] = "idle"] BY <1>2, <1>3, <3>1, <4>1
      <4> QED BY <4>2
    <3>2. CASE ~V!Refused(V!Row) BY <2>1, <3>2 DEF V!Login, V!Goto
    <3> QED BY <2>1, <3>1, <3>2 DEF V!Login
  <2>2. CASE V!Continue(p)
    BY <2>2 DEF V!Continue, V!Lapse, V!Unpay, V!Create, V!Save, V!Subscribe, V!Grant, V!Return, V!Goto
  <2> QED BY <2>1, <2>2
<1>6. copy' \in [V!Actors -> V!Copies] /\ copy'[V!Dealer] = copy[V!Dealer]
  <2>1. ASSUME NEW x \in V!Copies, copy' = [copy EXCEPT ![p] = x]
        PROVE  copy' \in [V!Actors -> V!Copies] /\ copy'[V!Dealer] = copy[V!Dealer]
    BY <1>2, <1>3, <2>1
  <2> QED BY <1>1, <1>2, <1>4, <2>1
<1> QED BY <1>5, <1>6

LEMMA CardType == ASSUME CardInv, V!Next PROVE V!TypeOK' /\ PlacesApart'
<1>1. /\ voucher \in V!Rows /\ batch \in {"active", "disabled"} /\ passed \in BOOLEAN
      /\ account \in BOOLEAN /\ paid \in {"none", "active", "expired"} /\ access \in BOOLEAN
      /\ at \in [V!Actors -> V!Places] /\ copy \in [V!Actors -> V!Copies] /\ PlacesApart
  BY DEF CardInv, V!TypeOK
<1>2. V!Row \in V!Copies /\ V!Nothing \in V!Copies
  BY <1>1 DEF V!Row, V!Rows, V!Copies, V!Nothing, V!Statuses
<1>3. ASSUME NEW p \in Logins, V!Login(p) \/ V!Continue(p) PROVE V!TypeOK' /\ PlacesApart'
  <2>1. PICK place \in {"idle", "lapsed", "unpaid", "create", "save", "subscribe", "grant", "again"} :
          at' = [at EXCEPT ![p] = place]
    BY <1>3, LoginMoves
  <2>2. at' \in [V!Actors -> V!Places] /\ PlacesApart'
    BY <1>1, <2>1, ActorsAre DEF PlacesApart, V!Places
  <2>3. copy' \in [V!Actors -> V!Copies] BY <1>3, LoginMoves
  <2>4. /\ voucher' \in V!Rows /\ batch' \in {"active", "disabled"} /\ passed' \in BOOLEAN
        /\ account' \in BOOLEAN /\ paid' \in {"none", "active", "expired"} /\ access' \in BOOLEAN
    <3>1. V!Sold \in V!Rows /\ [voucher EXCEPT !.status = "expired"] \in V!Rows
      BY <1>1 DEF V!Sold, V!Rows, V!Statuses
    <3>2. CASE V!Login(p) \/ V!Lapse(p) \/ V!Unpay(p) BY <1>1, <3>1, <3>2 DEF V!Login, V!Lapse, V!Unpay
    <3>3. CASE V!Create(p) \/ V!Subscribe(p) \/ V!Grant(p)
      BY <1>1, <3>3 DEF V!Create, V!Subscribe, V!Grant
    <3>4. CASE V!Save(p) BY <1>1, <3>1, <3>4 DEF V!Save
    <3> QED BY <1>3, <3>2, <3>3, <3>4 DEF V!Continue
  <2> QED BY <2>2, <2>3, <2>4 DEF V!TypeOK
<1>4. CASE V!Collect \/ V!Mark \/ V!End
  <2>1. PICK place \in {"idle", "marked", "ended"} : at' = [at EXCEPT ![V!Sweep] = place]
    BY <1>4 DEF V!Collect, V!Mark, V!End, V!Goto, V!Return
  <2>2. at' \in [V!Actors -> V!Places] /\ PlacesApart'
    BY <1>1, <2>1, ActorsAre DEF PlacesApart, V!Places
  <2>3. copy' \in [V!Actors -> V!Copies]
    BY <1>1, <1>2, <1>4, ActorsAre DEF V!Collect, V!Mark, V!End, V!Return
  <2>4. /\ voucher' \in V!Rows /\ batch' \in {"active", "disabled"} /\ passed' \in BOOLEAN
        /\ account' \in BOOLEAN /\ paid' \in {"none", "active", "expired"} /\ access' \in BOOLEAN
    BY <1>1, <1>4 DEF V!Collect, V!Mark, V!End, V!Rows, V!Statuses
  <2> QED BY <2>2, <2>3, <2>4 DEF V!TypeOK
<1>5. CASE V!ToggleCards \/ V!ToggleBatch
  <2>1. PICK place \in {"idle", "toggle"} : at' = [at EXCEPT ![V!Dealer] = place]
    BY <1>5 DEF V!ToggleCards, V!ToggleBatch, V!Goto, V!Return
  <2>2. at' \in [V!Actors -> V!Places] /\ PlacesApart'
    BY <1>1, <2>1, ActorsAre DEF PlacesApart, V!Places
  <2>3. copy' \in [V!Actors -> V!Copies]
    BY <1>1, <1>2, <1>5, ActorsAre DEF V!ToggleCards, V!ToggleBatch, V!Return
  <2>4. /\ voucher' \in V!Rows /\ batch' \in {"active", "disabled"} /\ passed' \in BOOLEAN
        /\ account' \in BOOLEAN /\ paid' \in {"none", "active", "expired"} /\ access' \in BOOLEAN
    BY <1>1, <1>5 DEF V!ToggleCards, V!ToggleBatch, V!Toggled, V!Rows, V!Statuses
  <2> QED BY <2>2, <2>3, <2>4 DEF V!TypeOK
<1>6. CASE V!ExpirePlan \/ V!Pass
  BY <1>1, <1>6 DEF V!ExpirePlan, V!Pass, V!TypeOK, PlacesApart
<1>7. ASSUME NEW a \in V!Actors, V!Kill(a) PROVE V!TypeOK' /\ PlacesApart'
  <2>1. at' = [at EXCEPT ![a] = "idle"] /\ copy' = [copy EXCEPT ![a] = V!Nothing]
    BY <1>7 DEF V!Kill, V!Return, V!Goto
  <2>2. at' \in [V!Actors -> V!Places] /\ PlacesApart'
    BY <1>1, <2>1, ActorsAre DEF PlacesApart, V!Places
  <2> QED BY <1>1, <1>2, <1>7, <2>1, <2>2 DEF V!Kill, V!TypeOK
<1> QED BY <1>3, <1>4, <1>5, <1>6, <1>7 DEF V!Next, V!Begin, V!Advance

\* A login, step by step.
LEMMA LoginUnkilled ==
  ASSUME CardInv, Unkilled, NEW p \in Logins, V!Login(p) \/ V!Continue(p)
  PROVE  Unkilled'
<1>1. /\ voucher \in V!Rows /\ passed \in BOOLEAN /\ at \in [V!Actors -> V!Places]
      /\ p \in V!Actors /\ p # V!Sweep /\ p # V!Dealer
      /\ \A q \in Logins : q \in V!Actors
  BY ActorsAre DEF CardInv, V!TypeOK
<1>2. PICK place \in {"idle", "lapsed", "unpaid", "create", "save", "subscribe", "grant", "again"} :
        at' = [at EXCEPT ![p] = place]
  BY LoginMoves
<1>3. /\ at'[p] = place /\ \A q \in Logins : q # p => at'[q] = at[q]
      /\ at'[V!Sweep] = at[V!Sweep] /\ at'[V!Dealer] = at[V!Dealer]
      /\ copy'[V!Dealer] = copy[V!Dealer]
  BY <1>1, <1>2, LoginMoves, ActorsAre
<1>4. batch' = batch
  BY DEF V!Login, V!Continue, V!Lapse, V!Unpay, V!Create, V!Save, V!Subscribe, V!Grant
<1>5. CASE V!Login(p)
  <2>1. UNCHANGED <<voucher, batch, passed, account, paid, access>> /\ at[p] = "idle" BY <1>5 DEF V!Login
  <2>2. /\ place \in {"idle", "lapsed", "again", "create"}
        /\ place = "lapsed" => voucher.owned /\ passed
    BY <1>1, <1>2, <1>3, <1>5, <2>1 DEF V!Login, V!Goto, V!Overdue, V!Row
  <2>3. GivenOnce' BY <1>3, <2>1, <2>2 DEF Unkilled, GivenOnce, Here
  <2>4. NobodysRests' BY <1>3, <2>1, <2>2 DEF Unkilled, NobodysRests, Here
  <2>5. Running' BY <1>3, <2>1, <2>2 DEF Unkilled, Running, Here
  <2>6. Toggling' BY <1>3, <2>1 DEF Unkilled, Toggling
  <2> QED BY <2>3, <2>4, <2>5, <2>6 DEF Unkilled
<1>6. CASE V!Lapse(p)
  <2>1. /\ at[p] = "lapsed" /\ place = "unpaid" /\ UNCHANGED <<batch, passed, account, paid, access>>
        /\ voucher' = [voucher EXCEPT !.status = "expired"]
    BY <1>1, <1>3, <1>6 DEF V!Lapse, V!Goto
  <2>2. voucher'.owned = voucher.owned /\ voucher'.status = "expired" BY <1>1, <2>1 DEF V!Rows
  <2>3. voucher.owned /\ passed BY <1>1, <2>1 DEF Unkilled, NobodysRests, Running, Here, V!Rows
  <2>4. GivenOnce' BY <1>3, <2>1, <2>2, <2>3 DEF Unkilled, GivenOnce, Here
  <2>5. NobodysRests' /\ Running' BY <2>1, <2>2, <2>3 DEF NobodysRests, Running
  <2>6. Toggling' BY <1>3, <2>1, <2>2 DEF Unkilled, Toggling
  <2> QED BY <2>4, <2>5, <2>6 DEF Unkilled
<1>7. CASE V!Unpay(p)
  <2>1. at[p] = "unpaid" /\ place = "idle" /\ UNCHANGED <<voucher, batch, passed, account>>
    BY <1>1, <1>3, <1>7 DEF V!Unpay, V!Return, V!Goto
  <2>2. voucher.owned /\ passed BY <1>1, <2>1 DEF Unkilled, NobodysRests, Running, Here, V!Rows
  <2>3. GivenOnce' BY <1>3, <2>1, <2>2 DEF Unkilled, GivenOnce, Here
  <2>4. NobodysRests' /\ Running' BY <2>1, <2>2 DEF NobodysRests, Running
  <2>5. Toggling' BY <1>3, <2>1 DEF Unkilled, Toggling
  <2> QED BY <2>3, <2>4, <2>5 DEF Unkilled
<1>8. CASE V!Create(p)
  <2>1. /\ at[p] = "create" /\ UNCHANGED <<voucher, batch, passed, paid, access>>
        /\ IF account THEN place = "idle" /\ account' = account ELSE place = "save" /\ account' = TRUE
    BY <1>1, <1>3, <1>8 DEF V!Create, V!Return, V!Goto
  <2>2. GivenOnce'
    <3>1. CASE account BY <1>3, <2>1, <3>1 DEF Unkilled, GivenOnce, Here
    <3>2. CASE ~account
      <4>1. ~voucher.owned /\ \A q \in Logins : at[q] # "save" BY <3>2 DEF Unkilled, GivenOnce, Here
      <4> QED BY <1>3, <2>1, <3>2, <4>1 DEF GivenOnce, Here
    <3> QED BY <3>1, <3>2
  <2>3. NobodysRests' BY <1>3, <2>1 DEF Unkilled, NobodysRests, Here
  <2>4. Running' BY <1>3, <2>1 DEF Unkilled, Running, Here
  <2>5. Toggling' BY <1>3, <2>1 DEF Unkilled, Toggling
  <2> QED BY <2>2, <2>3, <2>4, <2>5 DEF Unkilled
<1>9. CASE V!Save(p)
  <2>1. /\ at[p] = "save" /\ place = "subscribe" /\ UNCHANGED <<batch, account, paid, access>>
        /\ voucher'.status = "active" /\ voucher'.owned
    BY <1>1, <1>3, <1>9 DEF V!Save, V!Goto, V!Sold
  <2>2. account /\ ~voucher.owned /\ \A q \in Logins : at'[q] # "save"
    BY <1>3, <2>1 DEF Unkilled, GivenOnce, Here
  <2>3. GivenOnce' BY <2>1, <2>2 DEF GivenOnce
  <2>4. NobodysRests' BY <2>1 DEF NobodysRests
  <2>5. Running' BY <1>3, <2>1, <2>2 DEF Unkilled, NobodysRests, Running, Here
  <2>6. Toggling' BY <1>3, <2>1 DEF Unkilled, Toggling
  <2> QED BY <2>3, <2>4, <2>5, <2>6 DEF Unkilled
<1>10. CASE V!Subscribe(p)
  <2>1. /\ at[p] = "subscribe" /\ place = "grant" /\ UNCHANGED <<voucher, batch, passed, account, access>>
        /\ paid' = "active"
    BY <1>1, <1>3, <1>10 DEF V!Subscribe, V!Goto
  <2>2. GivenOnce' BY <1>3, <2>1 DEF Unkilled, GivenOnce, Here
  <2>3. NobodysRests' BY <1>3, <2>1 DEF Unkilled, NobodysRests, Here
  <2>4. Running' BY <1>3, <2>1 DEF Unkilled, Running, Here
  <2>5. Toggling' BY <1>3, <2>1 DEF Unkilled, Toggling
  <2> QED BY <2>2, <2>3, <2>4, <2>5 DEF Unkilled
<1>11. CASE V!Grant(p)
  <2>1. /\ at[p] \in {"grant", "again"} /\ place = "idle" /\ UNCHANGED <<voucher, batch, passed, account, paid>>
        /\ access' = TRUE
    BY <1>1, <1>3, <1>11 DEF V!Grant, V!Return, V!Goto
  <2>2. GivenOnce' BY <1>3, <2>1 DEF Unkilled, GivenOnce, Here
  <2>3. NobodysRests' BY <1>3, <2>1 DEF Unkilled, NobodysRests, Here
  <2>4. Running' BY <1>3, <2>1 DEF Unkilled, Running, Here
  <2>5. Toggling' BY <1>3, <2>1 DEF Unkilled, Toggling
  <2> QED BY <2>2, <2>3, <2>4, <2>5 DEF Unkilled
<1> QED BY <1>5, <1>6, <1>7, <1>8, <1>9, <1>10, <1>11 DEF V!Continue

\* The commands, the reseller and time.
LEMMA OthersUnkilled ==
  ASSUME CardInv, Unkilled,
         V!Collect \/ V!Mark \/ V!End \/ V!ExpirePlan \/ V!ToggleCards \/ V!ToggleBatch \/ V!Pass
  PROVE  Unkilled'
<1>1. /\ voucher \in V!Rows /\ passed \in BOOLEAN /\ at \in [V!Actors -> V!Places]
      /\ copy \in [V!Actors -> V!Copies] /\ PlacesApart /\ batch \in {"active", "disabled"}
      /\ \A p \in Logins : p \in V!Actors
  BY ActorsAre DEF CardInv, V!TypeOK
<1>2. CASE V!Collect \/ V!Mark \/ V!End
  <2>1. PICK place \in {"idle", "marked", "ended"} : at' = [at EXCEPT ![V!Sweep] = place]
    BY <1>2 DEF V!Collect, V!Mark, V!End, V!Goto, V!Return
  <2>2. /\ \A p \in Logins : at'[p] = at[p]
        /\ at'[V!Dealer] = at[V!Dealer] /\ copy'[V!Dealer] = copy[V!Dealer]
    BY <1>1, <1>2, <2>1, ActorsAre DEF V!Collect, V!Mark, V!End, V!Return
  <2>3. /\ UNCHANGED <<batch, passed, account>> /\ voucher'.owned = voucher.owned
        /\ voucher'.status \in {voucher.status, "expired"}
    BY <1>1, <1>2 DEF V!Collect, V!Mark, V!End, V!Rows
  <2>4. voucher.owned /\ passed
    BY <1>1, <1>2 DEF V!Collect, V!Collected, V!Mark, V!End, Unkilled, NobodysRests, Running, V!Rows
  <2>5. GivenOnce' BY <2>2, <2>3 DEF Unkilled, GivenOnce, Here
  <2>6. NobodysRests' /\ Running' BY <2>3, <2>4 DEF NobodysRests, Running
  <2>7. Toggling' BY <2>2, <2>3 DEF Unkilled, Toggling
  <2> QED BY <2>5, <2>6, <2>7 DEF Unkilled
<1>3. CASE V!ToggleCards
  <2>1. /\ at[V!Dealer] = "idle" /\ at'[V!Dealer] = "toggle" /\ copy'[V!Dealer] = V!Row
        /\ at'[V!Sweep] = at[V!Sweep] /\ \A p \in Logins : at'[p] = at[p]
    BY <1>1, <1>3, ActorsAre DEF V!ToggleCards, V!Goto
  <2>2. /\ UNCHANGED <<batch, passed, account, paid, access>> /\ voucher'.owned = voucher.owned
        /\ voucher'.status = V!Toggled(voucher.status)
    BY <1>1, <1>3 DEF V!ToggleCards, V!Rows
  <2>3. copy'[V!Dealer].batch = batch BY <2>1 DEF V!Row
  <2>4. GivenOnce' BY <2>1, <2>2 DEF Unkilled, GivenOnce, Here
  <2>5. NobodysRests' BY <2>1, <2>2 DEF Unkilled, NobodysRests, Here, V!Toggled
  <2>6. Running' BY <2>1, <2>2 DEF Unkilled, Running, Here, V!Toggled
  <2>7. Toggling' BY <1>1, <2>1, <2>2, <2>3 DEF Toggling, V!Toggled
  <2> QED BY <2>4, <2>5, <2>6, <2>7 DEF Unkilled
<1>4. CASE V!ToggleBatch
  <2>1. /\ at[V!Dealer] = "toggle" /\ at'[V!Dealer] = "idle"
        /\ at'[V!Sweep] = at[V!Sweep] /\ \A p \in Logins : at'[p] = at[p]
    BY <1>1, <1>4, ActorsAre DEF V!ToggleBatch, V!Return, V!Goto
  <2>2. /\ UNCHANGED <<voucher, passed, account, paid, access>>
        /\ batch' = IF copy[V!Dealer].batch = "active" THEN "disabled" ELSE "active"
    BY <1>4 DEF V!ToggleBatch
  <2>3. GivenOnce' BY <2>1, <2>2 DEF Unkilled, GivenOnce, Here
  <2>4. NobodysRests' BY <2>1, <2>2 DEF Unkilled, NobodysRests, Here
  <2>5. Running' BY <2>1, <2>2 DEF Unkilled, Running, Here
  <2>6. Toggling' BY <1>1, <2>1, <2>2 DEF Unkilled, Toggling
  <2> QED BY <2>3, <2>4, <2>5, <2>6 DEF Unkilled
<1>5. CASE V!ExpirePlan \/ V!Pass
  <2>1. UNCHANGED <<voucher, batch, account, at, copy>> /\ passed' = TRUE
    BY <1>1, <1>5 DEF V!ExpirePlan, V!Pass
  <2>2. GivenOnce' /\ Toggling' BY <2>1 DEF Unkilled, GivenOnce, Toggling, Here
  <2>3. NobodysRests' BY <2>1 DEF Unkilled, NobodysRests, Here
  <2>4. Running' BY <2>1 DEF Running
  <2> QED BY <2>2, <2>3, <2>4 DEF Unkilled
<1> QED BY <1>2, <1>3, <1>4, <1>5

\* One at a time: who expires a voucher ends its service.
LEMMA CardAlone ==
  ASSUME CardInv, OneActor, ExpiredOut, V!Advance \/ (V!Quiet /\ (V!Begin \/ V!Pass))
  PROVE  OneActor' /\ ExpiredOut'
<1>1. /\ voucher \in V!Rows /\ at \in [V!Actors -> V!Places] /\ PlacesApart /\ access \in BOOLEAN
      /\ \A p \in Logins : p \in V!Actors
  BY ActorsAre DEF CardInv, V!TypeOK
<1>2. \A a, b \in V!Actors : at[a] # "idle" /\ b # a => at[b] = "idle" BY DEF OneActor
<1>3. ASSUME NEW a \in V!Actors, NEW place, at' = [at EXCEPT ![a] = place],
             \A b \in V!Actors : b # a => at[b] = "idle"
      PROVE  /\ OneActor' /\ at'[a] = place
             /\ \A b \in V!Actors : b # a => at'[b] = "idle"
  BY <1>1, <1>3 DEF OneActor
<1>4. ASSUME NEW p \in Logins, V!Login(p) \/ V!Continue(p), \A b \in V!Actors : b # p => at[b] = "idle"
      PROVE  OneActor' /\ ExpiredOut'
  <2>1. PICK place \in {"idle", "lapsed", "unpaid", "create", "save", "subscribe", "grant", "again"} :
          at' = [at EXCEPT ![p] = place]
    BY <1>4, LoginMoves
  <2>2. OneActor' /\ at'[p] = place /\ \A q \in Logins : q # p => at'[q] = "idle" /\ at[q] = "idle"
    BY <1>1, <1>3, <1>4, <2>1
  <2>3. at[V!Sweep] = "idle" BY <1>4, ActorsAre
  <2>4. ExpiredOut'
    <3>1. CASE V!Login(p)
      <4>1. CASE V!Refused(V!Row)
        <5>1. UNCHANGED <<voucher, access, at>> BY <3>1, <4>1 DEF V!Login
        <5> QED BY <5>1 DEF ExpiredOut, Here
      <4>2. CASE ~V!Refused(V!Row)
        <5>1. voucher.status # "expired" /\ UNCHANGED <<voucher, access>>
          BY <3>1, <4>2 DEF V!Login, V!Refused, V!Row
        <5> QED BY <5>1 DEF ExpiredOut
      <4> QED BY <4>1, <4>2
    <3>2. CASE V!Lapse(p)
      <4>1. place = "unpaid" /\ voucher'.status = "expired" BY <1>1, <2>2, <3>2 DEF V!Lapse, V!Goto, V!Rows
      <4> QED BY <2>2, <4>1 DEF ExpiredOut, Here
    <3>3. CASE V!Unpay(p)
      <4>1. place = "idle" /\ access' = FALSE BY <1>1, <2>2, <3>3 DEF V!Unpay, V!Return, V!Goto
      <4> QED BY <2>2, <4>1 DEF ExpiredOut, Here
    <3>4. CASE V!Create(p) \/ V!Subscribe(p) \/ V!Grant(p)
      <4>1. voucher.status # "expired" /\ UNCHANGED voucher
        BY <3>4 DEF V!Create, V!Subscribe, V!Grant, ExpiredOut, Here
      <4> QED BY <4>1 DEF ExpiredOut
    <3>5. CASE V!Save(p)
      <4>1. voucher'.status = "active" BY <3>5 DEF V!Save, V!Sold
      <4> QED BY <4>1 DEF ExpiredOut
    <3> QED BY <1>4, <3>1, <3>2, <3>3, <3>4, <3>5 DEF V!Continue
  <2> QED BY <2>2, <2>4
<1>5. ASSUME NEW a \in {V!Sweep, V!Dealer}, NEW place, at' = [at EXCEPT ![a] = place],
             \A b \in V!Actors : b # a => at[b] = "idle"
      PROVE  OneActor' /\ at'[a] = place /\ \A q \in Logins : at'[q] = "idle" /\ at[q] = "idle"
  <2>1. a \in V!Actors /\ \A q \in Logins : q # a BY ActorsAre
  <2> QED BY <1>1, <1>3, <1>5, <2>1
<1>6. CASE (V!Quiet /\ V!Collect) \/ V!Mark \/ V!End
  <2>1. PICK place \in {"marked", "ended", "idle"} :
          /\ at' = [at EXCEPT ![V!Sweep] = place]
          /\ place = "marked" => voucher.status = "active" /\ UNCHANGED <<voucher, access>>
          /\ place = "idle" => access' = FALSE
    BY <1>6 DEF V!Collect, V!Collected, V!Mark, V!End, V!Goto, V!Return
  <2>2. \A b \in V!Actors : b # V!Sweep => at[b] = "idle"
    BY <1>2, <1>6, ActorsAre DEF V!Quiet, V!Mark, V!End
  <2>3. OneActor' /\ at'[V!Sweep] = place /\ \A q \in Logins : at'[q] = "idle" BY <1>5, <2>1, <2>2
  <2>4. ExpiredOut' BY <2>1, <2>3 DEF ExpiredOut, Here
  <2> QED BY <2>3, <2>4
<1>7. CASE (V!Quiet /\ V!ToggleCards) \/ V!ToggleBatch
  <2>1. PICK place \in {"toggle", "idle"} : at' = [at EXCEPT ![V!Dealer] = place]
    BY <1>7 DEF V!ToggleCards, V!ToggleBatch, V!Goto, V!Return
  <2>2. \A b \in V!Actors : b # V!Dealer => at[b] = "idle"
    BY <1>2, <1>7, ActorsAre DEF V!Quiet, V!ToggleBatch
  <2>3. /\ OneActor' /\ \A q \in Logins : at'[q] = "idle" /\ at[q] = "idle"
        /\ at[V!Sweep] = "idle"
    BY <1>5, <2>1, <2>2, ActorsAre
  <2>4. access' = access /\ (voucher'.status = "expired" <=> voucher.status = "expired")
    BY <1>1, <1>7 DEF V!ToggleCards, V!ToggleBatch, V!Toggled, V!Rows
  <2>5. ExpiredOut' BY <2>3, <2>4 DEF ExpiredOut, Here
  <2> QED BY <2>3, <2>5
<1>8. CASE V!ExpirePlan \/ V!Pass
  BY <1>8 DEF V!ExpirePlan, V!Pass, OneActor, ExpiredOut, Here
<1>9. ASSUME NEW p \in Logins, V!Continue(p) PROVE at[p] # "idle"
  BY <1>9 DEF V!Continue, V!Lapse, V!Unpay, V!Create, V!Save, V!Subscribe, V!Grant
<1> QED BY <1>1, <1>2, <1>4, <1>6, <1>7, <1>8, <1>9 DEF V!Advance, V!Begin, V!Quiet

LEMMA CardStep == ASSUME CardInv, [MCNext]_all PROVE CardInv'
<1>1. CASE Vouching /\ VouchersNext /\ UNCHANGED scene
  <2>1. V!Next BY <1>1 DEF VouchersNext, V!Next
  <2>2. ASSUME scene' # "kills" PROVE Unkilled'
    <3>1. Unkilled /\ scene # "kills" BY <1>1, <2>2 DEF CardInv
    <3> QED BY <1>1, <3>1, LoginUnkilled, OthersUnkilled DEF VouchersNext, V!Begin, V!Advance
  <2>3. ASSUME scene' = "card" PROVE OneActor' /\ ExpiredOut'
    BY <1>1, <2>3, CardAlone DEF VouchersNext, CardInv
  <2> QED BY <2>1, <2>2, <2>3, CardType DEF CardInv
<1>2. CASE UNCHANGED <<cards, scene>>
  <2>1. UNCHANGED <<voucher, batch, passed, account, paid, access, at, copy, scene>> BY <1>2 DEF cards
  <2>2. V!TypeOK' /\ PlacesApart' BY <2>1 DEF CardInv, V!TypeOK, PlacesApart
  <2>3. Unkilled => Unkilled'
    BY <2>1 DEF Unkilled, GivenOnce, NobodysRests, Running, Toggling, Here
  <2>4. OneActor /\ ExpiredOut => OneActor' /\ ExpiredOut' BY <2>1 DEF OneActor, ExpiredOut, Here
  <2> QED BY <2>1, <2>2, <2>3, <2>4 DEF CardInv
<1> QED BY <1>1, <1>2 DEF MCNext, all

\* A voucher opens what it should, with any number of logins, the sweep and the
\* reseller in any order: one that is running is served, a login that fails
\* leaves no account behind, a disabled batch has no unused card; and one at a
\* time, an expired voucher opens nothing (activate_voucher, expire_vouchers,
\* voucher_batch_toggle).
THEOREM VouchersOpen == MCSpec => []VouchersHold
<1>1. CardInv /\ [MCNext]_all => CardInv' BY CardStep
<1>2. CardInv => VouchersHold BY CardRest
<1> QED BY <1>1, <1>2, CardInit, PTL DEF MCSpec

-----------------------------------------------------------------------------
(* Sign-up: types                                                          *)

Tokens == [live : BOOLEAN, code : 1..MaxCodes, spent : BOOLEAN, pending : 0..MaxCharges]
Charges == [plan : S!Plans, total : Nat, paid : BOOLEAN]
CodeRows == [n : 0..MaxCodes, tries : 0..MaxAttempts]
\* What is read as a code is one; what a charge is for is known when it starts.
Reads ==
  /\ Len(charges) <= MaxCharges /\ Len(tokens) <= MaxCodes
  /\ \A c \in Clients : stage[c] = "answer" => job[c].copy.n # 0
SignUpTyped == S!SignUpType /\ Reads

LEMMA BlankJob == S!Blank \in S!Jobs /\ S!NoCode \in CodeRows
<1>1. S!Plans # {} BY SignUpAssumption DEF S!Plans
<1>2. (CHOOSE p \in S!Plans : TRUE) \in S!Plans BY <1>1
<1>3. S!NoCode \in CodeRows BY SignUpAssumption DEF S!NoCode, CodeRows
<1> QED BY <1>2, <1>3, SignUpAssumption DEF S!Blank, S!Jobs, S!Kinds, S!NoCode

\* A job, a counter and a token in terms of their fields.
LEMMA Fields ==
  /\ S!Jobs = [kind : S!Kinds, copy : CodeRows, right : BOOLEAN, token : 0..MaxCodes,
               plan : S!Plans, charge : 0..MaxCharges, fee : BOOLEAN]
  /\ \A n \in 0..MaxCodes, m \in 0..MaxAttempts : [n |-> n, tries |-> m] \in CodeRows
  /\ \A n \in 1..MaxCodes : S!Verified(n) \in Tokens
  /\ \A r \in Tokens, n \in 0..MaxCharges : [r EXCEPT !.pending = n] \in Tokens
  /\ \A r \in Tokens : [r EXCEPT !.live = FALSE] \in Tokens /\ [r EXCEPT !.spent = TRUE] \in Tokens
  /\ \A r \in Charges : [r EXCEPT !.paid = TRUE] \in Charges
  /\ 0 \in 0..MaxCharges /\ 0 \in 0..MaxCodes
  /\ \A r \in CodeRows : r.n \in 0..MaxCodes /\ r.tries \in 0..MaxAttempts
<1>1. \A n \in 1..MaxCodes : S!Verified(n) \in Tokens
  BY SignUpAssumption DEF S!Verified, Tokens
<1>2. /\ \A r \in Tokens, n \in 0..MaxCharges : [r EXCEPT !.pending = n] \in Tokens
      /\ \A r \in Tokens : [r EXCEPT !.live = FALSE] \in Tokens /\ [r EXCEPT !.spent = TRUE] \in Tokens
  BY DEF Tokens
<1>3. \A r \in Charges : [r EXCEPT !.paid = TRUE] \in Charges BY DEF Charges
<1>4. 0 \in 0..MaxCharges /\ 0 \in 0..MaxCodes BY SignUpAssumption
<1> QED BY <1>1, <1>2, <1>3, <1>4 DEF S!Jobs, CodeRows

SignUpRows ==
  /\ code \in [S!Kinds -> CodeRows] /\ codes \in 0..MaxCodes
  /\ sends \in [count : Nat, sent : Nat, cool : BOOLEAN]
  /\ tokens \in Seq(Tokens) /\ Len(tokens) \in Nat /\ Len(tokens) <= MaxCodes /\ DOMAIN tokens = 1..Len(tokens)
  /\ tokens \in [1..Len(tokens) -> Tokens]
  /\ charges \in Seq(Charges) /\ Len(charges) \in Nat /\ DOMAIN charges = 1..Len(charges)
  /\ charges \in [1..Len(charges) -> Charges] /\ Len(charges) <= MaxCharges
  /\ feeOn \in BOOLEAN
  /\ signup \in [made : BOOLEAN, pin : BOOLEAN, plan : S!Plans \union {"none"}]
  /\ receipts \subseteq S!Receipts
  /\ stage \in [Clients -> S!Places] /\ job \in [Clients -> S!Jobs]
LEMMA SignUpFacts == ASSUME SignUpTyped PROVE SignUpRows
<1>1. tokens \in Seq(Tokens) /\ charges \in Seq(Charges)
  BY DEF SignUpTyped, S!SignUpType, Tokens, Charges
<1>2. Len(tokens) \in Nat /\ DOMAIN tokens = 1..Len(tokens) /\ tokens \in [1..Len(tokens) -> Tokens] BY <1>1
<1>3. Len(charges) \in Nat /\ DOMAIN charges = 1..Len(charges) /\ charges \in [1..Len(charges) -> Charges]
  BY <1>1
<1> QED BY <1>1, <1>2, <1>3 DEF SignUpTyped, S!SignUpType, Reads, CodeRows, SignUpRows

\* A row of a sequence is replaced.
LEMMA RowReplaced ==
  ASSUME NEW T, NEW s \in Seq(T), NEW i, NEW x \in T, NEW f, f = [s EXCEPT ![i] = x]
  PROVE  f \in Seq(T) /\ Len(f) = Len(s)
<1>1. PICK n \in Nat : n = Len(s) /\ DOMAIN s = 1..n OBVIOUS
<1>2. s \in [1..n -> T] BY <1>1
<1>3. f \in [1..n -> T] BY <1>2
<1>4. f \in Seq(T) BY <1>3
<1> QED BY <1>1, <1>3, <1>4

LEMMA RowAdded ==
  ASSUME NEW T, NEW s \in Seq(T), NEW x \in T, NEW f, f = Append(s, x)
  PROVE  /\ f \in Seq(T) /\ Len(f) = Len(s) + 1 /\ f[Len(s) + 1] = x
         /\ \A k \in 1..Len(s) : f[k] = s[k]
OBVIOUS

\* What a request writes when it gets to another place.
LEMMA Placed ==
  ASSUME SignUpTyped, NEW c \in Clients, NEW place \in S!Places, NEW j \in S!Jobs,
         stage' = [stage EXCEPT ![c] = place], job' = job \/ job' = [job EXCEPT ![c] = j],
         place = "answer" => job' = [job EXCEPT ![c] = j] /\ j.copy.n # 0,
         Len(charges') <= MaxCharges, Len(tokens') <= MaxCodes
  PROVE  stage' \in [Clients -> S!Places] /\ job' \in [Clients -> S!Jobs] /\ Reads'
<1>1. stage \in [Clients -> S!Places] /\ job \in [Clients -> S!Jobs] BY SignUpFacts DEF SignUpRows
<1>2. stage' \in [Clients -> S!Places] /\ job' \in [Clients -> S!Jobs] BY <1>1
<1>3. ASSUME NEW d \in Clients, stage'[d] = "answer" PROVE job'[d].copy.n # 0
  <2>1. CASE d = c BY <1>1, <1>3, <2>1
  <2>2. CASE d # c BY <1>1, <1>3, <2>2 DEF SignUpTyped, Reads
  <2> QED BY <2>1, <2>2
<1> QED BY <1>2, <1>3 DEF Reads

LEMMA CodeType ==
  ASSUME SignUpTyped, NEW c \in Clients,
         (\E k \in S!Kinds : S!AskCode(c, k) \/ \E right \in BOOLEAN : S!Check(c, k, right))
           \/ S!Send(c) \/ S!Record(c) \/ S!First(c) \/ S!Refuse(c) \/ S!Accept(c) \/ S!UseUp(c)
  PROVE  SignUpTyped'
<1>f. SignUpRows BY SignUpFacts
<1> USE <1>f DEF SignUpRows
<1>0. S!Blank \in S!Jobs /\ S!NoCode \in CodeRows BY BlankJob
<1>1. ASSUME NEW k \in S!Kinds, S!AskCode(c, k) PROVE SignUpTyped'
  <2>1. PICK j \in S!Jobs : j = [S!Blank EXCEPT !.kind = k] BY <1>0 DEF S!Jobs
  <2>2. /\ stage' = [stage EXCEPT ![c] = "send"] /\ job' = [job EXCEPT ![c] = j]
        /\ UNCHANGED <<code, codes, sends, tokens, charges, feeOn, signup, receipts>>
    BY <1>1, <2>1 DEF S!AskCode, S!Start
  <2>3. stage' \in [Clients -> S!Places] /\ job' \in [Clients -> S!Jobs] /\ Reads'
    BY <2>2, Placed DEF S!Places
  <2> QED BY <2>2, <2>3 DEF SignUpTyped, S!SignUpType
<1>2. ASSUME NEW k \in S!Kinds, NEW right \in BOOLEAN, S!Check(c, k, right) PROVE SignUpTyped'
  <2>0. code[k] \in CodeRows BY <1>2
  <2>a. /\ [S!Blank EXCEPT !.kind = k, !.copy = code[k], !.right = right] \in S!Jobs
        /\ [S!Blank EXCEPT !.kind = k, !.copy = code[k], !.right = right].copy = code[k]
    BY <1>0, <2>0, Fields
  <2>1. PICK j \in S!Jobs : j = [S!Blank EXCEPT !.kind = k, !.copy = code[k], !.right = right]
                            /\ j.copy = code[k]
    BY <2>a
  <2>2. /\ stage' = [stage EXCEPT ![c] = "answer"] /\ job' = [job EXCEPT ![c] = j] /\ code[k].n # 0
        /\ UNCHANGED <<code, codes, sends, tokens, charges, feeOn, signup, receipts>>
    BY <1>2, <2>1 DEF S!Check, S!Start
  <2>3. stage' \in [Clients -> S!Places] /\ job' \in [Clients -> S!Jobs] /\ Reads'
    BY <2>1, <2>2, Placed DEF S!Places
  <2> QED BY <2>2, <2>3 DEF SignUpTyped, S!SignUpType
<1>3. CASE S!Send(c)
  <2>1. /\ stage' = [stage EXCEPT ![c] = "record"] /\ job' = job /\ codes < MaxCodes
        /\ codes' = codes + 1 /\ sends' = [sends EXCEPT !.sent = @ + 1]
        /\ code' = [code EXCEPT ![job[c].kind] = [n |-> codes + 1, tries |-> 0]]
        /\ UNCHANGED <<tokens, charges, feeOn, signup, receipts>>
    BY <1>3 DEF S!Send, S!Move
  <2>2. [n |-> codes + 1, tries |-> 0] \in CodeRows BY <2>1, SignUpAssumption DEF CodeRows
  <2>3. code' \in [S!Kinds -> CodeRows] BY <2>1, <2>2
  <2>4. codes' \in 0..MaxCodes BY <2>1, SignUpAssumption
  <2>6. sends' \in [count : Nat, sent : Nat, cool : BOOLEAN] BY <2>1
  <2>5. stage' \in [Clients -> S!Places] /\ job' \in [Clients -> S!Jobs] /\ Reads'
    BY <1>0, <2>1, Placed DEF S!Places
  <2> QED BY <2>1, <2>3, <2>4, <2>5, <2>6 DEF SignUpTyped, S!SignUpType, CodeRows
<1>4. CASE S!Record(c) \/ S!First(c)
  <2>1. /\ UNCHANGED <<code, codes, tokens, charges, feeOn, signup, receipts>>
        /\ \E place \in {"idle", "first"} : stage' = [stage EXCEPT ![c] = place]
        /\ job' = job \/ job' = [job EXCEPT ![c] = S!Blank]
    BY <1>4 DEF S!Record, S!First, S!Move, S!End, S!Start
  <2>p. PICK place \in S!Places : stage' = [stage EXCEPT ![c] = place] /\ place # "answer"
    BY <2>1 DEF S!Places
  <2>2. sends' \in [count : Nat, sent : Nat, cool : BOOLEAN]
    <3>1. CASE S!First(c) BY <3>1 DEF S!First
    <3>2. CASE S!Record(c) /\ sends.count > 0
      <4>1. sends' = [sends EXCEPT !.count = sends.count + 1, !.cool = FALSE]
        BY <3>2 DEF S!Record, S!Raised
      <4>2. sends.count + 1 \in Nat OBVIOUS
      <4> QED BY <4>1, <4>2
    <3>3. CASE S!Record(c) /\ ~(sends.count > 0)
      <4>1. sends' = [sends EXCEPT !.cool = FALSE] BY <3>3 DEF S!Record
      <4> QED BY <4>1
    <3> QED BY <1>4, <3>1, <3>2, <3>3
  <2>3. stage' \in [Clients -> S!Places] /\ job' \in [Clients -> S!Jobs] /\ Reads'
    BY <1>0, <2>1, <2>p, <1>f, Placed DEF SignUpTyped, Reads
  <2> QED BY <2>1, <2>2, <2>3 DEF SignUpTyped, S!SignUpType
<1>5. CASE S!Refuse(c)
  <2> DEFINE k == job[c].kind
             row == job[c].copy
  <2>1. /\ stage' = [stage EXCEPT ![c] = "idle"] /\ job' = [job EXCEPT ![c] = S!Blank]
        /\ UNCHANGED <<codes, sends, tokens, charges, feeOn, signup, receipts>>
        /\ code' = [code EXCEPT ![k] = IF S!Spent(row) THEN S!NoCode ELSE [row EXCEPT !.tries = @ + 1]]
    BY <1>5 DEF S!Refuse, S!End, S!Start
  <2>2. k \in S!Kinds /\ row \in CodeRows BY DEF S!Jobs, CodeRows
  <2>3. ASSUME ~S!Spent(row) PROVE [row EXCEPT !.tries = @ + 1] \in CodeRows
    <3>1. row.tries + 1 \in 0..MaxAttempts
      BY <2>2, <2>3, Fields, SignUpAssumption, SMTT(30) DEF S!Spent
    <3> HIDE DEF row
    <3> QED BY <2>2, <3>1 DEF CodeRows
  <2>4. code' \in [S!Kinds -> CodeRows] BY <1>0, <2>1, <2>3
  <2>5. stage' \in [Clients -> S!Places] /\ job' \in [Clients -> S!Jobs] /\ Reads'
    BY <1>0, <2>1, Placed DEF S!Places
  <2> QED BY <2>1, <2>4, <2>5 DEF SignUpTyped, S!SignUpType, CodeRows
<1>6. CASE S!Accept(c)
  <2>0. stage[c] = "answer" /\ UNCHANGED <<code, codes, sends, charges, feeOn, receipts>> BY <1>6 DEF S!Accept
  <2>1. CASE job[c].kind = "signup"
    <3> DEFINE n == job[c].copy.n
    <3>0. /\ Len(tokens) < MaxCodes /\ tokens' = Append(tokens, S!Verified(n))
          /\ S!Start(c, "used", [job[c] EXCEPT !.token = Len(tokens) + 1]) /\ signup' = signup
      BY <1>6, <2>1 DEF S!Accept
    <3>1. n \in 1..MaxCodes
      <4>1. job[c].copy \in CodeRows BY DEF S!Jobs, CodeRows
      <4> QED BY <2>0, <4>1, Fields, SignUpAssumption DEF SignUpTyped, Reads
    <3>2. S!Verified(n) \in Tokens BY <3>1, Fields
    <3>3. PICK x \in Tokens : x = S!Verified(n) BY <3>2
    <3>4. tokens' \in Seq(Tokens) /\ Len(tokens') <= MaxCodes BY <3>0, <3>3, RowAdded, SignUpAssumption
    <3>5. Len(tokens) + 1 \in 0..MaxCodes BY <3>0, SignUpAssumption
    <3>6. [job[c] EXCEPT !.token = Len(tokens) + 1] \in S!Jobs BY <3>5, Fields
    <3>7. PICK r \in S!Jobs : r = [job[c] EXCEPT !.token = Len(tokens) + 1] BY <3>6
    <3>8. stage' = [stage EXCEPT ![c] = "used"] /\ job' = [job EXCEPT ![c] = r]
      BY <3>0, <3>7 DEF S!Start
    <3>9. stage' \in [Clients -> S!Places] /\ job' \in [Clients -> S!Jobs] /\ Reads'
      BY <2>0, <3>4, <3>8, Placed DEF S!Places
    <3> QED BY <2>0, <3>0, <3>4, <3>9 DEF SignUpTyped, S!SignUpType, Tokens
  <2>2. CASE job[c].kind # "signup"
    <3>1. /\ signup' = [signup EXCEPT !.pin = signup.made \/ @] /\ tokens' = tokens
          /\ stage' = [stage EXCEPT ![c] = "used"] /\ job' = job
      BY <1>6, <2>2 DEF S!Accept, S!Move
    <3>2. signup' \in [made : BOOLEAN, pin : BOOLEAN, plan : S!Plans \union {"none"}]
      <4>1. (signup.made \/ signup.pin) \in BOOLEAN OBVIOUS
      <4>2. PICK b \in BOOLEAN : b = (signup.made \/ signup.pin) BY <4>1
      <4>3. signup' = [signup EXCEPT !.pin = b] BY <3>1, <4>2
      <4> QED BY <4>3
    <3>3. stage' \in [Clients -> S!Places] /\ job' \in [Clients -> S!Jobs] /\ Reads'
      BY <1>0, <2>0, <3>1, Placed DEF S!Places
    <3> QED BY <2>0, <3>1, <3>2, <3>3 DEF SignUpTyped, S!SignUpType
  <2> QED BY <2>1, <2>2
<1>7. CASE S!UseUp(c)
  <2>1. /\ stage' = [stage EXCEPT ![c] = "idle"] /\ job' = [job EXCEPT ![c] = S!Blank]
        /\ code' = [code EXCEPT ![job[c].kind] = S!NoCode]
        /\ UNCHANGED <<codes, sends, charges, feeOn, signup, receipts>>
    BY <1>7 DEF S!UseUp, S!End, S!Start
  <2>2. code' \in [S!Kinds -> CodeRows] BY <1>0, <2>1
  <2>3. PICK t : t = job[c].token OBVIOUS
  <2>4. tokens' = tokens \/ tokens' = [tokens EXCEPT ![t].spent = TRUE] BY <1>7, <2>3 DEF S!UseUp
  <2>5. tokens' \in Seq(Tokens) /\ Len(tokens') = Len(tokens)
    <3>1. CASE t \in 1..Len(tokens)
      <4>1. tokens[t] \in Tokens BY <3>1
      <4>2. [tokens[t] EXCEPT !.spent = TRUE] \in Tokens BY <4>1, Fields
      <4>3. PICK x \in Tokens : tokens' = tokens \/ tokens' = [tokens EXCEPT ![t] = x] BY <2>4, <4>2
      <4>4. CASE tokens' = tokens BY <4>4
      <4>5. CASE tokens' = [tokens EXCEPT ![t] = x]
        <5>1. PICK k \in Nat : k = Len(tokens) OBVIOUS
        <5>2. tokens' \in [1..k -> Tokens] BY <4>5, <5>1
        <5>3. tokens' \in Seq(Tokens) BY <5>2
        <5> QED BY <5>1, <5>2, <5>3
      <4> QED BY <4>3, <4>4, <4>5
    <3>2. CASE t \notin 1..Len(tokens)
      <4>1. tokens' = tokens
        <5>1. PICK x : tokens' = tokens \/ tokens' = [tokens EXCEPT ![t] = x] BY <2>4
        <5>2. tokens' = tokens \/ tokens' = [i \in DOMAIN tokens |-> tokens[i]] BY <3>2, <5>1
        <5> QED BY <5>2
      <4> QED BY <4>1, <1>f
    <3> QED BY <3>1, <3>2
  <2>6. stage' \in [Clients -> S!Places] /\ job' \in [Clients -> S!Jobs] /\ Reads'
    BY <1>0, <2>1, <2>5, Placed DEF S!Places
  <2> QED BY <2>1, <2>2, <2>5, <2>6 DEF SignUpTyped, S!SignUpType, CodeRows, Tokens
<1> QED BY <1>1, <1>2, <1>3, <1>4, <1>5, <1>6, <1>7

LEMMA PaymentType ==
  ASSUME SignUpTyped, NEW c \in Clients,
         S!StartAny(c) \/ S!SetAny(c) \/ S!Started(c) \/ S!Create(c) \/ S!SavePin(c)
           \/ S!FeeRow(c) \/ S!Subscribe(c) \/ S!Finish(c) \/ S!Kill(c)
  PROVE  SignUpTyped'
<1>f. SignUpRows BY SignUpFacts
<1> USE <1>f DEF SignUpRows
<1>0. S!Blank \in S!Jobs BY BlankJob
<1>1. ASSUME NEW t \in DOMAIN tokens, NEW p \in S!Plans, S!Initiate(c, t, p) PROVE SignUpTyped'
  <2>1. CASE S!Total(p) = 0
    <3>1. /\ tokens' = [tokens EXCEPT ![t].pending = 0]
          /\ UNCHANGED <<code, codes, sends, charges, feeOn, signup, receipts, stage, job>>
      BY <1>1, <2>1 DEF S!Initiate
    <3>0. tokens[t] \in Tokens BY <1>1
    <3>a. [tokens[t] EXCEPT !.pending = 0] \in Tokens BY <3>0, Fields
    <3>2. PICK x \in Tokens : x = [tokens[t] EXCEPT !.pending = 0] BY <3>a
    <3>3. tokens' = [tokens EXCEPT ![t] = x] BY <3>1, <3>2
    <3>4. tokens' \in Seq(Tokens) /\ Len(tokens') = Len(tokens) BY <3>3, RowReplaced
    <3> QED BY <3>1, <3>4 DEF SignUpTyped, S!SignUpType, Reads, Tokens
  <2>2. CASE S!Total(p) # 0
    <3>0. S!Total(p) \in Nat BY SignUpAssumption DEF S!Total, S!Fee, S!Plans
    <3>a. [plan |-> p, total |-> S!Total(p), paid |-> FALSE] \in Charges BY <3>0 DEF Charges
    <3>1. PICK x \in Charges : x = [plan |-> p, total |-> S!Total(p), paid |-> FALSE] BY <3>a
    <3>2. Len(charges) < MaxCharges /\ charges' = Append(charges, x)
      BY <1>1, <2>2, <3>1 DEF S!Initiate
    <3>3. charges' \in Seq(Charges) /\ Len(charges') <= MaxCharges
      BY <3>2, RowAdded, SignUpAssumption
    <3>b. t \in 0..MaxCodes /\ Len(charges) + 1 \in 0..MaxCharges BY <3>2, SignUpAssumption
    <3>c. [S!Blank EXCEPT !.token = t, !.charge = Len(charges) + 1] \in S!Jobs
      BY <1>0, <3>b, Fields
    <3>4. PICK j \in S!Jobs : j = [S!Blank EXCEPT !.token = t, !.charge = Len(charges) + 1] BY <3>c
    <3>5. /\ stage' = [stage EXCEPT ![c] = "started"] /\ job' = [job EXCEPT ![c] = j]
          /\ UNCHANGED <<code, codes, sends, tokens, feeOn, signup, receipts>>
      BY <1>1, <2>2, <3>4 DEF S!Initiate, S!Start
    <3>6. stage' \in [Clients -> S!Places] /\ job' \in [Clients -> S!Jobs] /\ Reads'
      BY <3>3, <3>5, Placed DEF S!Places
    <3> QED BY <3>3, <3>5, <3>6 DEF SignUpTyped, S!SignUpType, Charges
  <2> QED BY <2>1, <2>2
<1>2. ASSUME NEW t \in DOMAIN tokens, NEW p \in S!Plans, NEW i \in 0..Len(charges), S!SetPin(c, t, p, i)
      PROVE SignUpTyped'
  <2>1. t \in 0..MaxCodes /\ i \in 0..MaxCharges BY SignUpAssumption
  <2>2. [S!Blank EXCEPT !.token = t, !.plan = p, !.charge = i, !.fee = feeOn /\ i # 0] \in S!Jobs
    BY <1>0, <2>1, Fields
  <2>3. PICK j \in S!Jobs : j = [S!Blank EXCEPT !.token = t, !.plan = p, !.charge = i, !.fee = feeOn /\ i # 0]
    BY <2>2
  <2>4. /\ stage' = [stage EXCEPT ![c] = "create"] /\ job' = [job EXCEPT ![c] = j]
        /\ UNCHANGED <<code, codes, sends, tokens, charges, feeOn, signup, receipts>>
    BY <1>2, <2>3 DEF S!SetPin, S!Start
  <2>5. stage' \in [Clients -> S!Places] /\ job' \in [Clients -> S!Jobs] /\ Reads'
    BY <2>4, Placed DEF S!Places
  <2> QED BY <2>4, <2>5 DEF SignUpTyped, S!SignUpType
<1>3. CASE S!Started(c) \/ S!Finish(c)
  <2>1. /\ stage' = [stage EXCEPT ![c] = "idle"] /\ job' = [job EXCEPT ![c] = S!Blank]
        /\ UNCHANGED <<code, codes, sends, charges, feeOn, signup, receipts>>
    BY <1>3 DEF S!Started, S!Finish, S!End, S!Start
  <2>2. PICK t : t = job[c].token OBVIOUS
  <2>3. PICK n : n = job[c].charge OBVIOUS
  <2>4. n \in 0..MaxCharges BY <2>3 DEF S!Jobs
  <2>5. \/ tokens' = [tokens EXCEPT ![t].pending = n]
        \/ tokens' = [tokens EXCEPT ![t] = [@ EXCEPT !.live = FALSE, !.pending = 0]]
    BY <1>3, <2>2, <2>3 DEF S!Started, S!Finish
  <2>6. tokens' \in Seq(Tokens) /\ Len(tokens') = Len(tokens)
    <3>1. CASE t \in 1..Len(tokens)
      <4>1. tokens[t] \in Tokens BY <3>1
      <4>2. [tokens[t] EXCEPT !.pending = n] \in Tokens BY <2>4, <4>1, Fields
      <4>3. [tokens[t] EXCEPT !.live = FALSE, !.pending = 0] \in Tokens BY <4>1, Fields DEF Tokens
      <4>4. PICK x \in Tokens : tokens' = [tokens EXCEPT ![t] = x] BY <2>5, <4>2, <4>3
      <4>5. PICK k \in Nat : k = Len(tokens) OBVIOUS
      <4>6. tokens' \in [1..k -> Tokens] BY <4>4, <4>5
      <4>7. tokens' \in Seq(Tokens) BY <4>6
      <4> QED BY <4>5, <4>6, <4>7
    <3>2. CASE t \notin 1..Len(tokens)
      <4>1. tokens' = tokens
        <5>1. PICK x : tokens' = [tokens EXCEPT ![t] = x] BY <2>5
        <5>2. tokens' = [i \in DOMAIN tokens |-> tokens[i]] BY <3>2, <5>1
        <5> QED BY <5>2
      <4> QED BY <4>1, <1>f
    <3> QED BY <3>1, <3>2
  <2>7. stage' \in [Clients -> S!Places] /\ job' \in [Clients -> S!Jobs] /\ Reads'
    BY <1>0, <2>1, <2>6, Placed DEF S!Places
  <2> QED BY <2>1, <2>6, <2>7 DEF SignUpTyped, S!SignUpType, Tokens
<1>4. CASE S!Create(c) \/ S!SavePin(c) \/ S!FeeRow(c) \/ S!Subscribe(c) \/ S!Kill(c)
  <2>1. /\ \E place \in {"idle", "pin", "fee", "subscribe", "finish"} : stage' = [stage EXCEPT ![c] = place]
        /\ job' = job \/ job' = [job EXCEPT ![c] = S!Blank]
        /\ UNCHANGED <<code, codes, sends, tokens, charges, feeOn>>
    BY <1>4 DEF S!Create, S!SavePin, S!FeeRow, S!Subscribe, S!Kill, S!Move, S!End, S!Start
  <2>p. PICK place \in S!Places : stage' = [stage EXCEPT ![c] = place] /\ place # "answer"
    BY <2>1 DEF S!Places
  <2>2. stage' \in [Clients -> S!Places] /\ job' \in [Clients -> S!Jobs] /\ Reads'
    BY <1>0, <2>1, <2>p, Placed DEF SignUpTyped, Reads
  <2>3. job[c].plan \in S!Plans /\ job[c].charge \in 0..MaxCharges BY DEF S!Jobs
  <2>4. signup' \in [made : BOOLEAN, pin : BOOLEAN, plan : S!Plans \union {"none"}]
    <3>1. CASE S!Create(c) BY <3>1 DEF S!Create
    <3>2. CASE S!SavePin(c) BY <3>2 DEF S!SavePin
    <3>3. CASE S!Subscribe(c) BY <2>3, <3>3 DEF S!Subscribe, S!Subscribed
    <3>4. CASE S!FeeRow(c) \/ S!Kill(c) BY <3>4 DEF S!FeeRow, S!Kill
    <3> QED BY <1>4, <3>1, <3>2, <3>3, <3>4
  <2>5. receipts' \subseteq S!Receipts
    <3>1. CASE S!FeeRow(c)
      <4>1. S!Receipt(c, "fee", SignupFee) \in S!Receipts
        BY <2>3, SignUpAssumption DEF S!Receipt, S!Receipts
      <4> QED BY <3>1, <4>1 DEF S!FeeRow
    <3>2. CASE S!Subscribe(c)
      <4>1. S!Receipt(c, "plan", Prices[job[c].plan]) \in S!Receipts
        BY <2>3, SignUpAssumption DEF S!Receipt, S!Receipts, S!Plans
      <4> QED BY <3>2, <4>1 DEF S!Subscribe
    <3>3. CASE S!Create(c) \/ S!SavePin(c) \/ S!Kill(c) BY <3>3 DEF S!Create, S!SavePin, S!Kill
    <3> QED BY <1>4, <3>1, <3>2, <3>3
  <2> QED BY <2>1, <2>2, <2>4, <2>5 DEF SignUpTyped, S!SignUpType
<1> QED BY <1>1, <1>2, <1>3, <1>4 DEF S!StartAny, S!SetAny

LEMMA TimeType ==
  ASSUME SignUpTyped, S!Time \/ \E i \in DOMAIN charges : S!Pay(i)
  PROVE  SignUpTyped'
<1>f. SignUpRows BY SignUpFacts
<1> USE <1>f DEF SignUpRows
<1>1. CASE S!Cooled \/ S!Hour
  <2>1. UNCHANGED <<code, codes, tokens, charges, feeOn, signup, receipts, stage, job>>
    BY <1>1 DEF S!Cooled, S!Hour
  <2>2. \/ sends' = [sends EXCEPT !.cool = TRUE]
        \/ sends' = [sends EXCEPT !.count = 0, !.sent = 0]
    BY <1>1 DEF S!Cooled, S!Hour
  <2>3. sends' \in [count : Nat, sent : Nat, cool : BOOLEAN]
    <3>1. CASE sends' = [sends EXCEPT !.cool = TRUE] BY <3>1
    <3>2. CASE sends' = [sends EXCEPT !.count = 0, !.sent = 0]
      <4>1. sends' = [count |-> 0, sent |-> 0, cool |-> sends.cool] BY <3>2
      <4> QED BY <4>1
    <3> QED BY <2>2, <3>1, <3>2
  <2> QED BY <2>1, <2>3 DEF SignUpTyped, S!SignUpType, Reads
<1>2. ASSUME NEW k \in S!Kinds, S!Forget(k) PROVE SignUpTyped'
  <2>1. /\ UNCHANGED <<codes, sends, tokens, charges, feeOn, signup, receipts, stage, job>>
        /\ code' = [code EXCEPT ![k] = S!NoCode]
    BY <1>2 DEF S!Forget
  <2>2. code' \in [S!Kinds -> CodeRows] BY <2>1, BlankJob
  <2> QED BY <2>1, <2>2 DEF SignUpTyped, S!SignUpType, Reads, CodeRows
<1>3. ASSUME NEW t \in DOMAIN tokens, S!Expire(t) PROVE SignUpTyped'
  <2>1. UNCHANGED <<code, codes, sends, charges, feeOn, signup, receipts, stage, job>>
    BY <1>3 DEF S!Expire
  <2>2. tokens[t] \in Tokens OBVIOUS
  <2>3. [tokens[t] EXCEPT !.live = FALSE] \in Tokens /\ [tokens[t] EXCEPT !.pending = 0] \in Tokens
    BY <2>2, Fields
  <2>4. PICK x \in Tokens : tokens' = [tokens EXCEPT ![t] = x] BY <1>3, <2>3 DEF S!Expire
  <2>5. tokens' \in Seq(Tokens) /\ Len(tokens') = Len(tokens) BY <2>4, RowReplaced
  <2> QED BY <2>1, <2>5 DEF SignUpTyped, S!SignUpType, Reads, Tokens
<1>4. ASSUME NEW i \in DOMAIN charges, S!Pay(i) PROVE SignUpTyped'
  <2>1. UNCHANGED <<code, codes, sends, tokens, feeOn, signup, receipts, stage, job>>
    BY <1>4 DEF S!Pay
  <2>2. charges[i] \in Charges OBVIOUS
  <2>3. [charges[i] EXCEPT !.paid = TRUE] \in Charges BY <2>2, Fields
  <2>4. PICK x \in Charges : charges' = [charges EXCEPT ![i] = x] BY <1>4, <2>3 DEF S!Pay
  <2>5. charges' \in Seq(Charges) /\ Len(charges') = Len(charges) BY <2>4, RowReplaced
  <2> QED BY <2>1, <2>5 DEF SignUpTyped, S!SignUpType, Reads, Charges
<1> QED BY <1>1, <1>2, <1>3, <1>4 DEF S!Time

-----------------------------------------------------------------------------
(* Sign-up: the counter, the codes, the account and its rows               *)

\* The requests that are at a place.
Lane(place) == Cardinality({c \in Clients : stage[c] = place})
\* What the counter has not seen is in flight; until it is raised from nothing
\* nobody else asks.
Counted ==
  /\ sends.count = 0 => sends.sent <= Lane("record") + Lane("first")
  /\ sends.count > 0 => sends.sent <= sends.count + Lane("record") + Cardinality(Clients) - 1
  /\ Lane("first") > 0 => sends.sent + Lane("send") <= Cardinality(Clients) /\ ~sends.cool
  /\ sends.sent + Lane("send") <= MaxSends + 2 * (Cardinality(Clients) - 1)

\* One request at a time: a code in the cache, or read from it, is not that of a
\* spent token, and who deletes it has the last token.
Unused(n) == n <= codes /\ \A t \in DOMAIN tokens : tokens[t].spent => tokens[t].code # n
Serial ==
  /\ \A c, d \in Clients : stage[c] # "idle" /\ stage[d] # "idle" => c = d
  /\ codes <= 2 /\ sends.sent <= codes /\ \A c \in Clients : stage[c] = "send" => codes < 2
  /\ S!CodeUsedOnce /\ \A t \in DOMAIN tokens : tokens[t].code <= codes
  /\ Unused(code["signup"].n)
  /\ \A c \in Clients : stage[c] = "answer" /\ job[c].kind = "signup" => Unused(job[c].copy.n)
  /\ \A c \in Clients : stage[c] = "used" /\ job[c].kind = "signup" =>
       job[c].token \in DOMAIN tokens /\ \A u \in DOMAIN tokens : u <= job[c].token

\* What a charge is for, and who may go on with it.
Making == {"pin", "fee", "subscribe", "finish"}
Covers(j) ==
  /\ j.fee <=> feeOn /\ j.charge # 0
  /\ j.charge = 0 => S!Total(j.plan) = 0
  /\ j.charge # 0 => /\ j.charge <= Len(charges) /\ charges[j.charge].paid
                     /\ charges[j.charge].plan = j.plan
Charged ==
  /\ \A i \in DOMAIN charges : charges[i].total = S!Total(charges[i].plan)
  /\ \A t \in DOMAIN tokens : tokens[t].pending <= Len(charges)
  /\ \A c \in Clients : stage[c] = "started" => job[c].charge <= Len(charges)
  /\ \A c \in Clients : stage[c] \in Making \union {"create"} => Covers(job[c])
\* The account is made once, and by one request.
Made ==
  /\ \A c, d \in Clients : stage[c] \in Making /\ stage[d] \in Making => c = d
  /\ \A c \in Clients : stage[c] \in Making => signup.made
  /\ signup.made /\ ~signup.pin => \E c \in Clients : stage[c] = "pin"
  /\ signup.made /\ signup.plan = "none" => \E c \in Clients : stage[c] \in Making \ {"finish"}
FeeRows(on, i) == IF on THEN {[charge |-> i, kind |-> "fee", amount |-> SignupFee]} ELSE {}
PlanRows(p, i) == IF Prices[p] = 0 THEN {} ELSE {[charge |-> i, kind |-> "plan", amount |-> Prices[p]]}
\* The rows are none, or those of one paid charge: the fee's, then the plan's.
Booked ==
  /\ ~signup.made => receipts = {}
  /\ \A c \in Clients : stage[c] \in {"pin", "fee"} => receipts = {}
  /\ \A c \in Clients : stage[c] = "fee" => job[c].fee
  /\ \A c \in Clients : stage[c] = "subscribe" => receipts = FeeRows(job[c].fee, job[c].charge)
  /\ \/ receipts = {} \/ \E c \in Clients : stage[c] = "subscribe"
     \/ \E i \in DOMAIN charges :
          charges[i].paid /\ receipts = FeeRows(feeOn, i) \union PlanRows(charges[i].plan, i)

SignUpInv ==
  /\ SignUpTyped
  /\ scene = "serial" => Serial
  /\ scene # "serial" => Counted
  /\ scene = "signups" => Charged /\ Made /\ Booked

\* How many are at a place when one request goes to another.
LEMMA LaneNat == ASSUME NEW p PROVE IsFiniteSet({c \in Clients : stage[c] = p}) /\ Lane(p) \in Nat
<1>1. {c \in Clients : stage[c] = p} \in SUBSET Clients OBVIOUS
<1>2. IsFiniteSet({c \in Clients : stage[c] = p}) BY <1>1, FS_Subset, SignUpAssumption
<1> QED BY <1>2, FS_CardinalityType DEF Lane

LEMMA LaneMoved ==
  ASSUME stage \in [Clients -> S!Places], NEW c \in Clients, NEW q,
         stage' = [stage EXCEPT ![c] = q], q # stage[c]
  PROVE  \A p : Lane(p)' = IF p = q THEN Lane(p) + 1 ELSE IF p = stage[c] THEN Lane(p) - 1 ELSE Lane(p)
<1> SUFFICES ASSUME NEW p
             PROVE  Lane(p)' = IF p = q THEN Lane(p) + 1 ELSE IF p = stage[c] THEN Lane(p) - 1 ELSE Lane(p)
  OBVIOUS
<1>1. PICK A : A = {d \in Clients : stage[d] = p} OBVIOUS
<1>2. PICK B : B = {d \in Clients : stage'[d] = p} OBVIOUS
<1>3. IsFiniteSet(A) BY <1>1, LaneNat
<1>4. Lane(p) = Cardinality(A) /\ Lane(p)' = Cardinality(B) BY <1>1, <1>2 DEF Lane
<1>5. CASE p = q
  <2>1. B = A \union {c} /\ c \notin A BY <1>1, <1>2, <1>5
  <2> QED BY <1>3, <1>4, <1>5, <2>1, FS_AddElement
<1>6. CASE p # q
  <2>1. B = A \ {c} /\ (c \in A <=> p = stage[c]) BY <1>1, <1>2, <1>6
  <2> QED BY <1>3, <1>4, <1>6, <2>1, FS_RemoveElement
<1> QED BY <1>5, <1>6

LEMMA UnionApart ==
  ASSUME NEW A, IsFiniteSet(A), NEW B, IsFiniteSet(B), A \cap B = {}
  PROVE  IsFiniteSet(A \union B) /\ Cardinality(A \union B) = Cardinality(A) + Cardinality(B)
<1>1. IsFiniteSet(A \union B) BY FS_Union
<1>2. Cardinality(A \union B) = Cardinality(A) + Cardinality(B) - Cardinality(A \cap B) BY FS_Union
<1>3. Cardinality(A \cap B) = 0 BY FS_EmptySet
<1>4. Cardinality(A) \in Nat /\ Cardinality(B) \in Nat BY FS_CardinalityType
<1> QED BY <1>1, <1>2, <1>3, <1>4

LEMMA LanesApart ==
  /\ Lane("send") + Lane("record") + Lane("first") <= Cardinality(Clients)
  /\ (\E c \in Clients : stage[c] \notin {"send", "record", "first"})
       => Lane("send") + Lane("record") + Lane("first") < Cardinality(Clients)
<1>1. PICK A : A = {d \in Clients : stage[d] = "send"} OBVIOUS
<1>2. PICK B : B = {d \in Clients : stage[d] = "record"} OBVIOUS
<1>3. PICK C : C = {d \in Clients : stage[d] = "first"} OBVIOUS
<1>4. IsFiniteSet(A) /\ IsFiniteSet(B) /\ IsFiniteSet(C) BY <1>1, <1>2, <1>3, LaneNat
<1>5. Lane("send") = Cardinality(A) /\ Lane("record") = Cardinality(B) /\ Lane("first") = Cardinality(C)
  BY <1>1, <1>2, <1>3 DEF Lane
<1>6. Cardinality(A) \in Nat /\ Cardinality(B) \in Nat /\ Cardinality(C) \in Nat
  BY <1>4, FS_CardinalityType
<1>7. A \cap B = {} /\ (A \union B) \cap C = {} BY <1>1, <1>2, <1>3
<1>8. IsFiniteSet(A \union B) /\ Cardinality(A \union B) = Cardinality(A) + Cardinality(B)
  BY <1>4, <1>6, <1>7, UnionApart
<1>9. PICK D : D = (A \union B) \union C OBVIOUS
<1>10. IsFiniteSet(D) /\ Cardinality(D) = Cardinality(A) + Cardinality(B) + Cardinality(C)
  BY <1>4, <1>6, <1>7, <1>8, <1>9, UnionApart
<1>11. D \in SUBSET Clients BY <1>1, <1>2, <1>3, <1>9
<1>12. Cardinality(D) <= Cardinality(Clients) /\ (Cardinality(Clients) = Cardinality(D) => Clients = D)
  BY <1>11, FS_Subset, SignUpAssumption
<1>13. Cardinality(D) \in Nat /\ Cardinality(Clients) \in Nat BY <1>10, FS_CardinalityType, SignUpAssumption
<1>14. (\E c \in Clients : stage[c] \notin {"send", "record", "first"}) => D # Clients
  BY <1>1, <1>2, <1>3, <1>9
<1> QED BY <1>5, <1>10, <1>12, <1>13, <1>14

LEMMA LaneFull == ASSUME NEW p, NEW c \in Clients, stage[c] = p PROVE Lane(p) > 0
<1>1. PICK A : A = {d \in Clients : stage[d] = p} OBVIOUS
<1>2. IsFiniteSet(A) /\ A # {} /\ Lane(p) = Cardinality(A) /\ Lane(p) \in Nat BY <1>1, LaneNat DEF Lane
<1> QED BY <1>2, FS_EmptySet

LEMMA LaneEmpty == ASSUME NEW p, \A c \in Clients : stage[c] # p PROVE Lane(p) = 0
<1>1. {d \in Clients : stage[d] = p} = {} OBVIOUS
<1> QED BY <1>1, FS_EmptySet DEF Lane

\* Who goes between two places where no code is sent.
Elsewhere(place) == place \notin {"send", "record", "first"}

LEMMA CountedElsewhere ==
  ASSUME SignUpTyped, Counted, sends' = sends,
         \/ stage' = stage
         \/ \E c \in Clients, q \in S!Places :
              stage' = [stage EXCEPT ![c] = q] /\ Elsewhere(q) /\ Elsewhere(stage[c])
  PROVE  Counted'
<1>1. stage \in [Clients -> S!Places] BY SignUpFacts DEF SignUpRows
<1>2. ASSUME NEW p, ~Elsewhere(p) PROVE Lane(p)' = Lane(p)
  <2>1. {d \in Clients : stage'[d] = p} = {d \in Clients : stage[d] = p} BY <1>1, <1>2 DEF Elsewhere
  <2> QED BY <2>1 DEF Lane
<1>3. Lane("send")' = Lane("send") /\ Lane("record")' = Lane("record") /\ Lane("first")' = Lane("first")
  BY <1>2 DEF Elsewhere
<1> QED BY <1>3 DEF Counted

LEMMA CountedAsked ==
  ASSUME SignUpTyped, Counted, NEW c \in Clients, NEW k, S!AskCode(c, k)
  PROVE  Counted'
<1>1. stage \in [Clients -> S!Places] BY SignUpFacts DEF SignUpRows
<1>2. sends.cool /\ sends.count < MaxSends /\ sends' = sends /\ stage[c] = "idle"
      /\ stage' = [stage EXCEPT ![c] = "send"]
  BY DEF S!AskCode, S!Allowed, S!Start
<1>3. Lane("send")' = Lane("send") + 1 /\ Lane("record")' = Lane("record") /\ Lane("first")' = Lane("first")
  <2>1. stage' = [stage EXCEPT ![c] = "send"] /\ "send" # stage[c] BY <1>2
  <2>2. \A p : Lane(p)' = IF p = "send" THEN Lane(p) + 1 ELSE IF p = stage[c] THEN Lane(p) - 1 ELSE Lane(p)
    BY ONLY <1>1, <2>1, c \in Clients, LaneMoved
  <2> QED BY <1>2, <2>2
<1>4. Lane("send") \in Nat /\ Lane("record") \in Nat /\ Lane("first") \in Nat BY LaneNat
<1>5. Lane("send") + Lane("record") + Lane("first") < Cardinality(Clients) BY <1>2, LanesApart
<1>6. Cardinality(Clients) \in Nat BY FS_CardinalityType, SignUpAssumption
<1>7. sends.count \in Nat /\ sends.sent \in Nat BY SignUpFacts DEF SignUpRows
<1>8. Lane("first") = 0 BY <1>2, <1>4 DEF Counted
<1> QED BY <1>2, <1>3, <1>4, <1>5, <1>6, <1>7, <1>8, SignUpAssumption DEF Counted

LEMMA CountedSent ==
  ASSUME SignUpTyped, Counted, NEW c \in Clients, S!Send(c) \/ S!Record(c) \/ S!First(c)
  PROVE  Counted'
<1>1. stage \in [Clients -> S!Places] BY SignUpFacts DEF SignUpRows
<1>2. Lane("send") \in Nat /\ Lane("record") \in Nat /\ Lane("first") \in Nat BY LaneNat
<1>3. Cardinality(Clients) \in Nat BY FS_CardinalityType, SignUpAssumption
<1>4. sends \in [count : Nat, sent : Nat, cool : BOOLEAN] BY SignUpFacts DEF SignUpRows
<1>5. sends.count \in Nat /\ sends.sent \in Nat BY <1>4
<1>6. Lane("send") + Lane("record") + Lane("first") <= Cardinality(Clients) BY LanesApart
<1>7. CASE S!Send(c)
  <2>1. stage[c] = "send" /\ stage' = [stage EXCEPT ![c] = "record"]
        /\ sends' = [sends EXCEPT !.sent = @ + 1]
    BY <1>7 DEF S!Send, S!Move
  <2>2. sends'.sent = sends.sent + 1 /\ sends'.count = sends.count /\ sends'.cool = sends.cool
    BY <1>4, <2>1
  <2>3. Lane("send")' = Lane("send") - 1 /\ Lane("record")' = Lane("record") + 1
        /\ Lane("first")' = Lane("first")
    BY <1>1, <2>1, LaneMoved
  <2> QED BY <1>2, <1>3, <1>5, <2>2, <2>3 DEF Counted
<1>8. CASE S!Record(c) /\ sends.count > 0
  <2>1. stage[c] = "record" /\ stage' = [stage EXCEPT ![c] = "idle"]
        /\ sends' = [sends EXCEPT !.count = sends.count + 1, !.cool = FALSE]
    BY <1>8 DEF S!Record, S!End, S!Start, S!Raised
  <2>2. sends'.sent = sends.sent /\ sends'.count = sends.count + 1 /\ ~sends'.cool BY <1>4, <2>1
  <2>3. Lane("send")' = Lane("send") /\ Lane("record")' = Lane("record") - 1
        /\ Lane("first")' = Lane("first")
    BY <1>1, <2>1, LaneMoved
  <2> QED BY <1>2, <1>3, <1>5, <1>8, <2>2, <2>3 DEF Counted
<1>9. CASE S!Record(c) /\ ~(sends.count > 0)
  <2>1. stage[c] = "record" /\ stage' = [stage EXCEPT ![c] = "first"] /\ sends' = [sends EXCEPT !.cool = FALSE]
    BY <1>9 DEF S!Record, S!Move
  <2>2. sends'.sent = sends.sent /\ sends'.count = sends.count /\ ~sends'.cool BY <1>4, <2>1
  <2>3. Lane("send")' = Lane("send") /\ Lane("record")' = Lane("record") - 1
        /\ Lane("first")' = Lane("first") + 1
    BY <1>1, <2>1, LaneMoved
  <2> QED BY <1>2, <1>3, <1>5, <1>6, <1>9, <2>2, <2>3 DEF Counted
<1>10. CASE S!First(c)
  <2>1. stage[c] = "first" /\ stage' = [stage EXCEPT ![c] = "idle"] /\ sends' = [sends EXCEPT !.count = 1]
    BY <1>10 DEF S!First, S!End, S!Start
  <2>2. sends'.sent = sends.sent /\ sends'.count = 1 /\ sends'.cool = sends.cool BY <1>4, <2>1
  <2>3. Lane("send")' = Lane("send") /\ Lane("record")' = Lane("record")
        /\ Lane("first")' = Lane("first") - 1
    BY <1>1, <2>1, LaneMoved
  <2>4. Lane("first") > 0 BY <2>1, LaneFull
  <2> QED BY <1>2, <1>3, <1>5, <1>6, <2>2, <2>3, <2>4 DEF Counted
<1> QED BY <1>7, <1>8, <1>9, <1>10

LEMMA CountedTimed ==
  ASSUME SignUpTyped, Counted, S!Time, sends'.cool # sends.cool => S!AtRest
  PROVE  Counted'
<1>1. stage' = stage BY DEF S!Time, S!Cooled, S!Hour, S!Forget, S!Expire
<1>2. Lane("send")' = Lane("send") /\ Lane("record")' = Lane("record") /\ Lane("first")' = Lane("first")
  BY <1>1 DEF Lane
<1>3. Lane("send") \in Nat /\ Lane("record") \in Nat /\ Lane("first") \in Nat BY LaneNat
<1>4. Cardinality(Clients) \in Nat BY FS_CardinalityType, SignUpAssumption
<1>5. sends \in [count : Nat, sent : Nat, cool : BOOLEAN] BY SignUpFacts DEF SignUpRows
<1>6. sends.count \in Nat /\ sends.sent \in Nat BY <1>5
<1>7. Lane("send") + Lane("record") + Lane("first") <= Cardinality(Clients) BY LanesApart
<1>8. CASE S!Cooled
  <2>1. sends' = [sends EXCEPT !.cool = TRUE] /\ ~sends.cool BY <1>8 DEF S!Cooled
  <2>2. sends'.sent = sends.sent /\ sends'.count = sends.count /\ sends'.cool # sends.cool BY <1>5, <2>1
  <2>3. \A c \in Clients : stage[c] = "idle" BY <2>2 DEF S!AtRest
  <2>4. Lane("first") = 0 BY <2>3, LaneEmpty
  <2> QED BY <1>2, <1>3, <2>2, <2>4 DEF Counted
<1>9. CASE S!Hour
  <2>1. sends' = [sends EXCEPT !.count = 0, !.sent = 0] BY <1>9 DEF S!Hour
  <2>2. sends'.sent = 0 /\ sends'.count = 0 /\ sends'.cool = sends.cool BY <1>5, <2>1
  <2> QED BY <1>2, <1>3, <1>4, <1>6, <1>7, <2>2, SignUpAssumption DEF Counted
<1>10. CASE sends' = sends BY <1>10, <1>1, CountedElsewhere
<1>11. S!Cooled \/ S!Hour \/ sends' = sends BY DEF S!Time, S!Forget, S!Expire
<1> QED BY <1>8, <1>9, <1>10, <1>11

\* What changes nothing that the codes depend on.
SameCodes == /\ DOMAIN tokens' = DOMAIN tokens
             /\ \A t \in DOMAIN tokens : tokens'[t].code = tokens[t].code /\ tokens'[t].spent = tokens[t].spent
GoesOn(c, q) ==
  /\ stage' = [stage EXCEPT ![c] = q] /\ (job' = job \/ \E j : job' = [job EXCEPT ![c] = j])
  /\ stage[c] # "idle" \/ S!AtRest
NoCodeTaken ==
  \/ stage' = stage /\ job' = job
  \/ \E c \in Clients, q \in S!Places \ {"send", "answer", "used"} : GoesOn(c, q)

LEMMA OneAtATime ==
  ASSUME SignUpTyped, Serial, NEW c \in Clients, NEW q, GoesOn(c, q)
  PROVE  /\ \A d, e \in Clients : stage'[d] # "idle" /\ stage'[e] # "idle" => d = e
         /\ stage'[c] = q /\ \A d \in Clients : d # c => stage'[d] = "idle"
<1>1. stage \in [Clients -> S!Places] BY SignUpFacts DEF SignUpRows
<1>2. \A d \in Clients : d # c => stage[d] = "idle" BY DEF Serial, GoesOn, S!AtRest
<1>3. stage'[c] = q /\ \A d \in Clients : d # c => stage'[d] = "idle" BY <1>1, <1>2 DEF GoesOn
<1> QED BY <1>3

LEMMA SerialKept ==
  ASSUME SignUpTyped, Serial, NoCodeTaken, SameCodes,
         codes' = codes, code' = code, sends'.sent <= sends.sent, sends'.sent \in Nat
  PROVE  Serial'
<1>0. sends.sent \in Nat /\ codes \in Nat BY SignUpFacts, SignUpAssumption DEF SignUpRows
<1>1. codes' <= 2 /\ sends'.sent <= codes' BY <1>0 DEF Serial
<1>2. S!CodeUsedOnce' BY DEF SameCodes, Serial, S!CodeUsedOnce
<1>3. \A n : Unused(n) => Unused(n)' BY DEF Unused, SameCodes
<1>4. Unused(code["signup"].n)' BY DEF Serial, SameCodes, Unused
<1>5. \A t \in DOMAIN tokens' : tokens'[t].code <= codes' BY DEF Serial, SameCodes
<1>6. CASE stage' = stage /\ job' = job
  <2>1. ASSUME NEW c \in Clients, stage'[c] = "answer", job'[c].kind = "signup" PROVE Unused(job[c].copy.n)'
    BY <1>3, <1>6, <2>1 DEF Serial, Unused, SameCodes
  <2>2. \A c \in Clients : stage'[c] = "used" /\ job'[c].kind = "signup" =>
          job'[c].token \in DOMAIN tokens' /\ \A u \in DOMAIN tokens' : u <= job'[c].token
    BY <1>6 DEF Serial, SameCodes
  <2> QED BY <1>1, <1>2, <1>4, <1>5, <1>6, <2>1, <2>2 DEF Serial
<1>7. ASSUME NEW c \in Clients, NEW q \in S!Places \ {"send", "answer", "used"}, GoesOn(c, q) PROVE Serial'
  <2>1. /\ \A d, e \in Clients : stage'[d] # "idle" /\ stage'[e] # "idle" => d = e
        /\ stage'[c] = q /\ \A d \in Clients : d # c => stage'[d] = "idle"
    BY <1>7, OneAtATime
  <2>2. \A d \in Clients : stage'[d] # "send" /\ stage'[d] # "answer" /\ stage'[d] # "used" BY <2>1
  <2> QED BY <1>1, <1>2, <1>4, <1>5, <2>1, <2>2 DEF Serial
<1> QED BY <1>6, <1>7 DEF NoCodeTaken

LEMMA SerialAsked ==
  ASSUME SignUpTyped, Serial, S!AtRest, NEW c \in Clients, NEW k \in S!Kinds,
         (codes < 2 /\ S!AskCode(c, k)) \/ \E right \in BOOLEAN : S!Check(c, k, right)
  PROVE  Serial'
<1>0. stage \in [Clients -> S!Places] /\ job \in [Clients -> S!Jobs] /\ code \in [S!Kinds -> CodeRows]
  BY SignUpFacts DEF SignUpRows
<1>1. UNCHANGED <<code, codes, sends, tokens>> BY DEF S!AskCode, S!Check
<1>2. \A n : Unused(n) <=> Unused(n)' BY <1>1 DEF Unused
<1>3. S!CodeUsedOnce' /\ Unused(code["signup"].n)' BY <1>1 DEF Serial, Unused, S!CodeUsedOnce
<1>4. CASE codes < 2 /\ S!AskCode(c, k)
  <2>1. GoesOn(c, "send") BY <1>4 DEF S!AskCode, S!Start, GoesOn
  <2>2. /\ \A d, e \in Clients : stage'[d] # "idle" /\ stage'[e] # "idle" => d = e
        /\ stage'[c] = "send" /\ \A d \in Clients : d # c => stage'[d] = "idle"
    BY <2>1, OneAtATime
  <2> QED BY <1>1, <1>3, <1>4, <2>2 DEF Serial
<1>5. ASSUME NEW right \in BOOLEAN, S!Check(c, k, right) PROVE Serial'
  <2>1. GoesOn(c, "answer") BY <1>5 DEF S!Check, S!Start, GoesOn
  <2>2. /\ \A d, e \in Clients : stage'[d] # "idle" /\ stage'[e] # "idle" => d = e
        /\ stage'[c] = "answer" /\ \A d \in Clients : d # c => stage'[d] = "idle"
    BY <2>1, OneAtATime
  <2>3. job'[c] = [S!Blank EXCEPT !.kind = k, !.copy = code[k], !.right = right]
    BY <1>0, <1>5 DEF S!Check, S!Start
  <2>4. job'[c].kind = k /\ job'[c].copy = code[k] BY <2>3 DEF S!Blank
  <2>5. job'[c].kind = "signup" => Unused(job[c].copy.n)' BY <1>1, <2>4 DEF Serial, Unused
  <2> QED BY <1>1, <1>3, <2>2, <2>5 DEF Serial
<1> QED BY <1>4, <1>5

LEMMA SerialSent == ASSUME SignUpTyped, Serial, NEW c \in Clients, S!Send(c) PROVE Serial'
<1>0. /\ stage \in [Clients -> S!Places] /\ job \in [Clients -> S!Jobs] /\ code \in [S!Kinds -> CodeRows]
      /\ codes \in Nat /\ sends \in [count : Nat, sent : Nat, cool : BOOLEAN]
      /\ DOMAIN tokens = 1..Len(tokens) /\ tokens \in [1..Len(tokens) -> Tokens]
  BY SignUpFacts, SignUpAssumption DEF SignUpRows
<1>1. /\ stage[c] = "send" /\ codes' = codes + 1 /\ sends' = [sends EXCEPT !.sent = @ + 1]
      /\ code' = [code EXCEPT ![job[c].kind] = [n |-> codes + 1, tries |-> 0]] /\ tokens' = tokens
  BY DEF S!Send
<1>2. GoesOn(c, "record") BY <1>1 DEF S!Send, S!Move, GoesOn
<1>3. /\ \A d, e \in Clients : stage'[d] # "idle" /\ stage'[e] # "idle" => d = e
      /\ stage'[c] = "record" /\ \A d \in Clients : d # c => stage'[d] = "idle"
  BY <1>2, OneAtATime
<1>4. codes < 2 BY <1>1 DEF Serial
<1>5. sends'.sent = sends.sent + 1 /\ sends.sent \in Nat BY <1>0, <1>1
<1>6. \A t \in DOMAIN tokens : tokens[t].code \in Nat /\ tokens[t].code <= codes
  BY <1>0, SignUpAssumption DEF Serial, Tokens
<1>7. Unused(code["signup"].n)'
  <2>1. job[c].kind \in S!Kinds /\ "signup" \in S!Kinds BY <1>0 DEF S!Jobs, S!Kinds
  <2>2. code'["signup"].n = codes + 1 \/ code'["signup"] = code["signup"] BY <1>0, <1>1, <2>1
  <2>3. code["signup"].n \in Nat BY <1>0, <2>1, SignUpAssumption DEF CodeRows
  <2> QED BY <1>0, <1>1, <1>6, <2>2, <2>3 DEF Unused, Serial
<1>8. S!CodeUsedOnce' BY <1>1 DEF Serial, S!CodeUsedOnce
<1> QED BY <1>0, <1>1, <1>3, <1>4, <1>5, <1>6, <1>7, <1>8 DEF Serial

LEMMA SerialRefused == ASSUME SignUpTyped, Serial, NEW c \in Clients, S!Refuse(c) PROVE Serial'
<1>0. /\ stage \in [Clients -> S!Places] /\ job \in [Clients -> S!Jobs] /\ code \in [S!Kinds -> CodeRows]
      /\ codes \in Nat /\ DOMAIN tokens = 1..Len(tokens) /\ tokens \in [1..Len(tokens) -> Tokens]
  BY SignUpFacts, SignUpAssumption DEF SignUpRows
<1> DEFINE k == job[c].kind
           row == job[c].copy
<1>1. /\ stage[c] = "answer" /\ codes' = codes /\ sends' = sends /\ tokens' = tokens
      /\ code' = [code EXCEPT ![k] = IF S!Spent(row) THEN S!NoCode ELSE [row EXCEPT !.tries = @ + 1]]
  BY DEF S!Refuse
<1>2. GoesOn(c, "idle") BY <1>1 DEF S!Refuse, S!End, S!Start, GoesOn
<1>3. /\ \A d, e \in Clients : stage'[d] # "idle" /\ stage'[e] # "idle" => d = e
      /\ \A d \in Clients : stage'[d] = "idle"
  BY <1>2, OneAtATime
<1>4. k \in S!Kinds /\ "signup" \in S!Kinds /\ row \in CodeRows BY <1>0, Fields DEF S!Kinds
<1>5. k = "signup" => Unused(row.n) BY <1>1 DEF Serial
<1>6. code'["signup"].n = 0 \/ code'["signup"] = code["signup"]
      \/ (k = "signup" /\ code'["signup"].n = row.n)
  <2>1. k # "signup" => code'["signup"] = code["signup"] BY <1>0, <1>1, <1>4
  <2>2. PICK r : r = [row EXCEPT !.tries = @ + 1] OBVIOUS
  <2>3. r.n = row.n BY <1>4, <2>2 DEF CodeRows
  <2>4. k = "signup" => code'["signup"] \in {S!NoCode, r} BY <1>0, <1>1, <1>4, <2>2
  <2> QED BY <2>1, <2>3, <2>4 DEF S!NoCode
<1>7. Unused(code["signup"].n)'
  <2>1. PICK n : n = code'["signup"].n OBVIOUS
  <2>2. Unused(code["signup"].n) BY DEF Serial
  <2>3. \A t \in DOMAIN tokens : tokens[t].code # 0 BY <1>0, SignUpAssumption DEF Tokens
  <2>4. n = 0 => Unused(n) BY <1>0, <2>3 DEF Unused
  <2>5. Unused(n) BY <1>5, <1>6, <2>1, <2>2, <2>4
  <2> QED BY <1>1, <2>1, <2>5 DEF Unused
<1>8. S!CodeUsedOnce' BY <1>1 DEF Serial, S!CodeUsedOnce
<1> QED BY <1>1, <1>3, <1>7, <1>8 DEF Serial

\* The new token is the last one, and the code is no spent token's.
LEMMA SerialAccepted == ASSUME SignUpTyped, Serial, NEW c \in Clients, S!Accept(c) PROVE Serial'
<1>0. /\ stage \in [Clients -> S!Places] /\ job \in [Clients -> S!Jobs] /\ code \in [S!Kinds -> CodeRows]
      /\ codes \in Nat /\ tokens \in Seq(Tokens)
      /\ Len(tokens) \in Nat /\ DOMAIN tokens = 1..Len(tokens) /\ tokens \in [1..Len(tokens) -> Tokens]
  BY SignUpFacts, SignUpAssumption DEF SignUpRows
<1> DEFINE row == job[c].copy
<1>1. stage[c] = "answer" /\ codes' = codes /\ sends' = sends /\ code' = code BY DEF S!Accept
<1>2. GoesOn(c, "used") BY <1>1 DEF S!Accept, S!Move, S!Start, GoesOn
<1>3. /\ \A d, e \in Clients : stage'[d] # "idle" /\ stage'[e] # "idle" => d = e
      /\ stage'[c] = "used" /\ \A d \in Clients : d # c => stage'[d] = "idle"
  BY <1>2, OneAtATime
<1>4. \A d \in Clients : stage'[d] # "send" /\ stage'[d] # "answer" BY <1>3
<1>5. CASE job[c].kind = "signup"
  <2>0. row \in CodeRows BY <1>0, Fields
  <2>1. tokens' = Append(tokens, S!Verified(row.n)) /\ job' = [job EXCEPT ![c] = [job[c] EXCEPT !.token = Len(tokens) + 1]]
    BY <1>5 DEF S!Accept, S!Start
  <2>2. Unused(row.n) BY <1>1, <1>5 DEF Serial
  <2>3. row.n \in 1..MaxCodes
    <3>1. row.n # 0 BY <1>1 DEF SignUpTyped, Reads
    <3> QED BY <2>0, <3>1, Fields, SignUpAssumption
  <2>4. PICK x : x = S!Verified(row.n) OBVIOUS
  <2>5. x \in Tokens /\ x.code = row.n /\ ~x.spent BY <2>3, <2>4, Fields DEF S!Verified
  <2>6. /\ DOMAIN tokens' = 1..(Len(tokens) + 1) /\ tokens'[Len(tokens) + 1] = x
        /\ \A t \in 1..Len(tokens) : tokens'[t] = tokens[t]
    <3>1. tokens' = Append(tokens, x) BY <2>1, <2>4
    <3> HIDE DEF row
    <3> QED BY <1>0, <2>5, <3>1, RowAdded
  <2>7. \A t \in DOMAIN tokens' : t \in 1..Len(tokens) \/ t = Len(tokens) + 1 BY <1>0, <2>6
  <2>8. S!CodeUsedOnce'
    <3>1. \A t, u \in 1..Len(tokens) : t < u /\ tokens[t].spent => tokens[u].code # tokens[t].code
      BY <1>0 DEF Serial, S!CodeUsedOnce
    <3>2. \A t \in 1..Len(tokens) : tokens[t].spent => x.code # tokens[t].code
      BY <1>0, <2>2, <2>5 DEF Unused
    <3>3. \A t \in 1..Len(tokens) : ~(Len(tokens) + 1 < t) BY <1>0
    <3> QED BY <2>5, <2>6, <2>7, <3>1, <3>2, <3>3 DEF S!CodeUsedOnce
  <2>9. \A t \in DOMAIN tokens' : tokens'[t].code <= codes'
    <3>1. \A t \in 1..Len(tokens) : tokens[t].code <= codes BY <1>0 DEF Serial
    <3>2. x.code <= codes BY <2>2, <2>5 DEF Unused
    <3> QED BY <1>1, <2>6, <2>7, <3>1, <3>2
  <2>10. Unused(code["signup"].n)'
    <3>1. Unused(code["signup"].n) BY DEF Serial
    <3>2. \A t \in 1..Len(tokens) : tokens[t].spent => tokens[t].code # code["signup"].n
      BY <1>0, <3>1 DEF Unused
    <3> QED BY <1>1, <2>5, <2>6, <2>7, <3>1, <3>2 DEF Unused
  <2>11. job'[c].token = Len(tokens) + 1
    <3>1. PICK r : r = [job[c] EXCEPT !.token = Len(tokens) + 1] OBVIOUS
    <3>2. r.token = Len(tokens) + 1 BY <1>0, <3>1 DEF S!Jobs
    <3>3. job'[c] = r BY <1>0, <2>1, <3>1
    <3> QED BY <3>2, <3>3
  <2>12. /\ job'[c].token \in DOMAIN tokens' /\ \A u \in DOMAIN tokens' : u <= job'[c].token
    BY <1>0, <2>6, <2>7, <2>11
  <2> QED BY <1>1, <1>3, <1>4, <2>8, <2>9, <2>10, <2>12 DEF Serial
<1>6. CASE job[c].kind # "signup"
  <2>1. tokens' = tokens /\ job' = job BY <1>6 DEF S!Accept, S!Move
  <2>2. Unused(code["signup"].n)' BY <1>1, <2>1 DEF Serial, Unused
  <2>3. S!CodeUsedOnce' BY <2>1 DEF Serial, S!CodeUsedOnce
  <2> QED BY <1>1, <1>3, <1>4, <1>6, <2>1, <2>2, <2>3 DEF Serial
<1> QED BY <1>5, <1>6

\* The code goes, and only the last token counts as the one it went with.
LEMMA SerialUsed == ASSUME SignUpTyped, Serial, NEW c \in Clients, S!UseUp(c) PROVE Serial'
<1>0. /\ stage \in [Clients -> S!Places] /\ job \in [Clients -> S!Jobs] /\ code \in [S!Kinds -> CodeRows]
      /\ codes \in Nat /\ Len(tokens) \in Nat
      /\ DOMAIN tokens = 1..Len(tokens) /\ tokens \in [1..Len(tokens) -> Tokens]
  BY SignUpFacts, SignUpAssumption DEF SignUpRows
<1>1. /\ stage[c] = "used" /\ codes' = codes /\ sends' = sends
      /\ code' = [code EXCEPT ![job[c].kind] = S!NoCode]
  BY DEF S!UseUp
<1>2. GoesOn(c, "idle") BY <1>1 DEF S!UseUp, S!End, S!Start, GoesOn
<1>3. /\ \A d, e \in Clients : stage'[d] # "idle" /\ stage'[e] # "idle" => d = e
      /\ \A d \in Clients : stage'[d] = "idle"
  BY <1>2, OneAtATime
<1>4. job[c].kind \in S!Kinds /\ "signup" \in S!Kinds BY <1>0, Fields DEF S!Kinds
<1>5. \A t \in DOMAIN tokens : tokens[t].code # 0 BY <1>0, SignUpAssumption DEF Tokens
<1>6. CASE job[c].kind = "signup"
  <2>1. PICK n : n = job[c].token OBVIOUS
  <2>2. tokens' = [tokens EXCEPT ![n].spent = TRUE] BY <1>6, <2>1 DEF S!UseUp
  <2>3. n \in DOMAIN tokens /\ \A u \in DOMAIN tokens : u <= n BY <1>1, <1>6, <2>1 DEF Serial
  <2>4. PICK x \in Tokens : x = [tokens[n] EXCEPT !.spent = TRUE] BY <1>0, <2>3, Fields
  <2>5. x.code = tokens[n].code BY <1>0, <2>3, <2>4 DEF Tokens
  <2>6. /\ DOMAIN tokens' = DOMAIN tokens
        /\ \A t \in DOMAIN tokens : tokens'[t] = IF t = n THEN x ELSE tokens[t]
    BY <1>0, <2>2, <2>3, <2>4
  <2>7. S!CodeUsedOnce'
    <3>1. SUFFICES ASSUME NEW t \in DOMAIN tokens, NEW u \in DOMAIN tokens, t < u, tokens'[t].spent
                   PROVE  tokens'[u].code # tokens'[t].code
      BY <2>6 DEF S!CodeUsedOnce
    <3>2. t # n BY <1>0, <2>3, <3>1
    <3>3. tokens[u].code # tokens[t].code BY <2>6, <3>1, <3>2 DEF Serial, S!CodeUsedOnce
    <3> QED BY <2>5, <2>6, <3>2, <3>3
  <2>8. \A t \in DOMAIN tokens' : tokens'[t].code <= codes' BY <1>1, <2>5, <2>6 DEF Serial
  <2>9. code'["signup"].n = 0 BY <1>0, <1>1, <1>4, <1>6 DEF S!NoCode
  <2>10. Unused(code["signup"].n)' BY <1>0, <1>1, <1>5, <2>5, <2>6, <2>9 DEF Unused
  <2> QED BY <1>1, <1>3, <2>7, <2>8, <2>10 DEF Serial
<1>7. CASE job[c].kind # "signup"
  <2>1. tokens' = tokens BY <1>7 DEF S!UseUp
  <2>2. code'["signup"] = code["signup"] BY <1>0, <1>1, <1>4, <1>7
  <2>3. Unused(code["signup"].n)' BY <1>1, <2>1, <2>2 DEF Serial, Unused
  <2>4. S!CodeUsedOnce' BY <2>1 DEF Serial, S!CodeUsedOnce
  <2> QED BY <1>1, <1>3, <2>1, <2>3, <2>4 DEF Serial
<1> QED BY <1>6, <1>7

\* The requests of a kind that is not asked or answered.
LEMMA PaymentCodes ==
  ASSUME SignUpTyped, NEW c \in Clients,
         \/ S!Started(c) \/ S!Create(c) \/ S!SavePin(c) \/ S!FeeRow(c) \/ S!Subscribe(c) \/ S!Finish(c)
         \/ Pays(c) \/ S!SetAny(c)
  PROVE  /\ code' = code /\ codes' = codes /\ sends' = sends /\ SameCodes
         /\ \/ stage' = stage /\ job' = job
            \/ \E q \in S!Places \ {"send", "answer", "used", "record", "first"} :
                 /\ stage' = [stage EXCEPT ![c] = q] /\ (job' = job \/ \E j : job' = [job EXCEPT ![c] = j])
                 /\ stage[c] \notin {"send", "record", "first"}
<1>0. DOMAIN tokens = 1..Len(tokens) /\ tokens \in [1..Len(tokens) -> Tokens]
  BY SignUpFacts DEF SignUpRows
<1>1. CASE S!Started(c) \/ S!Finish(c)
  <2>1. PICK t : t = job[c].token OBVIOUS
  <2>2. \/ tokens' = [tokens EXCEPT ![t].pending = job[c].charge]
        \/ tokens' = [tokens EXCEPT ![t] = [@ EXCEPT !.live = FALSE, !.pending = 0]]
    BY <1>1, <2>1 DEF S!Started, S!Finish
  <2>3. SameCodes BY <1>0, <2>2, ZenonT(40) DEF SameCodes, Tokens
  <2> QED BY <1>1, <2>3 DEF S!Started, S!Finish, S!End, S!Start, S!Places
<1>2. CASE S!Create(c) \/ S!SavePin(c) \/ S!FeeRow(c) \/ S!Subscribe(c)
  BY <1>2 DEF S!Create, S!SavePin, S!FeeRow, S!Subscribe, S!Move, S!End, S!Start, SameCodes, S!Places
<1>3. ASSUME NEW t \in DOMAIN tokens, NEW p \in S!Plans, S!Initiate(c, t, p)
      PROVE  /\ code' = code /\ codes' = codes /\ sends' = sends /\ SameCodes /\ stage[c] = "idle"
             /\ \/ stage' = stage /\ job' = job
                \/ stage' = [stage EXCEPT ![c] = "started"] /\ \E j : job' = [job EXCEPT ![c] = j]
  <2>1. tokens' = tokens \/ tokens' = [tokens EXCEPT ![t].pending = 0] BY <1>3 DEF S!Initiate
  <2>2. SameCodes BY <1>0, <2>1 DEF SameCodes, Tokens
  <2>3. /\ code' = code /\ codes' = codes /\ sends' = sends /\ stage[c] = "idle"
        /\ \/ stage' = stage /\ job' = job
           \/ stage' = [stage EXCEPT ![c] = "started"] /\ \E j : job' = [job EXCEPT ![c] = j]
    BY <1>3 DEF S!Initiate, S!Start
  <2> QED BY <2>2, <2>3
<1>4. ASSUME NEW t \in DOMAIN tokens, NEW p \in S!Plans, NEW i \in 0..Len(charges), S!SetPin(c, t, p, i)
      PROVE  /\ code' = code /\ codes' = codes /\ sends' = sends /\ tokens' = tokens /\ stage[c] = "idle"
             /\ stage' = [stage EXCEPT ![c] = "create"] /\ \E j : job' = [job EXCEPT ![c] = j]
  BY <1>4 DEF S!SetPin, S!Start
<1>5. CASE S!StartAny(c) BY <1>3, <1>5 DEF S!StartAny, S!Places
<1>6. CASE \E t \in DOMAIN tokens, p \in S!Plans, i \in 0..Len(charges) : S!SetPin(c, t, p, i)
  <2>1. PICK t \in DOMAIN tokens, p \in S!Plans, i \in 0..Len(charges) : S!SetPin(c, t, p, i) BY <1>6
  <2>2. SameCodes BY <1>4, <2>1 DEF SameCodes
  <2> QED BY <1>4, <2>1, <2>2 DEF S!Places
<1> QED BY <1>1, <1>2, <1>5, <1>6 DEF Pays, S!SetAny

LEMMA TimeCodes ==
  ASSUME SignUpTyped, S!Time \/ \E i \in DOMAIN charges : S!Pay(i)
  PROVE  /\ codes' = codes /\ SameCodes /\ stage' = stage /\ job' = job
         /\ code' = code \/ (sends' = sends /\ tokens' = tokens /\ \E k \in S!Kinds : code' = [code EXCEPT ![k] = S!NoCode])
         /\ sends'.sent \in {0, sends.sent}
<1>0. /\ DOMAIN tokens = 1..Len(tokens) /\ tokens \in [1..Len(tokens) -> Tokens]
      /\ sends \in [count : Nat, sent : Nat, cool : BOOLEAN]
  BY SignUpFacts DEF SignUpRows
<1>1. CASE S!Cooled \/ S!Hour BY <1>0, <1>1 DEF S!Cooled, S!Hour, SameCodes
<1>2. ASSUME NEW k \in S!Kinds, S!Forget(k)
      PROVE codes' = codes /\ tokens' = tokens /\ stage' = stage /\ job' = job /\ sends' = sends
            /\ code' = [code EXCEPT ![k] = S!NoCode]
  BY <1>2 DEF S!Forget
<1>3. ASSUME NEW t \in DOMAIN tokens, S!Expire(t)
      PROVE codes' = codes /\ code' = code /\ stage' = stage /\ job' = job /\ sends' = sends /\ SameCodes
  <2>1. tokens' = [tokens EXCEPT ![t].live = FALSE] \/ tokens' = [tokens EXCEPT ![t].pending = 0]
    BY <1>3 DEF S!Expire
  <2>2. SameCodes BY <1>0, <2>1, SMTT(30) DEF SameCodes, Tokens
  <2> QED BY <1>3, <2>2 DEF S!Expire
<1>4. ASSUME NEW i \in DOMAIN charges, S!Pay(i)
      PROVE codes' = codes /\ code' = code /\ stage' = stage /\ job' = job /\ sends' = sends /\ tokens' = tokens
  BY <1>4 DEF S!Pay
<1> QED BY <1>1, <1>2, <1>3, <1>4 DEF S!Time, SameCodes

\* The counter, in the scenes without kills; the codes, one request at a time.
LEMMA CountedStep ==
  ASSUME SignUpTyped, Counted, scene # "serial", SignUpNext
  PROVE  Counted'
<1>1. ASSUME NEW c \in Clients, S!Refuse(c) \/ S!Accept(c) \/ S!UseUp(c) PROVE Counted'
  <2>1. /\ \E q \in {"idle", "used"} : stage' = [stage EXCEPT ![c] = q]
        /\ stage[c] \in {"answer", "used"} /\ sends' = sends
    BY <1>1 DEF S!Refuse, S!Accept, S!UseUp, S!End, S!Move, S!Start
  <2> QED BY <2>1, CountedElsewhere DEF Elsewhere, S!Places
<1>2. ASSUME NEW c \in Clients, NEW k \in S!Kinds, NEW right \in BOOLEAN, S!Check(c, k, right) PROVE Counted'
  <2>1. stage' = [stage EXCEPT ![c] = "answer"] /\ stage[c] = "idle" /\ sends' = sends
    BY <1>2 DEF S!Check, S!Start
  <2> QED BY <2>1, CountedElsewhere DEF Elsewhere, S!Places
<1>3. ASSUME NEW c \in Clients,
             \/ S!Started(c) \/ S!Create(c) \/ S!SavePin(c) \/ S!FeeRow(c) \/ S!Subscribe(c) \/ S!Finish(c)
             \/ Pays(c)
      PROVE  Counted'
  <2>1. /\ sends' = sends
        /\ \/ stage' = stage
           \/ \E q \in S!Places : stage' = [stage EXCEPT ![c] = q] /\ Elsewhere(q) /\ Elsewhere(stage[c])
    BY <1>3, PaymentCodes DEF Elsewhere
  <2> QED BY <2>1, CountedElsewhere
<1>4. ASSUME NEW c \in Clients, S!Continue(c) PROVE Counted'
  BY <1>1, <1>3, <1>4, CountedSent DEF S!Continue
<1>5. ASSUME NEW c \in Clients, S!AskAny(c) PROVE Counted' BY <1>2, <1>5, CountedAsked DEF S!AskAny
<1>6. ASSUME NEW i \in DOMAIN charges, S!Pay(i) PROVE Counted'
  <2>1. stage' = stage /\ sends' = sends BY <1>6 DEF S!Pay
  <2> QED BY <2>1, CountedElsewhere
<1>7. CASE S!Time /\ (sends'.cool # sends.cool => S!AtRest) BY <1>7, CountedTimed
<1>8. ASSUME NEW c \in Clients, NEW k \in S!Kinds, S!AskCode(c, k) PROVE Counted' BY <1>8, CountedAsked
<1>9. ASSUME NEW c \in Clients, Pays(c) PROVE Counted' BY <1>3, <1>9
<1> QED BY <1>4, <1>5, <1>6, <1>7, <1>8, <1>9 DEF SignUpNext

LEMMA SerialStep ==
  ASSUME SignUpTyped, Serial, scene = "serial", SignUpNext
  PROVE  Serial'
<1>0. /\ stage \in [Clients -> S!Places] /\ sends \in [count : Nat, sent : Nat, cool : BOOLEAN]
      /\ code \in [S!Kinds -> CodeRows] /\ codes \in Nat
      /\ DOMAIN tokens = 1..Len(tokens) /\ tokens \in [1..Len(tokens) -> Tokens]
  BY SignUpFacts, SignUpAssumption DEF SignUpRows
<1>s. sends.sent \in Nat BY <1>0
<1>1. ASSUME NEW c \in Clients, S!Record(c) \/ S!First(c) \/ S!Kill(c) PROVE Serial'
  <2>1. /\ code' = code /\ codes' = codes /\ SameCodes /\ stage[c] # "idle"
        /\ \E q \in S!Places \ {"send", "answer", "used"} : stage' = [stage EXCEPT ![c] = q]
        /\ job' = job \/ \E j : job' = [job EXCEPT ![c] = j]
    BY <1>1 DEF S!Record, S!First, S!Kill, S!Move, S!End, S!Start, SameCodes, S!Places
  <2>2. NoCodeTaken BY <2>1 DEF NoCodeTaken, GoesOn
  <2>3. sends'.sent = sends.sent BY <1>0, <1>1 DEF S!Record, S!First, S!Kill
  <2> QED BY <1>s, <2>1, <2>2, <2>3, SerialKept
<1>2. ASSUME NEW c \in Clients,
             \/ S!Started(c) \/ S!Create(c) \/ S!SavePin(c) \/ S!FeeRow(c) \/ S!Subscribe(c) \/ S!Finish(c)
             \/ S!AtRest /\ S!SetAny(c)
      PROVE  Serial'
  <2>1. /\ code' = code /\ codes' = codes /\ sends' = sends /\ SameCodes
        /\ \/ stage' = stage /\ job' = job
           \/ \E q \in S!Places \ {"send", "answer", "used"} :
                stage' = [stage EXCEPT ![c] = q] /\ (job' = job \/ \E j : job' = [job EXCEPT ![c] = j])
    BY <1>2, PaymentCodes
  <2>2. stage[c] # "idle" \/ S!AtRest
    BY <1>2 DEF S!Started, S!Create, S!SavePin, S!FeeRow, S!Subscribe, S!Finish
  <2>3. NoCodeTaken BY <2>1, <2>2 DEF NoCodeTaken, GoesOn
  <2> QED BY <1>s, <2>1, <2>3, SerialKept
<1>3. ASSUME NEW c \in Clients, S!Continue(c) PROVE Serial'
  BY <1>1, <1>2, <1>3, SerialSent, SerialRefused, SerialAccepted, SerialUsed DEF S!Continue
<1>4. ASSUME NEW c \in Clients, S!AtRest, FewCodes(c) PROVE Serial'
  BY <1>4, SerialAsked DEF FewCodes
<1>5. CASE S!Time \/ \E i \in DOMAIN charges : S!Pay(i)
  <2>1. /\ codes' = codes /\ SameCodes /\ stage' = stage /\ job' = job
        /\ code' = code \/ (sends' = sends /\ tokens' = tokens /\ \E k \in S!Kinds : code' = [code EXCEPT ![k] = S!NoCode])
        /\ sends'.sent \in {0, sends.sent}
    BY <1>5, TimeCodes
  <2>2. CASE code' = code
    <3>1. sends'.sent <= sends.sent /\ sends'.sent \in Nat BY <1>s, <2>1
    <3> QED BY <2>1, <2>2, <3>1, SerialKept DEF NoCodeTaken
  <2>3. CASE sends' = sends /\ tokens' = tokens /\ \E k \in S!Kinds : code' = [code EXCEPT ![k] = S!NoCode]
    <3>1. PICK n : n = code'["signup"].n OBVIOUS
    <3>2. n = 0 \/ n = code["signup"].n BY <1>0, <2>3, <3>1 DEF S!NoCode, S!Kinds
    <3>3. \A t \in DOMAIN tokens : tokens[t].code # 0 BY <1>0, SignUpAssumption DEF Tokens
    <3>4. Unused(n) BY <1>0, <3>2, <3>3 DEF Serial, Unused
    <3>5. Unused(code["signup"].n)' BY <2>1, <2>3, <3>1, <3>4 DEF Unused
    <3> QED BY <2>1, <2>3, <3>5 DEF Serial, Unused, S!CodeUsedOnce
  <2> QED BY <2>1, <2>2, <2>3
<1> QED BY <1>1, <1>2, <1>3, <1>4, <1>5 DEF SignUpNext

\* What two rows at most add up to.
Amounts(R) == S!MapThenSumSet(LAMBDA r : r.amount, R)
Adds(h, R) ==
  h = [s \in SUBSET R |-> IF s = {} THEN 0
                          ELSE (CHOOSE x \in s : TRUE).amount + h[s \ {CHOOSE x \in s : TRUE}]]

LEMMA AmountsAre == ASSUME NEW R PROVE Amounts(R) = (CHOOSE h : Adds(h, R))[R]
BY DEF Amounts, S!MapThenSumSet, S!MapThenFoldSet, Adds

LEMMA AmountsOfTwo ==
  ASSUME NEW a, NEW b, a # b, a.amount \in Nat, b.amount \in Nat, NEW R \in SUBSET {a, b}
  PROVE  Amounts(R) = (IF a \in R THEN a.amount ELSE 0) + (IF b \in R THEN b.amount ELSE 0)
<1> DEFINE Of(s) == (IF a \in s THEN a.amount ELSE 0) + (IF b \in s THEN b.amount ELSE 0)
           One(s) == CHOOSE x \in s : TRUE
           h == [s \in SUBSET R |-> Of(s)]
           p == CHOOSE f : Adds(f, R)
<1>1. \A s \in SUBSET R : s # {} => One(s) \in s OBVIOUS
<1>2. ASSUME NEW s \in SUBSET R, NEW x \in s PROVE Of(s) = x.amount + Of(s \ {x})
  <2>1. x = a \/ x = b OBVIOUS
  <2> QED BY <2>1
<1>3. Adds(h, R)
  <2>1. ASSUME NEW s \in SUBSET R
        PROVE h[s] = IF s = {} THEN 0 ELSE One(s).amount + h[s \ {One(s)}]
    <3>1. CASE s = {} BY <3>1
    <3>2. CASE s # {}
      <4>1. One(s) \in s BY <1>1, <3>2
      <4> HIDE DEF One
      <4>2. s \ {One(s)} \in SUBSET R OBVIOUS
      <4> QED BY <1>2, <3>2, <4>1, <4>2
    <3> QED BY <3>1, <3>2
  <2> HIDE DEF Of
  <2> QED BY <2>1 DEF Adds
<1>4. Adds(p, R) BY <1>3
<1> HIDE DEF h, p
<1>5. \A s \in SUBSET R : p[s] = IF s = {} THEN 0 ELSE One(s).amount + p[s \ {One(s)}] BY <1>4 DEF Adds
<1> HIDE DEF One
<1>6. p[{}] = 0 BY <1>5
<1>7. ASSUME NEW x \in R PROVE p[{x}] = x.amount
  <2>1. {x} \in SUBSET R /\ {x} # {} OBVIOUS
  <2>2. One({x}) = x BY <1>1, <2>1
  <2>3. {x} \ {x} = {} OBVIOUS
  <2>4. p[{x}] = One({x}).amount + p[{x} \ {One({x})}] BY <1>5, <2>1
  <2>5. p[{x}] = x.amount + p[{}] BY <2>2, <2>3, <2>4
  <2>6. x.amount \in Nat OBVIOUS
  <2> QED BY <1>6, <2>5, <2>6
<1>8. R = {} \/ R = {a} \/ R = {b} \/ R = {a, b} OBVIOUS
<1>9. p[R] = Of(R)
  <2>1. CASE R = {} BY <1>6, <2>1
  <2>2. CASE R = {a} BY <1>7, <2>2
  <2>3. CASE R = {b} BY <1>7, <2>3
  <2>4. CASE R = {a, b}
    <3>1. PICK x : x = One(R) OBVIOUS
    <3>2. x \in {a, b} BY <1>1, <2>4, <3>1
    <3>3. p[R] = x.amount + p[R \ {x}] BY <1>5, <2>4, <3>1
    <3>4. CASE x = a
      <4>1. R \ {x} = {b} BY <2>4, <3>4
      <4>2. p[{b}] = b.amount BY <1>7, <2>4
      <4> QED BY <2>4, <3>3, <3>4, <4>1, <4>2
    <3>5. CASE x = b
      <4>1. R \ {x} = {a} BY <2>4, <3>5
      <4>2. p[{a}] = a.amount BY <1>7, <2>4
      <4>3. p[R] = b.amount + a.amount BY <3>3, <3>5, <4>1, <4>2
      <4>4. Of(R) = a.amount + b.amount BY <2>4
      <4>5. b.amount + a.amount = a.amount + b.amount OBVIOUS
      <4> QED BY <4>3, <4>4, <4>5
    <3> QED BY <3>2, <3>4, <3>5
  <2> QED BY <1>8, <2>1, <2>2, <2>3, <2>4
<1>10. Amounts(R) = p[R] BY AmountsAre DEF p
<1> QED BY <1>9, <1>10

LEMMA Counts == \A X : S!Cardinality(X) = Cardinality(X)
BY DEF S!Cardinality, Cardinality, S!IsFiniteSet, IsFiniteSet

\* The rows of a charge are two at most, and add up to it.
LEMMA RowsAddUp ==
  ASSUME SignUpTyped, Charged, NEW i \in DOMAIN charges,
         receipts = FeeRows(feeOn, i) \union PlanRows(charges[i].plan, i)
  PROVE  S!Received(i) = charges[i].total
<1>0. /\ charges \in [1..Len(charges) -> Charges] /\ DOMAIN charges = 1..Len(charges) /\ feeOn \in BOOLEAN
  BY SignUpFacts DEF SignUpRows
<1>1. PICK p : p = charges[i].plan OBVIOUS
<1>2. p \in S!Plans BY <1>0, <1>1 DEF Charges
<1>3. Prices[p] \in Nat /\ SignupFee \in Nat BY <1>2, SignUpAssumption DEF S!Plans
<1>4. PICK a : a = [charge |-> i, kind |-> "fee", amount |-> SignupFee] OBVIOUS
<1>5. PICK b : b = [charge |-> i, kind |-> "plan", amount |-> Prices[p]] OBVIOUS
<1>6. /\ a.amount = SignupFee /\ b.amount = Prices[p] /\ a.charge = i /\ b.charge = i
      /\ a.kind = "fee" /\ b.kind = "plan"
  BY <1>4, <1>5
<1>7. a # b BY <1>6
<1>8. PICK R : R = {r \in receipts : r.charge = i} OBVIOUS
<1>9. /\ a \in receipts <=> feeOn
      /\ b \in receipts <=> Prices[p] # 0
      /\ receipts \subseteq {a, b}
  BY <1>1, <1>4, <1>5, <1>7 DEF FeeRows, PlanRows
<1>10. R = receipts BY <1>6, <1>8, <1>9
<1>11. S!Received(i) = Amounts(R) BY <1>8 DEF S!Received, Amounts
<1>12. Amounts(R) = (IF a \in R THEN a.amount ELSE 0) + (IF b \in R THEN b.amount ELSE 0)
  BY <1>3, <1>6, <1>7, <1>9, <1>10, AmountsOfTwo
<1>13. charges[i].total = (IF feeOn THEN SignupFee ELSE 0) + Prices[p]
  BY <1>1 DEF Charged, S!Total, S!Fee
<1> QED BY <1>3, <1>6, <1>9, <1>10, <1>11, <1>12, <1>13

LEMMA SignUpRest == ASSUME SignUpInv PROVE SignUpsHold
<1>t. SignUpTyped BY DEF SignUpInv
<1>0. sends.sent \in Nat /\ codes \in Nat /\ Cardinality(Clients) \in Nat /\ Cardinality(Clients) # 0
  BY <1>t, SignUpFacts, SignUpAssumption, FS_CardinalityType, FS_EmptySet DEF SignUpRows
<1>1. S!SignUpType BY <1>t DEF SignUpTyped
<1>2. S!SendsBounded
  <2>1. CASE scene = "serial"
    <3>1. codes <= 2 /\ sends.sent <= codes BY <2>1 DEF SignUpInv, Serial
    <3> QED BY <1>0, <3>1, SignUpAssumption, Counts DEF S!SendsBounded
  <2>2. CASE scene # "serial"
    <3>1. sends.sent + Lane("send") <= MaxSends + 2 * (Cardinality(Clients) - 1)
      BY <2>2 DEF SignUpInv, Counted
    <3>2. Lane("send") \in Nat BY LaneNat
    <3> QED BY <1>0, <3>1, <3>2, SignUpAssumption, Counts DEF S!SendsBounded
  <2> QED BY <2>1, <2>2
<1>3. scene = "serial" => S!CodeUsedOnce BY DEF SignUpInv, Serial
<1>4. ASSUME scene = "signups", S!AtRest PROVE signup.made => signup.pin /\ signup.plan # "none"
  <2>1. signup.made \in BOOLEAN /\ signup.pin \in BOOLEAN BY <1>t, SignUpFacts DEF SignUpRows
  <2>2. \A c \in Clients : stage[c] = "idle" BY <1>4 DEF S!AtRest
  <2>3. Made BY <1>4 DEF SignUpInv
  <2>4. signup.made /\ ~signup.pin => FALSE BY <2>2, <2>3 DEF Made
  <2>5. signup.made /\ signup.plan = "none" => FALSE BY <2>2, <2>3 DEF Made, Making
  <2> QED BY <2>1, <2>4, <2>5
<1>5. ASSUME scene = "signups", S!AtRest, NEW r \in receipts
      PROVE r.charge # 0 /\ charges[r.charge].paid /\ S!Received(r.charge) = charges[r.charge].total
  <2>1. Charged /\ Booked BY <1>5 DEF SignUpInv
  <2>2. PICK i \in DOMAIN charges :
          charges[i].paid /\ receipts = FeeRows(feeOn, i) \union PlanRows(charges[i].plan, i)
    BY <1>5, <2>1 DEF Booked, S!AtRest
  <2>3. r.charge = i BY <2>2 DEF FeeRows, PlanRows
  <2>4. i # 0 BY <1>t, SignUpFacts DEF SignUpRows
  <2>5. S!Received(i) = charges[i].total BY <1>t, <2>1, <2>2, RowsAddUp
  <2> QED BY <2>2, <2>3, <2>4, <2>5
<1> QED BY <1>1, <1>2, <1>3, <1>4, <1>5 DEF SignUpsHold, S!AccountComplete, S!ReceiptsMatch

\* The charges only become more, and paid.
Grown ==
  /\ feeOn' = feeOn /\ Len(charges') >= Len(charges)
  /\ \A i \in 1..Len(charges) : charges'[i].plan = charges[i].plan /\ (charges[i].paid => charges'[i].paid)

LEMMA BoughtKept ==
  ASSUME SignUpTyped, Grown, Len(charges') \in Nat, NEW j, j.charge \in Nat, Covers(j)
  PROVE  Covers(j)'
<1>0. Len(charges) \in Nat BY SignUpFacts DEF SignUpRows
<1>1. S!Total(j.plan)' = S!Total(j.plan) BY DEF Grown, S!Total, S!Fee
<1>2. CASE j.charge = 0 BY <1>1, <1>2 DEF Covers, Grown
<1>3. CASE j.charge # 0
  <2>1. j.charge \in 1..Len(charges) BY <1>0, <1>3 DEF Covers
  <2> QED BY <1>0, <1>3, <2>1 DEF Covers, Grown
<1> QED BY <1>2, <1>3

\* A request goes to a place with what it needs there.
LEMMA ChargedKept ==
  ASSUME SignUpTyped, SignUpTyped', Charged, Grown,
         \A i \in DOMAIN charges' : charges'[i].total = S!Total(charges'[i].plan),
         \A t \in DOMAIN tokens' : tokens'[t].pending <= Len(charges'),
         \/ stage' = stage /\ job' = job
         \/ \E c \in Clients, q \in S!Places :
              /\ stage' = [stage EXCEPT ![c] = q] /\ (job' = job \/ \E j \in S!Jobs : job' = [job EXCEPT ![c] = j])
              /\ q = "started" => job'[c].charge <= Len(charges')
              /\ q \in Making \union {"create"} =>
                   \/ job' = job /\ stage[c] \in Making \union {"create"}
                   \/ \E j : job'[c] = j /\ Covers(j)'
  PROVE  Charged'
<1>0. /\ stage \in [Clients -> S!Places] /\ job \in [Clients -> S!Jobs]
      /\ Len(charges) \in Nat
  BY SignUpFacts DEF SignUpRows
<1>1. Len(charges') \in Nat BY DEF SignUpTyped, S!SignUpType
<1>u. \A i \in DOMAIN charges' : charges'[i].total = S!Total(charges[i].plan)'
  BY DEF Grown, S!Total, S!Fee
<1>2. ASSUME NEW d \in Clients, NEW j, j = job[d], stage[d] \in Making \union {"create"} PROVE Covers(j)'
  <2>1. j.charge \in Nat BY <1>0, <1>2, SignUpAssumption DEF S!Jobs
  <2>2. Covers(j) BY <1>2 DEF Charged
  <2> QED BY <1>1, <2>1, <2>2, BoughtKept
<1>3. ASSUME NEW d \in Clients, stage[d] = "started" PROVE job[d].charge <= Len(charges')
  <2>1. job[d].charge \in Nat BY <1>0, SignUpAssumption DEF S!Jobs
  <2> QED BY <1>0, <1>1, <1>3, <2>1 DEF Charged, Grown
<1>4. CASE stage' = stage /\ job' = job
  <2>1. ASSUME NEW d \in Clients, stage'[d] \in Making \union {"create"} PROVE Covers(job[d])'
    <3>1. PICK j : j = job[d] OBVIOUS
    <3>2. Covers(j)' BY <1>2, <1>4, <2>1, <3>1
    <3> QED BY <1>4, <3>1, <3>2 DEF Covers
  <2> QED BY <1>3, <1>4, <1>u, <2>1 DEF Charged
<1>5. ASSUME NEW c \in Clients, NEW q \in S!Places,
             stage' = [stage EXCEPT ![c] = q], job' = job \/ \E j \in S!Jobs : job' = [job EXCEPT ![c] = j],
             q = "started" => job'[c].charge <= Len(charges'),
             q \in Making \union {"create"} =>
               \/ job' = job /\ stage[c] \in Making \union {"create"}
               \/ \E j : job'[c] = j /\ Covers(j)'
      PROVE  Charged'
  <2>1. ASSUME NEW d \in Clients, stage'[d] \in Making \union {"create"} PROVE Covers(job[d])'
    <3>1. CASE d # c
      <4>1. PICK j : j = job[d] OBVIOUS
      <4>2. job'[d] = j /\ stage[d] \in Making \union {"create"} BY <1>0, <1>5, <2>1, <3>1, <4>1
      <4>3. Covers(j)' BY <1>2, <4>1, <4>2
      <4> QED BY <4>2, <4>3 DEF Covers
    <3>2. CASE d = c
      <4>1. q \in Making \union {"create"} BY <1>0, <1>5, <2>1, <3>2
      <4>2. PICK j : job'[c] = j /\ Covers(j)' BY <1>2, <1>5, <4>1
      <4> QED BY <3>2, <4>2 DEF Covers
    <3> QED BY <3>1, <3>2
  <2>2. ASSUME NEW d \in Clients, stage'[d] = "started" PROVE job'[d].charge <= Len(charges')
    <3>1. CASE d # c BY <1>0, <1>3, <1>5, <2>2, <3>1
    <3>2. CASE d = c BY <1>0, <1>5, <2>2, <3>2
    <3> QED BY <3>1, <3>2
  <2> QED BY <1>u, <2>1, <2>2 DEF Charged
<1> QED BY <1>4, <1>5

LEMMA SignUpTypeStep ==
  ASSUME SignUpTyped, SignUpNext PROVE SignUpTyped'
<1>1. ASSUME NEW c \in Clients, S!Continue(c) \/ S!Kill(c) PROVE SignUpTyped'
  BY <1>1, CodeType, PaymentType DEF S!Continue
<1>2. ASSUME NEW c \in Clients, NEW k \in S!Kinds, S!AskCode(c, k) PROVE SignUpTyped' BY <1>2, CodeType
<1>3. ASSUME NEW c \in Clients, S!AskAny(c) PROVE SignUpTyped' BY <1>3, CodeType DEF S!AskAny
<1>4. ASSUME NEW c \in Clients, Pays(c) \/ S!SetAny(c) PROVE SignUpTyped' BY <1>4, PaymentType DEF Pays, S!SetAny
<1>6. ASSUME NEW c \in Clients, FewCodes(c) PROVE SignUpTyped' BY <1>6, CodeType DEF FewCodes
<1>5. CASE S!Time \/ \E i \in DOMAIN charges : S!Pay(i) BY <1>5, TimeType
<1> QED BY <1>1, <1>2, <1>3, <1>4, <1>5, <1>6 DEF SignUpNext

\* Nothing happens to the charges.
LEMMA SameCharges ==
  ASSUME SignUpTyped, Charged, charges' = charges, feeOn' = feeOn
  PROVE  Grown /\ \A i \in DOMAIN charges' : charges'[i].total = S!Total(charges'[i].plan)
BY SignUpFacts DEF SignUpRows, Grown, Charged

LEMMA ChargedCodes ==
  ASSUME SignUpTyped, SignUpTyped', Charged, NEW c \in Clients,
         \/ \E k \in S!Kinds : S!AskCode(c, k) \/ \E right \in BOOLEAN : S!Check(c, k, right)
         \/ S!Send(c) \/ S!Record(c) \/ S!First(c) \/ S!Refuse(c) \/ S!Accept(c) \/ S!UseUp(c)
  PROVE  Charged'
<1>0. /\ tokens \in Seq(Tokens) /\ Len(tokens) \in Nat /\ DOMAIN tokens = 1..Len(tokens)
      /\ stage \in [Clients -> S!Places] /\ job \in [Clients -> S!Jobs] /\ Len(charges) \in Nat
  BY SignUpFacts DEF SignUpRows
<1>1. charges' = charges /\ feeOn' = feeOn
  BY DEF S!AskCode, S!Check, S!Send, S!Record, S!First, S!Refuse, S!Accept, S!UseUp
<1>2. \E q \in {"send", "record", "first", "answer", "used", "idle"} : stage' = [stage EXCEPT ![c] = q]
  BY DEF S!AskCode, S!Check, S!Send, S!Record, S!First, S!Refuse, S!Accept, S!UseUp, S!Start, S!Move, S!End
<1>3. job' = job \/ \E j \in S!Jobs : job' = [job EXCEPT ![c] = j]
  <2>1. job' = job \/ job' = [job EXCEPT ![c] = job'[c]]
    BY <1>0 DEF S!AskCode, S!Check, S!Send, S!Record, S!First, S!Refuse, S!Accept, S!UseUp, S!Start, S!Move, S!End
  <2>2. job'[c] \in S!Jobs BY DEF SignUpTyped, S!SignUpType
  <2> QED BY <2>1, <2>2
<1>4. \/ tokens' = tokens \/ \E n : tokens' = Append(tokens, S!Verified(n))
      \/ \E t : tokens' = [tokens EXCEPT ![t].spent = TRUE]
  BY DEF S!AskCode, S!Check, S!Send, S!Record, S!First, S!Refuse, S!Accept, S!UseUp
<1>5. \A t \in DOMAIN tokens' : tokens'[t].pending <= Len(charges')
  <2>1. CASE tokens' = tokens BY <1>1, <2>1 DEF Charged
  <2>2. ASSUME NEW n, tokens' = Append(tokens, S!Verified(n)), NEW t \in DOMAIN tokens'
        PROVE  tokens'[t].pending <= Len(charges')
    <3>1. PICK x : x = S!Verified(n) OBVIOUS
    <3>2. x.pending = 0 BY <3>1 DEF S!Verified
    <3>3. t \in 1..(Len(tokens) + 1) /\ tokens'[t] = IF t \in 1..Len(tokens) THEN tokens[t] ELSE x
      BY <1>0, <2>2, <3>1
    <3>4. CASE t \in 1..Len(tokens) BY <1>0, <1>1, <3>3, <3>4 DEF Charged
    <3>5. CASE t \notin 1..Len(tokens) BY <1>0, <1>1, <3>2, <3>3, <3>5
    <3> QED BY <3>4, <3>5
  <2>3. ASSUME NEW n, tokens' = [tokens EXCEPT ![n].spent = TRUE], NEW t \in DOMAIN tokens'
        PROVE  tokens'[t].pending <= Len(charges')
    <3>1. t \in DOMAIN tokens /\ tokens[t] \in Tokens BY <1>0, <2>3
    <3>2. tokens'[t] = tokens[t] \/ tokens'[t] = [tokens[t] EXCEPT !.spent = TRUE] BY <1>0, <2>3, <3>1
    <3>3. tokens'[t].pending = tokens[t].pending BY <3>1, <3>2 DEF Tokens
    <3> QED BY <1>1, <3>1, <3>3 DEF Charged
  <2> QED BY <1>4, <2>1, <2>2, <2>3
<1>6. Grown /\ \A i \in DOMAIN charges' : charges'[i].total = S!Total(charges'[i].plan)
  BY <1>1, SameCharges
<1>7. PICK q \in {"send", "record", "first", "answer", "used", "idle"} : stage' = [stage EXCEPT ![c] = q] BY <1>2
<1>8. q \in S!Places /\ q # "started" /\ q \notin Making \union {"create"} BY DEF S!Places, Making
<1> QED BY <1>3, <1>5, <1>6, <1>7, <1>8, ChargedKept

LEMMA ChargedStarted ==
  ASSUME SignUpTyped, SignUpTyped', Charged, NEW c \in Clients, S!StartAny(c)
  PROVE  Charged'
<1>0. /\ DOMAIN tokens = 1..Len(tokens) /\ tokens \in [1..Len(tokens) -> Tokens]
      /\ stage \in [Clients -> S!Places] /\ job \in [Clients -> S!Jobs]
      /\ charges \in Seq(Charges) /\ Len(charges) \in Nat /\ DOMAIN charges = 1..Len(charges)
  BY SignUpFacts DEF SignUpRows
<1>1. PICK t \in DOMAIN tokens, p \in S!Plans : S!Initiate(c, t, p) BY DEF S!StartAny
<1>2. CASE S!Total(p) = 0
  <2>1. /\ tokens' = [tokens EXCEPT ![t].pending = 0] /\ charges' = charges /\ feeOn' = feeOn
        /\ stage' = stage /\ job' = job
    BY <1>1, <1>2 DEF S!Initiate
  <2>2. \A u \in DOMAIN tokens' : u \in DOMAIN tokens /\ tokens'[u].pending \in {0, tokens[u].pending}
    BY <1>0, <2>1 DEF Tokens
  <2>3. \A u \in DOMAIN tokens' : tokens'[u].pending <= Len(charges') BY <1>0, <2>1, <2>2 DEF Charged
  <2>4. Grown /\ \A i \in DOMAIN charges' : charges'[i].total = S!Total(charges'[i].plan)
    BY <2>1, SameCharges
  <2> QED BY <2>1, <2>3, <2>4, ChargedKept
<1>3. CASE S!Total(p) # 0
  <2>0. S!Total(p) \in Nat BY SignUpAssumption DEF S!Total, S!Fee, S!Plans
  <2>1. PICK x : x = [plan |-> p, total |-> S!Total(p), paid |-> FALSE] OBVIOUS
  <2>2. x \in Charges /\ x.plan = p /\ x.total = S!Total(p) BY <2>0, <2>1 DEF Charges
  <2>3. charges' = Append(charges, x) BY <1>1, <1>3, <2>1 DEF S!Initiate
  <2>4. /\ Len(charges') = Len(charges) + 1 /\ charges'[Len(charges) + 1] = x
        /\ \A i \in 1..Len(charges) : charges'[i] = charges[i]
        /\ DOMAIN charges' = 1..(Len(charges) + 1)
    BY <1>0, <2>2, <2>3, RowAdded
  <2>5. PICK j : j = [S!Blank EXCEPT !.token = t, !.charge = Len(charges) + 1] OBVIOUS
  <2>6. /\ tokens' = tokens /\ feeOn' = feeOn
        /\ stage' = [stage EXCEPT ![c] = "started"] /\ job' = [job EXCEPT ![c] = j]
    BY <1>1, <1>3, <2>5 DEF S!Initiate, S!Start
  <2>7. Grown BY <1>0, <2>4, <2>6 DEF Grown
  <2>8. \A i \in DOMAIN charges' : charges'[i].total = S!Total(charges'[i].plan)
    <3>1. \A i \in 1..Len(charges) : charges'[i].total = S!Total(charges'[i].plan)
      BY <1>0, <2>4 DEF Charged
    <3>2. \A i \in DOMAIN charges' : i \in 1..Len(charges) \/ i = Len(charges) + 1 BY <1>0, <2>4
    <3> QED BY <2>2, <2>4, <3>1, <3>2
  <2>9. \A u \in DOMAIN tokens' : tokens'[u].pending <= Len(charges')
    <3>1. \A u \in DOMAIN tokens : tokens[u].pending \in Nat BY <1>0, SignUpAssumption DEF Tokens
    <3> QED BY <1>0, <2>4, <2>6, <3>1 DEF Charged
  <2>10. job'[c] = j /\ j.charge = Len(charges) + 1 /\ j \in S!Jobs
    <3>1. job'[c] = j BY <1>0, <2>6
    <3>2. j.charge = Len(charges) + 1 BY <2>5, BlankJob DEF S!Jobs
    <3>3. job'[c] \in S!Jobs BY DEF SignUpTyped, S!SignUpType
    <3> QED BY <3>1, <3>2, <3>3
  <2>11. "started" \in S!Places /\ "started" \notin Making \union {"create"} BY DEF S!Places, Making
  <2>12. /\ stage' = [stage EXCEPT ![c] = "started"] /\ \E k \in S!Jobs : job' = [job EXCEPT ![c] = k]
         /\ job'[c].charge <= Len(charges')
    <3>1. job'[c].charge <= Len(charges') BY <1>0, <2>4, <2>10
    <3> QED BY <2>6, <2>10, <3>1
  <2> QED BY <2>7, <2>8, <2>9, <2>11, <2>12, ChargedKept
<1> QED BY <1>2, <1>3

LEMMA ChargedSet ==
  ASSUME SignUpTyped, SignUpTyped', Charged, NEW c \in Clients,
         NEW t \in DOMAIN tokens, NEW p \in S!Plans, NEW i \in 0..Len(charges),
         Sticks(t, p), S!SetPin(c, t, p, i)
  PROVE  Charged'
<1>0. /\ DOMAIN tokens = 1..Len(tokens) /\ tokens \in [1..Len(tokens) -> Tokens]
      /\ stage \in [Clients -> S!Places] /\ job \in [Clients -> S!Jobs]
      /\ Len(charges) \in Nat /\ feeOn \in BOOLEAN
  BY SignUpFacts DEF SignUpRows
<1>1. PICK j : j = [S!Blank EXCEPT !.token = t, !.plan = p, !.charge = i, !.fee = feeOn /\ i # 0] OBVIOUS
<1>2. /\ UNCHANGED <<tokens, charges, feeOn>>
      /\ stage' = [stage EXCEPT ![c] = "create"] /\ job' = [job EXCEPT ![c] = j]
  BY <1>1 DEF S!SetPin, S!Start
<1>3. job'[c] = j /\ j \in S!Jobs
  <2>1. job'[c] = j BY <1>0, <1>2
  <2>2. job'[c] \in S!Jobs BY DEF SignUpTyped, S!SignUpType
  <2> QED BY <2>1, <2>2
<1>4. j.plan = p /\ j.charge = i /\ j.fee = (feeOn /\ i # 0) BY <1>1, BlankJob DEF S!Jobs
<1>5. i = 0 => S!Total(p) = 0 BY DEF S!SetPin
<1>6. ASSUME i # 0 PROVE i <= Len(charges) /\ charges[i].paid /\ charges[i].plan = p
  <2>1. tokens[t].pending = i /\ charges[i].paid BY <1>6 DEF S!SetPin, S!Settled
  <2> QED BY <1>0, <1>6, <2>1 DEF Sticks
<1>7. Covers(j) BY <1>0, <1>4, <1>5, <1>6 DEF Covers
<1>8. Covers(j)' BY <1>2, <1>7 DEF Covers, S!Total, S!Fee
<1>9. Grown /\ \A k \in DOMAIN charges' : charges'[k].total = S!Total(charges'[k].plan)
  BY <1>2, SameCharges
<1>10. \A u \in DOMAIN tokens' : tokens'[u].pending <= Len(charges') BY <1>2 DEF Charged
<1>11. "create" \in S!Places /\ "create" # "started" BY DEF S!Places
<1>12. /\ stage' = [stage EXCEPT ![c] = "create"] /\ \E k \in S!Jobs : job' = [job EXCEPT ![c] = k]
       /\ \E k : job'[c] = k /\ Covers(k)'
  BY <1>2, <1>3, <1>8
<1> QED BY <1>9, <1>10, <1>11, <1>12, ChargedKept

LEMMA ChargedPaid ==
  ASSUME SignUpTyped, SignUpTyped', Charged, NEW c \in Clients,
         \/ S!Started(c) \/ S!Create(c) \/ S!SavePin(c) \/ S!FeeRow(c) \/ S!Subscribe(c) \/ S!Finish(c)
  PROVE  Charged'
<1>0. /\ DOMAIN tokens = 1..Len(tokens) /\ tokens \in [1..Len(tokens) -> Tokens]
      /\ stage \in [Clients -> S!Places] /\ job \in [Clients -> S!Jobs]
      /\ Len(charges) \in Nat
  BY SignUpFacts DEF SignUpRows
<1>1. charges' = charges /\ feeOn' = feeOn
  BY DEF S!Started, S!Create, S!SavePin, S!FeeRow, S!Subscribe, S!Finish
<1>2. Grown /\ \A k \in DOMAIN charges' : charges'[k].total = S!Total(charges'[k].plan)
  BY <1>1, SameCharges
<1>3. CASE S!Started(c) \/ S!Finish(c)
  <2>1. stage' = [stage EXCEPT ![c] = "idle"] /\ job' = [job EXCEPT ![c] = S!Blank]
    BY <1>3 DEF S!Started, S!Finish, S!End, S!Start
  <2>2. PICK n : n = job[c].charge OBVIOUS
  <2>3. PICK r : r = job[c].token OBVIOUS
  <2>4. \/ tokens' = [tokens EXCEPT ![r].pending = n] /\ stage[c] = "started"
        \/ tokens' = [tokens EXCEPT ![r] = [@ EXCEPT !.live = FALSE, !.pending = 0]]
    BY <1>3, <2>2, <2>3 DEF S!Started, S!Finish
  <2>5. stage[c] = "started" => n <= Len(charges) BY <2>2 DEF Charged
  <2>6. ASSUME NEW u \in DOMAIN tokens' PROVE tokens'[u].pending <= Len(charges')
    <3>1. u \in DOMAIN tokens BY <2>4, <2>6
    <3>2. tokens[u] \in Tokens /\ tokens[u].pending <= Len(charges) BY <1>0, <3>1 DEF Charged
    <3>3. CASE tokens' = [tokens EXCEPT ![r].pending = n] /\ stage[c] = "started"
      <4>1. tokens'[u].pending \in {n, tokens[u].pending} BY <1>0, <3>1, <3>2, <3>3 DEF Tokens
      <4> QED BY <1>1, <2>5, <3>2, <3>3, <4>1
    <3>4. CASE tokens' = [tokens EXCEPT ![r] = [@ EXCEPT !.live = FALSE, !.pending = 0]]
      <4>1. tokens'[u].pending \in {0, tokens[u].pending} BY <1>0, <3>1, <3>2, <3>4 DEF Tokens
      <4> QED BY <1>0, <1>1, <3>2, <4>1
    <3> QED BY <2>4, <3>3, <3>4
  <2>7. "idle" \in S!Places /\ "idle" # "started" /\ "idle" \notin Making \union {"create"}
    BY DEF S!Places, Making
  <2>8. S!Blank \in S!Jobs BY BlankJob
  <2> QED BY <1>2, <2>1, <2>6, <2>7, <2>8, ChargedKept
<1>4. CASE S!Create(c) \/ S!SavePin(c) \/ S!FeeRow(c) \/ S!Subscribe(c)
  <2>1. tokens' = tokens BY <1>4 DEF S!Create, S!SavePin, S!FeeRow, S!Subscribe
  <2>2. \A u \in DOMAIN tokens' : tokens'[u].pending <= Len(charges') BY <1>1, <2>1 DEF Charged
  <2>3. \/ stage' = [stage EXCEPT ![c] = "idle"] /\ job' = [job EXCEPT ![c] = S!Blank]
        \/ \E q \in Making : /\ stage' = [stage EXCEPT ![c] = q] /\ job' = job
                             /\ stage[c] \in Making \union {"create"}
    BY <1>4 DEF S!Create, S!SavePin, S!FeeRow, S!Subscribe, S!End, S!Start, S!Move, Making
  <2>4. S!Blank \in S!Jobs BY BlankJob
  <2>5. Making \subseteq S!Places /\ "started" \notin Making /\ "idle" \in S!Places
        /\ "idle" \notin Making \union {"create"} /\ "idle" # "started"
    BY DEF S!Places, Making
  <2>6. CASE stage' = [stage EXCEPT ![c] = "idle"] /\ job' = [job EXCEPT ![c] = S!Blank]
    BY <1>2, <2>2, <2>4, <2>5, <2>6, ChargedKept
  <2>7. ASSUME NEW q \in Making, stage' = [stage EXCEPT ![c] = q], job' = job,
               stage[c] \in Making \union {"create"}
        PROVE  Charged'
    BY <1>2, <2>2, <2>5, <2>7, ChargedKept
  <2> QED BY <2>3, <2>6, <2>7
<1> QED BY <1>3, <1>4

LEMMA ChargedTimed ==
  ASSUME SignUpTyped, SignUpTyped', Charged, S!Time \/ \E i \in DOMAIN charges : S!Pay(i)
  PROVE  Charged'
<1>0. /\ DOMAIN tokens = 1..Len(tokens) /\ tokens \in [1..Len(tokens) -> Tokens]
      /\ charges \in [1..Len(charges) -> Charges] /\ DOMAIN charges = 1..Len(charges)
      /\ Len(charges) \in Nat
  BY SignUpFacts DEF SignUpRows
<1>1. stage' = stage /\ job' = job /\ feeOn' = feeOn
  BY DEF S!Time, S!Cooled, S!Hour, S!Forget, S!Expire, S!Pay
<1>2. CASE S!Time
  <2>1. charges' = charges BY <1>2 DEF S!Time, S!Cooled, S!Hour, S!Forget, S!Expire
  <2>2. \/ tokens' = tokens
        \/ \E t : tokens' = [tokens EXCEPT ![t].live = FALSE] \/ tokens' = [tokens EXCEPT ![t].pending = 0]
    BY <1>2 DEF S!Time, S!Cooled, S!Hour, S!Forget, S!Expire
  <2>3. ASSUME NEW u \in DOMAIN tokens'
        PROVE  u \in DOMAIN tokens /\ tokens'[u].pending \in {0, tokens[u].pending}
    <3>1. CASE tokens' = tokens BY <3>1
    <3>2. ASSUME NEW t, tokens' = [tokens EXCEPT ![t].live = FALSE] \/ tokens' = [tokens EXCEPT ![t].pending = 0]
          PROVE  u \in DOMAIN tokens /\ tokens'[u].pending \in {0, tokens[u].pending}
      <4>1. u \in DOMAIN tokens BY <3>2
      <4>2. tokens[u] \in Tokens BY <1>0, <4>1
      <4> QED BY <3>2, <4>1, <4>2 DEF Tokens
    <3> QED BY <2>2, <3>1, <3>2
  <2>4. \A u \in DOMAIN tokens' : tokens'[u].pending <= Len(charges') BY <1>0, <2>1, <2>3 DEF Charged
  <2> QED BY <1>1, <2>1, <2>4, SameCharges, ChargedKept
<1>3. ASSUME NEW i \in DOMAIN charges, S!Pay(i) PROVE Charged'
  <2>1. charges' = [charges EXCEPT ![i].paid = TRUE] /\ tokens' = tokens BY <1>3 DEF S!Pay
  <2>2. /\ DOMAIN charges' = DOMAIN charges
        /\ \A k \in DOMAIN charges : /\ charges'[k].plan = charges[k].plan /\ charges'[k].total = charges[k].total
                                     /\ charges[k].paid => charges'[k].paid
    BY <1>0, <2>1 DEF Charges
  <2>3. Len(charges') = Len(charges)
    <3>1. Len(charges') \in Nat /\ DOMAIN charges' = 1..Len(charges')
      BY SignUpFacts DEF SignUpTyped, S!SignUpType
    <3> QED BY <1>0, <2>2, <3>1
  <2>4. Grown BY <1>0, <1>1, <2>2, <2>3 DEF Grown
  <2>5. \A k \in DOMAIN charges' : charges'[k].total = S!Total(charges'[k].plan) BY <2>2 DEF Charged
  <2>6. \A u \in DOMAIN tokens' : tokens'[u].pending <= Len(charges') BY <2>1, <2>3 DEF Charged
  <2> QED BY <1>1, <2>4, <2>5, <2>6, ChargedKept
<1> QED BY <1>2, <1>3

LEMMA ChargedStep ==
  ASSUME SignUpTyped, Charged, scene = "signups", SignUpNext
  PROVE  Charged'
<1>t. SignUpTyped' BY SignUpTypeStep
<1>1. ASSUME NEW c \in Clients, S!Continue(c) PROVE Charged'
  BY <1>t, <1>1, ChargedCodes, ChargedPaid DEF S!Continue
<1>2. ASSUME NEW c \in Clients, S!AskAny(c) PROVE Charged' BY <1>t, <1>2, ChargedCodes DEF S!AskAny
<1>3. ASSUME NEW c \in Clients, Pays(c) PROVE Charged'
  BY <1>t, <1>3, ChargedStarted, ChargedSet DEF Pays
<1>4. CASE S!Time \/ \E i \in DOMAIN charges : S!Pay(i) BY <1>t, <1>4, ChargedTimed
<1> QED BY <1>1, <1>2, <1>3, <1>4 DEF SignUpNext

LEMMA GrownStep ==
  ASSUME SignUpTyped, scene # "serial", SignUpNext
  PROVE  Grown /\ Len(charges') \in Nat
<1>0. /\ charges \in Seq(Charges) /\ charges \in [1..Len(charges) -> Charges]
      /\ DOMAIN charges = 1..Len(charges) /\ Len(charges) \in Nat
  BY SignUpFacts DEF SignUpRows
<1>1. feeOn' = feeOn
  BY DEF SignUpNext, S!Continue, S!AskAny, Pays, S!StartAny, S!Time, S!Cooled, S!Hour, S!Forget, S!Expire,
         S!Pay, S!AskCode, S!Check, S!Send, S!Record, S!First, S!Refuse, S!Accept, S!UseUp, S!Initiate, S!Started, S!SetPin,
         S!Create, S!SavePin, S!FeeRow, S!Subscribe, S!Finish
<1>2. \/ charges' = charges
      \/ \E p \in S!Plans : charges' = Append(charges, [plan |-> p, total |-> S!Total(p), paid |-> FALSE])
      \/ \E i \in DOMAIN charges : charges' = [charges EXCEPT ![i].paid = TRUE]
  BY DEF SignUpNext, S!Continue, S!AskAny, Pays, S!StartAny, S!Time, S!Cooled, S!Hour, S!Forget, S!Expire,
         S!Pay, S!AskCode, S!Check, S!Send, S!Record, S!First, S!Refuse, S!Accept, S!UseUp, S!Initiate, S!Started, S!SetPin,
         S!Create, S!SavePin, S!FeeRow, S!Subscribe, S!Finish
<1>3. CASE charges' = charges BY <1>0, <1>1, <1>3 DEF Grown
<1>4. ASSUME NEW p \in S!Plans, charges' = Append(charges, [plan |-> p, total |-> S!Total(p), paid |-> FALSE])
      PROVE  Grown /\ Len(charges') \in Nat
  <2>1. S!Total(p) \in Nat BY <1>0, SignUpFacts, SignUpAssumption DEF S!Total, S!Fee, S!Plans
  <2>2. PICK x \in Charges : charges' = Append(charges, x)
    <3>1. [plan |-> p, total |-> S!Total(p), paid |-> FALSE] \in Charges BY <2>1 DEF Charges
    <3> QED BY <1>4, <3>1
  <2>3. Len(charges') = Len(charges) + 1 /\ \A k \in 1..Len(charges) : charges'[k] = charges[k]
    BY <1>0, <2>2, RowAdded
  <2> QED BY <1>0, <1>1, <2>3 DEF Grown
<1>5. ASSUME NEW i \in DOMAIN charges, charges' = [charges EXCEPT ![i].paid = TRUE]
      PROVE  Grown /\ Len(charges') \in Nat
  <2>1. [charges[i] EXCEPT !.paid = TRUE] \in Charges BY <1>0, Fields
  <2>2. PICK x \in Charges : x = [charges[i] EXCEPT !.paid = TRUE] BY <2>1
  <2>3. charges' = [charges EXCEPT ![i] = x] BY <1>5, <2>2
  <2>4. Len(charges') = Len(charges) BY <1>0, <2>3, RowReplaced
  <2>5. charges[i] \in Charges BY <1>0
  <2>6. x.plan = charges[i].plan /\ x.paid BY <2>2, <2>5 DEF Charges
  <2>7. \A k \in 1..Len(charges) : charges'[k] = IF k = i THEN x ELSE charges[k] BY <1>0, <2>3
  <2> QED BY <1>0, <1>1, <2>4, <2>6, <2>7 DEF Grown
<1> QED BY <1>2, <1>3, <1>4, <1>5

\* The steps of the others than who makes the account.
Aside ==
  /\ Grown /\ Len(charges') \in Nat /\ receipts' = receipts
  /\ signup' = signup \/ signup' = [signup EXCEPT !.pin = TRUE]
  /\ \/ stage' = stage /\ job' = job
     \/ \E c \in Clients, q \in S!Places \ Making :
          /\ stage[c] \notin Making /\ stage' = [stage EXCEPT ![c] = q]
          /\ job' = job \/ \E j : job' = [job EXCEPT ![c] = j]

LEMMA BookedRows ==
  ASSUME SignUpTyped, Grown, NEW i \in DOMAIN charges, charges[i].paid,
         Len(charges') \in Nat, SignUpTyped'
  PROVE  /\ i \in DOMAIN charges' /\ charges'[i].paid
         /\ FeeRows(feeOn', i) \union PlanRows(charges'[i].plan, i)
              = FeeRows(feeOn, i) \union PlanRows(charges[i].plan, i)
<1>1. DOMAIN charges = 1..Len(charges) /\ Len(charges) \in Nat BY SignUpFacts DEF SignUpRows
<1>2. DOMAIN charges' = 1..Len(charges') BY DEF SignUpTyped, S!SignUpType
<1> QED BY <1>1, <1>2 DEF Grown

LEMMA AsideKept ==
  ASSUME SignUpTyped, SignUpTyped', Made, Booked, Aside
  PROVE  Made' /\ Booked'
<1>0. /\ stage \in [Clients -> S!Places] /\ job \in [Clients -> S!Jobs]
      /\ signup \in [made : BOOLEAN, pin : BOOLEAN, plan : S!Plans \union {"none"}]
  BY SignUpFacts DEF SignUpRows
<1>1. /\ signup'.made = signup.made /\ signup'.plan = signup.plan /\ (signup.pin => signup'.pin)
      /\ signup'.pin \in BOOLEAN
  BY <1>0 DEF Aside
<1>2. \A d \in Clients : stage'[d] \in Making <=> stage[d] \in Making BY <1>0 DEF Aside
<1>3. \A d \in Clients : stage[d] \in Making => stage'[d] = stage[d] /\ job'[d] = job[d] BY <1>0 DEF Aside
<1>4. {"pin", "fee", "subscribe"} \subseteq Making BY DEF Making
<1>5. Made' BY <1>0, <1>1, <1>2, <1>3, <1>4 DEF Made
<1>6. Booked'
  <2>1. receipts' = receipts BY DEF Aside
  <2>2. ~signup'.made => receipts' = {} BY <1>1, <2>1 DEF Booked
  <2>3. \A c \in Clients : stage'[c] \in {"pin", "fee"} => receipts' = {} BY <1>2, <1>3, <1>4, <2>1 DEF Booked
  <2>4. \A c \in Clients : stage'[c] = "fee" => job'[c].fee BY <1>2, <1>3, <1>4 DEF Booked
  <2>5. \A c \in Clients : stage'[c] = "subscribe" => receipts' = FeeRows(job'[c].fee, job'[c].charge)
    BY <1>2, <1>3, <1>4, <2>1 DEF Booked
  <2>6. \/ receipts' = {} \/ \E c \in Clients : stage'[c] = "subscribe"
        \/ \E i \in DOMAIN charges' :
             charges'[i].paid /\ receipts' = FeeRows(feeOn', i) \union PlanRows(charges'[i].plan, i)
    <3>1. CASE receipts = {} BY <2>1, <3>1
    <3>2. CASE \E c \in Clients : stage[c] = "subscribe" BY <1>3, <1>4, <3>2
    <3>3. ASSUME NEW i \in DOMAIN charges, charges[i].paid,
                 receipts = FeeRows(feeOn, i) \union PlanRows(charges[i].plan, i)
          PROVE  \E k \in DOMAIN charges' :
                   charges'[k].paid /\ receipts' = FeeRows(feeOn', k) \union PlanRows(charges'[k].plan, k)
      <4>1. Grown /\ Len(charges') \in Nat BY DEF Aside
      <4> QED BY <2>1, <3>3, <4>1, BookedRows
    <3> QED BY <3>1, <3>2, <3>3 DEF Booked
  <2> QED BY <2>2, <2>3, <2>4, <2>5, <2>6 DEF Booked
<1> QED BY <1>5, <1>6

\* Who makes the account is alone in it.
LEMMA MadeBy ==
  ASSUME SignUpTyped, SignUpTyped', Charged, Made, Booked, NEW c \in Clients,
         \/ S!Create(c) /\ ~signup.made
         \/ S!SavePin(c) \/ S!FeeRow(c) \/ S!Subscribe(c) \/ S!Finish(c)
  PROVE  Made' /\ Booked'
<1>0. /\ stage \in [Clients -> S!Places] /\ job \in [Clients -> S!Jobs]
      /\ signup \in [made : BOOLEAN, pin : BOOLEAN, plan : S!Plans \union {"none"}]
      /\ feeOn \in BOOLEAN /\ DOMAIN charges = 1..Len(charges) /\ Len(charges) \in Nat
  BY SignUpFacts DEF SignUpRows
<1>1. charges' = charges /\ feeOn' = feeOn BY DEF S!Create, S!SavePin, S!FeeRow, S!Subscribe, S!Finish
<1>2. \A d \in Clients : d # c => stage[d] \notin Making
  BY DEF S!Create, S!SavePin, S!FeeRow, S!Subscribe, S!Finish, Made, Making
<1>3. ASSUME NEW q, stage' = [stage EXCEPT ![c] = q]
      PROVE  stage'[c] = q /\ \A d \in Clients : d # c => stage'[d] \notin Making
  BY <1>0, <1>2, <1>3
<1>4. CASE S!Create(c) /\ ~signup.made
  <2>1. /\ stage' = [stage EXCEPT ![c] = "pin"] /\ job' = job /\ receipts' = receipts
        /\ signup' = [signup EXCEPT !.made = TRUE]
    BY <1>4 DEF S!Create, S!Move
  <2>2. stage'[c] = "pin" /\ \A d \in Clients : d # c => stage'[d] \notin Making BY <1>3, <2>1
  <2>3. receipts = {} /\ signup'.made BY <1>0, <1>4, <2>1 DEF Booked
  <2>4. Made' BY <2>2, <2>3 DEF Made, Making
  <2> QED BY <2>1, <2>2, <2>3, <2>4 DEF Booked, Making
<1>5. CASE S!SavePin(c)
  <2>1. /\ stage[c] = "pin" /\ stage' = [stage EXCEPT ![c] = IF job[c].fee THEN "fee" ELSE "subscribe"]
        /\ job' = job /\ receipts' = receipts /\ signup' = [signup EXCEPT !.pin = TRUE]
    BY <1>5 DEF S!SavePin, S!Move
  <2>2. /\ stage'[c] = IF job[c].fee THEN "fee" ELSE "subscribe"
        /\ \A d \in Clients : d # c => stage'[d] \notin Making
    BY <1>3, <2>1
  <2>3. receipts = {} /\ signup.made BY <2>1 DEF Booked, Made, Making
  <2>4. signup'.made /\ signup'.pin /\ signup'.plan = signup.plan BY <1>0, <2>1, <2>3
  <2>5. Made' BY <2>2, <2>4 DEF Made, Making
  <2>6. stage'[c] = "subscribe" => FeeRows(job[c].fee, job[c].charge) = {} BY <2>2 DEF FeeRows
  <2> QED BY <2>1, <2>2, <2>3, <2>4, <2>5, <2>6 DEF Booked, Making
<1>6. CASE S!FeeRow(c)
  <2>1. /\ stage[c] = "fee" /\ stage' = [stage EXCEPT ![c] = "subscribe"] /\ job' = job /\ signup' = signup
        /\ receipts' = receipts \union {S!Receipt(c, "fee", SignupFee)}
    BY <1>6 DEF S!FeeRow, S!Move
  <2>2. stage'[c] = "subscribe" /\ \A d \in Clients : d # c => stage'[d] \notin Making BY <1>3, <2>1
  <2>3. receipts = {} /\ signup.made /\ job[c].fee BY <2>1 DEF Booked, Made, Making
  <2>4. signup.pin \in BOOLEAN /\ ~signup.pin => \E d \in Clients : stage[d] = "pin" BY <2>3 DEF Made
  <2>5. signup.pin \in BOOLEAN /\ ~signup.pin => FALSE BY <1>2, <2>1, <2>4 DEF Making
  <2>6. Made' BY <1>0, <2>1, <2>2, <2>3, <2>5 DEF Made, Making
  <2>7. receipts' = FeeRows(job[c].fee, job[c].charge) BY <2>1, <2>3 DEF FeeRows, S!Receipt
  <2> QED BY <2>1, <2>2, <2>3, <2>6, <2>7 DEF Booked, Making
<1>7. CASE S!Subscribe(c)
  <2> DEFINE p == job[c].plan
             i == job[c].charge
  <2>1. /\ stage[c] = "subscribe" /\ stage' = [stage EXCEPT ![c] = "finish"] /\ job' = job
        /\ signup' = [signup EXCEPT !.plan = p]
        /\ receipts' = IF Prices[p] = 0 THEN receipts ELSE receipts \union {S!Receipt(c, "plan", Prices[p])}
    BY <1>7 DEF S!Subscribe, S!Move, S!Subscribed
  <2>2. stage'[c] = "finish" /\ \A d \in Clients : d # c => stage'[d] \notin Making BY <1>3, <2>1
  <2>3. signup.made /\ receipts = FeeRows(job[c].fee, i) BY <2>1 DEF Booked, Made, Making
  <2>4. p \in S!Plans /\ p # "none" /\ i \in Nat BY <1>0, SignUpAssumption, SMTT(30) DEF S!Jobs, S!Plans
  <2>5. signup.pin
    <3>1. signup.pin \in BOOLEAN BY <1>0
    <3>2. ~signup.pin => \E d \in Clients : stage[d] = "pin" BY <2>3 DEF Made
    <3> QED BY <1>2, <2>1, <3>1, <3>2 DEF Making
  <2>6. signup'.made /\ signup'.pin /\ signup'.plan = p BY <1>0, <2>1, <2>3, <2>5
  <2>7. Made' BY <2>2, <2>4, <2>6 DEF Made, Making
  <2>8. Covers(job[c]) BY <2>1 DEF Charged, Making
  <2>9. receipts' = FeeRows(job[c].fee, i) \union PlanRows(p, i)
    BY <2>1, <2>3 DEF PlanRows, S!Receipt
  <2>10. CASE i = 0
    <3>1. S!Total(p) = 0 /\ ~job[c].fee BY <2>8, <2>10 DEF Covers
    <3>2. Prices[p] = 0
      <4>1. Prices[p] \in Nat /\ SignupFee \in Nat BY <2>4, SignUpAssumption DEF S!Plans
      <4> QED BY <3>1, <4>1 DEF S!Total, S!Fee
    <3>3. receipts' = {} BY <2>9, <3>1, <3>2 DEF FeeRows, PlanRows
    <3> QED BY <2>2, <2>6, <2>7, <3>3 DEF Booked, Making
  <2>11. CASE i # 0
    <3>1. i \in DOMAIN charges /\ charges[i].paid /\ charges[i].plan = p /\ (job[c].fee <=> feeOn)
      BY <1>0, <2>4, <2>8, <2>11 DEF Covers
    <3>2. FeeRows(job[c].fee, i) = FeeRows(feeOn, i) BY <3>1 DEF FeeRows
    <3>3. \E k \in DOMAIN charges' :
            charges'[k].paid /\ receipts' = FeeRows(feeOn', k) \union PlanRows(charges'[k].plan, k)
      BY <1>1, <2>9, <3>1, <3>2
    <3> QED BY <2>2, <2>6, <2>7, <3>3 DEF Booked, Making
  <2> QED BY <2>10, <2>11
<1>8. CASE S!Finish(c)
  <2>1. /\ stage[c] = "finish" /\ stage' = [stage EXCEPT ![c] = "idle"]
        /\ signup' = signup /\ receipts' = receipts
    BY <1>8 DEF S!Finish, S!End, S!Start
  <2>2. stage'[c] = "idle" /\ \A d \in Clients : d # c => stage'[d] \notin Making BY <1>3, <2>1
  <2>3. signup.made BY <2>1 DEF Made, Making
  <2>4. \A d \in Clients : stage[d] \notin {"pin", "fee", "subscribe"} BY <1>2, <2>1 DEF Making
  <2>5. signup.plan # "none"
    <3>1. signup.plan = "none" => \E d \in Clients : stage[d] \in Making \ {"finish"} BY <2>3 DEF Made
    <3> QED BY <2>4, <3>1 DEF Making
  <2>6. signup.made /\ ~signup.pin => FALSE BY <2>4 DEF Made
  <2>7. Made' BY <2>1, <2>2, <2>3, <2>5, <2>6 DEF Made, Making
  <2> QED BY <1>1, <2>1, <2>2, <2>3, <2>4, <2>7 DEF Booked, Making
<1> QED BY <1>4, <1>5, <1>6, <1>7, <1>8

LEMMA MadeStep ==
  ASSUME SignUpTyped, Charged, Made, Booked, scene = "signups", SignUpNext
  PROVE  Made' /\ Booked'
<1>t. SignUpTyped' BY SignUpTypeStep
<1>g. Grown /\ Len(charges') \in Nat BY GrownStep
<1>1. ASSUME NEW c \in Clients, NEW q \in S!Places \ Making,
             stage[c] \notin Making, stage' = [stage EXCEPT ![c] = q],
             job' = job \/ \E j : job' = [job EXCEPT ![c] = j], receipts' = receipts,
             signup' = signup \/ signup' = [signup EXCEPT !.pin = TRUE]
      PROVE  Made' /\ Booked'
  BY <1>t, <1>g, <1>1, AsideKept DEF Aside
<1>2. ASSUME stage' = stage, job' = job, receipts' = receipts, signup' = signup
      PROVE  Made' /\ Booked'
  BY <1>t, <1>g, <1>2, AsideKept DEF Aside
<1>p. {"idle", "send", "record", "first", "answer", "used", "started", "create"} \subseteq S!Places \ Making
  BY DEF S!Places, Making
<1>3. ASSUME NEW c \in Clients, NEW k \in S!Kinds,
             S!AskCode(c, k) \/ \E right \in BOOLEAN : S!Check(c, k, right)
      PROVE  Made' /\ Booked'
  <2>1. /\ receipts' = receipts /\ signup' = signup /\ stage[c] = "idle"
        /\ \E q \in {"send", "answer"} : stage' = [stage EXCEPT ![c] = q]
        /\ \E j : job' = [job EXCEPT ![c] = j]
    BY <1>3 DEF S!AskCode, S!Check, S!Start
  <2> QED BY <1>1, <1>p, <2>1
<1>4. ASSUME NEW c \in Clients, S!Send(c) \/ S!Record(c) \/ S!First(c) \/ S!Started(c)
      PROVE  Made' /\ Booked'
  <2>1. /\ receipts' = receipts /\ signup' = signup /\ stage[c] \in {"send", "record", "first", "started"}
        /\ \E q \in {"record", "first", "idle"} : stage' = [stage EXCEPT ![c] = q]
        /\ job' = job \/ \E j : job' = [job EXCEPT ![c] = j]
    BY <1>4 DEF S!Send, S!Record, S!First, S!Started, S!Move, S!End, S!Start
  <2> QED BY <1>1, <1>p, <2>1
<1>5. ASSUME NEW c \in Clients, S!Refuse(c) \/ S!Accept(c) \/ S!UseUp(c) PROVE Made' /\ Booked'
  <2>1. /\ receipts' = receipts
        /\ signup' = signup \/ signup' = [signup EXCEPT !.pin = signup.made \/ @]
        /\ stage[c] \in {"answer", "used"} /\ \E q \in {"idle", "used"} : stage' = [stage EXCEPT ![c] = q]
        /\ job' = job \/ \E j : job' = [job EXCEPT ![c] = j]
    BY <1>5 DEF S!Refuse, S!Accept, S!UseUp, S!End, S!Move, S!Start
  <2>2. signup' = signup \/ signup' = [signup EXCEPT !.pin = TRUE]
    <3>1. signup \in [made : BOOLEAN, pin : BOOLEAN, plan : S!Plans \union {"none"}]
      BY SignUpFacts DEF SignUpRows
    <3>2. PICK b \in BOOLEAN : b = (signup.made \/ signup.pin) BY <3>1
    <3>3. signup' = signup \/ signup' = [signup EXCEPT !.pin = b] BY <2>1, <3>2
    <3>4. b = TRUE \/ b = signup.pin BY <3>1, <3>2
    <3>5. [signup EXCEPT !.pin = signup.pin] = signup BY <3>1
    <3> QED BY <3>3, <3>4, <3>5
  <2> QED BY <1>1, <1>p, <2>1, <2>2
<1>6. ASSUME NEW c \in Clients, S!Create(c), signup.made PROVE Made' /\ Booked'
  <2>1. signup \in [made : BOOLEAN, pin : BOOLEAN, plan : S!Plans \union {"none"}]
    BY SignUpFacts DEF SignUpRows
  <2>2. /\ receipts' = receipts /\ signup' = [signup EXCEPT !.made = TRUE]
        /\ stage[c] = "create" /\ stage' = [stage EXCEPT ![c] = "idle"]
        /\ \E j : job' = [job EXCEPT ![c] = j]
    BY <1>6 DEF S!Create, S!End, S!Start
  <2>3. signup' = signup BY <1>6, <2>1, <2>2
  <2> QED BY <1>1, <1>p, <2>2, <2>3
<1>7. ASSUME NEW c \in Clients, Pays(c) PROVE Made' /\ Booked'
  <2>1. /\ receipts' = receipts /\ signup' = signup
        /\ \/ stage' = stage /\ job' = job
           \/ /\ \E q \in {"started", "create"} : stage' = [stage EXCEPT ![c] = q]
              /\ stage[c] = "idle" /\ \E j : job' = [job EXCEPT ![c] = j]
    BY <1>7 DEF Pays, S!StartAny, S!Initiate, S!SetPin, S!Start
  <2> QED BY <1>1, <1>2, <1>p, <2>1
<1>8. CASE S!Time \/ \E i \in DOMAIN charges : S!Pay(i)
  BY <1>2, <1>8 DEF S!Time, S!Cooled, S!Hour, S!Forget, S!Expire, S!Pay
<1>9. ASSUME NEW c \in Clients, S!Continue(c) PROVE Made' /\ Booked'
  <2>1. CASE (S!Create(c) /\ ~signup.made) \/ S!SavePin(c) \/ S!FeeRow(c) \/ S!Subscribe(c) \/ S!Finish(c)
    BY <1>t, <2>1, MadeBy
  <2> QED BY <1>4, <1>5, <1>6, <1>9, <2>1 DEF S!Continue
<1>10. ASSUME NEW c \in Clients, S!AskAny(c) PROVE Made' /\ Booked' BY <1>3, <1>10 DEF S!AskAny
<1> QED BY <1>7, <1>8, <1>9, <1>10 DEF SignUpNext

LEMMA SignUpStep == ASSUME SignUpInv, [MCNext]_all PROVE SignUpInv'
<1>1. SignUpTyped BY DEF SignUpInv
<1>2. CASE Signing /\ SignUpNext /\ scene' = scene
  <2>1. SignUpTyped' BY <1>1, <1>2, SignUpTypeStep
  <2>2. scene' = "serial" => Serial' BY <1>1, <1>2, SerialStep DEF SignUpInv
  <2>3. scene' # "serial" => Counted' BY <1>1, <1>2, CountedStep DEF SignUpInv
  <2>4. scene' = "signups" => Charged' /\ Made' /\ Booked'
    BY <1>1, <1>2, ChargedStep, MadeStep DEF SignUpInv
  <2> QED BY <2>1, <2>2, <2>3, <2>4 DEF SignUpInv
<1>3. CASE UNCHANGED signups /\ scene' = scene
  BY <1>3 DEF signups, SignUpInv, SignUpTyped, S!SignUpType, Reads, Serial, Unused, S!CodeUsedOnce, Counted, Lane,
              Charged, Covers, S!Total, S!Fee, Made, Booked
<1>4. (Signing /\ SignUpNext /\ scene' = scene) \/ (UNCHANGED signups /\ scene' = scene)
  BY DEF MCNext, all
<1> QED BY <1>2, <1>3, <1>4

LEMMA SignUpStart == MCInit => SignUpInv
<1> SUFFICES ASSUME MCInit PROVE SignUpInv OBVIOUS
<1>1. S!SignUpInit BY DEF MCInit
<1>2. SignUpTyped
  <2>1. S!Blank \in S!Jobs /\ S!NoCode \in CodeRows BY BlankJob
  <2>2. code \in [S!Kinds -> CodeRows] BY <1>1, <2>1 DEF S!SignUpInit
  <2>3. codes \in 0..MaxCodes BY <1>1, SignUpAssumption DEF S!SignUpInit
  <2>4. sends \in [count : Nat, sent : Nat, cool : BOOLEAN] BY <1>1 DEF S!SignUpInit
  <2>5. tokens \in Seq(Tokens) /\ charges \in Seq(Charges) /\ Len(tokens) = 0 /\ Len(charges) = 0
    BY <1>1 DEF S!SignUpInit
  <2>6. signup \in [made : BOOLEAN, pin : BOOLEAN, plan : S!Plans \union {"none"}] BY <1>1 DEF S!SignUpInit
  <2>7. receipts = {} /\ feeOn \in BOOLEAN BY <1>1 DEF S!SignUpInit
  <2>8. stage \in [Clients -> S!Places] /\ job \in [Clients -> S!Jobs] BY <1>1, <2>1 DEF S!SignUpInit, S!Places
  <2>9. \A c \in Clients : stage[c] # "answer" BY <1>1 DEF S!SignUpInit
  <2>10. S!SignUpType BY <2>2, <2>3, <2>4, <2>5, <2>6, <2>7, <2>8 DEF S!SignUpType, CodeRows, Tokens, Charges
  <2> QED BY <2>5, <2>9, <2>10, SignUpAssumption DEF SignUpTyped, Reads
<1>3. \A c \in Clients : stage[c] = "idle" BY <1>1 DEF S!SignUpInit
<1>4. tokens = <<>> /\ charges = <<>> /\ receipts = {} /\ codes = 0 /\ ~signup.made
      /\ sends.count = 0 /\ sends.sent = 0
  BY <1>1 DEF S!SignUpInit
<1>5. DOMAIN tokens = {} /\ DOMAIN charges = {} BY <1>4
<1>6. Counted
  <2>1. Lane("send") = 0 /\ Lane("record") = 0 /\ Lane("first") = 0 BY <1>3, LaneEmpty
  <2>2. Cardinality(Clients) \in Nat /\ Cardinality(Clients) # 0
    BY FS_CardinalityType, FS_EmptySet, SignUpAssumption
  <2> QED BY <1>4, <2>1, <2>2, SignUpAssumption DEF Counted
<1>7. Serial
  <2>1. code["signup"].n = 0 BY <1>1 DEF S!SignUpInit, S!Kinds, S!NoCode
  <2> QED BY <1>3, <1>4, <1>5, <2>1 DEF Serial, Unused, S!CodeUsedOnce
<1>8. Charged /\ Made /\ Booked BY <1>3, <1>4, <1>5 DEF Charged, Made, Booked, Making
<1> QED BY <1>2, <1>6, <1>7, <1>8 DEF SignUpInv

\* A number gets no more codes than the counter and the requests that overlap
\* allow, one code one token, and what is recorded of a sign-up is what was paid.
THEOREM SignUpsKeep == MCSpec => []SignUpsHold
<1>1. MCInit => SignUpInv BY SignUpStart
<1>2. SignUpInv /\ [MCNext]_all => SignUpInv' BY SignUpStep
<1>3. SignUpInv => SignUpsHold BY SignUpRest
<1> QED BY <1>1, <1>2, <1>3, PTL DEF MCSpec

-----------------------------------------------------------------------------
(* Quotas                                                                  *)

Subs == [status : Q!Statuses, over : BOOLEAN, spent : 0..MaxUse]
\* One subscription at most is active, and it is the newest that is held.
NewestServes ==
  \A i, j \in DOMAIN subs : Q!Serving(subs[i]) /\ Q!Held(subs[j]) => j <= i
\* A command works on what is still active, and never while a reset is due.
SweepFits ==
  /\ sweep.at # "idle" => ~due
  /\ sweep.at \in {"idle", "between"} => sweep.sub = 0
  /\ sweep.at = "daily" => sweep.sub # 0
  /\ sweep.sub # 0 => sweep.sub \in DOMAIN subs /\ Q!Serving(subs[sweep.sub])
Served == \E i \in DOMAIN subs : Q!Serving(subs[i])
\* What the reset that is due will find.
ResetFits == due => ~today.exceeded /\ (~yesterday /\ Served => group = "plan")
Limited ==
  /\ attributes = Q!Groups /\ (password <=> group # "none") /\ Q!NobodyUnlimited
  /\ NewestServes /\ SweepFits /\ ResetFits
  /\ Q!ServedHasPlan /\ Q!QuotaHolds
  /\ Served /\ ~today.exceeded /\ ~due => group = "plan"
LimitsInv ==
  /\ Q!TypeOK /\ Len(subs) <= MaxSubs
  /\ scene = "limits" => Limited
  /\ scene # "limits" => sweep.sub = 0

QuotaRows ==
  /\ limits \in Q!Limits /\ offered \subseteq Q!Groups /\ attributes \subseteq Q!Groups
  /\ syncing \subseteq Q!Groups
  /\ subs \in Seq(Subs) /\ subs \in [1..Len(subs) -> Subs] /\ DOMAIN subs = 1..Len(subs)
  /\ Len(subs) \in Nat /\ Len(subs) <= MaxSubs
  /\ group \in Q!Groups \union {"none"} /\ password \in BOOLEAN
  /\ session \in {"none", "limited", "free"}
  /\ today \in [used : 0..MaxUse, exceeded : BOOLEAN] /\ yesterday \in BOOLEAN /\ due \in BOOLEAN
  /\ sweep \in [at : {"idle", "time", "between", "daily"}, sub : 0..MaxSubs]
LEMMA QuotaFacts == ASSUME LimitsInv PROVE QuotaRows
<1>1. subs \in Seq(Subs) BY DEF LimitsInv, Q!TypeOK, Subs
<1>2. subs \in [1..Len(subs) -> Subs] /\ DOMAIN subs = 1..Len(subs) /\ Len(subs) \in Nat BY <1>1
<1> QED BY <1>1, <1>2 DEF LimitsInv, Q!TypeOK, QuotaRows

\* Rows of the same number, each with its own fields.
LEMMA SubsKept ==
  ASSUME LimitsInv, NEW f, f \in [DOMAIN subs -> Subs]
  PROVE  f \in Seq(Subs) /\ Len(f) = Len(subs) /\ DOMAIN f = DOMAIN subs
<1>1. PICK n \in Nat : n = Len(subs) /\ DOMAIN subs = 1..n BY QuotaFacts DEF QuotaRows
<1>2. f \in [1..n -> Subs] BY <1>1
<1>3. f \in Seq(Subs) BY <1>2
<1> QED BY <1>1, <1>2, <1>3, SMTT(30)

LEMMA StatusSet ==
  ASSUME LimitsInv, NEW i \in DOMAIN subs, NEW x \in Q!Statuses, NEW f, f = [subs EXCEPT ![i].status = x]
  PROVE  /\ f \in [DOMAIN subs -> Subs]
         /\ \A j \in DOMAIN subs : f[j].status = IF j = i THEN x ELSE subs[j].status
<1>1. subs \in [DOMAIN subs -> Subs] BY QuotaFacts DEF QuotaRows
<1> QED BY <1>1 DEF Subs

\* The newest row of a kind.
LEMMA Newest ==
  ASSUME LimitsInv, NEW R, R \subseteq DOMAIN subs, R # {}
  PROVE  LET i == CHOOSE k \in R : \A j \in R : j <= k IN i \in R /\ \A j \in R : j <= i
<1>1. PICK n \in Nat : DOMAIN subs = 1..n BY QuotaFacts DEF QuotaRows
<1> DEFINE T == {n - j : j \in R}
<1>2. T \subseteq Nat /\ T # {} BY <1>1
<1>3. PICK m \in T : \A k \in T : m <= k BY <1>2, LeastIndex
<1>4. PICK i \in R : m = n - i BY <1>3
<1>5. \A j \in R : j <= i
  <2> SUFFICES ASSUME NEW j \in R PROVE j <= i OBVIOUS
  <2>1. m <= n - j BY <1>3
  <2> QED BY <1>1, <1>4, <2>1
<1> QED BY <1>5

LEMMA CurrentServes ==
  ASSUME LimitsInv, scene = "limits"
  PROVE  /\ Q!Current # 0 <=> Served
         /\ Q!Current # 0 => Q!Current \in DOMAIN subs /\ Q!Serving(subs[Q!Current])
<1> DEFINE found == {i \in DOMAIN subs : Q!Serving(subs[i])}
           c == CHOOSE i \in found : \A j \in found : j <= i
<1>1. Q!Current = IF found = {} THEN 0 ELSE c BY DEF Q!Current
<1>2. found # {} <=> Served BY DEF Served
<1>3. ASSUME found # {} PROVE c \in found
  <2>1. found \subseteq DOMAIN subs OBVIOUS
  <2> HIDE DEF found
  <2> QED BY <1>3, <2>1, Newest
<1>4. 0 \notin DOMAIN subs BY QuotaFacts DEF QuotaRows
<1> HIDE DEF c
<1> QED BY <1>1, <1>2, <1>3, <1>4

LEMMA QuotasTypeLimits ==
  ASSUME LimitsInv,
         \/ scene = "limits" /\ (Q!Sweeping \/ Q!Reset \/ Q!Use \/ Q!Midnight)
         \/ scene = "limits" /\ \E i \in DOMAIN subs : Q!Lapse(i) \/ Q!Expire(i)
  PROVE  Q!TypeOK' /\ Len(subs') <= MaxSubs
<1>f. QuotaRows BY QuotaFacts
<1> USE <1>f DEF QuotaRows
<1>s. ASSUME subs' \in [DOMAIN subs -> Subs]
      PROVE  subs' \in Seq([status : Q!Statuses, over : BOOLEAN, spent : 0..MaxUse]) /\ Len(subs') <= MaxSubs
  BY <1>s, SubsKept DEF Subs
<1>d. subs \in [DOMAIN subs -> Subs] OBVIOUS
<1>g. "plan" \in Q!Groups /\ "fallback" \in Q!Groups /\ "throttle" \in Q!Groups BY DEF Q!Groups
<1>c. scene = "limits" => Q!Current \in 0..MaxSubs
  BY CurrentServes, LimitsAssumption
<1>1. CASE scene = "limits" /\ (Q!SweepBegin \/ Q!SweepDaily)
  <2>1. UNCHANGED <<limits, offered, attributes, syncing, subs, group, password, session, today, yesterday, due>>
    BY <1>1 DEF Q!SweepBegin, Q!SweepDaily, Q!plans, Q!radius, Q!day
  <2>2. sweep' \in [at : {"idle", "time", "between", "daily"}, sub : 0..MaxSubs]
    BY <1>1, <1>c, LimitsAssumption DEF Q!SweepBegin, Q!SweepDaily
  <2> QED BY <1>s, <1>d, <2>1, <2>2 DEF Q!TypeOK
<1>2. CASE scene = "limits" /\ Q!CheckTime
  <2>1. UNCHANGED <<limits, offered, attributes, syncing, today, yesterday, due>>
        /\ sweep' = [at |-> "between", sub |-> 0]
    BY <1>2 DEF Q!CheckTime, Q!plans, Q!day
  <2>2. sweep' \in [at : {"idle", "time", "between", "daily"}, sub : 0..MaxSubs]
    BY <2>1, LimitsAssumption
  <2>3. \/ UNCHANGED <<subs, group, password, session>>
        \/ /\ sweep.sub # 0 /\ \E x \in {"limited", "expired"} : subs' = [subs EXCEPT ![sweep.sub].status = x]
           /\ group' \in {"fallback", "none"} /\ password' \in BOOLEAN /\ session' = "none"
    BY <1>2 DEF Q!CheckTime, Q!radius, Q!Assigned, Q!Removed, Q!Kicked, Q!Capped
  <2>4. CASE UNCHANGED <<subs, group, password, session>>
    BY <1>s, <1>d, <2>1, <2>2, <2>4 DEF Q!TypeOK
  <2>5. ASSUME sweep.sub # 0, NEW x \in {"limited", "expired"}, subs' = [subs EXCEPT ![sweep.sub].status = x],
               group' \in {"fallback", "none"}, password' \in BOOLEAN, session' = "none"
        PROVE  Q!TypeOK' /\ Len(subs') <= MaxSubs
    <3>1. PICK i \in DOMAIN subs : i = sweep.sub BY <1>2, <2>5 DEF LimitsInv, Limited, SweepFits
    <3>2. x \in Q!Statuses BY DEF Q!Statuses
    <3>3. subs' \in [DOMAIN subs -> Subs] BY <2>5, <3>1, <3>2, StatusSet
    <3> QED BY <1>s, <1>g, <2>1, <2>2, <2>5, <3>3 DEF Q!TypeOK
  <2> QED BY <2>3, <2>4, <2>5
<1>3. CASE Q!CheckDaily
  <2>1. UNCHANGED <<limits, offered, attributes, syncing, subs, yesterday, due>>
        /\ sweep' = [at |-> "idle", sub |-> 0]
    BY <1>3 DEF Q!CheckDaily, Q!plans
  <2>2. sweep' \in [at : {"idle", "time", "between", "daily"}, sub : 0..MaxSubs]
    BY <2>1, LimitsAssumption
  <2>3. today' \in [used : 0..MaxUse, exceeded : BOOLEAN]
    <3>1. today' = today \/ today' = [today EXCEPT !.exceeded = TRUE] BY <1>3 DEF Q!CheckDaily
    <3> QED BY <3>1
  <2>4. group' \in Q!Groups \union {"none"} /\ password' \in BOOLEAN /\ session' \in {"none", "limited", "free"}
    BY <1>3, <1>g DEF Q!CheckDaily, Q!radius, Q!Assigned, Q!Removed, Q!Kicked
  <2> QED BY <1>s, <1>d, <2>1, <2>2, <2>3, <2>4 DEF Q!TypeOK
<1>4. CASE Q!Reset
  <2> DEFINE held == {i \in DOMAIN subs : Q!Held(subs[i])}
             n == CHOOSE i \in held : \A j \in held : j <= i
  <2>1. UNCHANGED <<limits, offered, attributes, syncing, today, yesterday, sweep>> /\ due' = FALSE
    BY <1>4 DEF Q!Reset, Q!plans
  <2>2. \/ UNCHANGED <<subs, group, password, session>>
        \/ /\ held # {} /\ subs' = [subs EXCEPT ![n].status = "active"]
           /\ group' = "plan" /\ password' = TRUE /\ session' = "none"
    BY <1>4 DEF Q!Reset, Q!radius, Q!Assigned, Q!Kicked
  <2>3. CASE UNCHANGED <<subs, group, password, session>>
    BY <1>s, <1>d, <2>1, <2>3 DEF Q!TypeOK
  <2>4. CASE /\ held # {} /\ subs' = [subs EXCEPT ![n].status = "active"]
             /\ group' = "plan" /\ password' = TRUE /\ session' = "none"
    <3>1. held \subseteq DOMAIN subs OBVIOUS
    <3> HIDE DEF held
    <3>2. n \in held BY <2>4, <3>1, Newest
    <3>3. PICK i \in DOMAIN subs : i = n BY <3>1, <3>2
    <3> HIDE DEF n
    <3>4. "active" \in Q!Statuses BY DEF Q!Statuses
    <3>5. subs' \in [DOMAIN subs -> Subs] BY <2>4, <3>3, <3>4, StatusSet
    <3> QED BY <1>s, <1>g, <2>1, <2>4, <3>5 DEF Q!TypeOK
  <2> QED BY <2>2, <2>3, <2>4
<1>5. CASE Q!Use
  <2>1. /\ UNCHANGED <<limits, offered, attributes, syncing, group, password, session, yesterday, due, sweep>>
        /\ today.used < MaxUse /\ today' = [today EXCEPT !.used = @ + 1]
        /\ subs' = [i \in DOMAIN subs |-> [subs[i] EXCEPT !.spent = IF @ < MaxUse THEN @ + 1 ELSE @]]
    BY <1>5 DEF Q!Use, Q!plans, Q!radius
  <2>2. today' \in [used : 0..MaxUse, exceeded : BOOLEAN]
    <3>1. today.used + 1 \in 0..MaxUse BY <2>1, LimitsAssumption
    <3> QED BY <2>1, <3>1
  <2>3. ASSUME NEW i \in DOMAIN subs PROVE [subs[i] EXCEPT !.spent = IF @ < MaxUse THEN @ + 1 ELSE @] \in Subs
    <3>1. PICK s \in Subs : s = subs[i] OBVIOUS
    <3>2. (IF s.spent < MaxUse THEN s.spent + 1 ELSE s.spent) \in 0..MaxUse
      BY LimitsAssumption DEF Subs
    <3>3. [s EXCEPT !.spent = IF @ < MaxUse THEN @ + 1 ELSE @] \in Subs BY <3>2 DEF Subs
    <3> QED BY <3>1, <3>3
  <2>4. subs' \in [DOMAIN subs -> Subs] BY <2>1, <2>3
  <2> QED BY <1>s, <2>1, <2>2, <2>4 DEF Q!TypeOK
<1>6. CASE Q!Midnight
  <2>1. /\ UNCHANGED <<limits, offered, attributes, syncing, subs, group, password, session, sweep>>
        /\ due' = TRUE /\ yesterday' = today.exceeded /\ today' = [used |-> 0, exceeded |-> FALSE]
    BY <1>6 DEF Q!Midnight, Q!NewDay, Q!plans, Q!radius
  <2>2. today' \in [used : 0..MaxUse, exceeded : BOOLEAN] /\ yesterday' \in BOOLEAN
    BY <2>1, LimitsAssumption
  <2> QED BY <1>s, <1>d, <2>1, <2>2 DEF Q!TypeOK
<1>7. ASSUME NEW i \in DOMAIN subs, Q!Lapse(i) \/ Q!Expire(i) PROVE Q!TypeOK' /\ Len(subs') <= MaxSubs
  <2>1. /\ UNCHANGED <<limits, offered, attributes, syncing, today, yesterday, due, sweep>>
        /\ subs' = [subs EXCEPT ![i].over = TRUE] \/ subs' = [subs EXCEPT ![i].status = "expired"]
        /\ group' \in {group, "none"} /\ password' \in BOOLEAN /\ session' \in {session, "none"}
    BY <1>7 DEF Q!Lapse, Q!Expire, Q!plans, Q!radius, Q!day, Q!Removed, Q!Kicked
  <2>2. subs' \in [DOMAIN subs -> Subs]
    <3>1. "expired" \in Q!Statuses BY DEF Q!Statuses
    <3>2. subs[i] \in Subs OBVIOUS
    <3>3. [subs[i] EXCEPT !.over = TRUE] \in Subs /\ [subs[i] EXCEPT !.status = "expired"] \in Subs
      BY <3>1, <3>2 DEF Subs
    <3> QED BY <2>1, <3>3
  <2> QED BY <1>s, <2>1, <2>2 DEF Q!TypeOK
<1> QED BY <1>1, <1>2, <1>3, <1>4, <1>5, <1>6, <1>7 DEF Q!Sweeping

LEMMA QuotasTypeOthers ==
  ASSUME LimitsInv, Q!Buy \/ Q!Login \/ Q!Connect \/ Q!Leave \/ \E p \in Q!Groups : Q!Manage(p)
  PROVE  Q!TypeOK' /\ Len(subs') <= MaxSubs /\ sweep' = sweep
<1>f. QuotaRows BY QuotaFacts
<1> USE <1>f DEF QuotaRows
<1>s. ASSUME subs' \in [DOMAIN subs -> Subs]
      PROVE  subs' \in Seq([status : Q!Statuses, over : BOOLEAN, spent : 0..MaxUse]) /\ Len(subs') <= MaxSubs
  BY <1>s, SubsKept DEF Subs
<1>d. subs \in [DOMAIN subs -> Subs] OBVIOUS
<1>1. CASE Q!Buy
  <2> DEFINE old == [i \in DOMAIN subs |-> Q!Ended(subs[i])]
             new == [status |-> "active", over |-> FALSE, spent |-> 0]
  <2>1. /\ UNCHANGED <<limits, offered, attributes, syncing, session, today, yesterday, due, sweep>>
        /\ Len(subs) < MaxSubs /\ subs' = Append(old, new) /\ group' = "plan" /\ password' = TRUE
    BY <1>1 DEF Q!Buy, Q!plans, Q!day, Q!Assigned
  <2>2. old \in [DOMAIN subs -> Subs]
    <3>1. ASSUME NEW i \in DOMAIN subs PROVE Q!Ended(subs[i]) \in Subs
      <4>1. subs[i] \in Subs OBVIOUS
      <4> QED BY <4>1 DEF Q!Ended, Subs, Q!Statuses
    <3> QED BY <3>1
  <2>3. new \in Subs BY LimitsAssumption DEF Subs, Q!Statuses
  <2>4. old \in Seq(Subs) /\ Len(old) = Len(subs) BY <2>2, SubsKept
  <2> HIDE DEF old, new
  <2>5. subs' \in Seq(Subs) /\ Len(subs') = Len(subs) + 1 BY <2>1, <2>3, <2>4, RowAdded
  <2>6. Len(subs') <= MaxSubs BY <2>1, <2>5, LimitsAssumption
  <2> QED BY <2>1, <2>5, <2>6 DEF Q!TypeOK, Subs, Q!Groups
<1>2. CASE Q!Login \/ Q!Connect \/ Q!Leave
  <2>1. UNCHANGED <<limits, offered, attributes, syncing, subs, today, yesterday, due, sweep>>
    BY <1>2 DEF Q!Login, Q!Connect, Q!Leave, Q!plans, Q!day
  <2>2. group' \in Q!Groups \union {"none"} /\ password' \in BOOLEAN /\ session' \in {"none", "limited", "free"}
    BY <1>2 DEF Q!Login, Q!Connect, Q!Leave, Q!Assigned, Q!Removed, Q!Kicked, Q!Groups
  <2> QED BY <1>s, <1>d, <2>1, <2>2 DEF Q!TypeOK
<1>3. ASSUME NEW p \in Q!Groups, Q!Manage(p) PROVE Q!TypeOK' /\ Len(subs') <= MaxSubs /\ sweep' = sweep
  <2>1. UNCHANGED <<subs, password, session, today, yesterday, due, sweep>>
    BY <1>3 DEF Q!Manage, Q!Edit, Q!Toggle, Q!Sync, Q!Delete, Q!radius, Q!day
  <2>2. offered' \subseteq Q!Groups /\ attributes' \subseteq Q!Groups /\ syncing' \subseteq Q!Groups
        /\ group' \in Q!Groups \union {"none"}
    BY <1>3 DEF Q!Manage, Q!Edit, Q!Toggle, Q!Sync, Q!Delete, Q!Synced, Q!radius
  <2>3. limits' \in Q!Limits
    <3>1. \/ limits' = limits
          \/ limits' = [limits EXCEPT !.fallback = @ /\ p # "fallback", !.throttle = @ /\ p # "throttle"]
      BY <1>3 DEF Q!Manage, Q!Edit, Q!Toggle, Q!Sync, Q!Delete
    <3> QED BY <3>1 DEF Q!Limits
  <2> QED BY <1>s, <1>d, <2>1, <2>2, <2>3 DEF Q!TypeOK
<1> QED BY <1>1, <1>2, <1>3

\* Statuses that no longer serve keep what is said of the newest.
LEMMA ServesStill ==
  ASSUME NewestServes, DOMAIN subs' = DOMAIN subs,
         \A j \in DOMAIN subs : \/ subs'[j].status = subs[j].status
                                \/ subs'[j].status = "expired"
                                \/ subs'[j].status = "limited" /\ subs[j].status = "active"
  PROVE  NewestServes' /\ (Served' => Served)
BY DEF NewestServes, Served, Q!Serving, Q!Held

LEMMA ServedSame ==
  ASSUME DOMAIN subs' = DOMAIN subs, \A j \in DOMAIN subs : subs'[j].status = subs[j].status
  PROVE  (NewestServes <=> NewestServes') /\ (Served <=> Served')
         /\ ((\E i \in DOMAIN subs : subs[i].status \in {"active", "limited"})
               <=> \E i \in DOMAIN subs' : subs'[i].status \in {"active", "limited"})
BY DEF NewestServes, Served, Q!Serving, Q!Held

\* What leaves subscriptions, group and the day as they are.
LEMMA LimitedKept ==
  ASSUME LimitsInv, scene = "limits", DOMAIN subs' = DOMAIN subs,
         \A j \in DOMAIN subs : subs'[j].status = subs[j].status,
         attributes' = attributes, group' = group, password' = password, session' # "free",
         today'.exceeded = today.exceeded, yesterday' = yesterday, due' = due, sweep' = sweep
  PROVE  Limited'
<1>1. Limited BY DEF LimitsInv
<1>2. NewestServes' /\ (Served <=> Served') BY <1>1, ServedSame DEF Limited
<1>3. Q!ServedHasPlan' BY <1>1, ServedSame DEF Limited, Q!ServedHasPlan
<1>4. SweepFits' BY <1>1 DEF Limited, SweepFits, Q!Serving
<1>5. ResetFits' BY <1>1, <1>2 DEF Limited, ResetFits
<1> QED BY <1>1, <1>2, <1>3, <1>4, <1>5 DEF Limited, Q!NobodyUnlimited, Q!QuotaHolds

LEMMA LimitedCommands ==
  ASSUME LimitsInv, scene = "limits", ~due /\ Q!Sweeping
  PROVE  Limited'
<1>f. QuotaRows BY QuotaFacts
<1> USE <1>f DEF QuotaRows
<1>l. Limited BY DEF LimitsInv
<1>1. CASE Q!SweepBegin \/ Q!SweepDaily
  <2>1. /\ UNCHANGED <<attributes, subs, group, password, session, today, yesterday, due>>
        /\ \/ sweep' = [at |-> "time", sub |-> Q!Current] \/ sweep' = [at |-> "idle", sub |-> 0]
           \/ sweep' = [at |-> "daily", sub |-> Q!Current] /\ Q!Current # 0
    BY <1>1 DEF Q!SweepBegin, Q!SweepDaily, Q!plans, Q!radius, Q!day
  <2>2. SweepFits' BY <2>1, CurrentServes DEF SweepFits
  <2> QED BY <1>l, <2>1, <2>2 DEF Limited, Q!NobodyUnlimited, Q!QuotaHolds, Q!ServedHasPlan, NewestServes, Served,
                                  ResetFits
<1>2. CASE Q!CheckTime
  <2>1. /\ UNCHANGED <<attributes, today, yesterday, due>> /\ sweep' = [at |-> "between", sub |-> 0]
    BY <1>2 DEF Q!CheckTime, Q!plans, Q!day
  <2>2. SweepFits' BY <2>1 DEF SweepFits
  <2>3. \/ UNCHANGED <<subs, group, password, session>>
        \/ /\ sweep.sub # 0 /\ session' = "none"
           /\ \/ subs' = [subs EXCEPT ![sweep.sub].status = "limited"] /\ group' = "fallback" /\ password'
              \/ subs' = [subs EXCEPT ![sweep.sub].status = "expired"] /\ group' = "none" /\ ~password'
    BY <1>2 DEF Q!CheckTime, Q!radius, Q!Assigned, Q!Removed, Q!Kicked, Q!Capped
  <2>4. CASE UNCHANGED <<subs, group, password, session>>
    BY <1>l, <2>1, <2>2, <2>4 DEF Limited, Q!NobodyUnlimited, Q!QuotaHolds, Q!ServedHasPlan, NewestServes,
                                  Served, ResetFits
  <2>5. ASSUME sweep.sub # 0, session' = "none", NEW x \in {"limited", "expired"},
               subs' = [subs EXCEPT ![sweep.sub].status = x],
               group' = (IF x = "limited" THEN "fallback" ELSE "none"), password' <=> x = "limited"
        PROVE  Limited'
    <3>1. PICK i \in DOMAIN subs : i = sweep.sub /\ Q!Serving(subs[i]) BY <1>l, <2>5 DEF Limited, SweepFits
    <3>2. x \in Q!Statuses BY DEF Q!Statuses
    <3>3. /\ DOMAIN subs' = DOMAIN subs
          /\ \A j \in DOMAIN subs : subs'[j].status = IF j = i THEN x ELSE subs[j].status
      BY <2>5, <3>1, <3>2, StatusSet
    <3>4. NewestServes' BY <1>l, <3>1, <3>3, ServesStill DEF Limited, Q!Serving
    <3>5. \A j \in DOMAIN subs : Q!Serving(subs[j]) => j = i
      <4>1. \A j \in DOMAIN subs : Q!Serving(subs[j]) => j <= i /\ i <= j
        BY <1>l, <3>1 DEF Limited, NewestServes, Q!Held, Q!Serving
      <4> QED BY <4>1
    <3>6. ~Served' BY <3>3, <3>5 DEF Served, Q!Serving
    <3>7. Q!ServedHasPlan' BY <2>5, <3>3 DEF Q!ServedHasPlan
    <3> QED BY <1>l, <2>1, <2>2, <2>5, <3>4, <3>6, <3>7 DEF Limited, Q!NobodyUnlimited, Q!QuotaHolds, ResetFits
  <2> QED BY <2>3, <2>4, <2>5
<1>3. CASE Q!CheckDaily
  <2>1. /\ UNCHANGED <<attributes, subs, yesterday, due>> /\ sweep' = [at |-> "idle", sub |-> 0]
        /\ sweep.at = "daily"
    BY <1>3 DEF Q!CheckDaily, Q!plans
  <2>2. SweepFits' BY <2>1 DEF SweepFits
  <2>3. \/ UNCHANGED <<today, group, password, session>>
        \/ /\ today' = [today EXCEPT !.exceeded = TRUE] /\ session' = "none"
           /\ (group' = "throttle" /\ password') \/ (group' = "none" /\ ~password')
           /\ limits.throttle \/ group' = "none"
    BY <1>3 DEF Q!CheckDaily, Q!radius, Q!Assigned, Q!Removed, Q!Kicked
  <2>4. CASE UNCHANGED <<today, group, password, session>>
    BY <1>l, <2>1, <2>2, <2>4 DEF Limited, Q!NobodyUnlimited, Q!QuotaHolds, Q!ServedHasPlan, NewestServes,
                                  Served, ResetFits
  <2>5. CASE /\ today' = [today EXCEPT !.exceeded = TRUE] /\ session' = "none"
             /\ (group' = "throttle" /\ password') \/ (group' = "none" /\ ~password')
    <3>1. today'.exceeded BY <2>5
    <3>2. ~due' BY <2>1
    <3>3. NewestServes' BY <1>l, <2>1 DEF Limited, NewestServes
    <3>4. Q!ServedHasPlan'
      <4>1. sweep.sub \in DOMAIN subs /\ subs[sweep.sub].status = "active"
        BY <1>l, <2>1 DEF Limited, SweepFits, Q!Serving
      <4> QED BY <2>1, <4>1 DEF Q!ServedHasPlan
    <3> QED BY <1>l, <2>1, <2>2, <2>5, <3>1, <3>2, <3>3, <3>4 DEF Limited, Q!NobodyUnlimited, Q!QuotaHolds, ResetFits
  <2> QED BY <2>3, <2>4, <2>5
<1> QED BY <1>1, <1>2, <1>3 DEF Q!Sweeping

LEMMA LimitedReset ==
  ASSUME LimitsInv, scene = "limits", Q!Reset
  PROVE  Limited'
<1>f. QuotaRows BY QuotaFacts
<1> USE <1>f DEF QuotaRows
<1>l. Limited BY DEF LimitsInv
<1> DEFINE held == {i \in DOMAIN subs : Q!Held(subs[i])}
           n == CHOOSE i \in held : \A j \in held : j <= i
<1>1. UNCHANGED <<attributes, today, yesterday, sweep>> /\ due /\ ~due'
  BY DEF Q!Reset, Q!plans
<1>2. SweepFits /\ ResetFits BY <1>l DEF Limited
<1>3. sweep.at = "idle" /\ ~today.exceeded /\ (~yesterday /\ Served => group = "plan")
  BY <1>1, <1>2 DEF SweepFits, ResetFits
<1>4. \/ UNCHANGED <<subs, group, password, session>> /\ (~yesterday \/ held = {})
      \/ /\ held # {} /\ subs' = [subs EXCEPT ![n].status = "active"]
         /\ group' = "plan" /\ password' /\ session' = "none"
  BY DEF Q!Reset, Q!radius, Q!Assigned, Q!Kicked
<1>5. CASE UNCHANGED <<subs, group, password, session>> /\ (~yesterday \/ held = {})
  <2>1. held = {} => ~Served BY DEF Served, Q!Serving, Q!Held
  <2>2. Served => group = "plan" BY <1>3, <1>5, <2>1
  <2>3. SweepFits' BY <1>1, <1>2, <1>5 DEF SweepFits
  <2> QED BY <1>l, <1>1, <1>3, <1>5, <2>2, <2>3 DEF Limited, Q!NobodyUnlimited, Q!QuotaHolds, Q!ServedHasPlan,
                                                    NewestServes, Served, ResetFits
<1>6. CASE /\ held # {} /\ subs' = [subs EXCEPT ![n].status = "active"]
           /\ group' = "plan" /\ password' /\ session' = "none"
  <2>1. held \subseteq DOMAIN subs /\ \A j : j \in held <=> j \in DOMAIN subs /\ Q!Held(subs[j]) OBVIOUS
  <2> HIDE DEF held
  <2>2. n \in held /\ \A j \in held : j <= n BY <1>6, <2>1, Newest
  <2>3. PICK i \in DOMAIN subs : i = n /\ Q!Held(subs[i]) BY <2>1, <2>2
  <2>4. \A j \in DOMAIN subs : Q!Held(subs[j]) => j <= i BY <2>1, <2>2, <2>3
  <2> HIDE DEF n
  <2>5. "active" \in Q!Statuses BY DEF Q!Statuses
  <2>6. /\ DOMAIN subs' = DOMAIN subs
        /\ \A j \in DOMAIN subs : subs'[j].status = IF j = i THEN "active" ELSE subs[j].status
    BY <1>6, <2>3, <2>5, StatusSet
  <2>7. \A j \in DOMAIN subs : Q!Serving(subs[j]) => j = i
    <3>1. \A j \in DOMAIN subs : Q!Serving(subs[j]) => j <= i /\ i <= j
      BY <1>l, <2>3, <2>4 DEF Limited, NewestServes, Q!Held, Q!Serving
    <3> QED BY <3>1
  <2>8. NewestServes'
    <3>1. \A j \in DOMAIN subs : Q!Serving(subs'[j]) => j = i BY <2>6, <2>7 DEF Q!Serving
    <3>2. \A j \in DOMAIN subs : Q!Held(subs'[j]) => j <= i BY <2>3, <2>4, <2>6 DEF Q!Held
    <3> QED BY <2>6, <3>1, <3>2 DEF NewestServes
  <2>9. Q!ServedHasPlan' BY <2>3, <2>6 DEF Q!ServedHasPlan
  <2>10. SweepFits'
    <3>1. sweep'.sub # 0 => sweep.sub \in DOMAIN subs /\ Q!Serving(subs[sweep.sub]) BY <1>1, <1>2 DEF SweepFits
    <3>2. sweep'.sub # 0 => sweep.sub = i BY <2>7, <3>1
    <3> QED BY <1>1, <1>3, <2>3, <2>6, <3>2, <1>2 DEF SweepFits, Q!Serving
  <2> QED BY <1>l, <1>1, <1>3, <1>6, <2>8, <2>9, <2>10 DEF Limited, Q!NobodyUnlimited, Q!QuotaHolds, ResetFits
<1> QED BY <1>4, <1>5, <1>6

LEMMA LimitedPeople ==
  ASSUME LimitsInv, scene = "limits",
         \/ Still /\ (Q!Midnight \/ \E i \in DOMAIN subs : Q!Lapse(i) \/ Q!Expire(i))
         \/ Still /\ ~today.exceeded /\ (Q!Buy \/ Q!Login)
         \/ Q!Connect \/ Q!Leave \/ Q!Use
  PROVE  Limited'
<1>f. QuotaRows BY QuotaFacts
<1> USE <1>f DEF QuotaRows
<1>l. Limited BY DEF LimitsInv
<1>1. CASE Still /\ Q!Midnight
  <2>1. /\ UNCHANGED <<attributes, subs, group, password, session, sweep>>
        /\ due' = TRUE /\ yesterday' = today.exceeded /\ today' = [used |-> 0, exceeded |-> FALSE]
        /\ sweep.at = "idle" /\ ~due
    BY <1>1 DEF Q!Midnight, Q!NewDay, Q!plans, Q!radius, Still
  <2>2. SweepFits' BY <1>l, <2>1 DEF Limited, SweepFits
  <2>3. ResetFits' BY <1>l, <2>1 DEF Limited, ResetFits, Served
  <2> QED BY <1>l, <2>1, <2>2, <2>3 DEF Limited, Q!NobodyUnlimited, Q!QuotaHolds, Q!ServedHasPlan, NewestServes,
                                        Served
<1>2. ASSUME NEW i \in DOMAIN subs, Q!Lapse(i) PROVE Limited'
  <2>1. /\ UNCHANGED <<attributes, group, password, session, today, yesterday, due, sweep>>
        /\ subs' = [subs EXCEPT ![i].over = TRUE]
    BY <1>2 DEF Q!Lapse, Q!plans, Q!radius, Q!day
  <2>2. DOMAIN subs' = DOMAIN subs /\ \A j \in DOMAIN subs : subs'[j].status = subs[j].status
    BY <2>1 DEF Subs
  <2>3. session # "free" BY <1>l DEF Limited, Q!NobodyUnlimited
  <2> QED BY <2>1, <2>2, <2>3, LimitedKept
<1>3. ASSUME NEW i \in DOMAIN subs, Still, Q!Expire(i) PROVE Limited'
  <2>1. /\ UNCHANGED <<attributes, today, yesterday, due, sweep>> /\ Q!Serving(subs[i])
        /\ subs' = [subs EXCEPT ![i].status = "expired"] /\ group' = "none" /\ ~password' /\ session' = "none"
        /\ sweep.at = "idle" /\ ~due
    BY <1>3 DEF Q!Expire, Q!plans, Q!day, Q!Removed, Q!Kicked, Still
  <2>2. "expired" \in Q!Statuses BY DEF Q!Statuses
  <2>3. /\ DOMAIN subs' = DOMAIN subs
        /\ \A j \in DOMAIN subs : subs'[j].status = IF j = i THEN "expired" ELSE subs[j].status
    BY <2>1, <2>2, StatusSet
  <2>4. NewestServes' BY <1>l, <2>3, ServesStill DEF Limited
  <2>5. \A j \in DOMAIN subs : Q!Serving(subs[j]) => j = i
    <3>1. \A j \in DOMAIN subs : Q!Serving(subs[j]) => j <= i /\ i <= j
      BY <1>l, <2>1 DEF Limited, NewestServes, Q!Held, Q!Serving
    <3> QED BY <3>1
  <2>6. ~Served' BY <2>3, <2>5 DEF Served, Q!Serving
  <2>7. SweepFits' BY <1>l, <2>1 DEF Limited, SweepFits
  <2> QED BY <1>l, <2>1, <2>4, <2>6, <2>7 DEF Limited, Q!NobodyUnlimited, Q!QuotaHolds, Q!ServedHasPlan, ResetFits
<1>4. CASE Still /\ ~today.exceeded /\ Q!Buy
  <2> DEFINE old == [i \in DOMAIN subs |-> Q!Ended(subs[i])]
             new == [status |-> "active", over |-> FALSE, spent |-> 0]
  <2>1. /\ UNCHANGED <<attributes, session, today, yesterday, due, sweep>>
        /\ subs' = Append(old, new) /\ group' = "plan" /\ password'
        /\ sweep.at = "idle" /\ ~due /\ ~today.exceeded
    BY <1>4, SMTT(30) DEF Q!Buy, Q!plans, Q!day, Q!Assigned, Still
  <2>2. PICK k \in Nat : k = Len(subs) /\ DOMAIN subs = 1..k OBVIOUS
  <2>3. old \in [1..k -> Subs]
    <3>1. ASSUME NEW i \in DOMAIN subs PROVE Q!Ended(subs[i]) \in Subs
      <4>1. subs[i] \in Subs OBVIOUS
      <4> QED BY <4>1 DEF Q!Ended, Subs, Q!Statuses
    <3> QED BY <2>2, <3>1
  <2>4. new.status = "active" /\ new \in Subs BY LimitsAssumption DEF Subs, Q!Statuses
  <2>5. \A j \in 1..k : old[j].status # "active"
    <3>1. ASSUME NEW j \in 1..k PROVE old[j].status # "active"
      <4>1. subs[j] \in Subs /\ old[j] = Q!Ended(subs[j]) BY <2>2
      <4> QED BY <4>1 DEF Q!Ended, Q!Serving, Subs
    <3> QED BY <3>1
  <2>6. old \in Seq(Subs) /\ Len(old) = k BY <2>2, <2>3
  <2> HIDE DEF old, new
  <2>7. /\ DOMAIN subs' = 1..(k + 1) /\ subs'[k + 1] = new
        /\ \A j \in 1..k : subs'[j] = old[j]
    BY <2>1, <2>2, <2>4, <2>6, RowAdded
  <2>8. NewestServes'
    <3>1. \A j \in DOMAIN subs' : Q!Serving(subs'[j]) => j = k + 1 BY <2>2, <2>5, <2>7 DEF Q!Serving
    <3>2. \A j \in DOMAIN subs' : j <= k + 1 BY <2>2, <2>7
    <3> QED BY <3>1, <3>2 DEF NewestServes
  <2>9. Q!ServedHasPlan'
    <3>1. k + 1 \in DOMAIN subs' BY <2>2, <2>7
    <3> QED BY <2>4, <2>7, <3>1 DEF Q!ServedHasPlan
  <2>10. sweep.sub = 0 \/ Served' BY <2>2, <2>4, <2>7 DEF Served, Q!Serving
  <2>11. SweepFits'
    <3>1. sweep'.sub = 0
      <4>1. sweep.at = "idle" BY <2>1
      <4> QED BY <1>l, <2>1, <4>1 DEF Limited, SweepFits
    <3> QED BY <2>1, <3>1 DEF SweepFits
  <2> QED BY <1>l, <2>1, <2>8, <2>9, <2>11 DEF Limited, Q!NobodyUnlimited, Q!QuotaHolds, ResetFits
<1>5. CASE Still /\ ~today.exceeded /\ Q!Login
  <2>1. /\ UNCHANGED <<attributes, subs, today, yesterday, due, sweep>> /\ session' = "none" /\ ~due
        /\ IF Q!Current # 0 THEN group' = "plan" /\ password' ELSE group' = "none" /\ ~password'
    BY <1>5 DEF Q!Login, Q!plans, Q!day, Q!Assigned, Q!Removed, Q!Kicked, Still
  <2>2. Q!Current # 0 <=> Served BY CurrentServes
  <2>3. Q!ServedHasPlan' BY <2>1, <2>2 DEF Q!ServedHasPlan, Served, Q!Serving
  <2>4. SweepFits' BY <1>l, <2>1 DEF Limited, SweepFits
  <2>5. Served' <=> Served BY <2>1 DEF Served
  <2> QED BY <1>l, <1>5, <2>1, <2>2, <2>3, <2>4, <2>5 DEF Limited, Q!NobodyUnlimited, Q!QuotaHolds, NewestServes,
                                                          ResetFits
<1>6. CASE Q!Connect \/ Q!Leave
  <2>1. UNCHANGED <<attributes, subs, group, password, today, yesterday, due, sweep>>
    BY <1>6 DEF Q!Connect, Q!Leave, Q!plans, Q!day
  <2>2. session' # "free" BY <1>l, <1>6 DEF Q!Connect, Q!Leave, Q!Kicked, Limited
  <2> QED BY <2>1, <2>2, LimitedKept
<1>7. CASE Q!Use
  <2>1. /\ UNCHANGED <<attributes, group, password, session, yesterday, due, sweep>>
        /\ today' = [today EXCEPT !.used = @ + 1]
        /\ subs' = [i \in DOMAIN subs |-> [subs[i] EXCEPT !.spent = IF @ < MaxUse THEN @ + 1 ELSE @]]
    BY <1>7 DEF Q!Use, Q!plans, Q!radius
  <2>2. DOMAIN subs' = DOMAIN subs /\ \A j \in DOMAIN subs : subs'[j].status = subs[j].status
    BY <2>1 DEF Subs
  <2>3. session' # "free" BY <1>l, <2>1 DEF Limited, Q!NobodyUnlimited
  <2>4. today'.exceeded = today.exceeded BY <2>1
  <2> QED BY <2>1, <2>2, <2>3, <2>4, LimitedKept
<1> QED BY <1>1, <1>2, <1>3, <1>4, <1>5, <1>6, <1>7

LEMMA LimitsStep == ASSUME LimitsInv, [MCNext]_all PROVE LimitsInv'
<1>1. CASE Subscriptions /\ QuotasNext /\ scene' = scene
  <2>1. Q!TypeOK' /\ Len(subs') <= MaxSubs
    BY <1>1, QuotasTypeLimits, QuotasTypeOthers DEF QuotasNext
  <2>2. scene' = "limits" => Limited'
    BY <1>1, LimitedCommands, LimitedReset, LimitedPeople DEF QuotasNext
  <2>3. ASSUME scene' # "limits" PROVE sweep'.sub = 0
    <3>1. sweep.sub = 0 BY <1>1, <2>3 DEF LimitsInv
    <3>2. Q!Buy \/ Q!Login \/ Q!Connect \/ Q!Leave \/ \E p \in Q!Groups : Q!Manage(p)
      BY <1>1, <2>3 DEF QuotasNext
    <3>3. sweep' = sweep BY <3>2, QuotasTypeOthers
    <3> QED BY <3>1, <3>3
  <2> QED BY <2>1, <2>2, <2>3 DEF LimitsInv
<1>2. CASE UNCHANGED quotas /\ scene' = scene
  BY <1>2 DEF quotas, LimitsInv, Q!TypeOK, Limited, NewestServes, Served, SweepFits, ResetFits,
              Q!NobodyUnlimited, Q!QuotaHolds, Q!ServedHasPlan
<1>3. (Subscriptions /\ QuotasNext /\ scene' = scene) \/ (UNCHANGED quotas /\ scene' = scene)
  BY DEF MCNext, all
<1> QED BY <1>1, <1>2, <1>3

LEMMA LimitsStart == MCInit => LimitsInv
<1> SUFFICES ASSUME MCInit PROVE LimitsInv OBVIOUS
<1>1. Q!Init BY DEF MCInit
<1>2. subs = <<>> /\ DOMAIN subs = {} /\ Len(subs) = 0 /\ subs \in Seq(Subs) BY <1>1 DEF Q!Init
<1>3. today \in [used : 0..MaxUse, exceeded : BOOLEAN] /\ ~today.exceeded
  BY <1>1, LimitsAssumption DEF Q!Init
<1>4. sweep \in [at : {"idle", "time", "between", "daily"}, sub : 0..MaxSubs]
      /\ sweep.at = "idle" /\ sweep.sub = 0
  BY <1>1, LimitsAssumption DEF Q!Init
<1>5. Q!TypeOK BY <1>1, <1>2, <1>3, <1>4 DEF Q!Init, Q!TypeOK, Subs
<1>6. Limited BY <1>1, <1>2, <1>3, <1>4 DEF Q!Init, Limited, NewestServes, Served, SweepFits, ResetFits,
                                             Q!NobodyUnlimited, Q!QuotaHolds, Q!ServedHasPlan
<1> QED BY <1>2, <1>4, <1>5, <1>6, LimitsAssumption DEF LimitsInv

\* Through expiry, time limits, quotas, resets and logins RADIUS serves a
\* subscriber only while he holds a subscription, never without limits, with his
\* own plan while no quota is exceeded and not with it while one is.
THEOREM ServiceIsHeld == MCSpec => []ServedAsHeld
<1>1. MCInit => LimitsInv BY LimitsStart
<1>2. LimitsInv /\ [MCNext]_all => LimitsInv' BY LimitsStep
<1>3. LimitsInv => ServedAsHeld
  <2> SUFFICES ASSUME LimitsInv, scene = "limits" PROVE Q!PaidIsServed
    BY DEF LimitsInv, ServedAsHeld, Limited
  <2>1. Q!Current # 0 => Served BY CurrentServes
  <2> QED BY <2>1 DEF LimitsInv, Limited, Q!PaidIsServed
<1> QED BY <1>1, <1>2, <1>3, PTL DEF MCSpec

=============================================================================
