------------------------------ MODULE Wallet ------------------------------
(***************************************************************************)
(* The prepaid wallet of a subscriber: balance row, audit ledger, refill   *)
(* cards, and the wallet-paid plan purchase and auto-renewal.              *)
(*                                                                         *)
(* billing/wallet.py runs inside a transaction that holds the wallet row   *)
(* (select_for_update) from the read of the balance to the commit.  The    *)
(* callers (portal_redeem_refill, portal_purchase_from_wallet, the         *)
(* expire_plans timer) run as concurrent workers: one action is one        *)
(* database statement whose effect another worker can see, or one commit.  *)
(* Amounts are naturals in the smallest currency unit.                     *)
(***************************************************************************)
EXTENDS Integers, Sequences, FiniteSets

CONSTANTS Subscribers,  \* accounts.Subscriber rows
          Cards,        \* vouchers.RefillCard rows
          Plans,        \* plans.ServicePlan rows
          Workers,      \* threads that serve a request or run a timer
          CardValue,    \* RefillCard.value_ngn
          Price,        \* ServicePlan.price_ngn
          Fragile,      \* the workers that may be killed in mid-request
          NoOne,        \* "no worker holds the row", "not redeemed"
          NoRequest     \* the arguments of a worker that serves nothing

ASSUME CardValueAssumption == CardValue \in [Cards -> Nat]
ASSUME PriceAssumption == Price \in [Plans -> Nat]
ASSUME FragileAssumption == Fragile \subseteq Workers
ASSUME NoOneAssumption == /\ NoOne \notin Workers
                          /\ NoOne \notin Subscribers

VARIABLES balance,        \* Wallet.balance_ngn of each subscriber
          ledger,         \* the wallet's WalletTransaction rows, oldest first
          lock,           \* the worker that holds the wallet row lock
          card,           \* RefillCard.status and redeemed_by
          subscriptions,  \* plans the wallet paid for, oldest first
          payments,       \* Payment rows with payment_method 'wallet'
          pc,             \* where each worker is in its handler
          req,            \* the handler's arguments
          seen            \* the balance the worker read under the lock

vars == <<balance, ledger, lock, card, subscriptions, payments, pc, req, seen>>

DebitTypes == {"plan_purchase", "plan_renewal"}

\* A WalletTransaction row: signed amount, balance_after, what it refers to.
Entries == [amount : Int, after : Int, type : DebitTypes \cup {"refill_card"},
            ref : Cards \cup Plans]
CardRows == [status : {"unused", "used", "disabled"},
             by : Subscribers \cup {NoOne}]
Requests == [sub : Subscribers, type : DebitTypes \cup {"refill_card"},
             ref : Cards \cup Plans]

Init ==
  /\ balance = [s \in Subscribers |-> 0]
  /\ ledger = [s \in Subscribers |-> <<>>]
  /\ lock = [s \in Subscribers |-> NoOne]
  /\ card = [c \in Cards |-> [status |-> "unused", by |-> NoOne]]
  /\ subscriptions = [s \in Subscribers |-> <<>>]
  /\ payments = [s \in Subscribers |-> <<>>]
  /\ pc = [w \in Workers |-> "idle"]
  /\ req = [w \in Workers |-> NoRequest]
  /\ seen = [w \in Workers |-> 0]

Goto(w, l) == pc' = [pc EXCEPT ![w] = l]
\* The handler returns (or raises): its locals are gone.
Return(w) == /\ Goto(w, "idle")
             /\ req' = [req EXCEPT ![w] = NoRequest]
             /\ seen' = [seen EXCEPT ![w] = 0]
Unlock(s) == lock' = [lock EXCEPT ![s] = NoOne]

-----------------------------------------------------------------------------
(* Refill cards: portal_redeem_refill                                      *)


\* The card is read without a lock; a used or disabled card ends the request.
RedeemLookup(w, s, c) ==
  /\ pc[w] = "idle"
  /\ card[c].status = "unused"
  /\ req' = [req EXCEPT ![w] = [sub |-> s, type |-> "refill_card", ref |-> c]]
  /\ Goto(w, "redeem_save")
  /\ UNCHANGED <<balance, ledger, lock, card, subscriptions, payments, seen>>


\* Fault for mutation: the card is spent and the credit forgotten.
RedeemSave_NoCredit(w) ==
  /\ pc[w] = "redeem_save"
  /\ card' = [card EXCEPT ![req[w].ref] = [status |-> "used", by |-> req[w].sub]]
  /\ Return(w)
  /\ UNCHANGED <<balance, ledger, lock, subscriptions, payments>>

\* card.save() writes the whole row and commits by itself.
RedeemSave(w) ==
  /\ pc[w] = "redeem_save"
  /\ card' = [card EXCEPT ![req[w].ref] = [status |-> "used", by |-> req[w].sub]]
  /\ Goto(w, "credit")
  /\ UNCHANGED <<balance, ledger, lock, subscriptions, payments, req, seen>>

\* The Django admin edits the status of a card nobody has redeemed.
AdminSetCard(c) ==
  /\ \/ card[c].status = "unused" /\ card' = [card EXCEPT ![c].status = "disabled"]
     \/ card[c].status = "disabled" /\ card' = [card EXCEPT ![c].status = "unused"]
  /\ UNCHANGED <<balance, ledger, lock, subscriptions, payments, pc, req, seen>>

-----------------------------------------------------------------------------
(* credit_wallet                                                           *)

\* ValueError: an amount that is not positive.
CreditRefused(w) ==
  /\ pc[w] = "credit"
  /\ CardValue[req[w].ref] <= 0
  /\ Return(w)
  /\ UNCHANGED <<balance, ledger, lock, card, subscriptions, payments>>

\* Fault for mutation: get() instead of select_for_update().
CreditLock_NoLock(w) ==
  LET s == req[w].sub IN
  /\ pc[w] = "credit"
  /\ CardValue[req[w].ref] > 0
  /\ seen' = [seen EXCEPT ![w] = balance[s]]
  /\ Goto(w, "credit_commit")
  /\ UNCHANGED <<balance, ledger, lock, card, subscriptions, payments, req>>

\* get_or_create, then select_for_update: waits for the row, then reads it.
CreditLock(w) ==
  LET s == req[w].sub IN
  /\ pc[w] = "credit"
  /\ CardValue[req[w].ref] > 0
  /\ lock[s] = NoOne
  /\ lock' = [lock EXCEPT ![s] = w]
  /\ seen' = [seen EXCEPT ![w] = balance[s]]
  /\ Goto(w, "credit_commit")
  /\ UNCHANGED <<balance, ledger, card, subscriptions, payments, req>>

\* Save the sum, insert the ledger row, commit.
CreditCommit(w) ==
  LET s == req[w].sub
      sum == seen[w] + CardValue[req[w].ref] IN
  /\ pc[w] = "credit_commit"
  /\ balance' = [balance EXCEPT ![s] = sum]
  /\ ledger' = [ledger EXCEPT ![s] =
                  Append(@, [amount |-> CardValue[req[w].ref], after |-> sum,
                             type |-> req[w].type, ref |-> req[w].ref])]
  /\ Unlock(s)
  /\ Return(w)
  /\ UNCHANGED <<card, subscriptions, payments>>

-----------------------------------------------------------------------------
(* purchase_plan_from_wallet and renew_plan_from_wallet                    *)

PurchaseStart(w, s, p) ==
  /\ pc[w] = "idle"
  /\ req' = [req EXCEPT ![w] = [sub |-> s, type |-> "plan_purchase", ref |-> p]]
  /\ Goto(w, "debit")
  /\ UNCHANGED <<balance, ledger, lock, card, subscriptions, payments, seen>>

\* Renewal first reads the balance without the lock and gives up if it is low.
RenewStart(w, s, p) ==
  /\ pc[w] = "idle"
  /\ balance[s] >= Price[p]
  /\ req' = [req EXCEPT ![w] = [sub |-> s, type |-> "plan_renewal", ref |-> p]]
  /\ Goto(w, "debit")
  /\ UNCHANGED <<balance, ledger, lock, card, subscriptions, payments, seen>>

\* ValueError from debit_wallet: a free plan cannot be bought from the wallet.
DebitRefused(w) ==
  /\ pc[w] = "debit"
  /\ Price[req[w].ref] <= 0
  /\ Return(w)
  /\ UNCHANGED <<balance, ledger, lock, card, subscriptions, payments>>

DebitLock(w) ==
  LET s == req[w].sub IN
  /\ pc[w] = "debit"
  /\ Price[req[w].ref] > 0
  /\ lock[s] = NoOne
  /\ lock' = [lock EXCEPT ![s] = w]
  /\ seen' = [seen EXCEPT ![w] = balance[s]]
  /\ Goto(w, "debit_check")
  /\ UNCHANGED <<balance, ledger, card, subscriptions, payments, req>>


\* InsufficientBalance rolls the transaction back.
DebitInsufficient(w) ==
  /\ pc[w] = "debit_check"
  /\ seen[w] < Price[req[w].ref]
  /\ Unlock(req[w].sub)
  /\ Return(w)
  /\ UNCHANGED <<balance, ledger, card, subscriptions, payments>>

\* Fault for mutation: no outer @transaction.atomic, the debit commits alone.
DebitWrite_CommitsAlone(w) ==
  LET s == req[w].sub
      left == seen[w] - Price[req[w].ref] IN
  /\ pc[w] = "debit_check"
  /\ left >= 0
  /\ balance' = [balance EXCEPT ![s] = left]
  /\ ledger' = [ledger EXCEPT ![s] =
                  Append(@, [amount |-> -Price[req[w].ref], after |-> left,
                             type |-> req[w].type, ref |-> req[w].ref])]
  /\ Unlock(s)
  /\ seen' = [seen EXCEPT ![w] = left]
  /\ Goto(w, "activate")
  /\ UNCHANGED <<card, subscriptions, payments, req>>

\* Fault for mutation: the price is not compared with the balance.
DebitWrite_Overdraws(w) ==
  /\ pc[w] = "debit_check"
  /\ seen' = [seen EXCEPT ![w] = @ - Price[req[w].ref]]
  /\ Goto(w, "activate")
  /\ UNCHANGED <<balance, ledger, lock, card, subscriptions, payments, req>>

\* The debit is written inside the outer transaction: nobody else sees it yet.
DebitWrite(w) ==
  /\ pc[w] = "debit_check"
  /\ seen[w] >= Price[req[w].ref]
  /\ seen' = [seen EXCEPT ![w] = @ - Price[req[w].ref]]
  /\ Goto(w, "activate")
  /\ UNCHANGED <<balance, ledger, lock, card, subscriptions, payments, req>>

\* activate_subscription ends the active subscription and adds the new one.
Activated(rows, p) ==
  Append([i \in DOMAIN rows |-> [rows[i] EXCEPT !.status = "expired"]],
         [plan |-> p, status |-> "active"])

\* Debit, subscription and Payment row are committed together.
BuyCommit(w) ==
  LET s == req[w].sub
      p == req[w].ref IN
  /\ pc[w] = "activate"
  /\ balance' = [balance EXCEPT ![s] = seen[w]]
  /\ ledger' = [ledger EXCEPT ![s] =
                  Append(@, [amount |-> -Price[p], after |-> seen[w],
                             type |-> req[w].type, ref |-> p])]
  /\ subscriptions' = [subscriptions EXCEPT ![s] = Activated(@, p)]
  /\ payments' = [payments EXCEPT ![s] =
                    Append(@, [plan |-> p, amount |-> Price[p]])]
  /\ Unlock(s)
  /\ Return(w)
  /\ UNCHANGED card

-----------------------------------------------------------------------------
\* The worker process dies: its transaction is rolled back, its locks go.
Crash(w) ==
  /\ w \in Fragile
  /\ pc[w] # "idle"
  /\ lock' = [s \in Subscribers |-> IF lock[s] = w THEN NoOne ELSE lock[s]]
  /\ Return(w)
  /\ UNCHANGED <<balance, ledger, card, subscriptions, payments>>

Step(w) ==
  \/ RedeemSave(w) \/ CreditRefused(w) \/ CreditLock(w) \/ CreditCommit(w)
  \/ DebitRefused(w) \/ DebitLock(w) \/ DebitInsufficient(w) \/ DebitWrite(w)
  \/ BuyCommit(w)

Arrive(w) ==
  \/ \E s \in Subscribers, c \in Cards : RedeemLookup(w, s, c)
  \/ \E s \in Subscribers, p \in Plans : PurchaseStart(w, s, p) \/ RenewStart(w, s, p)

Next ==
  \/ \E w \in Workers : Arrive(w) \/ Step(w) \/ Crash(w)
  \/ \E c \in Cards : AdminSetCard(c)

Spec == Init /\ [][Next]_vars

\* A worker runs until its handler returns.  PostgreSQL queues the waiters of
\* a row lock, so a waiting worker gets the row even if others keep taking it.
Fairness == \A w \in Workers : /\ WF_vars(Step(w))
                               /\ SF_vars(CreditLock(w))
                               /\ SF_vars(DebitLock(w))
FairSpec == Spec /\ Fairness

-----------------------------------------------------------------------------
(* Properties                                                              *)

Rows == Seq([plan : Plans, status : {"active", "expired"}])

\* Every variable has its type; a worker inside a handler has its arguments.
TypeOK ==
  /\ balance \in [Subscribers -> Int]
  /\ ledger \in [Subscribers -> Seq(Entries)]
  /\ lock \in [Subscribers -> Workers \cup {NoOne}]
  /\ card \in [Cards -> CardRows]
  /\ subscriptions \in [Subscribers -> Rows]
  /\ payments \in [Subscribers -> Seq([plan : Plans, amount : Nat])]
  /\ pc \in [Workers -> {"idle", "redeem_save", "credit", "credit_commit",
                         "debit", "debit_check", "activate"}]
  /\ req \in [Workers -> Requests \cup {NoRequest}]
  /\ seen \in [Workers -> Int]

\* What the ledger L says the balance is.
LedgerBalance(L) == IF L = <<>> THEN 0 ELSE L[Len(L)].after

\* WalletTransaction is the audit trail of every balance mutation: each row's
\* balance_after is the one before it plus its amount, no row is overdrawn, and
\* the balance is that of the last row.  A lost update, an overdraft by two
\* purchases at once, or a debit outside the lock breaks it.
LedgerExplainsBalance ==
  \A s \in Subscribers :
    LET L == ledger[s] IN
    /\ balance[s] = LedgerBalance(L)
    /\ \A i \in DOMAIN L :
         /\ L[i].after >= 0
         /\ L[i].after = (IF i = 1 THEN 0 ELSE L[i - 1].after) + L[i].amount

\* The debit rows of the ledger L, oldest first.
Debits(L) ==
  LET upTo[i \in 0..Len(L)] == IF i = 0 THEN <<>>
                               ELSE IF L[i].amount < 0 THEN Append(upTo[i - 1], L[i])
                               ELSE upTo[i - 1]
  IN upTo[Len(L)]

\* The debits, the subscription rows and the Payment rows name the same plans at
\* the same prices in the same order.
SamePlans(debits, rows, paid) ==
  /\ Len(debits) = Len(rows)
  /\ Len(debits) = Len(paid)
  /\ \A i \in DOMAIN debits :
       /\ rows[i].plan = debits[i].ref
       /\ paid[i] = [plan |-> debits[i].ref, amount |-> -debits[i].amount]

\* purchase_plan_from_wallet and renew_plan_from_wallet are all or nothing: each
\* debit in the ledger has its subscription and its Payment row, and neither
\* comes without a debit, whatever crashes in between.
DebitsBuyPlans ==
  \A s \in Subscribers : SamePlans(Debits(ledger[s]), subscriptions[s], payments[s])

\* The ledger rows that credit card c, as <<subscriber, position>>.
RefillCredits(c) ==
  UNION {{s} \X {i \in DOMAIN ledger[s] : ledger[s][i].ref = c} : s \in Subscribers}

\* A refill card is money once: at most one ledger row credits it, to the
\* subscriber the card names as its redeemer.
CardCreditedOnce ==
  \A c \in Cards :
    /\ Cardinality(RefillCredits(c)) <= 1
    /\ \A r \in RefillCredits(c) : card[c] = [status |-> "used", by |-> r[1]]

\* A redeemed card with a value is credited: the status is committed before
\* credit_wallet runs, so a worker that stops between the two loses the money.
UsedCardIsCredited ==
  \A c \in Cards :
    card[c].status = "used" /\ CardValue[c] > 0 ~> RefillCredits(c) # {}

\* The wallet behaves as if every credit and every purchase were one step.
PlansOf(rows) == [i \in DOMAIN rows |-> rows[i].plan]
Atomic == INSTANCE AtomicWallet WITH
            account <- balance,
            bought <- [s \in Subscribers |-> PlansOf(subscriptions[s])]
RefinesAtomicWallet == Atomic!Spec
=============================================================================
