------------------------------ MODULE Vouchers ------------------------------
(***************************************************************************)
(* A prepaid voucher: its batch, logins with its PIN (portal/views.py,     *)
(* vouchers/radius.py), the commands expire_vouchers and expire_plans, and *)
(* the reseller who disables and enables the batch.                        *)
(*                                                                         *)
(* Nothing here is in a transaction: a step is one statement, and a        *)
(* request that ends in an error leaves what it has written.  The account  *)
(* made for a voucher has the PIN as its phone.                            *)
(***************************************************************************)
EXTENDS Integers, FiniteSets

CONSTANTS Logins  \* requests of portal_voucher_login

Sweep == "expire_vouchers"
Dealer == "voucher_batch_toggle"
Actors == Logins \union {Sweep, Dealer}

VARIABLES voucher, \* the Voucher row: status and whether it has its subscriber
          batch,   \* the status of the batch
          passed,  \* expires_at, or the batch's fixed date, is in the past
          account, \* the Subscriber row of the PIN exists
          paid,    \* the status of the account's subscription
          access,  \* the account has RADIUS rows
          at,      \* where each request or command is
          copy     \* the voucher and the batch's status as it loaded them

cardVars == <<voucher, batch, passed, account, paid, access, at, copy>>
Statuses == {"unused", "active", "expired", "disabled"}
Rows == [status : Statuses, owned : BOOLEAN]
Copies == [status : Statuses, owned : BOOLEAN, batch : {"active", "disabled"}]
Places == {"idle", "lapsed", "unpaid", "create", "save", "subscribe", "grant", "again",
           "marked", "ended", "toggle"}
Nothing == [status |-> "unused", owned |-> FALSE, batch |-> "active"]

Init ==
  /\ voucher = [status |-> "unused", owned |-> FALSE] /\ batch = "active"
  /\ passed \in BOOLEAN  \* a fixed date may be over before the card is sold
  /\ account = FALSE /\ paid = "none" /\ access = FALSE
  /\ at = [a \in Actors |-> "idle"] /\ copy = [a \in Actors |-> Nothing]

Goto(a, place) == at' = [at EXCEPT ![a] = place]
Return(a) == Goto(a, "idle") /\ copy' = [copy EXCEPT ![a] = Nothing]
Row == [status |-> voucher.status, owned |-> voucher.owned, batch |-> batch]

(* portal_voucher_login ****************************************************)

Refused(row) == row.status \in {"disabled", "expired"} \/ row.batch = "disabled"
Overdue(row) == row.owned /\ passed

Login(p) ==
  /\ at[p] = "idle"
  /\ IF Refused(Row) THEN UNCHANGED <<at, copy>>
     ELSE /\ copy' = [copy EXCEPT ![p] = Row]
          /\ Goto(p, CASE Overdue(Row) -> "lapsed"
                       [] ~Overdue(Row) /\ voucher.owned -> "again"
                       [] OTHER -> "create")
  /\ UNCHANGED <<voucher, batch, passed, account, paid, access>>

\* A voucher found overdue: its status, its subscription, its RADIUS rows.
Lapse(p) ==
  /\ at[p] = "lapsed" /\ Goto(p, "unpaid")
  /\ voucher' = [voucher EXCEPT !.status = "expired"]
  /\ UNCHANGED <<batch, passed, account, paid, access, copy>>
Unpay(p) ==
  /\ at[p] = "unpaid" /\ Return(p)
  /\ paid' = (IF paid = "active" THEN "expired" ELSE paid) /\ access' = FALSE
  /\ UNCHANGED <<voucher, batch, passed, account>>


\* activate_voucher, first part: the account; a second one is refused by the
\* unique phone and the request fails.
Create(p) ==
  /\ at[p] = "create"
  /\ IF account THEN Return(p) /\ UNCHANGED account
     ELSE account' = TRUE /\ Goto(p, "save") /\ UNCHANGED copy
  /\ UNCHANGED <<voucher, batch, passed, paid, access>>

Sold == [status |-> "active", owned |-> TRUE]

\* The whole row is saved; from the first activation its days begin to run, a
\* fixed date stays what it is.
Save(p) ==
  /\ at[p] = "save" /\ Goto(p, "subscribe")
  /\ voucher' = Sold /\ passed' \in {FALSE, passed}
  /\ UNCHANGED <<batch, account, paid, access, copy>>

\* Fault for mutation: the new subscription is made before all are ended.
Subscribe_Swapped(p) ==
  /\ at[p] = "subscribe" /\ Goto(p, "grant") /\ paid' = "expired"
  /\ UNCHANGED <<voucher, batch, passed, account, access, copy>>

\* activate_subscription: what is active ends, the new one is made.
Subscribe(p) ==
  /\ at[p] = "subscribe" /\ Goto(p, "grant") /\ paid' = "active"
  /\ UNCHANGED <<voucher, batch, passed, account, access, copy>>
Grant(p) ==
  /\ at[p] \in {"grant", "again"} /\ Return(p) /\ access' = TRUE
  /\ UNCHANGED <<voucher, batch, passed, account, paid>>

(* The commands and the reseller. ******************************************)

Collected == voucher.status = "active" /\ passed

\* expire_vouchers loads what is overdue.
Collect ==
  /\ at[Sweep] = "idle" /\ Collected
  /\ Goto(Sweep, "marked") /\ UNCHANGED <<voucher, batch, passed, account, paid, access, copy>>
Mark ==
  /\ at[Sweep] = "marked" /\ Goto(Sweep, "ended")
  /\ voucher' = [voucher EXCEPT !.status = "expired"]
  /\ UNCHANGED <<batch, passed, account, paid, access, copy>>

End ==
  /\ at[Sweep] = "ended" /\ Return(Sweep)
  /\ paid' = (IF paid = "active" THEN "expired" ELSE paid) /\ access' = FALSE
  /\ UNCHANGED <<voucher, batch, passed, account>>

\* expire_plans, for the subscription of the voucher.
ExpirePlan ==
  /\ paid = "active" /\ passed /\ paid' = "expired" /\ access' = FALSE
  /\ UNCHANGED <<voucher, batch, passed, account, at, copy>>

Toggled(s) == IF batch = "active" /\ s = "unused" THEN "disabled"
              ELSE IF batch = "disabled" /\ s = "disabled" THEN "unused" ELSE s

\* voucher_batch_toggle: the cards, then the batch.
ToggleCards ==
  /\ at[Dealer] = "idle" /\ Goto(Dealer, "toggle") /\ copy' = [copy EXCEPT ![Dealer] = Row]
  /\ voucher' = [voucher EXCEPT !.status = Toggled(@)]
  /\ UNCHANGED <<batch, passed, account, paid, access>>
ToggleBatch ==
  /\ at[Dealer] = "toggle" /\ Return(Dealer)
  /\ batch' = IF copy[Dealer].batch = "active" THEN "disabled" ELSE "active"
  /\ UNCHANGED <<voucher, passed, account, paid, access>>

Pass == ~passed /\ passed' = TRUE /\ UNCHANGED <<voucher, batch, account, paid, access, at, copy>>

\* A request or a command is killed.
Kill(a) == at[a] # "idle" /\ Return(a) /\ UNCHANGED <<voucher, batch, passed, account, paid, access>>

Continue(p) == Lapse(p) \/ Unpay(p) \/ Create(p) \/ Save(p) \/ Subscribe(p) \/ Grant(p)
Begin == Collect \/ ToggleCards \/ ExpirePlan \/ \E p \in Logins : Login(p)
Advance == Mark \/ End \/ ToggleBatch \/ \E p \in Logins : Continue(p)
Next == Begin \/ Advance \/ Pass \/ \E a \in Actors : Kill(a)

\* Requests and commands go on, and the sweep is run every five minutes.
Fairness == WF_cardVars(Advance) /\ WF_cardVars(Collect)
Spec == Init /\ [][Next]_cardVars /\ Fairness

Quiet == \A a \in Actors : at[a] = "idle"

TypeOK ==
  /\ voucher \in Rows /\ batch \in {"active", "disabled"} /\ passed \in BOOLEAN
  /\ account \in BOOLEAN /\ paid \in {"none", "active", "expired"} /\ access \in BOOLEAN
  /\ at \in [Actors -> Places] /\ copy \in [Actors -> Copies]

\* An expired voucher opens nothing.
ExpiredStaysOut == Quiet /\ voucher.status = "expired" => ~access

\* A voucher that is running opens what was paid for.
RunningIsServed == Quiet /\ voucher.status = "active" /\ ~passed => paid = "active" /\ access

\* No account is left of a login that gave the voucher to nobody: the next
\* login would fail on it, and the card could never be used.
NoOrphan == Quiet /\ account => voucher.owned

\* A card of a disabled batch waits for the batch, unless it was running.
DisabledBatchHolds == Quiet /\ batch = "disabled" => voucher.status # "unused"

\* What is overdue comes to be closed.
Overstays == voucher.status = "active" /\ passed /\ access
=============================================================================
