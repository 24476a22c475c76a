-------------------------------- MODULE Bank --------------------------------
(***************************************************************************)
(* A reseller's row, and the Paystack subaccount its share of a payment    *)
(* goes to.  The bank pages ask Paystack between loading the row and       *)
(* saving all of it; the settings page and the operator's list save all of *)
(* what they loaded too.  The operator's two actions update the status     *)
(* alone.  What the plan pages and a charge read of it is here as well.    *)
(* The operator's form for one reseller, in which every field can be       *)
(* typed over, is left out.                                                *)
(***************************************************************************)
EXTENDS Integers, Sequences

CONSTANTS Banks,      \* bank accounts
          NoBank,     \* none given yet
          Desks,      \* requests that can be on the way at once
          MaxSaves,   \* bound: requests that load the row
          MaxStatus   \* bound: uses of the operator's actions

VARIABLES reseller,   \* the Reseller row
          subaccounts, \* at Paystack: the bank of each subaccount, by code
          office,     \* what each request does, and the row it loaded
          paidPlans,  \* who gave a plan a price
          announced,  \* reseller_activated, since the operator's last action
          saves, moves

bankVars == <<reseller, subaccounts, office, paidPlans, announced, saves, moves>>

Statuses == {"setup", "pending_router", "active", "suspended"}
Resellers == [status : Statuses, bank : Banks \union {NoBank}, code : Nat,
              verified : BOOLEAN, fee : BOOLEAN]
\* The dashboard is open to the owner of the account, and to staff whose user has
\* no reseller of its own.
Pricers == {"owner", "manager"}
NewReseller == [status |-> "setup", bank |-> NoBank, code |-> 0, verified |-> FALSE, fee |-> FALSE]
Away == [at |-> "away", by |-> "page", bank |-> NoBank, copy |-> NewReseller]
Quiet == \A d \in Desks : office[d].at = "away"

BankInit ==
  /\ reseller = NewReseller /\ subaccounts = <<>> /\ office = [d \in Desks |-> Away]
  /\ paidPlans = {} /\ announced = FALSE /\ saves = 0 /\ moves = 0

\* A request loads the row.
Arrive(d, what, bank) ==
  /\ office[d].at = "away" /\ saves < MaxSaves /\ saves' = saves + 1
  /\ office' = [office EXCEPT ![d] = [at |-> what, by |-> "page", bank |-> bank, copy |-> reseller]]
  /\ UNCHANGED <<reseller, subaccounts, paidPlans, announced, moves>>
Leave(d) == office' = [office EXCEPT ![d] = Away]

\* bank_setup makes a new subaccount each time, bank_change updates the one of
\* the row, if there is one.
BankSetup(d, b) == Arrive(d, "create", b)
BankChange(d, b) == reseller.code # 0 /\ Arrive(d, "update", b)

\* A payment page, a payment link or a recharge asks for a charge that is split
\* with the subaccount of the row it loaded.
Chargeable(row) == row.verified /\ row.code # 0
Charge(d) == Chargeable(reseller) /\ Arrive(d, "charge", NoBank)

\* Paystack does it or refuses; its answer can be lost, and then the request ends.
Paystack(d) ==
  /\ LET doing == office[d]
         copy == doing.copy
         code == Len(subaccounts) + 1
         answered(row) == office' = [office EXCEPT ![d].at = "save", ![d].copy = row] IN
     \/ doing.at \in {"create", "update", "charge"} /\ Leave(d) /\ UNCHANGED subaccounts
     \/ /\ doing.at = "create" /\ subaccounts' = Append(subaccounts, doing.bank)
        /\ \/ Leave(d)
           \/ answered([copy EXCEPT !.bank = doing.bank, !.code = code, !.verified = TRUE])
     \/ /\ doing.at = "update"
        /\ subaccounts' = [subaccounts EXCEPT ![copy.code] = doing.bank]
        /\ Leave(d) \/ answered([copy EXCEPT !.bank = doing.bank])
  /\ UNCHANGED <<reseller, paidPlans, announced, saves, moves>>

\* settings_page: branding, account and network name leave these fields as they
\* were loaded; the sign-up fee is for a verified account.
Settings(d) == Arrive(d, "settings", NoBank)
\* Fault for mutation: the fee asks for no verified account.
FeeAllowed_Always(copy) == TRUE
FeeAllowed(copy) == copy.verified
Fill(d, fee) ==
  /\ office[d].at = "settings"
  /\ fee # office[d].copy.fee => FeeAllowed(office[d].copy)
  /\ office' = [office EXCEPT ![d].at = "save", ![d].copy.fee = fee]
  /\ UNCHANGED <<reseller, subaccounts, paidPlans, announced, saves, moves>>
\* The operator's list of resellers, in which the status can be edited.
Listed(d) == Arrive(d, "list", NoBank)
Edit(d, s) ==
  /\ office[d].at = "list"
  /\ office' = [office EXCEPT ![d].at = "save", ![d].by = "list", ![d].copy.status = s]
  /\ UNCHANGED <<reseller, subaccounts, paidPlans, announced, saves, moves>>

\* Fault for mutation: bank_setup saves its page's fields, but not the code.
Saved_NoCode(copy) == [copy EXCEPT !.code = reseller.code]
Saved(copy) == copy
\* reseller.save() writes all of the row.  Its signals compare the status with
\* the one in the database and announce an activation.
Save(d) ==
  /\ office[d].at = "save" /\ Leave(d)
  /\ reseller' = Saved(office[d].copy)
  /\ announced' = (announced \/ (reseller.status # "active" /\ reseller'.status = "active"))
  /\ UNCHANGED <<subaccounts, paidPlans, saves, moves>>

\* suspend_resellers and activate_resellers: no signal.
SetStatus(s) ==
  /\ moves < MaxStatus /\ moves' = moves + 1
  /\ reseller' = [reseller EXCEPT !.status = s] /\ announced' = FALSE
  /\ UNCHANGED <<subaccounts, office, paidPlans, saves>>

\* The plan form saves a price: the serializer asks for a verified account where
\* the user has a reseller, and lets everybody else's price through.
PlanSave(who) ==
  /\ who = "owner" => reseller.verified
  /\ paidPlans' = paidPlans \union {who}
  /\ UNCHANGED <<reseller, subaccounts, office, announced, saves, moves>>

Desk(d) ==
  \/ \E b \in Banks : BankSetup(d, b) \/ BankChange(d, b)
  \/ Settings(d) \/ Listed(d) \/ Charge(d)
  \/ (\E fee \in BOOLEAN : Fill(d, fee)) \/ (\E s \in Statuses : Edit(d, s))
  \/ Save(d)
Operator == \E s \in {"active", "suspended"} : SetStatus(s)

BankType ==
  /\ reseller \in Resellers /\ subaccounts \in Seq(Banks)
  /\ \A d \in Desks : office[d].copy \in Resellers /\ office[d].bank \in Banks \union {NoBank}
  /\ paidPlans \subseteq Pricers /\ announced \in BOOLEAN
  /\ saves \in 0..MaxSaves /\ moves \in 0..MaxStatus

\* Whatever overlaps, a verified reseller has a subaccount that exists, a sign-up
\* fee is charged for a verified one only, and a charge on its way to Paystack
\* names a subaccount it knows, although the row it is from may be an old one.
VerifiedIsPayable ==
  /\ reseller.verified => reseller.code \in DOMAIN subaccounts
  /\ reseller.fee => reseller.verified
  /\ \A d \in Desks : office[d].at = "charge" => office[d].copy.code \in DOMAIN subaccounts

\* While requests take turns and every answer of Paystack arrives, the bank in
\* the row is the one the subaccount pays.
BankIsPaid == Quiet /\ reseller.code # 0 => subaccounts[reseller.code] = reseller.bank

\* While requests take turns, plans to which the owner gave a price stay payable.
PlansStayPayable == "owner" \in paidPlans => reseller.verified

\* ... and only the operator changes a reseller's status, or causes an
\* announcement that it is active.
Operated == moves' # moves \/ \E d \in Desks : office[d].by = "list" /\ office'[d].by = "page"
StatusStep == reseller'.status # reseller.status \/ (announced' /\ ~announced) => Operated
=============================================================================
