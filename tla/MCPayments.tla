---------------------------- MODULE MCPayments ----------------------------
(***************************************************************************)
(* Instances of Payments: a renewal, an installation link and a recharge,  *)
(* and, apart from them, of Bank.                                          *)
(*   pay       the payments                                                *)
(*   overlap   the requests to a reseller's row overlap                    *)
(*   turns     they take turns                                             *)
(*   answered  they do, and Paystack's answers all arrive                  *)
(***************************************************************************)
EXTENDS Payments, TLC

CONSTANTS rn, sw, rcg,  \* prefixes of the three kinds of reference
          eze,          \* a lead
          Banks, NoBank, Desks, MaxSaves, MaxStatus

VARIABLES reseller, subaccounts, office, paidPlans, announced, saves, moves, scene

B == INSTANCE Bank

ASSUME BankAssumption == MaxSaves \in Nat /\ MaxStatus \in Nat

bank == <<reseller, subaccounts, office, paidPlans, announced, saves, moves>>
all == <<vars, bank, scene>>

MCReferences == {rn, sw, rcg}
MCRecharges == {rcg}
MCLeads == {eze}
MCLead == sw :> eze @@ rcg :> NoOne @@ rn :> NoOne

Paying == scene = "pay"
Lost(d) == office[d].at \in {"create", "update"} /\ office'[d].at = "away"
BankStep ==
  \/ \E d \in Desks :
       \/ (scene # "overlap" /\ office[d].at = "away" => B!Quiet) /\ B!Desk(d)
       \/ B!Paystack(d) /\ (scene = "answered" /\ Lost(d) => subaccounts' = subaccounts)
  \/ (scene # "overlap" => B!Quiet) /\ B!Operator
  \/ \E who \in B!Pricers : B!PlanSave(who)

MCInit == Init /\ B!BankInit /\ scene \in {"pay", "overlap", "turns", "answered"}
MCNext ==
  /\ \/ Paying /\ Next /\ UNCHANGED bank
     \/ ~Paying /\ BankStep /\ UNCHANGED vars
  /\ UNCHANGED scene
MCSpec == MCInit /\ [][MCNext]_all /\ Fairness

\* A charge settles in the end, and for good: the row of a reference that is a
\* success stays one, whatever webhook or callback comes late or twice.
SettlesForGood == SuccessIsFinal /\ ChargeSettles
\* A verified reseller can be paid, and a charge goes to a subaccount that exists,
\* however requests overlap; when they take turns the plans its owner priced stay
\* payable and its status is the operator's, and its bank is the one Paystack pays
\* unless an answer is lost (bank_setup, settings_page, payment_initialize).
ResellerIsPaid ==
  /\ [](/\ B!BankType /\ B!VerifiedIsPayable
        /\ scene = "answered" => B!BankIsPaid
        /\ scene # "overlap" => B!PlansStayPayable)
  /\ [][scene # "overlap" => B!StatusStep]_all
=============================================================================
