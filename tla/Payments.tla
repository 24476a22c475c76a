----------------------------- MODULE Payments -----------------------------
(***************************************************************************)
(* Paystack payments: plan purchases, renewal links and installation links *)
(* with a Payment row from the start (billing), and recharges that live in *)
(* the cache until they complete (portal/recharge.py).                     *)
(*                                                                         *)
(* A charge is announced twice, by Paystack's webhook and by the browser   *)
(* that returns to the callback; the handlers are sequences of statements  *)
(* that commit one by one.  What a settled payment buys is one step here   *)
(* (Access models the activation itself).                                  *)
(***************************************************************************)
EXTENDS Integers, FiniteSets

CONSTANTS References,  \* paystack_reference values
          Recharges,   \* those of recharge_initiate_payment
          Leads,       \* leads.Lead rows
          Lead,        \* Payment.lead; NoOne for a subscriber's payment
          Solo,        \* references whose handlers happen not to overlap
          Workers,     \* request threads
          NoOne,       \* no lead
          NoRequest,   \* the locals of an idle worker
          MaxRepeats,  \* bound: webhooks and recharges repeated
          MaxCrashes   \* bound: workers killed

ASSUME LeadAssumption ==
  /\ Recharges \subseteq References /\ NoOne \notin Leads
  /\ Lead \in [References -> Leads \cup {NoOne}]
  /\ \A r \in Recharges : Lead[r] = NoOne
ASSUME SoloAssumption ==
  /\ Solo \subseteq References
  /\ \A r \in Solo, q \in References : Lead[q] = Lead[r] /\ Lead[r] # NoOne => q \in Solo
ASSUME BoundAssumption == MaxRepeats \in Nat /\ MaxCrashes \in Nat

VARIABLES row,      \* Payment rows
          linked,   \* references the customer got a Paystack page for
          paid,     \* references charged at Paystack
          due,      \* references whose webhook Paystack still has to deliver
          pending,  \* cache: recharge_pending_<reference>
          lead,     \* converted_subscriber of a lead, and its InstallationOrders
          served,   \* times a reference was served (plan activated, install raised)
          pc,       \* where each worker is
          req,      \* what it loaded
          repeats,  \* webhooks sent again
          crashes

vars == <<row, linked, paid, due, pending, lead, served, pc, req, repeats, crashes>>

Rows == [status : {"none", "pending", "success", "failed"}, attached : BOOLEAN]
NoRow == [status |-> "none", attached |-> FALSE]
Requests == [r : References, hook : BOOLEAN, copy : Rows, converted : BOOLEAN]
ASSUME RequestAssumption == NoRequest \notin Requests

Init ==
  /\ row = [r \in References |-> NoRow]
  /\ linked = {} /\ paid = {} /\ due = {} /\ pending = {}
  /\ lead = [l \in Leads |-> [converted |-> FALSE, orders |-> 0]]
  /\ served = [r \in References |-> 0]
  /\ pc = [w \in Workers |-> "idle"]
  /\ req = [w \in Workers |-> NoRequest]
  /\ repeats = 0 /\ crashes = 0

Goto(w, l) == pc' = [pc EXCEPT ![w] = l]
Return(w) == Goto(w, "idle") /\ req' = [req EXCEPT ![w] = NoRequest]

\* Two references that one call each may bring to the same rows.
Related(q, r) == q = r \/ (Lead[q] = Lead[r] /\ Lead[r] # NoOne)

\* A worker loads the row of r; the references in Solo are handled one by one.
Load(w, r, hook, l) ==
  /\ pc[w] = "idle"
  /\ r \in Solo => \A v \in Workers : req[v] # NoRequest => ~Related(req[v].r, r)
  /\ req' = [req EXCEPT ![w] = [r |-> r, hook |-> hook, copy |-> row[r], converted |-> FALSE]]
  /\ Goto(w, l)

\* The handler answers; Paystack takes the 200 of a webhook as delivered.
Answer(w) ==
  /\ Return(w)
  /\ due' = IF req[w].hook THEN due \ {req[w].r} ELSE due

-----------------------------------------------------------------------------
(* Starting a payment, and Paystack                                        *)

\* payment_initialize and the two payment links create the row; without an
\* answer of Paystack it is marked failed and the customer gets no link.
Initialize(r, answered) ==
  /\ r \notin Recharges /\ row[r].status = "none"
  /\ row' = [row EXCEPT ![r].status = IF answered THEN "pending" ELSE "failed"]
  /\ linked' = IF answered THEN linked \cup {r} ELSE linked
  /\ UNCHANGED <<paid, due, pending, lead, served, pc, req, repeats, crashes>>

\* recharge_initiate_payment keeps the reference in the cache for 30 minutes.
InitiateRecharge(r) ==
  /\ r \in Recharges \ linked
  /\ linked' = linked \cup {r}
  /\ pending' = pending \cup {r}
  /\ UNCHANGED <<row, paid, due, lead, served, pc, req, repeats, crashes>>

Expire(r) ==
  /\ r \in pending
  /\ pending' = pending \ {r}
  /\ UNCHANGED <<row, linked, paid, due, lead, served, pc, req, repeats, crashes>>

\* The customer pays on Paystack's page; a webhook is due.
Pay(r) ==
  /\ r \in linked \ paid
  /\ paid' = paid \cup {r} /\ due' = due \cup {r}
  /\ UNCHANGED <<row, linked, pending, lead, served, pc, req, repeats, crashes>>

-----------------------------------------------------------------------------
(* The webhook                                                             *)

\* Fault for mutation: a payment that was settled is not recognised.
Heard_Again(w, r) ==
  /\ row[r].status # "none"
  /\ Load(w, r, TRUE, "settle")
  /\ UNCHANGED due

\* Fault for mutation: only a pending payment is settled.
Heard_PendingOnly(w, r) ==
  IF row[r].status = "pending"
  THEN Load(w, r, TRUE, "settle") /\ UNCHANGED due
  ELSE due' = due \ {r} /\ UNCHANGED <<pc, req>>

\* payment_webhook: no row is 'not_applicable', a settled one
\* 'already_processed', every other one is settled.
Heard(w, r) ==
  IF row[r].status \notin {"none", "success"}
  THEN Load(w, r, TRUE, "settle") /\ UNCHANGED due
  ELSE due' = due \ {r} /\ UNCHANGED <<pc, req>>

Deliver(r) ==
  /\ r \in due
  /\ \E w \in Workers : Heard(w, r)
  /\ UNCHANGED <<row, linked, paid, pending, lead, served, repeats, crashes>>

\* Paystack sends a webhook again though it was answered.
Redeliver(r) ==
  /\ r \in paid \ due /\ repeats < MaxRepeats
  /\ \E w \in Workers : Heard(w, r)
  /\ repeats' = repeats + 1
  /\ UNCHANGED <<row, linked, paid, pending, lead, served, crashes>>

-----------------------------------------------------------------------------
(* The callback and the recharge                                           *)


\* payment_callback: the browser comes back; a pending payment is verified.
Callback(w, r) ==
  /\ row[r].status = "pending" /\ r \in linked
  /\ Load(w, r, FALSE, "verify")
  /\ UNCHANGED <<row, linked, paid, due, pending, lead, served, repeats, crashes>>

\* recharge_complete: the reference must still be in the cache (and, a bound,
\* it is not tried again after MaxRepeats + 1 activations).
RechargeComplete(w, r) ==
  /\ r \in pending /\ served[r] <= MaxRepeats
  /\ Load(w, r, FALSE, "verify_recharge")
  /\ UNCHANGED <<row, linked, paid, due, pending, lead, served, repeats, crashes>>

\* Fault for mutation: what the browser says is believed.
Verified_Trusting(w) == TRUE

\* Paystack's verify endpoint confirms only what was charged.
Verified(w) == req[w].r \in paid

\* The callback goes on to settle, or, unconfirmed or unreachable, to fail.
Verify(w) ==
  /\ pc[w] = "verify"
  /\ \/ Verified(w) /\ Goto(w, "settle")
     \/ Goto(w, "fail")
  /\ UNCHANGED <<row, linked, paid, due, pending, lead, served, req, repeats, crashes>>

VerifyRecharge(w) ==
  /\ pc[w] = "verify_recharge"
  /\ \/ Verified(w) /\ Goto(w, "serve") /\ UNCHANGED req
     \/ Return(w)
  /\ UNCHANGED <<row, linked, paid, due, pending, lead, served, repeats, crashes>>


\* payment.save() writes every column from the copy the callback loaded.
Fail(w) ==
  LET r == req[w].r IN
  /\ pc[w] = "fail"
  /\ row' = [row EXCEPT ![r] = [req[w].copy EXCEPT !.status = "failed"]]
  /\ Return(w)
  /\ UNCHANGED <<linked, paid, due, pending, lead, served, repeats, crashes>>

-----------------------------------------------------------------------------
(* _activate_payment                                                       *)

\* The row is saved as a success first; a lead's payment that has no
\* subscriber in the copy converts the lead.
Settle(w) ==
  LET r == req[w].r
      copy == [req[w].copy EXCEPT !.status = "success"]
  IN  /\ pc[w] = "settle"
      /\ row' = [row EXCEPT ![r] = copy]
      /\ req' = [req EXCEPT ![w].copy = copy]
      /\ Goto(w, IF Lead[r] # NoOne /\ ~copy.attached THEN "lead" ELSE "serve")
      /\ UNCHANGED <<linked, paid, due, pending, lead, served, repeats, crashes>>

\* payment.lead is fetched, before the conversion's transaction.
FetchLead(w) ==
  /\ pc[w] = "lead"
  /\ req' = [req EXCEPT ![w].converted = lead[Lead[req[w].r]].converted]
  /\ Goto(w, "convert")
  /\ UNCHANGED <<row, linked, paid, due, pending, lead, served, repeats, crashes>>

\* convert_lead_to_subscriber: the subscriber and a new InstallationOrder,
\* unless the lead that was fetched has been converted.
Convert(w) ==
  /\ pc[w] = "convert"
  /\ lead' = IF req[w].converted THEN lead
             ELSE [lead EXCEPT ![Lead[req[w].r]] =
                     [converted |-> TRUE, orders |-> @.orders + 1]]
  /\ Goto(w, "attach")
  /\ UNCHANGED <<row, linked, paid, due, pending, served, req, repeats, crashes>>

\* The subscriber and the order are written back onto the payment.
Attach(w) ==
  /\ pc[w] = "attach"
  /\ row' = [row EXCEPT ![req[w].r].attached = TRUE]
  /\ Goto(w, "serve")
  /\ UNCHANGED <<linked, paid, due, pending, lead, served, req, repeats, crashes>>

\* activate_subscription, or the install ticket of a lead.
Serve(w) ==
  LET r == req[w].r IN
  /\ pc[w] = "serve"
  /\ served' = [served EXCEPT ![r] = @ + 1]
  /\ IF r \in Recharges THEN Goto(w, "record") /\ UNCHANGED <<req, due>> ELSE Answer(w)
  /\ UNCHANGED <<row, linked, paid, pending, lead, repeats, crashes>>

\* _create_subscription: the Payment row of a recharge; its unique reference
\* makes a second one fail the request, which then leaves the cache alone.
Record(w) ==
  LET r == req[w].r IN
  /\ pc[w] = "record"
  /\ IF row[r].status = "none"
     THEN row' = [row EXCEPT ![r].status = "success"] /\ Goto(w, "forget") /\ UNCHANGED req
     ELSE UNCHANGED row /\ Return(w)
  /\ UNCHANGED <<linked, paid, due, pending, lead, served, repeats, crashes>>

Forget(w) ==
  /\ pc[w] = "forget"
  /\ pending' = pending \ {req[w].r}
  /\ Return(w)
  /\ UNCHANGED <<row, linked, paid, due, lead, served, repeats, crashes>>

\* The worker is killed (deploy, out of memory, timeout): no answer is given.
Crash(w) ==
  /\ pc[w] # "idle" /\ crashes < MaxCrashes
  /\ crashes' = crashes + 1
  /\ Return(w)
  /\ UNCHANGED <<row, linked, paid, due, pending, lead, served, repeats>>

-----------------------------------------------------------------------------

Continue(w) ==
  \/ Verify(w) \/ VerifyRecharge(w) \/ Fail(w) \/ Settle(w) \/ FetchLead(w) \/ Convert(w)
  \/ Attach(w) \/ Serve(w) \/ Record(w) \/ Forget(w)

Next ==
  \/ \E r \in References :
       \/ \E answered \in BOOLEAN : Initialize(r, answered)
       \/ InitiateRecharge(r) \/ Expire(r) \/ Pay(r) \/ Deliver(r) \/ Redeliver(r)
       \/ \E w \in Workers : Callback(w, r) \/ RechargeComplete(w, r)
  \/ \E w \in Workers : Continue(w) \/ Crash(w)

\* Requests go on, and Paystack delivers a webhook until it is answered; the
\* server takes queued requests in turn, so no delivery is refused for ever.
Fairness == /\ \A w \in Workers : WF_vars(Continue(w))
            /\ \A r \in References : SF_vars(Deliver(r))

Spec == Init /\ [][Next]_vars
FairSpec == Spec /\ Fairness

-----------------------------------------------------------------------------
(* Properties                                                              *)

Labels == {"idle", "verify", "verify_recharge", "fail", "settle", "lead", "convert", "attach",
           "serve", "record", "forget"}

\* Every variable keeps its type; a status is one of STATUS_CHOICES.
TypeOK ==
  /\ row \in [References -> Rows]
  /\ linked \subseteq References /\ paid \subseteq References
  /\ due \subseteq References /\ pending \subseteq References
  /\ lead \in [Leads -> [converted : BOOLEAN, orders : Nat]]
  /\ served \in [References -> Nat]
  /\ pc \in [Workers -> Labels]
  /\ req \in [Workers -> {NoRequest} \cup Requests]
  /\ repeats \in 0..MaxRepeats /\ crashes \in 0..MaxCrashes

\* Whatever overlaps, repeats or dies, no plan is activated and no payment is
\* a success unless Paystack charged its reference.
ServedIsPaid ==
  \A r \in References : served[r] > 0 \/ row[r].status = "success" => r \in paid

\* When its handlers do not overlap, a payment with a row is served at most
\* once and its lead gets at most one installation order, however often webhook
\* and callback are repeated or killed; a recharge, whose row is written last,
\* is served at most once as long as no worker is killed.
SoloServedOnce ==
  \A r \in Solo : /\ r \notin Recharges \/ crashes = 0 => served[r] <= 1
                  /\ Lead[r] # NoOne => lead[Lead[r]].orders <= 1

\* When its handlers do not overlap, a payment that is a success stays one.
SuccessIsFinal ==
  [][\A r \in Solo : row[r].status = "success" => row'[r].status = "success"]_vars

\* A charge with a Payment row becomes a success, though callbacks gave it up
\* as failed and workers were killed: the webhook comes until it is answered.
ChargeSettles ==
  \A r \in Solo \ Recharges : r \in paid ~> row[r].status = "success"
=============================================================================
