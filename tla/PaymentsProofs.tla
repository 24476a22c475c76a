-------------------------- MODULE PaymentsProofs --------------------------
(***************************************************************************)
(* Theorems about Payments for any references, leads and workers: types,   *)
(* that nothing is served before Paystack charged it, and that a payment   *)
(* whose handlers do not overlap is served once and settled for good; and  *)
(* about Bank beside it: the account a reseller's share is paid to.        *)
(***************************************************************************)
EXTENDS MCPayments, Sequences, TLAPS

Locals == {NoRequest} \cup Requests
LeadLabels == {"lead", "convert", "attach"}

\* A worker that has begun has loaded a reference; it converts leads only for
\* references that have one.
WellFormed(l, q) ==
  l # "idle" => q \in Requests /\ (l \in LeadLabels => Lead[q.r] \in Leads)

HasRequest == \A w \in Workers : WellFormed(pc[w], req[w])

Typed == TypeOK /\ HasRequest

\* Places a handler reaches only with a charge that was confirmed.
Confirmed == {"settle", "lead", "convert", "attach", "serve", "record", "forget"}

Backed(l, q, charged) ==
  l # "idle" => /\ l \in Confirmed => q.r \in charged
                /\ q.copy.status = "success" => q.r \in charged

\* Webhooks, confirmed handlers and loaded successes are of charged references.
HasCharge == due \subseteq paid /\ \A w \in Workers : Backed(pc[w], req[w], paid)

IInv == Typed /\ HasCharge /\ ServedIsPaid

-----------------------------------------------------------------------------
(* One worker moves                                                        *)

LEMMA Moves ==
  ASSUME Typed, NEW w \in Workers, NEW l \in Labels, NEW q \in Locals,
         pc' = [pc EXCEPT ![w] = l], req' = [req EXCEPT ![w] = q]
  PROVE  /\ pc' \in [Workers -> Labels] /\ req' \in [Workers -> Locals]
         /\ \A v \in Workers : pc'[v] = IF v = w THEN l ELSE pc[v]
         /\ \A v \in Workers : req'[v] = IF v = w THEN q ELSE req[v]
BY DEF Typed, TypeOK, Locals

LEMMA MoveTyped ==
  ASSUME Typed, NEW w \in Workers, NEW l \in Labels, NEW q \in Locals, WellFormed(l, q),
         pc' = [pc EXCEPT ![w] = l], req' = [req EXCEPT ![w] = q]
  PROVE  pc' \in [Workers -> Labels] /\ req' \in [Workers -> Locals] /\ HasRequest'
<1>1. \A v \in Workers : WellFormed(pc'[v], req'[v]) BY Moves DEF Typed, HasRequest
<1> QED BY <1>1, Moves DEF HasRequest

LEMMA MoveCharged ==
  ASSUME Typed, HasCharge, NEW w \in Workers, NEW l \in Labels, NEW q \in Locals,
         pc' = [pc EXCEPT ![w] = l], req' = [req EXCEPT ![w] = q],
         Backed(l, q, paid), paid' = paid, due' \subseteq paid
  PROVE  HasCharge'
<1>1. ASSUME NEW v \in Workers PROVE Backed(pc'[v], req'[v], paid)
  <2>1. pc'[v] = (IF v = w THEN l ELSE pc[v]) /\ req'[v] = (IF v = w THEN q ELSE req[v]) BY Moves
  <2>2. Backed(pc[v], req[v], paid) BY DEF HasCharge
  <2> QED BY <2>1, <2>2
<1> QED BY <1>1 DEF HasCharge

\* A step that leaves the workers alone and only adds charges.
LEMMA StillCharged ==
  ASSUME HasCharge, pc' = pc, req' = req, paid \subseteq paid', due' \subseteq paid'
  PROVE  HasCharge'
BY DEF HasCharge, Backed

LEMMA StillServed ==
  ASSUME ServedIsPaid, row' = row, served' = served, paid \subseteq paid' PROVE ServedIsPaid'
BY DEF ServedIsPaid

\* Loading a row is backed by the row.
LEMMA LoadInv ==
  ASSUME IInv, NEW w \in Workers, NEW r \in References, NEW hook \in BOOLEAN, NEW l \in Labels,
         Load(w, r, hook, l), l \notin LeadLabels, l \in Confirmed => r \in paid,
         paid' = paid, due' = due
  PROVE  /\ pc' \in [Workers -> Labels] /\ req' \in [Workers -> Locals] /\ HasRequest'
         /\ HasCharge'
<1> DEFINE q == [r |-> r, hook |-> hook, copy |-> row[r], converted |-> FALSE]
<1>1. q \in Requests BY DEF IInv, Typed, TypeOK, Requests
<1>2. WellFormed(l, q) BY <1>1 DEF WellFormed
<1>3. Backed(l, q, paid) BY DEF IInv, ServedIsPaid, Backed
<1>4. pc' = [pc EXCEPT ![w] = l] /\ req' = [req EXCEPT ![w] = q] BY DEF Load, Goto
<1>5. q \in Locals BY <1>1 DEF Locals
<1>6. due' \subseteq paid BY DEF IInv, HasCharge
<1> HIDE DEF q
<1> QED BY <1>2, <1>3, <1>4, <1>5, <1>6, MoveTyped, MoveCharged DEF IInv

LEMMA ReturnInv ==
  ASSUME IInv, NEW w \in Workers, Return(w), paid' = paid, due' \subseteq due
  PROVE  /\ pc' \in [Workers -> Labels] /\ req' \in [Workers -> Locals] /\ HasRequest'
         /\ HasCharge'
<1>1. "idle" \in Labels /\ NoRequest \in Locals BY DEF Labels, Locals
<1>2. WellFormed("idle", NoRequest) /\ Backed("idle", NoRequest, paid) BY DEF WellFormed, Backed
<1>3. pc' = [pc EXCEPT ![w] = "idle"] /\ req' = [req EXCEPT ![w] = NoRequest]
  BY DEF Return, Goto
<1>4. due' \subseteq paid BY DEF IInv, HasCharge
<1> QED BY <1>1, <1>2, <1>3, <1>4, MoveTyped, MoveCharged DEF IInv

\* Moving on with the same reference, to a place the charge allows.
LEMMA GotoInv ==
  ASSUME IInv, NEW w \in Workers, NEW l \in Labels, pc[w] # "idle",
         NEW q \in Requests, q.r = req[w].r,
         pc' = [pc EXCEPT ![w] = l], req' = [req EXCEPT ![w] = q], paid' = paid, due' \subseteq due,
         l \in LeadLabels => Lead[req[w].r] \in Leads,
         l \in Confirmed => req[w].r \in paid,
         q.copy.status = "success" => req[w].r \in paid
  PROVE  /\ pc' \in [Workers -> Labels] /\ req' \in [Workers -> Locals] /\ HasRequest'
         /\ HasCharge'
<1>1. q \in Locals BY DEF Locals
<1>2. WellFormed(l, q) /\ Backed(l, q, paid) BY DEF WellFormed, Backed
<1>3. due' \subseteq paid BY DEF IInv, HasCharge
<1> QED BY <1>1, <1>2, <1>3, MoveTyped, MoveCharged DEF IInv

\* What a worker that has begun holds.
LEMMA Holding ==
  ASSUME IInv, NEW w \in Workers, pc[w] # "idle"
  PROVE  /\ req[w] \in Requests /\ req[w].r \in References /\ req[w].copy \in Rows
         /\ req' = req => req' = [req EXCEPT ![w] = req[w]]
         /\ pc[w] \in LeadLabels => Lead[req[w].r] \in Leads
         /\ pc[w] \in Confirmed => req[w].r \in paid
         /\ req[w].copy.status = "success" => req[w].r \in paid
<1>1. req[w] \in Requests /\ (pc[w] \in LeadLabels => Lead[req[w].r] \in Leads)
  BY DEF IInv, Typed, HasRequest, WellFormed
<1>2. Backed(pc[w], req[w], paid) BY DEF IInv, HasCharge
<1>3. req' = req => req' = [req EXCEPT ![w] = req[w]] BY DEF IInv, Typed, TypeOK
<1> QED BY <1>1, <1>2, <1>3 DEF Backed, Requests

-----------------------------------------------------------------------------
(* The actions                                                             *)

LEMMA Starting ==
  ASSUME IInv, NEW r \in References,
         \/ \E answered \in BOOLEAN : Initialize(r, answered)
         \/ InitiateRecharge(r) \/ Expire(r) \/ Pay(r)
  PROVE  IInv'
<1>1. ASSUME NEW answered \in BOOLEAN, Initialize(r, answered) PROVE IInv'
  <2>1. row' \in [References -> Rows] BY <1>1 DEF Initialize, IInv, Typed, TypeOK, Rows
  <2>2. HasCharge' BY <1>1, StillCharged DEF Initialize, IInv, HasCharge
  <2>3. ServedIsPaid' BY <1>1 DEF Initialize, IInv, ServedIsPaid, Typed, TypeOK
  <2>4. HasRequest' BY <1>1 DEF Initialize, IInv, Typed, HasRequest
  <2>5. TypeOK' BY <1>1, <2>1 DEF Initialize, IInv, Typed, TypeOK
  <2> QED BY <2>2, <2>3, <2>4, <2>5 DEF IInv, Typed
<1>2. ASSUME InitiateRecharge(r) \/ Expire(r) \/ Pay(r) PROVE IInv'
  <2>1. HasCharge' BY <1>2, StillCharged DEF InitiateRecharge, Expire, Pay, IInv, HasCharge
  <2>2. ServedIsPaid' BY <1>2, StillServed DEF InitiateRecharge, Expire, Pay, IInv
  <2>3. HasRequest' BY <1>2 DEF InitiateRecharge, Expire, Pay, IInv, Typed, HasRequest
  <2>4. TypeOK' BY <1>2 DEF InitiateRecharge, Expire, Pay, IInv, Typed, TypeOK
  <2> QED BY <2>1, <2>2, <2>3, <2>4 DEF IInv, Typed
<1> QED BY <1>1, <1>2

LEMMA Hearing ==
  ASSUME IInv, NEW r \in References, Deliver(r) \/ Redeliver(r)
  PROVE  IInv'
<1>1. r \in paid BY DEF Deliver, Redeliver, IInv, HasCharge
<1>2. PICK w \in Workers : Heard(w, r) BY DEF Deliver, Redeliver
<1>3. row' = row /\ served' = served /\ paid' = paid /\ linked' = linked /\ pending' = pending
      /\ lead' = lead /\ crashes' = crashes
  BY DEF Deliver, Redeliver
<1>4. repeats' \in 0..MaxRepeats
  BY BoundAssumption DEF Deliver, Redeliver, IInv, Typed, TypeOK
<1>5. ServedIsPaid' BY <1>3, StillServed DEF IInv
<1>6. /\ pc' \in [Workers -> Labels] /\ req' \in [Workers -> Locals]
      /\ HasRequest' /\ HasCharge' /\ due' \subseteq References
  <2>1. CASE row[r].status \notin {"none", "success"}
    <3>1. Load(w, r, TRUE, "settle") /\ due' = due BY <1>2, <2>1 DEF Heard
    <3>2. "settle" \in Labels /\ "settle" \notin LeadLabels BY DEF Labels, LeadLabels
    <3> QED BY <1>1, <1>3, <3>1, <3>2, LoadInv DEF IInv, Typed, TypeOK
  <2>2. CASE row[r].status \in {"none", "success"}
    <3>1. due' = due \ {r} /\ pc' = pc /\ req' = req BY <1>2, <2>2 DEF Heard
    <3>2. HasCharge' BY <1>3, <3>1, StillCharged DEF IInv, HasCharge
    <3>3. HasRequest' BY <3>1 DEF IInv, Typed, HasRequest
    <3> QED BY <3>1, <3>2, <3>3 DEF IInv, Typed, TypeOK, Locals
  <2> QED BY <2>1, <2>2
<1> QED BY <1>3, <1>4, <1>5, <1>6 DEF IInv, Typed, TypeOK, Locals

LEMMA Returning ==
  ASSUME IInv, NEW r \in References, NEW w \in Workers, Callback(w, r) \/ RechargeComplete(w, r)
  PROVE  IInv'
<1>1. PICK l \in {"verify", "verify_recharge"} : Load(w, r, FALSE, l)
  BY DEF Callback, RechargeComplete
<1>2. l \in Labels /\ l \notin LeadLabels /\ l \notin Confirmed
  BY DEF Labels, LeadLabels, Confirmed
<1>3. UNCHANGED <<row, linked, paid, due, pending, lead, served, repeats, crashes>>
  BY DEF Callback, RechargeComplete
<1>4. /\ pc' \in [Workers -> Labels] /\ req' \in [Workers -> Locals]
      /\ HasRequest' /\ HasCharge'
  BY <1>1, <1>2, <1>3, LoadInv
<1>5. ServedIsPaid' BY <1>3, StillServed DEF IInv
<1> QED BY <1>3, <1>4, <1>5 DEF IInv, Typed, TypeOK, Locals

\* A row written for a reference whose success is backed by a charge.
LEMMA RowServed ==
  ASSUME IInv, NEW r \in References, NEW new \in Rows, row' = [row EXCEPT ![r] = new],
         new.status = "success" => r \in paid, served' = served, paid' = paid
  PROVE  row' \in [References -> Rows] /\ ServedIsPaid'
BY DEF IInv, Typed, TypeOK, ServedIsPaid

ProcessFacts == /\ pc' \in [Workers -> Labels] /\ req' \in [Workers -> Locals]
                /\ HasRequest' /\ HasCharge'

LEMMA Verifying ==
  ASSUME IInv, NEW w \in Workers, Verify(w) \/ VerifyRecharge(w) PROVE IInv'
<1>1. pc[w] # "idle" BY DEF Verify, VerifyRecharge
<1>2. UNCHANGED <<row, linked, paid, due, pending, lead, served, repeats, crashes>>
  BY DEF Verify, VerifyRecharge
<1>3. ProcessFacts
  <2>1. ASSUME NEW l \in {"settle", "fail", "serve"}, Goto(w, l), req' = req,
               l # "fail" => Verified(w)
        PROVE  ProcessFacts
    <3>1. l \in Labels /\ l \notin LeadLabels BY DEF Labels, LeadLabels
    <3>2. l \in Confirmed => req[w].r \in paid BY <2>1 DEF Confirmed, Verified
    <3>3. pc' = [pc EXCEPT ![w] = l] BY <2>1 DEF Goto
    <3> QED BY <1>1, <1>2, <2>1, <3>1, <3>2, <3>3, Holding, GotoInv DEF ProcessFacts
  <2>2. CASE Return(w) BY <1>2, <2>2, ReturnInv DEF ProcessFacts
  <2> QED BY <2>1, <2>2 DEF Verify, VerifyRecharge
<1>4. ServedIsPaid' BY <1>2, StillServed DEF IInv
<1> QED BY <1>2, <1>3, <1>4 DEF ProcessFacts, IInv, Typed, TypeOK, Locals

LEMMA Failing == ASSUME IInv, NEW w \in Workers, Fail(w) PROVE IInv'
<1> DEFINE new == [req[w].copy EXCEPT !.status = "failed"]
<1>1. req[w].r \in References /\ req[w].copy \in Rows BY Holding DEF Fail
<1>2. new \in Rows /\ new.status = "failed" BY <1>1 DEF Rows
<1>3. UNCHANGED <<linked, paid, due, pending, lead, served, repeats, crashes>> BY DEF Fail
<1>4. row' = [row EXCEPT ![req[w].r] = new] BY DEF Fail
<1> HIDE DEF new
<1>5. row' \in [References -> Rows] /\ ServedIsPaid' BY <1>1, <1>2, <1>3, <1>4, RowServed
<1>6. ProcessFacts BY <1>3, ReturnInv DEF Fail, ProcessFacts
<1> QED BY <1>3, <1>5, <1>6 DEF ProcessFacts, IInv, Typed, TypeOK, Locals

LEMMA Settling == ASSUME IInv, NEW w \in Workers, Settle(w) PROVE IInv'
<1> DEFINE r == req[w].r
           new == [req[w].copy EXCEPT !.status = "success"]
           q == [req[w] EXCEPT !.copy = new]
           l == IF Lead[r] # NoOne /\ ~new.attached THEN "lead" ELSE "serve"
<1>1. pc[w] = "settle" BY DEF Settle
<1>2. req[w] \in Requests /\ r \in References /\ req[w].copy \in Rows /\ r \in paid
  BY <1>1, Holding DEF Confirmed
<1>3. new \in Rows BY <1>2 DEF Rows
<1>4. q \in Requests /\ q.r = r BY <1>2, <1>3 DEF Requests
<1>5. UNCHANGED <<linked, paid, due, pending, lead, served, repeats, crashes>> BY DEF Settle
<1>6. row' = [row EXCEPT ![r] = new] BY DEF Settle
<1>7. pc' = [pc EXCEPT ![w] = l] /\ req' = [req EXCEPT ![w] = q]
  BY DEF Settle, Goto, IInv, Typed, TypeOK
<1>8. l \in Labels /\ (l \in LeadLabels => Lead[r] \in Leads)
  BY <1>2, LeadAssumption DEF Labels, LeadLabels
<1> HIDE DEF new, q, l
<1>9. row' \in [References -> Rows] /\ ServedIsPaid' BY <1>2, <1>3, <1>5, <1>6, RowServed
<1>10. ProcessFacts BY <1>1, <1>2, <1>4, <1>5, <1>7, <1>8, GotoInv DEF ProcessFacts
<1> QED BY <1>5, <1>9, <1>10 DEF ProcessFacts, IInv, Typed, TypeOK, Locals

LEMMA Fetching == ASSUME IInv, NEW w \in Workers, FetchLead(w) PROVE IInv'
<1> DEFINE q == [req[w] EXCEPT !.converted = lead[Lead[req[w].r]].converted]
<1>1. pc[w] = "lead" BY DEF FetchLead
<1>2. /\ req[w] \in Requests /\ req[w].r \in References /\ Lead[req[w].r] \in Leads
      /\ req[w].r \in paid
  BY <1>1, Holding DEF Confirmed, LeadLabels
<1>3. q \in Requests /\ q.r = req[w].r BY <1>2 DEF Requests, IInv, Typed, TypeOK
<1>4. UNCHANGED <<row, linked, paid, due, pending, lead, served, repeats, crashes>>
  BY DEF FetchLead
<1>5. pc' = [pc EXCEPT ![w] = "convert"] /\ req' = [req EXCEPT ![w] = q]
  BY DEF FetchLead, Goto, IInv, Typed, TypeOK
<1> HIDE DEF q
<1>6. ProcessFacts BY <1>1, <1>2, <1>3, <1>4, <1>5, GotoInv DEF ProcessFacts, Labels
<1>7. ServedIsPaid' BY <1>4, StillServed DEF IInv
<1> QED BY <1>4, <1>6, <1>7 DEF ProcessFacts, IInv, Typed, TypeOK, Locals

LEMMA Converting == ASSUME IInv, NEW w \in Workers, Convert(w) PROVE IInv'
<1>1. pc[w] = "convert" BY DEF Convert
<1>2. req[w] \in Requests /\ Lead[req[w].r] \in Leads /\ req[w].r \in paid
  BY <1>1, Holding DEF Confirmed, LeadLabels
<1>3. UNCHANGED <<row, linked, paid, due, pending, served, req, repeats, crashes>>
  BY DEF Convert
<1>4. lead' \in [Leads -> [converted : BOOLEAN, orders : Nat]]
  BY <1>2 DEF Convert, IInv, Typed, TypeOK
<1>5. pc' = [pc EXCEPT ![w] = "attach"] BY DEF Convert, Goto
<1>6. ProcessFacts BY <1>1, <1>2, <1>3, <1>5, Holding, GotoInv DEF ProcessFacts, Labels
<1>7. ServedIsPaid' BY <1>3, StillServed DEF IInv
<1> QED BY <1>3, <1>4, <1>6, <1>7 DEF ProcessFacts, IInv, Typed, TypeOK, Locals

LEMMA Attaching == ASSUME IInv, NEW w \in Workers, Attach(w) PROVE IInv'
<1> DEFINE r == req[w].r
           new == [row[r] EXCEPT !.attached = TRUE]
<1>1. pc[w] = "attach" BY DEF Attach
<1>2. req[w] \in Requests /\ r \in References /\ r \in paid BY <1>1, Holding DEF Confirmed
<1>3. new \in Rows
  <2>1. row \in [References -> Rows] BY DEF IInv, Typed, TypeOK
  <2>2. row[r] \in Rows BY <1>2, <2>1
  <2> QED BY <2>2 DEF Rows
<1>4. UNCHANGED <<linked, paid, due, pending, lead, served, req, repeats, crashes>> BY DEF Attach
<1>5. row' = [row EXCEPT ![r] = new] BY DEF Attach, IInv, Typed, TypeOK
<1> HIDE DEF new
<1>6. row' \in [References -> Rows] /\ ServedIsPaid' BY <1>2, <1>3, <1>4, <1>5, RowServed
<1>7. pc' = [pc EXCEPT ![w] = "serve"] BY DEF Attach, Goto
<1>8. "serve" \in Labels /\ "serve" \notin LeadLabels BY DEF Labels, LeadLabels
<1>9. ProcessFacts BY <1>1, <1>2, <1>4, <1>7, <1>8, Holding, GotoInv DEF ProcessFacts
<1> QED BY <1>4, <1>6, <1>9 DEF ProcessFacts, IInv, Typed, TypeOK, Locals

LEMMA Serving == ASSUME IInv, NEW w \in Workers, Serve(w) PROVE IInv'
<1> DEFINE r == req[w].r
<1>1. pc[w] = "serve" BY DEF Serve
<1>2. req[w] \in Requests /\ r \in References /\ r \in paid BY <1>1, Holding DEF Confirmed
<1>3. UNCHANGED <<row, linked, paid, pending, lead, repeats, crashes>> BY DEF Serve
<1>4. served' \in [References -> Nat] BY <1>2 DEF Serve, IInv, Typed, TypeOK
<1>5. ServedIsPaid' BY <1>2, <1>3 DEF Serve, IInv, ServedIsPaid, Typed, TypeOK
<1>6. due' \subseteq due BY DEF Serve, Answer
<1>7. ProcessFacts
  <2>1. CASE r \in Recharges
    <3>1. pc' = [pc EXCEPT ![w] = "record"] /\ req' = req BY <2>1 DEF Serve, Goto
    <3>2. "record" \in Labels /\ "record" \notin LeadLabels BY DEF Labels, LeadLabels
    <3> QED BY <1>1, <1>2, <1>3, <1>6, <3>1, <3>2, Holding, GotoInv DEF ProcessFacts
  <2>2. CASE r \notin Recharges
    <3>1. Return(w) BY <2>2 DEF Serve, Answer
    <3> QED BY <1>3, <1>6, <3>1, ReturnInv DEF ProcessFacts
  <2> QED BY <2>1, <2>2
<1> QED BY <1>3, <1>4, <1>5, <1>6, <1>7 DEF ProcessFacts, IInv, Typed, TypeOK, Locals

LEMMA Recording == ASSUME IInv, NEW w \in Workers, Record(w) PROVE IInv'
<1> DEFINE r == req[w].r
           new == [row[r] EXCEPT !.status = "success"]
<1>1. pc[w] = "record" BY DEF Record
<1>2. req[w] \in Requests /\ r \in References /\ r \in paid BY <1>1, Holding DEF Confirmed
<1>3. UNCHANGED <<linked, paid, due, pending, lead, served, repeats, crashes>> BY DEF Record
<1>4. CASE row[r].status = "none"
  <2>1. new \in Rows BY <1>2 DEF Rows, IInv, Typed, TypeOK
  <2>2. row' = [row EXCEPT ![r] = new] BY <1>4 DEF Record, IInv, Typed, TypeOK
  <2> HIDE DEF new
  <2>3. row' \in [References -> Rows] /\ ServedIsPaid' BY <1>2, <1>3, <2>1, <2>2, RowServed
  <2>4. pc' = [pc EXCEPT ![w] = "forget"] /\ req' = req BY <1>4 DEF Record, Goto
  <2>5. "forget" \in Labels /\ "forget" \notin LeadLabels BY DEF Labels, LeadLabels
  <2>6. ProcessFacts BY <1>1, <1>2, <1>3, <2>4, <2>5, Holding, GotoInv DEF ProcessFacts
  <2> QED BY <1>3, <2>3, <2>6 DEF ProcessFacts, IInv, Typed, TypeOK, Locals
<1>5. CASE row[r].status # "none"
  <2>1. row' = row /\ Return(w) BY <1>5 DEF Record
  <2>2. ProcessFacts BY <1>3, <2>1, ReturnInv DEF ProcessFacts
  <2>3. ServedIsPaid' BY <1>3, <2>1, StillServed DEF IInv
  <2> QED BY <1>3, <2>1, <2>2, <2>3 DEF ProcessFacts, IInv, Typed, TypeOK, Locals
<1> QED BY <1>4, <1>5

LEMMA Ending == ASSUME IInv, NEW w \in Workers, Forget(w) \/ Crash(w) PROVE IInv'
<1>1. UNCHANGED <<row, linked, paid, due, lead, served, repeats>> /\ Return(w)
  BY DEF Forget, Crash
<1>2. pending' \subseteq References /\ crashes' \in 0..MaxCrashes
  BY BoundAssumption DEF Forget, Crash, IInv, Typed, TypeOK
<1>3. ProcessFacts BY <1>1, ReturnInv DEF ProcessFacts
<1>4. ServedIsPaid' BY <1>1, StillServed DEF IInv
<1> QED BY <1>1, <1>2, <1>3, <1>4 DEF ProcessFacts, IInv, Typed, TypeOK, Locals

LEMMA Stuttering == ASSUME IInv, UNCHANGED vars PROVE IInv'
<1>1. HasRequest' BY DEF vars, IInv, Typed, HasRequest
<1>2. HasCharge' BY StillCharged DEF vars, IInv, HasCharge
<1>3. ServedIsPaid' BY StillServed DEF vars, IInv
<1> QED BY <1>1, <1>2, <1>3 DEF vars, IInv, Typed, TypeOK

-----------------------------------------------------------------------------
(* The theorems                                                            *)

LEMMA InitInv == Init => IInv
<1> SUFFICES ASSUME Init PROVE IInv OBVIOUS
<1>1. TypeOK BY BoundAssumption DEF Init, TypeOK, Rows, NoRow, Labels
<1>2. HasRequest /\ HasCharge BY DEF Init, HasRequest, WellFormed, HasCharge, Backed
<1>3. ServedIsPaid BY DEF Init, ServedIsPaid, NoRow
<1> QED BY <1>1, <1>2, <1>3 DEF IInv, Typed

LEMMA StepInv == IInv /\ [Next]_vars => IInv'
<1> SUFFICES ASSUME IInv, [Next]_vars PROVE IInv' OBVIOUS
<1>1. ASSUME NEW w \in Workers, Continue(w) \/ Crash(w) PROVE IInv'
  BY <1>1, Verifying, Failing, Settling, Fetching, Converting, Attaching, Serving, Recording,
     Ending DEF Continue
<1>2. ASSUME NEW r \in References,
             \/ \E answered \in BOOLEAN : Initialize(r, answered)
             \/ InitiateRecharge(r) \/ Expire(r) \/ Pay(r) \/ Deliver(r) \/ Redeliver(r)
             \/ \E w \in Workers : Callback(w, r) \/ RechargeComplete(w, r)
      PROVE  IInv'
  BY <1>2, Starting, Hearing, Returning
<1>3. CASE UNCHANGED vars BY <1>3, Stuttering
<1> QED BY <1>1, <1>2, <1>3 DEF Next

\* Rows, leads, the cache and the locals of every worker keep their types; a
\* payment's status is always one of STATUS_CHOICES.
THEOREM PaymentsTypeCorrect == Spec => []TypeOK
<1>1. IInv => TypeOK BY DEF IInv, Typed
<1> QED BY <1>1, InitInv, StepInv, PTL DEF Spec

\* However webhooks, callbacks and recharges overlap, are repeated or killed,
\* nothing is served and no payment is a success before Paystack charged it:
\* every place a handler reaches after a confirmation remembers a charge.
THEOREM NothingServedUnpaid == Spec => []ServedIsPaid
<1>1. IInv => ServedIsPaid BY DEF IInv
<1> QED BY <1>1, InitInv, StepInv, PTL DEF Spec

-----------------------------------------------------------------------------
(* References whose handlers do not overlap                                *)

\* Two workers have no related references, if one of them is in Solo.
Apart == \A v, w \in Workers :
  v # w /\ pc[v] # "idle" /\ pc[w] # "idle" /\ req[v].r \in Solo => ~Related(req[v].r, req[w].r)

\* What holds while a worker handles a reference: it has not been served before
\* it is served, the row is no success before it is settled, and a lead that
\* was fetched is as it was.
Stage(v) == LET r == req[v].r  l == pc[v] IN
  l # "idle" /\ r \in Solo =>
    /\ l \in {"verify_recharge", "record", "forget"} => r \in Recharges
    /\ l \in {"verify", "settle", "fail", "lead", "convert", "attach"} => r \notin Recharges
    /\ l \in {"record", "forget"} => served[r] > 0
    /\ r \notin Recharges => /\ served[r] = 0
                             /\ row[r].status = "success" <=> l \notin {"verify", "settle", "fail"}
    /\ r \in Recharges /\ crashes = 0 =>
         /\ r \in linked
         /\ l \in {"verify_recharge", "serve"} => served[r] = 0
         /\ l = "record" => row[r].status = "none"
    /\ l = "convert" => req[v].converted = lead[Lead[r]].converted

\* What holds of a reference: a recharge that was served is out of the cache, or
\* about to be.
Leaving(s) == \E v \in Workers : pc[v] \in {"record", "forget"} /\ req[v].r = s
Fair(s) ==
  /\ s \notin Recharges => served[s] <= 1 /\ (served[s] > 0 => row[s].status = "success")
  /\ s \in Recharges /\ crashes = 0 =>
       served[s] <= 1 /\ (served[s] > 0 => s \in linked /\ (s \in pending => Leaving(s)))
  /\ s \in Recharges => /\ row[s].status \in {"none", "success"}
                        /\ served[s] = 0 => row[s].status = "none"
  /\ Lead[s] # NoOne => lead[Lead[s]].orders <= IF lead[Lead[s]].converted THEN 1 ELSE 0

SoloInv ==
  /\ Apart /\ pending \subseteq linked \cap Recharges
  /\ \A v \in Workers : Stage(v)
  /\ \A s \in Solo : Fair(s)

\* The worker w moves on with r; what it writes is of r or the lead of r.
Works(w, r, l, q) ==
  /\ pc[w] # "idle" /\ req[w].r = r
  /\ pc' = [pc EXCEPT ![w] = l] /\ req' = [req EXCEPT ![w] = q]
  /\ l # "idle" => q \in Requests /\ q.r = r
  /\ \A s \in References : s # r => row'[s] = row[s] /\ served'[s] = served[s]
  /\ \A d \in Leads : d # Lead[r] => lead'[d] = lead[d]
  /\ linked' = linked /\ pending' \subseteq pending
  /\ crashes' = 0 => crashes = 0

LEMMA WorkerStep ==
  ASSUME IInv, SoloInv, NEW w \in Workers, NEW r \in References, NEW l \in Labels, NEW q \in Locals,
         Works(w, r, l, q), Stage(w)', r \in Solo => Fair(r)'
  PROVE  SoloInv'
<1>1. /\ \A v \in Workers : pc'[v] = IF v = w THEN l ELSE pc[v]
      /\ \A v \in Workers : req'[v] = IF v = w THEN q ELSE req[v]
  BY Moves DEF Works, IInv
<1>2. Apart'
  <2> SUFFICES ASSUME NEW u \in Workers, NEW v \in Workers, u # v, pc'[u] # "idle", pc'[v] # "idle",
                      req'[u].r \in Solo
               PROVE  ~Related(req'[u].r, req'[v].r)
    BY DEF Apart, Related
  <2>1. pc[u] # "idle" /\ req'[u].r = req[u].r BY <1>1 DEF Works
  <2>2. pc[v] # "idle" /\ req'[v].r = req[v].r BY <1>1 DEF Works
  <2> QED BY <2>1, <2>2 DEF SoloInv, Apart
<1>3. ASSUME NEW v \in Workers PROVE Stage(v)'
  <2>1. CASE v = w BY <2>1
  <2>2. CASE v # w
    <3>1. pc'[v] = pc[v] /\ req'[v] = req[v] BY <1>1, <2>2
    <3> SUFFICES ASSUME pc[v] # "idle", req[v].r \in Solo PROVE Stage(v)'
      BY <3>1 DEF Stage
    <3>2. req[v].r \in References /\ (pc[v] = "convert" => Lead[req[v].r] \in Leads)
      BY Holding DEF LeadLabels
    <3>3. ~Related(req[v].r, r) BY <2>2 DEF SoloInv, Apart, Works
    <3>4. row'[req[v].r] = row[req[v].r] /\ served'[req[v].r] = served[req[v].r]
      BY <3>2, <3>3 DEF Related, Works
    <3>5. pc[v] = "convert" => lead'[Lead[req[v].r]] = lead[Lead[req[v].r]]
      BY <3>2, <3>3, LeadAssumption DEF Related, Works
    <3>6. Stage(v) BY DEF SoloInv
    <3> QED BY <3>1, <3>4, <3>5, <3>6 DEF Stage, Works
  <2> QED BY <2>1, <2>2
<1>4. ASSUME NEW s \in Solo PROVE Fair(s)'
  <2>1. CASE s = r BY <2>1
  <2>2. CASE s # r
    <3>1. s \in References /\ Fair(s) BY SoloAssumption DEF SoloInv
    <3>2. row'[s] = row[s] /\ served'[s] = served[s] BY <2>2, <3>1 DEF Works
    <3>3. Leaving(s) => Leaving(s)'
      <4> SUFFICES ASSUME NEW v \in Workers, pc[v] \in {"record", "forget"}, req[v].r = s
                   PROVE  Leaving(s)'
        BY DEF Leaving
      <4>1. v # w BY <2>2 DEF Works
      <4>2. pc'[v] = pc[v] /\ req'[v] = req[v] BY <4>1, <1>1
      <4> QED BY <4>2 DEF Leaving
    <3>4. Lead[s] # NoOne => lead'[Lead[s]].orders <= IF lead'[Lead[s]].converted THEN 1 ELSE 0
      <4> SUFFICES ASSUME Lead[s] # NoOne
                   PROVE  lead'[Lead[s]].orders <= IF lead'[Lead[s]].converted THEN 1 ELSE 0
        OBVIOUS
      <4>1. Lead[s] \in Leads BY <3>1, LeadAssumption
      <4>2. CASE Lead[s] = Lead[r]
        <5>1. r \in Solo BY <4>2, SoloAssumption
        <5> QED BY <4>2, <5>1 DEF Fair
      <4>3. CASE Lead[s] # Lead[r]
        <5>1. lead'[Lead[s]] = lead[Lead[s]] BY <4>1, <4>3 DEF Works
        <5> QED BY <3>1, <5>1 DEF Fair
      <4> QED BY <4>2, <4>3
    <3> QED BY <3>1, <3>2, <3>3, <3>4 DEF Fair, Works
  <2> QED BY <2>1, <2>2
<1> QED BY <1>2, <1>3, <1>4 DEF SoloInv, Works


\* A row is loaded by a worker that was idle.
LEMMA LoadSolo ==
  ASSUME IInv, SoloInv, NEW w \in Workers, NEW r \in References, NEW hook \in BOOLEAN,
         NEW l \in {"settle", "verify", "verify_recharge"}, Load(w, r, hook, l),
         UNCHANGED <<row, linked, pending, lead, served, crashes>>,
         l = "verify_recharge" => r \in pending,
         l # "verify_recharge" => row[r].status \notin {"none", "success"}
  PROVE  SoloInv'
<1> DEFINE q == [r |-> r, hook |-> hook, copy |-> row[r], converted |-> FALSE]
<1>1. pc[w] = "idle" /\ pc' = [pc EXCEPT ![w] = l] /\ req' = [req EXCEPT ![w] = q] /\ q.r = r
  BY DEF Load, Goto
<1>2. r \in Solo => \A v \in Workers : req[v] # NoRequest => ~Related(req[v].r, r) BY DEF Load
<1>3. l \in Labels /\ q \in Locals
  BY DEF Labels, Locals, Requests, IInv, Typed, TypeOK
<1> HIDE DEF q
<1>4. /\ \A v \in Workers : pc'[v] = IF v = w THEN l ELSE pc[v]
      /\ \A v \in Workers : req'[v] = IF v = w THEN q ELSE req[v]
  BY <1>1, <1>3, Moves DEF IInv
<1>5. \A v \in Workers : pc[v] # "idle" => req[v] # NoRequest
  BY Holding, RequestAssumption
<1>6. Apart'
  <2> SUFFICES ASSUME NEW u \in Workers, NEW v \in Workers, u # v, pc'[u] # "idle", pc'[v] # "idle",
                      req'[u].r \in Solo, Related(req'[u].r, req'[v].r)
               PROVE  FALSE
    BY DEF Apart, Related
  <2>1. CASE u # w /\ v # w BY <2>1, <1>4 DEF SoloInv, Apart
  <2>2. CASE u = w
    <3>1. pc[v] # "idle" /\ req'[v] = req[v] /\ req'[u].r = r BY <2>2, <1>1, <1>4
    <3>2. ~Related(req[v].r, r) BY <3>1, <1>2, <1>5
    <3> QED BY <3>1, <3>2 DEF Related
  <2>3. CASE v = w
    <3>1. pc[u] # "idle" /\ req'[u] = req[u] /\ req'[v].r = r BY <2>3, <1>1, <1>4
    <3>2. r \in Solo BY <3>1, SoloAssumption DEF Related
    <3>3. ~Related(req[u].r, r) BY <3>1, <3>2, <1>2, <1>5
    <3> QED BY <3>1, <3>3
  <2> QED BY <2>1, <2>2, <2>3
<1>7. Stage(w)'
  <2> SUFFICES ASSUME r \in Solo PROVE Stage(w)' BY <1>1, <1>4 DEF Stage
  <2>1. Fair(r) BY DEF SoloInv
  <2>2. \A v \in Workers : pc[v] # "idle" => req[v].r # r BY <1>2, <1>5 DEF Related
  <2>3. ~Leaving(r) BY <2>2 DEF Leaving
  <2>4. CASE l = "verify_recharge"
    <3>1. r \in pending /\ r \in linked /\ r \in Recharges BY <2>4 DEF SoloInv
    <3>2. crashes = 0 => served[r] = 0 BY <2>1, <2>3, <3>1 DEF Fair, IInv, Typed, TypeOK
    <3> QED BY <1>1, <1>4, <2>4, <3>1, <3>2 DEF Stage
  <2>5. CASE l \in {"settle", "verify"}
    <3>1. r \notin Recharges /\ row[r].status # "success" BY <2>1, <2>5 DEF Fair
    <3>2. served[r] = 0 BY <2>1, <3>1 DEF Fair, IInv, Typed, TypeOK
    <3> QED BY <1>1, <1>4, <2>5, <3>1, <3>2 DEF Stage
  <2> QED BY <2>4, <2>5
<1>8. \A v \in Workers : Stage(v)'
  <2> TAKE v \in Workers
  <2>1. CASE v = w BY <2>1, <1>7
  <2>2. CASE v # w BY <2>2, <1>4 DEF Stage, SoloInv
  <2> QED BY <2>1, <2>2
<1>9. \A s \in Solo : Fair(s)'
  <2> TAKE s \in Solo
  <2>1. Leaving(s) => Leaving(s)' BY <1>1, <1>4 DEF Leaving
  <2> QED BY <2>1 DEF Fair, SoloInv
<1> QED BY <1>6, <1>8, <1>9 DEF SoloInv

\* Nobody moves: a row begins, a recharge comes or goes, a charge is made.
LEMMA QuietSolo ==
  ASSUME IInv, SoloInv, UNCHANGED <<lead, served, crashes>>, pc' = pc, req' = req,
         linked \subseteq linked', pending' \subseteq linked' \cap Recharges,
         \A s \in pending' \ pending : s \notin linked,
         \A s \in References : \/ row'[s] = row[s]
                               \/ /\ s \notin Recharges /\ row[s].status = "none"
                                  /\ row'[s].status # "success"
  PROVE  SoloInv'
<1>1. Apart' BY DEF SoloInv, Apart, Related
<1>2. \A v \in Workers : Stage(v)'
  <2> SUFFICES ASSUME NEW v \in Workers, pc[v] # "idle", req[v].r \in Solo PROVE Stage(v)'
    BY DEF Stage
  <2>1. req[v].r \in References BY Holding
  <2>2. Stage(v) BY DEF SoloInv
  <2>3. \/ row'[req[v].r] = row[req[v].r]
        \/ /\ req[v].r \notin Recharges /\ row[req[v].r].status = "none"
           /\ row'[req[v].r].status # "success"
    BY <2>1
  <2> QED BY <2>2, <2>3 DEF Stage
<1>3. \A s \in Solo : Fair(s)'
  <2> TAKE s \in Solo
  <2>1. s \in References /\ Fair(s) /\ served[s] \in Nat
    BY SoloAssumption DEF SoloInv, IInv, Typed, TypeOK
  <2>2. Leaving(s)' <=> Leaving(s) BY DEF Leaving
  <2>3. \/ row'[s] = row[s]
        \/ s \notin Recharges /\ row[s].status = "none" /\ row'[s].status # "success"
    BY <2>1
  <2> QED BY <2>1, <2>2, <2>3 DEF Fair
<1> QED BY <1>1, <1>2, <1>3 DEF SoloInv

LEMMA OutsideSolo ==
  ASSUME IInv, SoloInv, NEW r \in References,
         \/ \E answered \in BOOLEAN : Initialize(r, answered)
         \/ InitiateRecharge(r) \/ Expire(r) \/ Pay(r) \/ Deliver(r) \/ Redeliver(r)
         \/ \E w \in Workers : Callback(w, r) \/ RechargeComplete(w, r)
  PROVE  SoloInv'
<1>1. ASSUME NEW answered \in BOOLEAN, Initialize(r, answered) PROVE SoloInv'
  <2>1. /\ UNCHANGED <<pending, lead, served, pc, req, crashes>> /\ linked \subseteq linked'
        /\ r \notin Recharges /\ row[r].status = "none"
    BY <1>1 DEF Initialize
  <2>2. row' = [row EXCEPT ![r].status = IF answered THEN "pending" ELSE "failed"]
    BY <1>1 DEF Initialize
  <2>3. \A s \in References : s # r => row'[s] = row[s] BY <2>2 DEF IInv, Typed, TypeOK
  <2>4. row'[r].status # "success" BY <2>2 DEF IInv, Typed, TypeOK, Rows
  <2> QED BY <2>1, <2>3, <2>4, QuietSolo DEF SoloInv
<1>2. ASSUME InitiateRecharge(r) \/ Expire(r) \/ Pay(r) PROVE SoloInv'
  BY <1>2, QuietSolo DEF InitiateRecharge, Expire, Pay, SoloInv
<1>3. ASSUME Deliver(r) \/ Redeliver(r) PROVE SoloInv'
  <2>1. PICK w \in Workers : Heard(w, r) BY <1>3 DEF Deliver, Redeliver
  <2>2. UNCHANGED <<row, linked, pending, lead, served, crashes>>
    BY <1>3 DEF Deliver, Redeliver
  <2>3. CASE row[r].status \notin {"none", "success"}
    <3>1. Load(w, r, TRUE, "settle") BY <2>1, <2>3 DEF Heard
    <3> QED BY <2>2, <2>3, <3>1, LoadSolo
  <2>4. CASE row[r].status \in {"none", "success"}
    <3>1. pc' = pc /\ req' = req BY <2>1, <2>4 DEF Heard
    <3> QED BY <2>2, <3>1, QuietSolo DEF SoloInv
  <2> QED BY <2>3, <2>4
<1>4. ASSUME NEW w \in Workers, Callback(w, r) PROVE SoloInv'
  <2>1. UNCHANGED <<row, linked, pending, lead, served, crashes>> /\ Load(w, r, FALSE, "verify")
        /\ row[r].status = "pending"
    BY <1>4 DEF Callback
  <2> QED BY <2>1, LoadSolo
<1>5. ASSUME NEW w \in Workers, RechargeComplete(w, r) PROVE SoloInv'
  <2>1. UNCHANGED <<row, linked, pending, lead, served, crashes>>
        /\ Load(w, r, FALSE, "verify_recharge") /\ r \in pending
    BY <1>5 DEF RechargeComplete
  <2> QED BY <2>1, LoadSolo
<1> QED BY <1>1, <1>2, <1>3, <1>4, <1>5


\* A worker that goes idle leaves everything to the reference's own facts.
LEMMA ReturnSolo ==
  ASSUME IInv, SoloInv, NEW w \in Workers, NEW r, r = req[w].r, pc[w] # "idle", Return(w),
         \A s \in References : s # r => row'[s] = row[s] /\ served'[s] = served[s],
         lead' = lead, linked' = linked, pending' \subseteq pending, crashes' = 0 => crashes = 0,
         r \in Solo => Fair(r)'
  PROVE  SoloInv'
<1>1. r \in References BY Holding
<1>2. pc' = [pc EXCEPT ![w] = "idle"] /\ req' = [req EXCEPT ![w] = NoRequest]
  BY DEF Return, Goto
<1>3. "idle" \in Labels /\ NoRequest \in Locals BY DEF Labels, Locals
<1>4. Works(w, r, "idle", NoRequest) BY <1>2 DEF Works
<1>5. pc'[w] = "idle" BY <1>2, <1>3, Moves DEF IInv
<1>6. Stage(w)' BY <1>5 DEF Stage
<1> QED BY <1>1, <1>3, <1>4, <1>6, WorkerStep

\* A worker that goes on with what it has loaded.
LEMMA GotoSolo ==
  ASSUME IInv, SoloInv, NEW w \in Workers, NEW r, r = req[w].r, pc[w] # "idle",
         NEW l \in Labels, l # "idle", NEW q \in Requests, q.r = r,
         pc' = [pc EXCEPT ![w] = l], req' = [req EXCEPT ![w] = q],
         \A s \in References : s # r => row'[s] = row[s] /\ served'[s] = served[s],
         \A d \in Leads : d # Lead[r] => lead'[d] = lead[d],
         linked' = linked, pending' = pending, crashes' = crashes,
         r \in Solo => Stage(w)' /\ Fair(r)'
  PROVE  SoloInv'
<1>1. r \in References /\ q \in Locals BY Holding DEF Locals
<1>2. Works(w, r, l, q) BY DEF Works
<1>3. pc'[w] = l /\ req'[w] = q BY <1>1, Moves DEF IInv
<1>4. Stage(w)' BY <1>3 DEF Stage
<1> QED BY <1>1, <1>2, <1>4, WorkerStep

\* What a worker and its reference satisfy before a step.
LEMMA Working ==
  ASSUME IInv, SoloInv, NEW w \in Workers, pc[w] # "idle"
  PROVE  /\ req[w] \in Requests /\ req[w].r \in References
         /\ row[req[w].r] \in Rows /\ served[req[w].r] \in Nat
         /\ req' = req => req' = [req EXCEPT ![w] = req[w]]
         /\ req[w].r \in Solo => Stage(w) /\ Fair(req[w].r)
BY Holding DEF SoloInv, IInv, Typed, TypeOK

\* The reference is not touched, and the worker is not leaving it.
LEMMA FairStays ==
  ASSUME NEW r, Fair(r), UNCHANGED <<served, row, lead, linked, crashes>>,
         pending' \subseteq pending,
         Leaving(r) => Leaving(r)' \/ r \notin pending' \/ crashes # 0
  PROVE  Fair(r)'
BY DEF Fair

LEMMA VerifySolo ==
  ASSUME IInv, SoloInv, NEW w \in Workers, NEW r, r = req[w].r,
         Verify(w) \/ VerifyRecharge(w)
  PROVE  SoloInv'
<1>1. /\ pc[w] \in {"verify", "verify_recharge"}
      /\ UNCHANGED <<row, linked, paid, due, pending, lead, served, repeats, crashes>>
  BY DEF Verify, VerifyRecharge
<1>2. /\ req[w] \in Requests /\ r \in References
      /\ req' = req => req' = [req EXCEPT ![w] = req[w]]
      /\ r \in Solo => Stage(w) /\ Fair(r)
  BY <1>1, Working
<1>3. r \in Solo => ~Leaving(r)
  <2> SUFFICES ASSUME r \in Solo, NEW v \in Workers, pc[v] \in {"record", "forget"}, req[v].r = r
               PROVE  FALSE
    BY DEF Leaving
  <2>1. v # w BY <1>1
  <2> QED BY <1>1, <2>1 DEF SoloInv, Apart, Related
<1>4. r \in Solo => Fair(r)' BY <1>1, <1>2, <1>3, FairStays
<1>5. CASE Return(w) BY <1>1, <1>4, <1>5, ReturnSolo
<1>6. ASSUME NEW l \in {"settle", "fail", "serve"}, Goto(w, l), req' = req,
             pc[w] = "verify" <=> l # "serve"
      PROVE  SoloInv'
  <2>1. l \in Labels /\ pc' = [pc EXCEPT ![w] = l] BY <1>6 DEF Labels, Goto
  <2>2. pc'[w] = l /\ req'[w] = req[w] BY <1>2, <1>6, <2>1, Moves DEF IInv, Locals
  <2>3. r \in Solo => Stage(w)' BY <1>1, <1>2, <1>6, <2>2 DEF Stage
  <2> QED BY <1>1, <1>2, <1>4, <1>6, <2>1, <2>3, GotoSolo
<1> QED BY <1>5, <1>6 DEF Verify, VerifyRecharge

LEMMA FailSolo ==
  ASSUME IInv, SoloInv, NEW w \in Workers, NEW r, r = req[w].r, Fail(w) PROVE SoloInv'
<1>1. pc[w] = "fail" /\ Return(w)
      /\ UNCHANGED <<linked, paid, due, pending, lead, served, repeats, crashes>>
      /\ row' = [row EXCEPT ![r] = [req[w].copy EXCEPT !.status = "failed"]]
  BY DEF Fail
<1>2. r \in References /\ served[r] \in Nat /\ (r \in Solo => Stage(w) /\ Fair(r))
  BY <1>1, Working
<1>3. r \in Solo => r \notin Recharges /\ served[r] = 0 BY <1>1, <1>2 DEF Stage
<1>4. \A s \in References : s # r => row'[s] = row[s] BY <1>1 DEF IInv, Typed, TypeOK
<1>5. r \in Solo => Fair(r)' BY <1>1, <1>2, <1>3 DEF Fair
<1> QED BY <1>1, <1>4, <1>5, ReturnSolo

LEMMA SettleSolo ==
  ASSUME IInv, SoloInv, NEW w \in Workers, NEW r, r = req[w].r, Settle(w) PROVE SoloInv'
<1> DEFINE new == [req[w].copy EXCEPT !.status = "success"]
           q == [req[w] EXCEPT !.copy = new]
           l == IF Lead[r] # NoOne /\ ~new.attached THEN "lead" ELSE "serve"
<1>1. pc[w] = "settle" /\ UNCHANGED <<linked, paid, due, pending, lead, served, repeats, crashes>>
  BY DEF Settle
<1>2. req[w] \in Requests /\ r \in References /\ (r \in Solo => Stage(w) /\ Fair(r))
  BY <1>1, Working
<1>3. new \in Rows /\ new.status = "success" BY <1>2 DEF Rows, Requests
<1>4. q \in Requests /\ q.r = r BY <1>2, <1>3 DEF Requests
<1>5. pc' = [pc EXCEPT ![w] = l] /\ req' = [req EXCEPT ![w] = q]
  BY DEF Settle, Goto, IInv, Typed, TypeOK
<1>6. l \in Labels /\ l \in {"lead", "serve"} BY DEF Labels
<1>7. row' = [row EXCEPT ![r] = new] BY DEF Settle
<1> HIDE DEF new, q, l
<1>8. row'[r].status = "success" /\ \A s \in References : s # r => row'[s] = row[s]
  BY <1>2, <1>3, <1>7 DEF IInv, Typed, TypeOK
<1>9. pc'[w] = l /\ req'[w] = q BY <1>4, <1>5, <1>6, Moves DEF IInv, Locals
<1>10. r \in Solo => Stage(w)' /\ Fair(r)'
  <2> SUFFICES ASSUME r \in Solo PROVE Stage(w)' /\ Fair(r)' OBVIOUS
  <2>1. r \notin Recharges /\ served[r] = 0 BY <1>1, <1>2 DEF Stage
  <2>2. Stage(w)' BY <1>1, <1>4, <1>6, <1>8, <1>9, <2>1 DEF Stage
  <2> QED BY <1>1, <1>2, <1>8, <2>1, <2>2 DEF Fair
<1> QED BY <1>1, <1>2, <1>4, <1>5, <1>6, <1>8, <1>10, GotoSolo

LEMMA FetchSolo ==
  ASSUME IInv, SoloInv, NEW w \in Workers, NEW r, r = req[w].r, FetchLead(w) PROVE SoloInv'
<1> DEFINE q == [req[w] EXCEPT !.converted = lead[Lead[r]].converted]
<1>1. pc[w] = "lead"
      /\ UNCHANGED <<row, linked, paid, due, pending, lead, served, repeats, crashes>>
  BY DEF FetchLead
<1>2. req[w] \in Requests /\ r \in References /\ (r \in Solo => Stage(w) /\ Fair(r))
  BY <1>1, Working
<1>3. Lead[r] \in Leads BY <1>1, Holding DEF LeadLabels
<1>4. q \in Requests /\ q.r = r /\ q.converted = lead[Lead[r]].converted
  BY <1>2, <1>3 DEF Requests, IInv, Typed, TypeOK
<1>5. pc' = [pc EXCEPT ![w] = "convert"] /\ req' = [req EXCEPT ![w] = q] /\ "convert" \in Labels
  BY DEF FetchLead, Goto, IInv, Typed, TypeOK, Labels
<1> HIDE DEF q
<1>6. pc'[w] = "convert" /\ req'[w] = q BY <1>4, <1>5, Moves DEF IInv, Locals
<1>7. r \in Solo => Stage(w)' BY <1>1, <1>2, <1>4, <1>6 DEF Stage
<1>8. r \in Solo => r \notin Recharges BY <1>1, <1>2 DEF Stage
<1>9. r \in Solo => Fair(r)' BY <1>1, <1>2, <1>8 DEF Fair
<1> QED BY <1>1, <1>2, <1>4, <1>5, <1>7, <1>9, GotoSolo

LEMMA ConvertSolo ==
  ASSUME IInv, SoloInv, NEW w \in Workers, NEW r, r = req[w].r, Convert(w) PROVE SoloInv'
<1> DEFINE d == Lead[r]
<1>1. pc[w] = "convert" /\ pc' = [pc EXCEPT ![w] = "attach"] /\ "attach" \in Labels
      /\ UNCHANGED <<row, linked, paid, due, pending, served, req, repeats, crashes>>
  BY DEF Convert, Goto, Labels
<1>2. /\ req[w] \in Requests /\ r \in References /\ (r \in Solo => Stage(w) /\ Fair(r))
      /\ req' = [req EXCEPT ![w] = req[w]]
  BY <1>1, Working
<1>3. d \in Leads /\ d # NoOne /\ lead[d] \in [converted : BOOLEAN, orders : Nat]
  BY <1>1, Holding, LeadAssumption DEF LeadLabels, IInv, Typed, TypeOK
<1>4. lead' = IF req[w].converted THEN lead
              ELSE [lead EXCEPT ![d] = [converted |-> TRUE, orders |-> lead[d].orders + 1]]
  BY DEF Convert
<1>5. \A e \in Leads : e # d => lead'[e] = lead[e] BY <1>4 DEF IInv, Typed, TypeOK
<1>6. pc'[w] = "attach" /\ req'[w] = req[w] BY <1>1, <1>2, Moves DEF IInv, Locals
<1>7. r \in Solo => Stage(w)' BY <1>1, <1>2, <1>6 DEF Stage
<1>8. r \in Solo => Fair(r)'
  <2> SUFFICES ASSUME r \in Solo PROVE Fair(r)' OBVIOUS
  <2>1. r \notin Recharges /\ req[w].converted = lead[d].converted BY <1>1, <1>2 DEF Stage
  <2>2. lead[d].orders <= IF lead[d].converted THEN 1 ELSE 0 BY <1>2, <1>3 DEF Fair
  <2>3. lead'[d].orders <= IF lead'[d].converted THEN 1 ELSE 0
    <3>1. CASE lead[d].converted BY <3>1, <2>1, <2>2, <1>4
    <3>2. CASE ~lead[d].converted
      <4>1. lead'[d] = [converted |-> TRUE, orders |-> lead[d].orders + 1]
        BY <3>2, <2>1, <1>3, <1>4 DEF IInv, Typed, TypeOK
      <4> QED BY <3>2, <4>1, <2>2, <1>3
    <3> QED BY <3>1, <3>2
  <2> QED BY <1>1, <1>2, <2>1, <2>3 DEF Fair
<1>9. /\ \A s \in References : s # r => row'[s] = row[s] /\ served'[s] = served[s]
      /\ linked' = linked /\ pending' = pending /\ crashes' = crashes
  BY <1>1
<1>10. \A e \in Leads : e # Lead[r] => lead'[e] = lead[e] BY <1>5
<1>11. r \in Solo => Stage(w)' /\ Fair(r)' BY <1>7, <1>8
<1> DEFINE q == req[w]
<1>12. q \in Requests /\ q.r = r /\ req' = [req EXCEPT ![w] = q] BY <1>2
<1> HIDE DEF d, q
<1> QED BY <1>1, <1>9, <1>10, <1>11, <1>12, GotoSolo


LEMMA AttachSolo ==
  ASSUME IInv, SoloInv, NEW w \in Workers, NEW r, r = req[w].r, Attach(w) PROVE SoloInv'
<1>1. pc[w] = "attach" /\ pc' = [pc EXCEPT ![w] = "serve"] /\ "serve" \in Labels
      /\ UNCHANGED <<linked, paid, due, pending, lead, served, req, repeats, crashes>>
      /\ row' = [row EXCEPT ![r].attached = TRUE]
  BY DEF Attach, Goto, Labels
<1>2. /\ req[w] \in Requests /\ r \in References /\ (r \in Solo => Stage(w) /\ Fair(r))
      /\ req' = [req EXCEPT ![w] = req[w]] /\ row[r] \in Rows
  BY <1>1, Working
<1>3. row'[r].status = row[r].status
  BY <1>1, <1>2 DEF IInv, Typed, TypeOK, Rows
<1>4. \A s \in References : s # r => row'[s] = row[s] /\ served'[s] = served[s]
  BY <1>1 DEF IInv, Typed, TypeOK
<1>5. pc'[w] = "serve" /\ req'[w] = req[w] BY <1>1, <1>2, Moves DEF IInv, Locals
<1>6. r \in Solo => Stage(w)' /\ Fair(r)'
  <2> SUFFICES ASSUME r \in Solo PROVE Stage(w)' /\ Fair(r)' OBVIOUS
  <2>1. r \notin Recharges BY <1>1, <1>2 DEF Stage
  <2>2. Stage(w)' BY <1>1, <1>2, <1>3, <1>5, <2>1 DEF Stage
  <2>3. Fair(r)' BY <1>1, <1>2, <1>3, <2>1 DEF Fair
  <2> QED BY <2>2, <2>3
<1> DEFINE q == req[w]
<1>7. q \in Requests /\ q.r = r /\ req' = [req EXCEPT ![w] = q] BY <1>2
<1> HIDE DEF q
<1> QED BY <1>1, <1>4, <1>6, <1>7, GotoSolo

LEMMA ServeSolo ==
  ASSUME IInv, SoloInv, NEW w \in Workers, NEW r, r = req[w].r, Serve(w) PROVE SoloInv'
<1>1. pc[w] = "serve" /\ UNCHANGED <<row, linked, paid, pending, lead, repeats, crashes>>
      /\ served' = [served EXCEPT ![r] = served[r] + 1]
  BY DEF Serve
<1>2. /\ req[w] \in Requests /\ r \in References /\ (r \in Solo => Stage(w) /\ Fair(r))
      /\ served[r] \in Nat
  BY <1>1, Working
<1>3. served'[r] = served[r] + 1 /\ \A s \in References : s # r => served'[s] = served[s]
  BY <1>1, <1>2 DEF IInv, Typed, TypeOK
<1>4. CASE r \notin Recharges
  <2>1. Return(w) BY <1>4 DEF Serve, Answer
  <2>2. r \in Solo => Fair(r)'
    <3> SUFFICES ASSUME r \in Solo PROVE Fair(r)' OBVIOUS
    <3>1. served[r] = 0 /\ row[r].status = "success" BY <1>1, <1>2, <1>4 DEF Stage
    <3> QED BY <1>1, <1>2, <1>3, <1>4, <3>1 DEF Fair
  <2> QED BY <1>1, <1>3, <2>1, <2>2, ReturnSolo
<1>5. CASE r \in Recharges
  <2>1. pc' = [pc EXCEPT ![w] = "record"] /\ req' = req /\ "record" \in Labels
    BY <1>5 DEF Serve, Goto, Labels
  <2>2. req' = [req EXCEPT ![w] = req[w]] BY <1>1, <2>1, Working
  <2>3. pc'[w] = "record" /\ req'[w] = req[w]
    BY <1>2, <2>1, <2>2, Moves DEF IInv, Locals
  <2>4. r \in Solo => Stage(w)' /\ Fair(r)'
    <3> SUFFICES ASSUME r \in Solo PROVE Stage(w)' /\ Fair(r)' OBVIOUS
    <3>1. crashes = 0 => served[r] = 0 /\ r \in linked BY <1>1, <1>2, <1>5 DEF Stage
    <3>2. Leaving(r)' BY <2>3 DEF Leaving
    <3>3. Fair(r)' BY <1>1, <1>2, <1>3, <1>5, <3>1, <3>2 DEF Fair
    <3>4. crashes = 0 => row[r].status = "none" BY <1>2, <1>5, <3>1 DEF Fair
    <3>5. Stage(w)' BY <1>1, <1>2, <1>3, <1>5, <2>3, <3>1, <3>4 DEF Stage
    <3> QED BY <3>3, <3>5
  <2> DEFINE q == req[w]
  <2>5. q \in Requests /\ q.r = r /\ req' = [req EXCEPT ![w] = q] BY <1>2, <2>2
  <2> HIDE DEF q
  <2> QED BY <1>1, <1>3, <2>1, <2>4, <2>5, GotoSolo
<1> QED BY <1>4, <1>5

LEMMA RecordSolo ==
  ASSUME IInv, SoloInv, NEW w \in Workers, NEW r, r = req[w].r, Record(w) PROVE SoloInv'
<1>1. pc[w] = "record"
      /\ UNCHANGED <<linked, paid, due, pending, lead, served, repeats, crashes>>
  BY DEF Record
<1>2. /\ req[w] \in Requests /\ r \in References /\ (r \in Solo => Stage(w) /\ Fair(r))
      /\ served[r] \in Nat /\ row[r] \in Rows
  BY <1>1, Working
<1>3. CASE row[r].status = "none"
  <2>1. pc' = [pc EXCEPT ![w] = "forget"] /\ req' = req /\ "forget" \in Labels
        /\ row' = [row EXCEPT ![r].status = "success"]
    BY <1>3 DEF Record, Goto, Labels
  <2>2. req' = [req EXCEPT ![w] = req[w]] BY <1>1, <2>1, Working
  <2>3. pc'[w] = "forget" /\ req'[w] = req[w]
    BY <1>2, <2>1, <2>2, Moves DEF IInv, Locals
  <2>4. row'[r].status = "success" /\ \A s \in References : s # r => row'[s] = row[s]
    BY <1>2, <2>1 DEF IInv, Typed, TypeOK, Rows
  <2>5. r \in Solo => Stage(w)' /\ Fair(r)'
    <3> SUFFICES ASSUME r \in Solo PROVE Stage(w)' /\ Fair(r)' OBVIOUS
    <3>1. r \in Recharges BY <1>1, <1>2 DEF Stage
    <3>2. Stage(w)' BY <1>1, <1>2, <2>3, <3>1 DEF Stage
    <3>3. Leaving(r)' BY <2>3 DEF Leaving
    <3>4. served[r] # 0 BY <1>1, <1>2 DEF Stage
    <3>5. Fair(r)' BY <1>1, <1>2, <2>4, <3>1, <3>3, <3>4 DEF Fair
    <3> QED BY <3>2, <3>5
  <2> DEFINE q == req[w]
  <2>6. q \in Requests /\ q.r = r /\ req' = [req EXCEPT ![w] = q] BY <1>2, <2>2
  <2> HIDE DEF q
  <2> QED BY <1>1, <2>1, <2>4, <2>5, <2>6, GotoSolo, ZenonT(40)
<1>4. CASE row[r].status # "none"
  <2>1. row' = row /\ Return(w) BY <1>4 DEF Record
  <2>2. r \in Solo => Fair(r)'
    <3> SUFFICES ASSUME r \in Solo PROVE Fair(r)' OBVIOUS
    <3>1. r \in Recharges /\ crashes # 0 BY <1>1, <1>2, <1>4 DEF Stage
    <3> QED BY <1>1, <1>2, <2>1, <3>1 DEF Fair
  <2> QED BY <1>1, <2>1, <2>2, ReturnSolo
<1> QED BY <1>3, <1>4


LEMMA EndSolo ==
  ASSUME IInv, SoloInv, NEW w \in Workers, NEW r, r = req[w].r, Forget(w) \/ Crash(w) PROVE SoloInv'
<1>1. pc[w] # "idle" /\ Return(w) /\ UNCHANGED <<row, linked, paid, due, lead, served, repeats>>
      /\ \/ pc[w] = "forget" /\ pending' = pending \ {r} /\ crashes' = crashes
         \/ pending' = pending /\ crashes' = crashes + 1
  BY DEF Forget, Crash
<1>2. r \in References /\ (r \in Solo => Fair(r)) BY <1>1, Working
<1>3. crashes \in Nat BY DEF IInv, Typed, TypeOK
<1>4. r \in Solo => Fair(r)' BY <1>1, <1>2, <1>3 DEF Fair
<1> QED BY <1>1, <1>3, <1>4, ReturnSolo

LEMMA SoloInit == Init => SoloInv
<1> SUFFICES ASSUME Init PROVE SoloInv OBVIOUS
<1>1. Apart /\ pending \subseteq linked \cap Recharges /\ \A v \in Workers : Stage(v)
  BY DEF Init, Apart, Stage
<1>2. ASSUME NEW s \in Solo PROVE Fair(s)
  <2>1. s \in References /\ Lead[s] \in Leads \cup {NoOne}
    BY SoloAssumption, LeadAssumption
  <2>2. served[s] = 0 /\ row[s].status = "none" /\ linked = {} /\ pending = {}
    BY <2>1 DEF Init, NoRow
  <2>3. Lead[s] # NoOne => lead[Lead[s]].orders = 0 /\ ~lead[Lead[s]].converted
    BY <2>1 DEF Init
  <2> QED BY <2>2, <2>3 DEF Fair
<1> QED BY <1>1, <1>2 DEF SoloInv

LEMMA SoloStep == IInv /\ SoloInv /\ [Next]_vars => SoloInv'
<1> SUFFICES ASSUME IInv, SoloInv, [Next]_vars PROVE SoloInv' OBVIOUS
<1>1. ASSUME NEW w \in Workers, Continue(w) \/ Crash(w) PROVE SoloInv'
  <2>1. PICK r : r = req[w].r OBVIOUS
  <2> QED BY <1>1, <2>1, VerifySolo, FailSolo, SettleSolo, FetchSolo, ConvertSolo, AttachSolo,
             ServeSolo, RecordSolo, EndSolo DEF Continue
<1>2. ASSUME NEW r \in References,
             \/ \E answered \in BOOLEAN : Initialize(r, answered)
             \/ InitiateRecharge(r) \/ Expire(r) \/ Pay(r) \/ Deliver(r) \/ Redeliver(r)
             \/ \E w \in Workers : Callback(w, r) \/ RechargeComplete(w, r)
      PROVE  SoloInv'
  BY <1>2, OutsideSolo
<1>3. CASE UNCHANGED vars BY <1>3, QuietSolo DEF vars, SoloInv
<1> QED BY <1>1, <1>2, <1>3 DEF Next

\* A payment whose handlers do not overlap is served at most once and its lead
\* gets one installation order, for any number of webhooks, callbacks and kills:
\* its row is a success before it is served, and nobody settles a success.
THEOREM ServedAtMostOnce == Spec => []SoloServedOnce
<1>1. IInv /\ SoloInv => SoloServedOnce
  <2> SUFFICES ASSUME IInv, SoloInv, NEW r \in Solo
               PROVE  /\ r \notin Recharges \/ crashes = 0 => served[r] <= 1
                      /\ Lead[r] # NoOne => lead[Lead[r]].orders <= 1
    BY DEF SoloServedOnce
  <2>1. Fair(r) BY DEF SoloInv
  <2>2. Lead[r] # NoOne => lead[Lead[r]].orders <= 1
    <3>1. Lead[r] # NoOne => lead[Lead[r]].orders \in Nat
      BY SoloAssumption, LeadAssumption DEF IInv, Typed, TypeOK
    <3> QED BY <2>1, <3>1 DEF Fair
  <2> QED BY <2>1, <2>2 DEF Fair
<1> QED BY <1>1, InitInv, StepInv, SoloInit, SoloStep, PTL DEF Spec


\* A payment that is a success stays one while its handlers do not overlap: the
\* callback that gives up on Paystack's answer writes back a copy that is not.
THEOREM SuccessStays == Spec => SuccessIsFinal
<1>1. ASSUME IInv, SoloInv, Next, NEW r \in Solo, row[r].status = "success"
      PROVE  row'[r].status = "success"
  <2>1. r \in References /\ row \in [References -> Rows]
    BY <1>1, SoloAssumption DEF IInv, Typed, TypeOK
  <2>2. ASSUME NEW s \in References, NEW answered \in BOOLEAN, Initialize(s, answered)
        PROVE  row'[r].status = "success"
    BY <1>1, <2>1, <2>2 DEF Initialize
  <2>3. ASSUME NEW w \in Workers, Fail(w) PROVE row'[r].status = "success"
    <3>1. CASE req[w].r = r
      <4>1. pc[w] = "fail" /\ Stage(w) BY <1>1, <2>3 DEF Fail, SoloInv
      <4> QED BY <1>1, <3>1, <4>1 DEF Stage
    <3>2. CASE req[w].r # r BY <1>1, <2>1, <2>3, <3>2 DEF Fail
    <3> QED BY <3>1, <3>2
  <2>4. ASSUME NEW w \in Workers, Settle(w) PROVE row'[r].status = "success"
    <3>1. req[w].copy \in Rows BY <1>1, <2>4, Holding DEF Settle
    <3> QED BY <1>1, <2>1, <2>4, <3>1 DEF Settle, Rows
  <2>5. ASSUME NEW w \in Workers, Attach(w) \/ Record(w) PROVE row'[r].status = "success"
    BY <1>1, <2>1, <2>5 DEF Attach, Record, Rows
  <2>6. \/ \E s \in References, answered \in BOOLEAN : Initialize(s, answered)
        \/ \E w \in Workers : Fail(w) \/ Settle(w) \/ Attach(w) \/ Record(w)
        \/ row' = row
    BY <1>1 DEF Next, Continue, InitiateRecharge, Expire, Pay, Deliver, Redeliver, Callback,
                RechargeComplete, Verify, VerifyRecharge, FetchLead, Convert, Serve, Forget, Crash
  <2> QED BY <1>1, <2>2, <2>3, <2>4, <2>5, <2>6
<1>2. IInv /\ SoloInv /\ [Next]_vars
        => [\A r \in Solo : row[r].status = "success" => row'[r].status = "success"]_vars
  BY <1>1
<1> QED BY <1>2, InitInv, StepInv, SoloInit, SoloStep, PTL DEF Spec, SuccessIsFinal


-----------------------------------------------------------------------------
(* The reseller's account                                                  *)

Stops == {"away", "create", "update", "settings", "list", "charge", "save"}
Offices == [at : Stops, by : {"page", "list"}, bank : Banks \union {NoBank}, copy : B!Resellers]
BankTyped ==
  /\ reseller \in B!Resellers /\ subaccounts \in Seq(Banks) /\ office \in [Desks -> Offices]
  /\ paidPlans \subseteq B!Pricers /\ announced \in BOOLEAN /\ saves \in 0..MaxSaves /\ moves \in 0..MaxStatus
  /\ \A d \in Desks : office[d].at \in {"create", "update"} => office[d].bank \in Banks
\* The row can be paid, and so can every copy that may be saved over it or that
\* a charge is on its way with.
Payable(x, held) == (x.verified => x.code \in DOMAIN held) /\ (x.fee => x.verified)
Aimed(o, held) == o.at = "charge" => o.copy.code \in DOMAIN held
AllPayable ==
  /\ Payable(reseller, subaccounts)
  /\ \A d \in Desks : Payable(office[d].copy, subaccounts) /\ Aimed(office[d], subaccounts)
\* One request at a time: its copy is the row until it fills in what it saves.
OneDesk == \A d, e \in Desks : office[d].at # "away" /\ office[e].at # "away" => d = e
CopyIsRow(o, x) ==
  /\ o.at \notin {"away", "save"} => o.copy = x /\ o.by = "page"
  /\ o.at = "save" => (x.verified => o.copy.verified) /\ (o.by = "page" => o.copy.status = x.status)
  /\ o.at = "away" => o.by = "page"
InTurn == OneDesk /\ (\A d \in Desks : CopyIsRow(office[d], reseller)) /\ B!PlansStayPayable
\* The bank of a row is that of its subaccount.
Agrees(x, held) == x.code # 0 => x.code \in DOMAIN held /\ held[x.code] = x.bank
AllAgree ==
  /\ (\A d \in Desks : office[d].at # "save") => Agrees(reseller, subaccounts)
  /\ \A d \in Desks : office[d].at # "away" => Agrees(office[d].copy, subaccounts)
BankInv ==
  /\ BankTyped /\ AllPayable
  /\ scene # "overlap" => InTurn
  /\ scene = "answered" => AllAgree

\* When requests take turns, nobody else is at a desk.
LEMMA Alone ==
  ASSUME BankInv, scene # "overlap", NEW d \in Desks, office[d].at = "away" => B!Quiet
  PROVE  \A e \in Desks : e # d => office[e].at = "away"
BY DEF BankInv, InTurn, OneDesk, B!Quiet

\* What a step of a request has to show.
LEMMA DeskMoves ==
  ASSUME BankInv, NEW d \in Desks, NEW x \in Offices, office' = [office EXCEPT ![d] = x], scene' = scene,
         x.at \in {"create", "update"} => x.bank \in Banks,
         reseller' \in B!Resellers, subaccounts' \in Seq(Banks), paidPlans' = paidPlans,
         announced' \in BOOLEAN, saves' \in 0..MaxSaves, moves' \in 0..MaxStatus,
         DOMAIN subaccounts \subseteq DOMAIN subaccounts',
         Payable(reseller', subaccounts'), Payable(x.copy, subaccounts'), Aimed(x, subaccounts'),
         scene # "overlap" => /\ office[d].at = "away" => B!Quiet
                              /\ CopyIsRow(x, reseller') /\ ("owner" \in paidPlans => reseller'.verified),
         scene = "answered" => /\ x.at # "save" => Agrees(reseller', subaccounts')
                               /\ x.at # "away" => Agrees(x.copy, subaccounts')
  PROVE  BankInv'
<1>1. BankTyped /\ AllPayable BY DEF BankInv
<1>2. /\ office' \in [Desks -> Offices]
      /\ \A e \in Desks : office'[e] = IF e = d THEN x ELSE office[e]
  BY <1>1 DEF BankTyped
<1>3. BankTyped' BY <1>1, <1>2 DEF BankTyped
<1>4. AllPayable' BY <1>1, <1>2 DEF AllPayable, Payable, Aimed
<1>5. ASSUME scene # "overlap" PROVE InTurn'
  <2>1. \A e \in Desks : e # d => office[e].at = "away" BY <1>5, Alone
  <2>2. OneDesk' BY <1>2, <2>1 DEF OneDesk
  <2>3. ASSUME NEW e \in Desks PROVE CopyIsRow(office'[e], reseller')
    <3>1. CASE e = d BY <1>2, <1>5, <3>1
    <3>2. CASE e # d
      <4>1. office'[e] = office[e] /\ office[e].at = "away" /\ CopyIsRow(office[e], reseller)
        BY <1>2, <1>5, <2>1, <3>2 DEF BankInv, InTurn
      <4> QED BY <4>1 DEF CopyIsRow
    <3> QED BY <3>1, <3>2
  <2> QED BY <1>5, <2>2, <2>3 DEF InTurn, B!PlansStayPayable
<1>6. ASSUME scene = "answered" PROVE AllAgree'
  <2>1. \A e \in Desks : e # d => office'[e].at = "away" BY <1>2, <1>6, Alone
  <2>2. office'[d] = x BY <1>2
  <2> QED BY <1>6, <2>1, <2>2 DEF AllAgree
<1> QED BY <1>3, <1>4, <1>5, <1>6 DEF BankInv

LEMMA RowFacts ==
  ASSUME BankInv
  PROVE  /\ BankTyped /\ reseller \in B!Resellers /\ Payable(reseller, subaccounts)
         /\ \A d \in Desks : office[d] \in Offices /\ office[d].copy \in B!Resellers
                             /\ Payable(office[d].copy, subaccounts) /\ Aimed(office[d], subaccounts)
         /\ B!Away \in Offices /\ B!Away.at = "away" /\ B!Away.by = "page"
         /\ \A held : Payable(B!Away.copy, held)
         /\ scene # "overlap" => /\ \A d \in Desks : CopyIsRow(office[d], reseller)
                                 /\ "owner" \in paidPlans => reseller.verified
<1>1. B!NewReseller \in B!Resellers BY DEF B!NewReseller, B!Resellers, B!Statuses
<1>2. B!Away \in Offices /\ B!Away.at = "away" /\ B!Away.by = "page" /\ B!Away.copy = B!NewReseller
  BY <1>1 DEF B!Away, Offices, Stops
<1>3. \A held : Payable(B!Away.copy, held) BY <1>2 DEF B!NewReseller, Payable
<1>4. BankTyped /\ AllPayable BY DEF BankInv
<1>5. ASSUME NEW d \in Desks
      PROVE  /\ office[d] \in Offices /\ office[d].copy \in B!Resellers
             /\ Payable(office[d].copy, subaccounts) /\ Aimed(office[d], subaccounts)
  BY <1>4 DEF BankTyped, AllPayable, Offices
<1> QED BY <1>2, <1>3, <1>4, <1>5 DEF BankInv, InTurn, B!PlansStayPayable, BankTyped, AllPayable

\* A desk where nobody saves leaves the row of the agreed bank.
LEMMA RowAgrees ==
  ASSUME BankInv, scene = "answered", NEW d \in Desks, office[d].at # "save",
         office[d].at = "away" => B!Quiet
  PROVE  Agrees(reseller, subaccounts)
<1>1. \A e \in Desks : office[e].at # "save" BY Alone
<1> QED BY <1>1 DEF BankInv, AllAgree


LEMMA ArriveInv ==
  ASSUME BankInv, NEW d \in Desks, NEW what \in {"create", "update", "settings", "list", "charge"},
         NEW b \in Banks \union {NoBank}, what \in {"create", "update"} => b \in Banks,
         what = "charge" => B!Chargeable(reseller),
         B!Arrive(d, what, b), scene' = scene, scene # "overlap" => B!Quiet
  PROVE  BankInv'
<1> DEFINE x == [at |-> what, by |-> "page", bank |-> b, copy |-> reseller]
<1>1. /\ UNCHANGED <<reseller, subaccounts, paidPlans, announced, moves>> /\ saves' = saves + 1
      /\ saves < MaxSaves /\ office[d].at = "away" /\ office' = [office EXCEPT ![d] = x]
  BY DEF B!Arrive
<1>2. x \in Offices BY RowFacts DEF Offices, Stops
<1>3. x.at = what /\ x.copy = reseller /\ x.by = "page" /\ x.bank = b OBVIOUS
<1>4. saves' \in 0..MaxSaves BY <1>1, RowFacts, BankAssumption DEF BankTyped
<1>5. CopyIsRow(x, reseller) BY <1>3 DEF CopyIsRow
<1>a. Aimed(x, subaccounts) BY <1>3, RowFacts DEF Aimed, Payable, B!Chargeable
<1>6. scene = "answered" => Agrees(reseller, subaccounts) BY <1>1, RowAgrees
<1> HIDE DEF x
<1>7. /\ reseller' \in B!Resellers /\ subaccounts' \in Seq(Banks) /\ announced' \in BOOLEAN
      /\ moves' \in 0..MaxStatus
  BY <1>1, RowFacts DEF BankTyped
<1>8. Payable(reseller', subaccounts') /\ Payable(x.copy, subaccounts') /\ Aimed(x, subaccounts')
  BY <1>1, <1>3, <1>a, RowFacts
<1>9. scene # "overlap" => /\ office[d].at = "away" => B!Quiet
                           /\ CopyIsRow(x, reseller') /\ ("owner" \in paidPlans => reseller'.verified)
  BY <1>1, <1>5, RowFacts
<1>10. scene = "answered" => /\ x.at # "save" => Agrees(reseller', subaccounts')
                             /\ x.at # "away" => Agrees(x.copy, subaccounts')
  BY <1>1, <1>3, <1>6
<1> QED BY <1>1, <1>2, <1>3, <1>4, <1>7, <1>8, <1>9, <1>10, DeskMoves

\* A step within a request: the row stays, the subaccounts grow or not.
LEMMA WithinInv ==
  ASSUME BankInv, NEW d \in Desks, NEW x \in Offices, office' = [office EXCEPT ![d] = x], scene' = scene,
         office[d].at \notin {"away", "save"}, x.at \in {"away", "save"},
         UNCHANGED <<reseller, paidPlans, announced, saves, moves>>,
         subaccounts' \in Seq(Banks), DOMAIN subaccounts \subseteq DOMAIN subaccounts',
         Payable(x.copy, subaccounts'),
         x.at = "away" => x.by = "page",
         x.at = "save" => /\ office[d].copy.verified => x.copy.verified
                          /\ x.by = "page" => x.copy.status = office[d].copy.status,
         scene = "answered" => /\ x.at = "away" => subaccounts' = subaccounts
                               /\ x.at = "save" => Agrees(x.copy, subaccounts')
  PROVE  BankInv'
<1>1. Payable(reseller', subaccounts') BY RowFacts DEF Payable
<1>2. scene # "overlap" => CopyIsRow(x, reseller') BY RowFacts DEF CopyIsRow
<1>3. scene = "answered" => (x.at # "save" => Agrees(reseller', subaccounts')) BY RowAgrees
<1>4. /\ reseller' \in B!Resellers /\ announced' \in BOOLEAN /\ saves' \in 0..MaxSaves
      /\ moves' \in 0..MaxStatus
  BY RowFacts DEF BankTyped
<1>5. scene # "overlap" => /\ office[d].at = "away" => B!Quiet
                           /\ CopyIsRow(x, reseller') /\ ("owner" \in paidPlans => reseller'.verified)
  BY <1>2, RowFacts
<1>6. Aimed(x, subaccounts') BY DEF Aimed
<1> QED BY <1>1, <1>3, <1>4, <1>5, <1>6, DeskMoves

LEMMA LeaveInv ==
  ASSUME BankInv, NEW d \in Desks, B!Leave(d), scene' = scene, office[d].at \notin {"away", "save"},
         UNCHANGED <<reseller, paidPlans, announced, saves, moves>>,
         subaccounts' \in Seq(Banks), DOMAIN subaccounts \subseteq DOMAIN subaccounts',
         scene = "answered" => subaccounts' = subaccounts
  PROVE  BankInv'
<1>1. office' = [office EXCEPT ![d] = B!Away] BY DEF B!Leave
<1> QED BY <1>1, RowFacts, WithinInv

LEMMA PaystackInv ==
  ASSUME BankInv, NEW d \in Desks, B!Paystack(d), scene' = scene,
         scene = "answered" /\ Lost(d) => subaccounts' = subaccounts
  PROVE  BankInv'
<1> DEFINE o == office[d]
           r == o.copy
           made == Append(subaccounts, o.bank)
           moved == [subaccounts EXCEPT ![r.code] = o.bank]
           verified == [r EXCEPT !.bank = o.bank, !.code = Len(subaccounts) + 1, !.verified = TRUE]
           renamed == [r EXCEPT !.bank = o.bank]
           answered(y) == [o EXCEPT !.at = "save", !.copy = y]
<1>1. /\ UNCHANGED <<reseller, paidPlans, announced, saves, moves>> /\ o.at \in {"create", "update", "charge"}
      /\ o.at \notin {"away", "save"}
  BY DEF B!Paystack
<1>2. o \in Offices /\ r \in B!Resellers /\ Payable(r, subaccounts) /\ subaccounts \in Seq(Banks)
      /\ office \in [Desks -> Offices]
  BY <1>1, RowFacts DEF BankTyped
<1>0. SUFFICES ASSUME o.at # "charge" PROVE BankInv'
  <2>1. CASE o.at = "charge"
    <3>1. B!Leave(d) /\ subaccounts' = subaccounts BY <2>1 DEF B!Paystack
    <3> QED BY <1>1, <1>2, <3>1, LeaveInv
  <2> QED BY <2>1
<1>b. o.bank \in Banks BY <1>0, <1>1, RowFacts DEF BankTyped
<1>3. made \in Seq(Banks) /\ DOMAIN subaccounts \subseteq DOMAIN made
      /\ Len(subaccounts) + 1 \in DOMAIN made /\ made[Len(subaccounts) + 1] = o.bank
      /\ Len(subaccounts) + 1 \in Nat
  BY <1>2, <1>b
<1>4. moved \in Seq(Banks) /\ DOMAIN subaccounts = DOMAIN moved
      /\ (r.code \in DOMAIN subaccounts => moved[r.code] = o.bank)
  <2>1. PICK n \in Nat : subaccounts \in [1..n -> Banks] BY <1>2
  <2>2. moved \in [1..n -> Banks] BY <1>b, <1>2, <2>1
  <2>3. \A f \in [1..n -> Banks] : f \in Seq(Banks) BY <2>1
  <2> QED BY <2>1, <2>2, <2>3
<1>5. /\ verified \in B!Resellers /\ verified.verified /\ verified.code = Len(subaccounts) + 1
      /\ verified.bank = o.bank /\ verified.fee = r.fee /\ verified.status = r.status
  BY <1>2, <1>b, <1>3 DEF B!Resellers
<1>6. /\ renamed \in B!Resellers /\ renamed.verified = r.verified /\ renamed.code = r.code
      /\ renamed.bank = o.bank /\ renamed.fee = r.fee /\ renamed.status = r.status
  BY <1>2, <1>b DEF B!Resellers
<1>7. ASSUME NEW y \in B!Resellers, office' = [office EXCEPT ![d].at = "save", ![d].copy = y]
      PROVE  /\ office' = [office EXCEPT ![d] = answered(y)] /\ answered(y) \in Offices
             /\ answered(y).at = "save" /\ answered(y).copy = y
  BY <1>2, <1>7 DEF Offices, Stops
<1>8. Payable(verified, made) /\ Agrees(verified, made) BY <1>3, <1>5 DEF Payable, Agrees
<1>9. Payable(renamed, moved) BY <1>2, <1>4, <1>6 DEF Payable
<1>10. scene = "answered" => Agrees(renamed, moved)
  <2>1. scene = "answered" => Agrees(r, subaccounts) BY <1>1 DEF BankInv, AllAgree
  <2> QED BY <2>1, <1>4, <1>6 DEF Agrees
<1>11. CASE B!Leave(d) /\ subaccounts' \in {subaccounts, made, moved}
  <2>1. Lost(d)
    <3>1. office'[d] = B!Away BY <1>2, <1>11 DEF B!Leave
    <3> QED BY <1>0, <1>1, <3>1, RowFacts DEF Lost
  <2>2. subaccounts' \in Seq(Banks) /\ DOMAIN subaccounts \subseteq DOMAIN subaccounts'
    BY <1>2, <1>3, <1>4, <1>11
  <2> QED BY <1>1, <1>11, <2>1, <2>2, LeaveInv
<1>12. CASE subaccounts' = made /\ office' = [office EXCEPT ![d].at = "save", ![d].copy = verified]
  <2> DEFINE x == answered(verified)
  <2>1. office' = [office EXCEPT ![d] = x] /\ x \in Offices /\ x.at = "save" /\ x.copy = verified
    BY <1>5, <1>7, <1>12
  <2> HIDE DEF x, verified, made
  <2> QED BY <1>1, <1>3, <1>5, <1>8, <1>12, <2>1, WithinInv
<1>13. CASE subaccounts' = moved /\ office' = [office EXCEPT ![d].at = "save", ![d].copy = renamed]
  <2> DEFINE x == answered(renamed)
  <2>1. office' = [office EXCEPT ![d] = x] /\ x \in Offices /\ x.at = "save" /\ x.copy = renamed
    BY <1>6, <1>7, <1>13
  <2> HIDE DEF x, renamed, moved
  <2> QED BY <1>1, <1>4, <1>6, <1>9, <1>10, <1>13, <2>1, WithinInv
<1> QED BY <1>0, <1>11, <1>12, <1>13 DEF B!Paystack


LEMMA FillEditInv ==
  ASSUME BankInv, NEW d \in Desks, scene' = scene,
         (\E fee \in BOOLEAN : B!Fill(d, fee)) \/ (\E s \in B!Statuses : B!Edit(d, s))
  PROVE  BankInv'
<1> DEFINE o == office[d]
<1>1. /\ UNCHANGED <<reseller, subaccounts, paidPlans, announced, saves, moves>>
      /\ o.at \in {"settings", "list"} /\ o.at \notin {"away", "save"}
  BY DEF B!Fill, B!Edit
<1>2. /\ o \in Offices /\ o.copy \in B!Resellers /\ Payable(o.copy, subaccounts)
      /\ subaccounts \in Seq(Banks) /\ office \in [Desks -> Offices]
  BY RowFacts DEF BankTyped
<1>3. scene = "answered" => Agrees(o.copy, subaccounts) BY <1>1 DEF BankInv, AllAgree
<1>4. ASSUME NEW fee \in BOOLEAN, B!Fill(d, fee) PROVE BankInv'
  <2> DEFINE r == [o.copy EXCEPT !.fee = fee]
             x == [o EXCEPT !.at = "save", !.copy = r]
  <2>1. /\ office' = [office EXCEPT ![d].at = "save", ![d].copy.fee = fee]
        /\ fee # o.copy.fee => o.copy.verified
    BY <1>4 DEF B!Fill, B!FeeAllowed
  <2>2. /\ r \in B!Resellers /\ r.verified = o.copy.verified /\ r.code = o.copy.code /\ r.bank = o.copy.bank
        /\ r.fee = fee /\ r.status = o.copy.status
    BY <1>2 DEF B!Resellers
  <2>3. office' = [office EXCEPT ![d] = x] /\ x \in Offices /\ x.at = "save" /\ x.copy = r
    BY <1>2, <2>1, <2>2 DEF Offices, Stops
  <2>4. Payable(r, subaccounts) BY <1>2, <2>1, <2>2 DEF Payable
  <2>5. scene = "answered" => Agrees(r, subaccounts) BY <1>3, <2>2 DEF Agrees
  <2> HIDE DEF x, r
  <2> QED BY <1>1, <1>2, <2>2, <2>3, <2>4, <2>5, WithinInv
<1>5. ASSUME NEW s \in B!Statuses, B!Edit(d, s) PROVE BankInv'
  <2> DEFINE r == [o.copy EXCEPT !.status = s]
             x == [o EXCEPT !.at = "save", !.by = "list", !.copy = r]
  <2>1. office' = [office EXCEPT ![d].at = "save", ![d].by = "list", ![d].copy.status = s]
    BY <1>5 DEF B!Edit
  <2>2. /\ r \in B!Resellers /\ r.verified = o.copy.verified /\ r.code = o.copy.code /\ r.bank = o.copy.bank
        /\ r.fee = o.copy.fee
    BY <1>2 DEF B!Resellers
  <2>3. office' = [office EXCEPT ![d] = x] /\ x \in Offices /\ x.at = "save" /\ x.copy = r /\ x.by = "list"
    BY <1>2, <2>1, <2>2 DEF Offices, Stops
  <2>4. Payable(r, subaccounts) BY <1>2, <2>2 DEF Payable
  <2>5. scene = "answered" => Agrees(r, subaccounts) BY <1>3, <2>2 DEF Agrees
  <2> HIDE DEF x, r
  <2> QED BY <1>1, <1>2, <2>2, <2>3, <2>4, <2>5, WithinInv
<1> QED BY <1>4, <1>5

LEMMA SaveInv == ASSUME BankInv, NEW d \in Desks, B!Save(d), scene' = scene PROVE BankInv'
<1>1. /\ office[d].at = "save" /\ office' = [office EXCEPT ![d] = B!Away] /\ reseller' = office[d].copy
      /\ announced' = (announced \/ (reseller.status # "active" /\ reseller'.status = "active"))
      /\ UNCHANGED <<subaccounts, paidPlans, saves, moves>>
  BY DEF B!Save, B!Leave, B!Saved
<1>2. announced' \in BOOLEAN BY <1>1
<1>3. /\ reseller' \in B!Resellers /\ subaccounts' \in Seq(Banks) /\ saves' \in 0..MaxSaves
      /\ moves' \in 0..MaxStatus /\ Payable(reseller', subaccounts')
  BY <1>1, RowFacts DEF BankTyped
<1>4. scene # "overlap" => ("owner" \in paidPlans => reseller'.verified)
  BY <1>1, RowFacts DEF CopyIsRow
<1>5. scene # "overlap" => CopyIsRow(B!Away, reseller') BY RowFacts DEF CopyIsRow
<1>6. scene = "answered" => Agrees(reseller', subaccounts') BY <1>1 DEF BankInv, AllAgree
<1>7. Aimed(B!Away, subaccounts') BY RowFacts DEF Aimed
<1> QED BY <1>1, <1>2, <1>3, <1>4, <1>5, <1>6, <1>7, RowFacts, DeskMoves

LEMMA OperatorInv ==
  ASSUME BankInv, scene' = scene, NEW who \in B!Pricers,
         B!PlanSave(who) \/ (B!Operator /\ (scene # "overlap" => B!Quiet))
  PROVE  BankInv'
<1>1. UNCHANGED <<subaccounts, office, saves>> BY DEF B!PlanSave, B!Operator, B!SetStatus
<1>2. \/ B!PlanSave(who)
      \/ /\ \E s \in B!Statuses : reseller' = [reseller EXCEPT !.status = s]
         /\ announced' = FALSE /\ paidPlans' = paidPlans /\ moves < MaxStatus /\ moves' = moves + 1
         /\ scene # "overlap" => B!Quiet
  BY DEF B!Operator, B!SetStatus, B!Statuses
<1>3. /\ BankTyped /\ AllPayable BY DEF BankInv
<1>4. /\ reseller' \in B!Resellers /\ reseller'.verified = reseller.verified /\ reseller'.fee = reseller.fee
      /\ reseller'.code = reseller.code /\ reseller'.bank = reseller.bank
      /\ reseller' = reseller \/ (scene # "overlap" => B!Quiet)
  <2>1. CASE B!PlanSave(who) BY <1>3, <2>1 DEF B!PlanSave, BankTyped
  <2>2. ASSUME NEW s \in B!Statuses, reseller' = [reseller EXCEPT !.status = s], scene # "overlap" => B!Quiet
        PROVE  /\ reseller' \in B!Resellers /\ reseller'.verified = reseller.verified
               /\ reseller'.fee = reseller.fee /\ reseller'.code = reseller.code
               /\ reseller'.bank = reseller.bank
    BY <1>3, <2>2 DEF BankTyped, B!Resellers
  <2> QED BY <1>2, <2>1, <2>2
<1>5. BankTyped'
  <2>1. announced' \in BOOLEAN /\ paidPlans' \subseteq B!Pricers BY <1>2, <1>3 DEF B!PlanSave, BankTyped
  <2>2. moves' \in 0..MaxStatus BY <1>2, <1>3, BankAssumption DEF B!PlanSave, BankTyped
  <2> QED BY <1>1, <1>3, <1>4, <2>1, <2>2 DEF BankTyped
<1>6. AllPayable' BY <1>1, <1>3, <1>4 DEF AllPayable, Payable, Aimed
<1>7. ASSUME scene # "overlap" PROVE InTurn'
  <2>1. OneDesk' BY <1>1, <1>7 DEF BankInv, InTurn, OneDesk
  <2>2. ASSUME NEW d \in Desks PROVE CopyIsRow(office[d], reseller')
    <3>1. CopyIsRow(office[d], reseller) BY <1>7, RowFacts
    <3>2. reseller' = reseller \/ office[d].at = "away" BY <1>4, <1>7 DEF B!Quiet
    <3> QED BY <3>1, <3>2 DEF CopyIsRow
  <2>3. "owner" \in paidPlans' => reseller'.verified
    BY <1>2, <1>4, <1>7, RowFacts DEF B!PlanSave
  <2> QED BY <1>1, <2>1, <2>2, <2>3 DEF InTurn, B!PlansStayPayable
<1>8. scene = "answered" => AllAgree' BY <1>1, <1>4 DEF BankInv, AllAgree, Agrees
<1> QED BY <1>5, <1>6, <1>7, <1>8 DEF BankInv

LEMMA BankStart == MCInit => BankInv
<1> SUFFICES ASSUME MCInit PROVE BankInv OBVIOUS
<1>1. B!NewReseller \in B!Resellers /\ B!NewReseller.code = 0 BY DEF B!NewReseller, B!Resellers, B!Statuses
<1>2. B!Away \in Offices /\ B!Away.at = "away" /\ B!Away.by = "page" /\ B!Away.copy = B!NewReseller
  BY <1>1 DEF B!Away, Offices, Stops
<1>3. /\ reseller = B!NewReseller /\ subaccounts = <<>> /\ office = [d \in Desks |-> B!Away]
      /\ paidPlans = {} /\ announced = FALSE /\ saves = 0 /\ moves = 0
  BY DEF MCInit, B!BankInit
<1>4. \A d \in Desks : office[d] = B!Away BY <1>3
<1>5. BankTyped
  <2>1. subaccounts \in Seq(Banks) BY <1>3
  <2>2. office \in [Desks -> Offices] BY <1>2, <1>3
  <2>3. saves \in 0..MaxSaves /\ moves \in 0..MaxStatus BY <1>3, BankAssumption
  <2> QED BY <1>1, <1>2, <1>3, <1>4, <2>1, <2>2, <2>3 DEF BankTyped
<1>6. \A held : Payable(B!NewReseller, held) BY DEF Payable, B!NewReseller
<1>7. AllPayable BY <1>2, <1>3, <1>4, <1>6 DEF AllPayable, Aimed
<1>8. InTurn BY <1>2, <1>3, <1>4 DEF InTurn, OneDesk, CopyIsRow, B!PlansStayPayable
<1>9. AllAgree BY <1>1, <1>2, <1>3, <1>4 DEF AllAgree, Agrees
<1> QED BY <1>5, <1>7, <1>8, <1>9 DEF BankInv

LEMMA BankDesk ==
  ASSUME BankInv, NEW d \in Desks, scene' = scene,
         \/ (scene # "overlap" /\ office[d].at = "away" => B!Quiet) /\ B!Desk(d)
         \/ B!Paystack(d) /\ (scene = "answered" /\ Lost(d) => subaccounts' = subaccounts)
  PROVE  BankInv'
<1>1. CASE B!Paystack(d) /\ (scene = "answered" /\ Lost(d) => subaccounts' = subaccounts)
  BY <1>1, PaystackInv
<1>2. CASE (scene # "overlap" /\ office[d].at = "away" => B!Quiet) /\ B!Desk(d)
  <2>1. ASSUME NEW b \in Banks, B!BankSetup(d, b) \/ B!BankChange(d, b) PROVE BankInv'
    <3>1. B!Arrive(d, "create", b) \/ B!Arrive(d, "update", b) BY <2>1 DEF B!BankSetup, B!BankChange
    <3>2. office[d].at = "away" BY <3>1 DEF B!Arrive
    <3> QED BY <1>2, <3>1, <3>2, ArriveInv
  <2>2. ASSUME B!Settings(d) \/ B!Listed(d) PROVE BankInv'
    <3>1. B!Arrive(d, "settings", NoBank) \/ B!Arrive(d, "list", NoBank) BY <2>2 DEF B!Settings, B!Listed
    <3>2. office[d].at = "away" BY <3>1 DEF B!Arrive
    <3> QED BY <1>2, <3>1, <3>2, ArriveInv
  <2>5. ASSUME B!Charge(d) PROVE BankInv'
    <3>1. B!Arrive(d, "charge", NoBank) /\ B!Chargeable(reseller) BY <2>5 DEF B!Charge
    <3>2. office[d].at = "away" BY <3>1 DEF B!Arrive
    <3> QED BY <1>2, <3>1, <3>2, ArriveInv
  <2>3. CASE B!Save(d) BY <2>3, SaveInv
  <2>4. CASE (\E fee \in BOOLEAN : B!Fill(d, fee)) \/ (\E s \in B!Statuses : B!Edit(d, s))
    BY <2>4, FillEditInv
  <2> QED BY <1>2, <2>1, <2>2, <2>3, <2>4, <2>5 DEF B!Desk
<1> QED BY <1>1, <1>2

LEMMA BankNext == ASSUME BankInv, [MCNext]_all PROVE BankInv'
<1>1. CASE UNCHANGED bank /\ scene' = scene
  BY <1>1 DEF bank, BankInv, BankTyped, AllPayable, InTurn, OneDesk, AllAgree, Aimed, B!PlansStayPayable
<1>2. CASE BankStep /\ scene' = scene
  <2>1. ASSUME NEW who \in B!Pricers, B!PlanSave(who) PROVE BankInv' BY <1>2, <2>1, OperatorInv
  <2>2. ASSUME B!Operator /\ (scene # "overlap" => B!Quiet) PROVE BankInv'
    <3>1. PICK who : who \in B!Pricers BY DEF B!Pricers
    <3> QED BY <1>2, <2>2, <3>1, OperatorInv
  <2> QED BY <1>2, <2>1, <2>2, BankDesk DEF BankStep
<1>3. (UNCHANGED bank /\ scene' = scene) \/ (BankStep /\ scene' = scene) BY DEF MCNext, all
<1> QED BY <1>1, <1>2, <1>3

\* Only the operator changes a status or causes an announcement: whoever else
\* saves, saves the status the row has.
LEMMA StatusKept ==
  ASSUME BankInv, [MCNext]_all, scene # "overlap" PROVE B!StatusStep
<1>1. ASSUME NEW d \in Desks, B!Save(d) PROVE B!StatusStep
  <2>1. /\ office[d].at = "save" /\ office' = [office EXCEPT ![d] = B!Away] /\ reseller' = office[d].copy
        /\ announced' = (announced \/ (reseller.status # "active" /\ reseller'.status = "active"))
    BY <1>1 DEF B!Save, B!Leave, B!Saved
  <2>2. office[d] \in Offices /\ office \in [Desks -> Offices] /\ CopyIsRow(office[d], reseller)
    BY RowFacts DEF BankTyped
  <2>3. CASE office[d].by = "list"
    <3>1. office'[d].by = "page" BY <2>1, <2>2, RowFacts
    <3> QED BY <2>3, <3>1 DEF B!StatusStep, B!Operated
  <2>4. CASE office[d].by = "page"
    <3>1. reseller'.status = reseller.status BY <2>1, <2>2, <2>4 DEF CopyIsRow
    <3>2. announced' = announced \/ ~announced' BY <2>1, <3>1
    <3> QED BY <3>1, <2>1 DEF B!StatusStep
  <2> QED BY <2>2, <2>3, <2>4 DEF Offices
<1>2. ASSUME NEW d \in Desks, B!Paystack(d) PROVE B!StatusStep
  BY <1>2 DEF B!Paystack, B!StatusStep
<1>3. ASSUME NEW d \in Desks, B!Desk(d), ~B!Save(d) PROVE B!StatusStep
  BY <1>3 DEF B!Desk, B!BankSetup, B!BankChange, B!Settings, B!Listed, B!Charge, B!Arrive, B!Fill, B!Edit,
                B!StatusStep
<1>4. CASE B!Operator
  <2>1. moves \in Int /\ moves' = moves + 1 BY <1>4, RowFacts DEF B!Operator, B!SetStatus, BankTyped
  <2> QED BY <2>1 DEF B!StatusStep, B!Operated
<1>5. ASSUME NEW who \in B!Pricers, B!PlanSave(who) PROVE B!StatusStep BY <1>5 DEF B!PlanSave, B!StatusStep
<1>6. CASE UNCHANGED bank BY <1>6 DEF bank, B!StatusStep
<1> QED BY <1>1, <1>2, <1>3, <1>4, <1>5, <1>6 DEF MCNext, BankStep, all

\* However requests overlap, a verified reseller has a subaccount, only such a one
\* charges a fee, and a charge goes to a subaccount that exists; when they take
\* turns the plans its owner priced stay payable and its status is the operator's;
\* and while Paystack's answers arrive its bank is the one paid (bank_setup,
\* bank_change, settings_page, payment_initialize, the operator's list and actions).
THEOREM ShareIsPaid == MCSpec => ResellerIsPaid
<1>1. MCInit => BankInv BY BankStart
<1>2. BankInv /\ [MCNext]_all => BankInv' BY BankNext
<1>3. BankInv => /\ B!BankType /\ B!VerifiedIsPayable
                 /\ scene = "answered" => B!BankIsPaid
                 /\ scene # "overlap" => B!PlansStayPayable
  <2> SUFFICES ASSUME BankInv PROVE /\ B!BankType /\ B!VerifiedIsPayable
                                    /\ scene = "answered" => B!BankIsPaid
                                    /\ scene # "overlap" => B!PlansStayPayable
    OBVIOUS
  <2>1. B!BankType BY RowFacts DEF BankTyped, B!BankType, Offices
  <2>2. B!VerifiedIsPayable BY RowFacts DEF B!VerifiedIsPayable, Payable, Aimed
  <2>3. scene = "answered" => B!BankIsPaid BY DEF BankInv, AllAgree, Agrees, B!BankIsPaid, B!Quiet
  <2> QED BY <2>1, <2>2, <2>3 DEF BankInv, InTurn
<1>4. BankInv /\ [MCNext]_all => [scene # "overlap" => B!StatusStep]_all BY StatusKept
<1> QED BY <1>1, <1>2, <1>3, <1>4, PTL DEF MCSpec, ResellerIsPaid
=============================================================================
