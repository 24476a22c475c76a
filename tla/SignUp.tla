------------------------------- MODULE SignUp -------------------------------
(***************************************************************************)
(* A phone number that signs up at a reseller (portal/views.py): the code  *)
(* sent by SMS and its limits, the token for who knows the code, one       *)
(* charge for the account's fee and the plan, and the account made from    *)
(* them; also the code for a new PIN.                                      *)
(*                                                                         *)
(* Codes, tokens and pending charges are cache entries, which expire; a    *)
(* request reads and writes them and the tables in steps of its own.       *)
(***************************************************************************)
EXTENDS Integers, Sequences, FiniteSets, FiniteSetsExt

CONSTANTS Clients,     \* requests under way at once
          Prices,      \* the price of each plan, 0 for a free one
          SignupFee,   \* the reseller's fee while it is enabled
          MaxAttempts, \* wrong codes accepted (5 in the code)
          MaxSends,    \* codes sent in an hour (5 in the code)
          MaxCodes, MaxCharges  \* bounds: codes generated, charges started

VARIABLES code,    \* the cached code of each kind: number, 0 without one, and wrong tries
          codes,   \* codes generated
          sends,   \* the hour's counter, what it should count, the cooldown
          tokens,  \* verified tokens: in the cache or not, their code, deleted since or not, their charge
          charges, \* transactions at Paystack: plan, total, paid
          feeOn,   \* signup_fee_enabled
          signup,  \* the Subscriber row: made, with PIN, plan of its subscription
          receipts,\* the Payment rows: charge, kind, amount
          stage, job  \* where each request is, and what it has read

signupVars == <<code, codes, sends, tokens, charges, feeOn, signup, receipts, stage, job>>

Plans == DOMAIN Prices
Kinds == {"signup", "reset"}
NoCode == [n |-> 0, tries |-> 0]
Jobs == [kind : Kinds, copy : [n : 0..MaxCodes, tries : 0..MaxAttempts], right : BOOLEAN,
         token : 0..MaxCodes, plan : Plans, charge : 0..MaxCharges, fee : BOOLEAN]
Places == {"idle", "send", "record", "first", "answer", "used", "started", "create", "pin", "fee",
           "subscribe", "finish"}
Receipts == [charge : 0..MaxCharges, kind : {"fee", "plan"}, amount : Nat]

Start(c, place, j) == stage' = [stage EXCEPT ![c] = place] /\ job' = [job EXCEPT ![c] = j]
Move(c, place) == stage' = [stage EXCEPT ![c] = place] /\ UNCHANGED job
Blank == [kind |-> "signup", copy |-> NoCode, right |-> FALSE, token |-> 0,
          plan |-> CHOOSE p \in Plans : TRUE, charge |-> 0, fee |-> FALSE]
End(c) == Start(c, "idle", Blank)

SignUpInit ==
  /\ code = [k \in Kinds |-> NoCode] /\ codes = 0
  /\ sends = [count |-> 0, sent |-> 0, cool |-> TRUE]
  /\ tokens = <<>> /\ charges = <<>> /\ feeOn \in BOOLEAN
  /\ signup = [made |-> FALSE, pin |-> FALSE, plan |-> "none"] /\ receipts = {}
  /\ stage = [c \in Clients |-> "idle"] /\ job = [c \in Clients |-> Blank]

(* The code. ***************************************************************)

\* _check_otp_limits, for the limits by phone; the counter is absent at 0.
Allowed == sends.cool /\ sends.count < MaxSends

AskCode(c, k) ==
  /\ stage[c] = "idle" /\ Allowed /\ codes < MaxCodes
  /\ signup.made = (k = "reset")
  /\ Start(c, "send", [Blank EXCEPT !.kind = k])
  /\ UNCHANGED <<code, codes, sends, tokens, charges, feeOn, signup, receipts>>
Send(c) ==
  /\ stage[c] = "send" /\ codes < MaxCodes /\ Move(c, "record")
  /\ codes' = codes + 1 /\ sends' = [sends EXCEPT !.sent = @ + 1]
  /\ code' = [code EXCEPT ![job[c].kind] = [n |-> codes + 1, tries |-> 0]]
  /\ UNCHANGED <<tokens, charges, feeOn, signup, receipts>>

\* Fault for mutation: the counter is set, not raised.
Raised_Set(n) == 1
Raised(n) == n + 1

\* _record_otp_sent: the counter is raised, or set when there is none.
Record(c) ==
  /\ stage[c] = "record"
  /\ IF sends.count > 0
     THEN sends' = [sends EXCEPT !.count = Raised(@), !.cool = FALSE] /\ End(c)
     ELSE sends' = [sends EXCEPT !.cool = FALSE] /\ Move(c, "first")
  /\ UNCHANGED <<code, codes, tokens, charges, feeOn, signup, receipts>>
First(c) ==
  /\ stage[c] = "first" /\ End(c) /\ sends' = [sends EXCEPT !.count = 1]
  /\ UNCHANGED <<code, codes, tokens, charges, feeOn, signup, receipts>>

\* portal_verify_otp and portal_reset_pin_confirm read the code ...
Check(c, k, right) ==
  /\ stage[c] = "idle" /\ code[k].n # 0
  /\ Start(c, "answer", [Blank EXCEPT !.kind = k, !.copy = code[k], !.right = right])
  /\ UNCHANGED <<code, codes, sends, tokens, charges, feeOn, signup, receipts>>

Spent(copy) == copy.tries >= MaxAttempts
Good(j) == j.right /\ ~Spent(j.copy)
Verified(n) == [live |-> TRUE, code |-> n, spent |-> FALSE, pending |-> 0]

\* ... and delete it after too many tries, or write it back with one more.
Refuse(c) ==
  LET k == job[c].kind  copy == job[c].copy IN
  /\ stage[c] = "answer" /\ ~Good(job[c]) /\ End(c)
  /\ code' = [code EXCEPT ![k] = IF Spent(copy) THEN NoCode ELSE [copy EXCEPT !.tries = @ + 1]]
  /\ UNCHANGED <<codes, sends, tokens, charges, feeOn, signup, receipts>>

\* A right code is worth a token, or a new PIN ...
Accept(c) ==
  /\ stage[c] = "answer" /\ Good(job[c])
  /\ IF job[c].kind = "signup"
     THEN /\ Len(tokens) < MaxCodes /\ tokens' = Append(tokens, Verified(job[c].copy.n))
          /\ Start(c, "used", [job[c] EXCEPT !.token = Len(tokens) + 1]) /\ UNCHANGED signup
     ELSE /\ signup' = [signup EXCEPT !.pin = signup.made \/ @]
          /\ Move(c, "used") /\ UNCHANGED tokens
  /\ UNCHANGED <<code, codes, sends, charges, feeOn, receipts>>

\* ... and is deleted afterwards, by a statement of its own.
UseUp(c) ==
  /\ stage[c] = "used" /\ End(c) /\ code' = [code EXCEPT ![job[c].kind] = NoCode]
  /\ tokens' = IF job[c].kind = "signup" THEN [tokens EXCEPT ![job[c].token].spent = TRUE] ELSE tokens
  /\ UNCHANGED <<codes, sends, charges, feeOn, signup, receipts>>

(* The charge. *************************************************************)

Fee == IF feeOn THEN SignupFee ELSE 0
Total(p) == Fee + Prices[p]

\* portal_initiate_payment.
Initiate(c, t, p) ==
  /\ stage[c] = "idle" /\ tokens[t].live
  /\ IF Total(p) = 0
     THEN /\ tokens' = [tokens EXCEPT ![t].pending = 0]
          /\ UNCHANGED <<charges, stage, job>>
     ELSE /\ Len(charges) < MaxCharges
          /\ charges' = Append(charges, [plan |-> p, total |-> Total(p), paid |-> FALSE])
          /\ Start(c, "started", [Blank EXCEPT !.token = t, !.charge = Len(charges) + 1])
          /\ UNCHANGED tokens
  /\ UNCHANGED <<code, codes, sends, feeOn, signup, receipts>>
Started(c) ==
  /\ stage[c] = "started" /\ End(c)
  /\ tokens' = [tokens EXCEPT ![job[c].token].pending = job[c].charge]
  /\ UNCHANGED <<code, codes, sends, charges, feeOn, signup, receipts>>

Pay(i) ==
  /\ ~charges[i].paid /\ charges' = [charges EXCEPT ![i].paid = TRUE]
  /\ UNCHANGED <<code, codes, sends, tokens, feeOn, signup, receipts, stage, job>>

(* portal_set_pin. *********************************************************)

\* Fault for mutation: any charge paid with this token will do.
Settled_Any(t, i) == charges[i].paid
Settled(t, i) == tokens[t].pending = i /\ charges[i].paid

\* The charge is compared with what it was started for.
SetPin(c, t, p, i) ==
  /\ stage[c] = "idle" /\ tokens[t].live
  /\ IF Total(p) = 0 THEN i = 0 ELSE i # 0 /\ Settled(t, i)
  /\ Start(c, "create", [Blank EXCEPT !.token = t, !.plan = p, !.charge = i, !.fee = feeOn /\ i # 0])
  /\ UNCHANGED <<code, codes, sends, tokens, charges, feeOn, signup, receipts>>

Create(c) ==
  /\ stage[c] = "create" /\ signup' = [signup EXCEPT !.made = TRUE]
  /\ IF signup.made THEN End(c) ELSE Move(c, "pin")
  /\ UNCHANGED <<code, codes, sends, tokens, charges, feeOn, receipts>>
SavePin(c) ==
  /\ stage[c] = "pin" /\ signup' = [signup EXCEPT !.pin = TRUE]
  /\ Move(c, IF job[c].fee THEN "fee" ELSE "subscribe")
  /\ UNCHANGED <<code, codes, sends, tokens, charges, feeOn, receipts>>
Receipt(c, kind, amount) == [charge |-> job[c].charge, kind |-> kind, amount |-> amount]
FeeRow(c) ==
  /\ stage[c] = "fee" /\ Move(c, "subscribe")
  /\ receipts' = receipts \union {Receipt(c, "fee", SignupFee)}
  /\ UNCHANGED <<code, codes, sends, tokens, charges, feeOn, signup>>

Subscribed(p) == p

\* _create_subscription.
Subscribe(c) ==
  /\ stage[c] = "subscribe" /\ Move(c, "finish")
  /\ signup' = [signup EXCEPT !.plan = Subscribed(job[c].plan)]
  /\ receipts' = IF Prices[job[c].plan] = 0 THEN receipts
                 ELSE receipts \union {Receipt(c, "plan", Prices[job[c].plan])}
  /\ UNCHANGED <<code, codes, sends, tokens, charges, feeOn>>
Finish(c) ==
  /\ stage[c] = "finish" /\ End(c)
  /\ tokens' = [tokens EXCEPT ![job[c].token] = [@ EXCEPT !.live = FALSE, !.pending = 0]]
  /\ UNCHANGED <<code, codes, sends, charges, feeOn, signup, receipts>>

(* Time, the reseller, crashes. ********************************************)

Cooled ==
  /\ sends' = [sends EXCEPT !.cool = TRUE] /\ ~sends.cool
  /\ UNCHANGED <<code, codes, tokens, charges, feeOn, signup, receipts, stage, job>>
Hour ==
  /\ sends.count > 0 /\ sends' = [sends EXCEPT !.count = 0, !.sent = 0]
  /\ UNCHANGED <<code, codes, tokens, charges, feeOn, signup, receipts, stage, job>>
Forget(k) ==
  /\ code[k].n # 0 /\ code' = [code EXCEPT ![k] = NoCode]
  /\ UNCHANGED <<codes, sends, tokens, charges, feeOn, signup, receipts, stage, job>>
Expire(t) ==
  /\ \/ tokens[t].live /\ tokens' = [tokens EXCEPT ![t].live = FALSE]
     \/ tokens[t].pending # 0 /\ tokens' = [tokens EXCEPT ![t].pending = 0]
  /\ UNCHANGED <<code, codes, sends, charges, feeOn, signup, receipts, stage, job>>
SwitchFee ==
  /\ feeOn' = ~feeOn
  /\ UNCHANGED <<code, codes, sends, tokens, charges, signup, receipts, stage, job>>
Kill(c) ==
  /\ stage[c] # "idle" /\ End(c)
  /\ UNCHANGED <<code, codes, sends, tokens, charges, feeOn, signup, receipts>>

Continue(c) ==
  \/ Send(c) \/ Record(c) \/ First(c) \/ Refuse(c) \/ Accept(c) \/ UseUp(c) \/ Started(c)
  \/ Create(c) \/ SavePin(c) \/ FeeRow(c) \/ Subscribe(c) \/ Finish(c)
Time == Cooled \/ Hour \/ (\E k \in Kinds : Forget(k)) \/ \E t \in DOMAIN tokens : Expire(t)
AskAny(c) == \E k \in Kinds : AskCode(c, k) \/ \E right \in BOOLEAN : Check(c, k, right)
StartAny(c) == \E t \in DOMAIN tokens, p \in Plans : Initiate(c, t, p)
SetAny(c) == \E t \in DOMAIN tokens, p \in Plans, i \in 0..Len(charges) : SetPin(c, t, p, i)
SignUpNext ==
  \/ \E c \in Clients : Continue(c) \/ AskAny(c) \/ StartAny(c) \/ SetAny(c) \/ Kill(c)
  \/ Time \/ SwitchFee \/ \E i \in DOMAIN charges : Pay(i)

SignUpType ==
  /\ code \in [Kinds -> [n : 0..MaxCodes, tries : 0..MaxAttempts]] /\ codes \in 0..MaxCodes
  /\ sends \in [count : Nat, sent : Nat, cool : BOOLEAN]
  /\ tokens \in Seq([live : BOOLEAN, code : 1..MaxCodes, spent : BOOLEAN, pending : 0..MaxCharges])
  /\ charges \in Seq([plan : Plans, total : Nat, paid : BOOLEAN]) /\ feeOn \in BOOLEAN
  /\ signup \in [made : BOOLEAN, pin : BOOLEAN, plan : Plans \union {"none"}]
  /\ receipts \subseteq Receipts
  /\ stage \in [Clients -> Places] /\ job \in [Clients -> Jobs]

AtRest == \A c \in Clients : stage[c] = "idle"

\* An account has its PIN and its plan when the requests are over.
AccountComplete == AtRest /\ signup.made => signup.pin /\ signup.plan # "none"

\* What is recorded as paid is what was charged, and was paid.
Received(i) == MapThenSumSet(LAMBDA r : r.amount, {r \in receipts : r.charge = i})
ReceiptsMatch ==
  AtRest => \A r \in receipts : r.charge # 0 /\ charges[r.charge].paid
                                /\ Received(r.charge) = charges[r.charge].total

\* The counter is behind the codes sent by at most the requests that overlap.
SendsBounded == sends.sent <= MaxSends + 2 * (Cardinality(Clients) - 1)

\* A code that was deleted after its token makes no other token.
CodeUsedOnce == \A t, u \in DOMAIN tokens : t < u /\ tokens[t].spent => tokens[u].code # tokens[t].code
=============================================================================
