----------------------------- MODULE MCHotspot -----------------------------
(***************************************************************************)
(* Instances of Quotas, Vouchers and SignUp, one of them at a time.        *)
(*   limits   a subscriber under quotas and time limits; people act        *)
(*            between two runs of the commands, the daily reset is the     *)
(*            first of them after midnight, and who has exceeded his quota *)
(*            neither logs in again nor buys before it                     *)
(*   plans    the reseller edits, disables and deletes plans               *)
(*   card     a voucher; one request or command at a time                  *)
(*   rush     two logins with its PIN, the sweep and the reseller at once  *)
(*   kills    the same, and requests and commands are killed               *)
(*   codes    two clients ask for codes at once; nobody enters one         *)
(*   signups  a code is entered, then two clients pay and make the account *)
(*            with its token at once                                       *)
(*   serial   one request at a time, which can be killed: codes are asked  *)
(*            for and entered, the account is made where nothing is due    *)
(***************************************************************************)
EXTENDS Integers, Sequences, FiniteSets

CONSTANTS MaxSubs, MaxUse, Logins,
          Clients, Prices, SignupFee, MaxAttempts, MaxSends, MaxCodes, MaxCharges

VARIABLES limits, offered, attributes, syncing, subs, group, password, session,
          today, yesterday, due, sweep,
          voucher, batch, passed, account, paid, access, at, copy,
          code, codes, sends, tokens, charges, feeOn, signup, receipts, stage, job,
          scene

Q == INSTANCE Quotas
V == INSTANCE Vouchers
S == INSTANCE SignUp

\* Logins are told from the command and the reseller; bounds are numbers; there
\* is somebody to sign up and a plan to choose, and a number gets two codes an
\* hour at least (the code allows five).
ASSUME LoginsAssumption == Logins \cap {V!Sweep, V!Dealer} = {}
ASSUME LimitsAssumption == MaxSubs \in Nat /\ MaxUse \in Nat
ASSUME SignUpAssumption ==
  /\ IsFiniteSet(Clients) /\ Clients # {} /\ DOMAIN Prices # {} /\ "none" \notin DOMAIN Prices
  /\ Prices \in [DOMAIN Prices -> Nat] /\ SignupFee \in Nat /\ MaxSends \in Nat /\ MaxSends >= 2
  /\ MaxAttempts \in Nat /\ MaxCodes \in Nat /\ MaxCharges \in Nat

quotas == <<limits, offered, attributes, syncing, subs, group, password, session,
            today, yesterday, due, sweep>>
cards == <<voucher, batch, passed, account, paid, access, at, copy>>
signups == <<code, codes, sends, tokens, charges, feeOn, signup, receipts, stage, job>>
all == <<quotas, cards, signups, scene>>
ConstPrices == [free |-> 0, paid |-> 2]

Subscriptions == scene \in {"limits", "plans"}
Vouching == scene \in {"card", "rush", "kills"}
Signing == scene \in {"codes", "signups", "serial"}
Still == sweep.at = "idle" /\ ~due

QuotasNext ==
  \/ scene = "limits" /\ ((~due /\ Q!Sweeping) \/ Q!Reset)
  \/ scene = "limits" /\ Still /\ (Q!Midnight \/ \E i \in DOMAIN subs : Q!Lapse(i) \/ Q!Expire(i))
  \/ Still /\ ~today.exceeded /\ (Q!Buy \/ Q!Login)
  \/ Q!Connect \/ Q!Leave \/ (scene = "limits" /\ Q!Use)
  \/ scene = "plans" /\ \E p \in Q!Groups : Q!Manage(p)

VouchersNext ==
  \/ (scene = "card" => V!Quiet) /\ (V!Begin \/ V!Pass)
  \/ V!Advance
  \/ scene = "kills" /\ \E a \in V!Actors : V!Kill(a)

\* A client whose charge is pending goes on with the plan it was for.
Sticks(t, p) == tokens[t].pending # 0 => charges[tokens[t].pending].plan = p
Pays(c) == \/ S!StartAny(c)
           \/ \E t \in DOMAIN tokens, p \in S!Plans, i \in 0..Len(charges) :
                Sticks(t, p) /\ S!SetPin(c, t, p, i)
\* Two codes are asked for, and entered while they made two tokens at most.
FewCodes(c) ==
  \/ codes < 2 /\ \E k \in S!Kinds : S!AskCode(c, k)
  \/ Len(tokens) < 3 /\ \E k \in S!Kinds, right \in BOOLEAN : S!Check(c, k, right)
SignUpNext ==
  \/ \E c \in Clients : S!Continue(c)
  \/ S!Time /\ (sends'.cool # sends.cool => S!AtRest)
  \/ \E i \in DOMAIN charges : S!Pay(i)
  \/ scene = "codes" /\ \E c \in Clients, k \in S!Kinds : S!AskCode(c, k)
  \/ scene = "signups" /\ \E c \in Clients : (S!AtRest /\ tokens = <<>> /\ S!AskAny(c)) \/ Pays(c)
  \/ scene = "serial" /\ S!AtRest /\ \E c \in Clients : FewCodes(c) \/ S!SetAny(c)
  \/ scene = "serial" /\ \E c \in Clients : S!Kill(c)

MCInit ==
  /\ Q!Init /\ V!Init /\ S!SignUpInit
  /\ scene \in {"limits", "plans", "card", "rush", "kills", "codes", "signups", "serial"}
  /\ Subscriptions \/ (limits.time + limits.daily = 0 /\ ~limits.fallback /\ ~limits.throttle)
  /\ Vouching \/ ~passed
  /\ Signing \/ ~feeOn
MCNext ==
  /\ \/ Subscriptions /\ QuotasNext /\ UNCHANGED <<cards, signups>>
     \/ Vouching /\ VouchersNext /\ UNCHANGED <<quotas, signups>>
     \/ Signing /\ SignUpNext /\ UNCHANGED <<quotas, cards>>
  /\ UNCHANGED scene
MCFairness ==
  /\ WF_quotas(scene = "limits" /\ Q!Sweeping) /\ WF_quotas(scene = "limits" /\ Q!Reset)
  /\ \A i \in 1..MaxSubs : WF_quotas(scene = "limits" /\ i \in DOMAIN subs /\ Q!Expire(i))
  /\ V!Fairness
MCSpec == MCInit /\ [][MCNext]_all /\ MCFairness

\* RADIUS serves a subscriber as his subscription says, through expiry, time
\* limits, quotas, resets and logins: with the limits of a plan or not at all
\* (who loses the group loses the password with it), only while he holds a
\* subscription, no further once a daily quota is exceeded, and with his own
\* plan while it is not.
ServedAsHeld ==
  /\ Q!TypeOK
  /\ scene = "limits" => Q!NobodyUnlimited /\ Q!ServedHasPlan /\ Q!QuotaHolds /\ Q!PaidIsServed
\* A voucher opens what it should: with two logins, the sweep and the reseller
\* in any order a running one is served, a login that fails leaves no account
\* that would block the next, a disabled batch has no unused card; and an
\* expired one opens nothing once its request or command is over.
VouchersHold ==
  /\ V!TypeOK
  /\ scene = "card" => V!ExpiredStaysOut
  /\ scene # "kills" => V!RunningIsServed /\ V!NoOrphan /\ V!DisabledBatchHolds
\* A number gets no more codes in an hour than it may, two first ones at once
\* counted once, and a code that was deleted confirms nobody else, whichever
\* request was killed before (_check_otp_limits, portal_verify_otp); two
\* sign-ups at once leave an account with its PIN and plan, or none, and the
\* payment rows are those of the charge that was paid, fee and plan.
SignUpsHold ==
  /\ S!SignUpType /\ S!SendsBounded
  /\ scene = "serial" => S!CodeUsedOnce
  /\ scene = "signups" => S!AccountComplete /\ S!ReceiptsMatch
\* What is over is ended: service beyond the end of a subscription without a
\* time limit, and an overdue voucher.
OverdueEnds ==
  /\ []<>(scene = "limits" /\ limits.time = 0 => ~Q!Overdue)
  /\ []<>(scene = "card" => ~V!Overstays)
=============================================================================
