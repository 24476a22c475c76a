----------------------------- MODULE MCWallet -----------------------------
(* Small instances of Wallet: one of the cards and one of the plans is worth
   nothing, because the forms that create them accept a zero. *)
EXTENDS Wallet, TLC

CONSTANTS s1, s2, c1, c2, c0, p1, p0, w1, w2

MCCardValue == [c \in Cards |-> CASE c = c1 -> 3 [] c = c2 -> 2 [] OTHER -> 0]
MCPrice == [p \in Plans |-> IF p = p1 THEN 2 ELSE 0]

(* The scene is chosen first:
     killed   any worker may be killed at any statement;
     apart    no worker is killed, and a card is redeemed only when no other
              redemption is under way, as in the repository's tests. *)
VARIABLE scene
all == <<vars, scene>>

Redeeming == {w \in Workers : pc[w] # "idle" /\ req[w].type = "refill_card"}
MCInit == Init /\ scene \in {"killed", "apart"}
MCNext ==
  /\ UNCHANGED scene
  /\ \/ scene = "killed" /\ \E w \in Workers : Crash(w)
     \/ \E w \in Workers : Arrive(w) \/ Step(w)
     \/ \E c \in Cards : AdminSetCard(c)
  /\ scene = "apart" => Cardinality(Redeeming') <= 1
MCSpec == MCInit /\ [][MCNext]_all /\ Fairness

\* The requests of the first scene, with nobody killed.
OverlapSpec == Init /\ scene = "killed" /\ [][Next /\ UNCHANGED scene]_all

\* A redeemed card with a value is credited, and once, if no worker is killed
\* and the redemptions of a card do not overlap (portal_redeem_refill).
RedeemedIsCredited ==
  /\ [](scene = "apart" => CardCreditedOnce)
  /\ scene = "apart" => UsedCardIsCredited
=============================================================================
