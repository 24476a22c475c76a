--------------------------- MODULE AtomicWallet ---------------------------
(***************************************************************************)
(* What the wallet promises its users: an account that refill cards fill   *)
(* and plan purchases empty, each in one step, never below zero.           *)
(***************************************************************************)
EXTENDS Integers, Sequences

CONSTANTS Subscribers, Cards, Plans, CardValue, Price

VARIABLES account,  \* what a subscriber can spend
          bought    \* the plans a subscriber bought, oldest first

Init ==
  /\ account = [s \in Subscribers |-> 0]
  /\ bought = [s \in Subscribers |-> <<>>]

Credit(s, c) ==
  /\ CardValue[c] > 0
  /\ account' = [account EXCEPT ![s] = @ + CardValue[c]]
  /\ UNCHANGED bought

Buy(s, p) ==
  /\ 0 < Price[p] /\ Price[p] <= account[s]
  /\ account' = [account EXCEPT ![s] = @ - Price[p]]
  /\ bought' = [bought EXCEPT ![s] = Append(@, p)]

Next == \E s \in Subscribers : \/ \E c \in Cards : Credit(s, c)
                               \/ \E p \in Plans : Buy(s, p)

Spec == Init /\ [][Next]_<<account, bought>>
=============================================================================
