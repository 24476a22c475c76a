----------------------------- MODULE MCAccess -----------------------------
(***************************************************************************)
(* Instances of Access: a self-signup customer and a manually created one, *)
(* a free trial and a paid plan that renews itself.                        *)
(***************************************************************************)
EXTENDS Access, TLC

CONSTANTS ana, bob,     \* ana signs up on the portal, bob is created manually
          pa, pb,       \* their phones
          trial, paid,
          w1, w2, timer

MCSubscribers == {ana, bob}
MCPhones == {pa, pb}
MCPhone == ana :> pa @@ bob :> pb
MCManual == {bob}
MCPlans == {trial, paid}
MCFree == {trial}
MCAutoRenew == {paid}
MCWorkers == {w1, w2}
MCFragile == {w1, w2, timer}
ASSUME SceneAssumption == w1 \in Workers

(* The scene is chosen first:
     all        two request threads and the timer in any order, any of them
                killed at any statement, and whatever Access describes;
     serial     the same, but a request or a run of the timer ends before the
                next one begins;
     customers  only the customers' requests that keep token and radcheck in
                step, and the timer, one at a time and none killed. *)
VARIABLE scene
scenic == <<vars, scene>>

Runs == \E q \in Processes : Statement(q)
Starts == ExpirePlans \/ Request(w1) \/ (scene = "serial" /\ (TokenOnly(w1) \/ Administer))

MCInit == Init /\ scene \in {"all", "serial", "customers"}
MCNext ==
  /\ UNCHANGED scene
  /\ \/ scene = "all" /\ Next /\ served' <= 2 /\ now' <= 1
     \/ scene = "serial" /\ (Runs \/ (Idle /\ Starts) \/ Tick \/ \E q \in Processes : Crash(q)) /\ now' <= 1
     \/ scene = "customers" /\ (Runs \/ (Idle /\ Starts) \/ Tick)
MCSpec ==
  /\ MCInit /\ [][MCNext]_scenic
  /\ WF_vars(scene = "customers" /\ ExpirePlans)
  /\ \A q \in Processes : WF_vars(scene = "customers" /\ Statement(q))

\* Rows and RADIUS agree: one active subscription of a subscriber while
\* processes do not overlap; and with nothing but the customers' requests and
\* the timer the group is the active plan's and the last token the password.
PlansInStep ==
  /\ TypeOK
  /\ scene # "all" => AtMostOneActive
  /\ scene = "customers" => GroupFollowsPlan /\ TokenOpensPortal
\* A login repairs what crashes, edits and rotations made of the RADIUS rows.
LoginRepairsRadius == [][scene = "serial" => RepairStep]_scenic
\* A new PIN is never undone.
PinSticks == [][scene # "all" => PinStep]_scenic
\* What is past its expiry date is ended.
OverdueEnds == scene = "customers" => OverdueLapses
=============================================================================
