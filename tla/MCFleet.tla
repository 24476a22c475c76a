------------------------------ MODULE MCFleet ------------------------------
(***************************************************************************)
(* Instances of Outages and of Ports, one of them at a time.  Of the two   *)
(* routers of Outages one is claimed and watched:                          *)
(*   watch    an OpenWrt device that is online; a run of check_routers, a  *)
(*            heartbeat or a webhook at a time; no event waits an hour     *)
(*   serial   a MikroTik, newly claimed or online; the same, and the staff *)
(*            mark it offline, check_routers is killed or late             *)
(*   all      a MikroTik; heartbeats and webhooks at any time in a run     *)
(* In serial (all) the world is still once two events (one) are logged.    *)
(*   wiring   a board with three wired ports and a radio; the reseller     *)
(*            gives roles to one or two of the wired ports, or to one and  *)
(*            the radio; the ports make no difference between the modes    *)
(*            pppoe and both                                               *)
(***************************************************************************)
EXTENDS Outages, Ports

CONSTANTS open, mikro, e1, e2, e3, wifi1

ASSUME SceneAssumption == open \in Routers \ Mikrotiks /\ mikro \in Routers

VARIABLE scene
all == <<vars, wiring, scene>>

Watched == IF scene = "watch" THEN open ELSE mikro
Moving == (scene = "watch") \/ (Len(log) < IF scene = "all" THEN 1 ELSE 2)
Alone == scene = "all" \/ Settled
\* The timer runs before an event that is confirmed is an hour old.
InTime(i) == scene = "watch" /\ log[i].age = "confirmed" => log[i].settled # "pending"

Health ==
  \/ CheckRouters \/ TellFails \/ LogEvent(Watched)
  \/ Alone /\ SweepLoad
  \/ Alone /\ Moving /\ (Tunnel(Watched) \/ Stale(Watched))
  \/ Alone /\ Moving /\ (Heartbeat(Watched) \/ Webhook(Watched))
  \/ Settled /\ Moving /\ scene = "serial" /\ MarkOffline(Watched)
  \/ scene = "serial" /\ SweepCrash
  \/ \E i \in DOMAIN log : Settled /\ InTime(i) /\ Age(i)

Chosen == {{e1}, {e2, e3}, {e1, wifi1}}
Wiring ==
  \/ \E S \in Chosen : \E a \in [S -> Roles] : SetTopology(a)
  \/ (\E mode \in {"hotspot", "both"} : SetServiceMode(mode)) \/ Reflag
  \/ TickLoad \/ TickSave \/ TickKilled
  \/ (\E p \in Ethers : Plug(p)) \/ Reset \/ Ask \/ Clear \/ Arrive \/ Lost \/ Announce

MCInit ==
  /\ Init /\ WiringInit /\ scene \in {"watch", "serial", "all", "wiring"}
  /\ \A r \in Routers \ {Watched} : health[r].status = "pending" /\ ~shaking[r]
  /\ scene = "watch" => health[Watched].status = "online"
  /\ IF scene = "wiring" THEN health[Watched].status = "pending" /\ ~shaking[Watched]
     ELSE cable = e1 /\ unit = Booted(Ethers)
MCNext ==
  /\ \/ scene # "wiring" /\ Health /\ UNCHANGED wiring
     \/ scene = "wiring" /\ Wiring /\ UNCHANGED vars
  /\ UNCHANGED scene
MCFairness ==
  /\ WF_vars(scene # "wiring" /\ SweepLoad) /\ WF_vars(scene # "wiring" /\ CheckRouters)
  /\ \A i \in 1..MaxLog : WF_vars(scene # "wiring" /\ i \in DOMAIN log /\ Age(i))
MCSpec == MCInit /\ [][MCNext]_all /\ MCFairness

\* Roles that were given reach the ports whatever these ran before, unless an
\* answer is lost or overtaken or the sweep saves an old flag; and no script cuts
\* the uplink it came by unless told to use another port.
WiringHolds == Delivered /\ []WiringType /\ [][RolesDelivered /\ UplinkKept]_wiring
\* Of a router that is watched, the log tells whether it is offline, and no
\* recovery is announced without its outage.
WatchedIsTold ==
  /\ [](TypeOK /\ (scene = "watch" => StatusFollowsLog))
  /\ [][scene = "watch" => \A i \in DOMAIN log : RecoveryIsEarned(i)]_all
=============================================================================
