------------------------------- MODULE Ports -------------------------------
(***************************************************************************)
(* The wiring of one MikroTik: the roles the reseller gives its ports, and *)
(* what the provision script makes of them on the device: the WAN port,    *)
(* the ports with a DHCP client, the bridge of each port and the bridges   *)
(* with a PPPoE server.                                                    *)
(*                                                                         *)
(* A script is made from the row a request of the device loaded, and the   *)
(* row is written before the answer leaves.  The device has one request on *)
(* the way at a time, and applies a script in one step.  The role "lan"    *)
(* does what leaving the port out does, so it is left out.  A radio is     *)
(* never a WAN.  The router stays claimed.                                 *)
(***************************************************************************)
EXTENDS FiniteSets

CONSTANTS Ethers, Radios,
          ether1       \* the port every fallback names

ASSUME PortAssumption == ether1 \in Ethers /\ Ethers \cap Radios = {} /\ IsFiniteSet(Ethers \cup Radios)

VARIABLES assigned,    \* Router.port_assignments
          service,     \* Router.service_mode
          flagged,     \* Router.needs_reprovision
          tick,        \* the flag in the copy check_routers holds, if it runs
          announced,   \* the platform knows the board's ports
          fetch,       \* the device's request, and the row it loaded
          unit,        \* the device
          cable        \* the port the internet is plugged into

routerRow == <<assigned, service, flagged>>
wiring == <<routerRow, tick, announced, fetch, unit, cable>>

Roles == {"wan", "hotspot", "pppoe"}
Modes == {"hotspot", "pppoe", "both"}
Bridges == {"none", "hotspot", "pppoe"}
AllPorts == Ethers \cup Radios
Units == [phase : {"boot", "running"}, wan : Ethers, dhcp : SUBSET Ethers,
          bridge : [AllPorts -> Bridges], servers : SUBSET {"hotspot", "pppoe"}]
\* The bootstrap asks for a lease on every port, the older one on ether1.
Booted(leases) == [phase |-> "boot", wan |-> ether1, dhcp |-> leases,
                   bridge |-> [p \in AllPorts |-> "none"], servers |-> {}]
Assignments == UNION {[S -> Roles] : S \in SUBSET AllPorts}
NoRoles == [p \in {} |-> "wan"]
\* home: a phone-home, not a heartbeat; heard: the device still waits for it.
Fetches == [at : {"none", "loaded", "sent"}, home : BOOLEAN, heard : BOOLEAN,
            roles : Assignments, service : Modes, flagged : BOOLEAN]
NoFetch == [at |-> "none", home |-> FALSE, heard |-> FALSE,
            roles |-> NoRoles, service |-> "hotspot", flagged |-> FALSE]

WiringInit ==
  /\ assigned = NoRoles /\ service = "hotspot"
  /\ flagged = FALSE /\ tick = {} /\ announced = FALSE /\ fetch = NoFetch
  /\ unit \in {Booted(Ethers), Booted({ether1})}
  /\ cable \in Ethers

\* get_catalogue_entry: a board that has not announced itself has one port.
Entry == IF announced THEN AllPorts ELSE {ether1}

-----------------------------------------------------------------------------
(* The dashboard                                                           *)

\* router_topology: known ports, and exactly one WAN, which is not a radio.
SetTopology(a) ==
  /\ DOMAIN a # {} /\ DOMAIN a \subseteq Entry
  /\ Cardinality({p \in DOMAIN a : a[p] = "wan"}) = 1
  /\ \A p \in DOMAIN a \cap Radios : a[p] # "wan"
  /\ assigned' = a /\ flagged' = TRUE
  /\ UNCHANGED <<service, tick, announced, fetch, unit, cable>>

SetServiceMode(mode) ==
  /\ service' = mode /\ flagged' = TRUE
  /\ UNCHANGED <<assigned, tick, announced, fetch, unit, cable>>

\* Redeploy; the radio settings and a status of pending_provision ask the same.
Reflag == flagged' = TRUE /\ UNCHANGED <<assigned, service, tick, announced, fetch, unit, cable>>

-----------------------------------------------------------------------------
(* check_routers saves the flag of the copy it loaded, or sets it          *)

TickLoad == /\ tick = {} /\ tick' = {flagged}
            /\ UNCHANGED <<routerRow, announced, fetch, unit, cable>>
TickSave == /\ tick # {} /\ tick' = {} /\ flagged' \in tick \cup {TRUE}
            /\ UNCHANGED <<assigned, service, announced, fetch, unit, cable>>
TickKilled == /\ tick # {} /\ tick' = {}
              /\ UNCHANGED <<routerRow, announced, fetch, unit, cable>>

-----------------------------------------------------------------------------
(* The device                                                              *)

Plug(p) == cable' = p /\ UNCHANGED <<routerRow, tick, announced, fetch, unit>>
Reset == /\ unit' \in {Booted(Ethers), Booted({ether1})}
         /\ fetch' = [fetch EXCEPT !.heard = FALSE]
         /\ UNCHANGED <<routerRow, tick, announced, cable>>
\* The port with the cable has a lease.
Online(u) == cable \in u.dhcp

\* build_port_topology
Explicit(roles) == DOMAIN roles # {}
Tagged(roles, role) == {e \in Ethers \cap DOMAIN roles \cap Entry : roles[e] = role}
\* The bridge the PPPoE server is given.
PppoeBridge(roles) == IF Tagged(roles, "pppoe") # {} THEN "pppoe" ELSE "hotspot"

\* Fault for mutation: any port that asks for a lease, not one that has it.
AutoWan_Asks(u) == IF u.dhcp # {} THEN CHOOSE e \in u.dhcp : TRUE ELSE ether1
AutoWan(u) == IF Online(u) THEN cable ELSE ether1
ExplicitWan(roles) ==
  IF Tagged(roles, "wan") # {} THEN CHOOSE e \in Tagged(roles, "wan") : TRUE ELSE ether1
Wan(u, roles) == IF Explicit(roles) THEN ExplicitWan(roles) ELSE AutoWan(u)

\* Each port but the WAN: an automatic script adds it if it is in no bridge.
AutoBridge(u, e) == IF u.bridge[e] = "none" THEN "hotspot" ELSE u.bridge[e]
\* An explicit script takes it out of its bridge first.
ExplicitBridge(roles, e) ==
  IF e \in Tagged(roles, "hotspot") THEN "hotspot"
  ELSE IF e \in Tagged(roles, "pppoe") THEN "pppoe" ELSE "none"

\* What the script of generate_provision_rsc makes of a device: the WAN keeps
\* what it has, every other port loses its DHCP client, a radio that is in no
\* bridge goes to the hotspot, and a PPPoE server is added but never removed.
Applied(u, roles, mode) ==
  [phase |-> "running", wan |-> Wan(u, roles), dhcp |-> u.dhcp \cap {Wan(u, roles)},
   bridge |-> [p \in AllPorts |->
     IF p = Wan(u, roles) THEN u.bridge[p]
     ELSE IF p \in Ethers /\ Explicit(roles) THEN ExplicitBridge(roles, p) ELSE AutoBridge(u, p)],
   servers |-> IF mode = "hotspot" THEN u.servers ELSE u.servers \cup {PppoeBridge(roles)}]

\* A device that has only its bootstrap phones home; the others send heartbeats,
\* and one of a flagged router loads the row for a script.
Ask ==
  /\ Online(unit) /\ fetch.at = "none" /\ (unit.phase = "boot" \/ flagged)
  /\ fetch' = [at |-> "loaded", home |-> unit.phase = "boot", heard |-> TRUE,
               roles |-> assigned, service |-> service, flagged |-> flagged]
  /\ UNCHANGED <<routerRow, tick, announced, unit, cable>>

\* The script is made of the copy.  A heartbeat then clears the flag of the row;
\* a phone-home saves the whole copy, whose other columns are not written meanwhile.
Clear ==
  /\ fetch.at = "loaded" /\ fetch' = [fetch EXCEPT !.at = "sent"]
  /\ IF fetch.home
     THEN assigned' = fetch.roles /\ service' = fetch.service /\ flagged' = fetch.flagged
     ELSE flagged' = FALSE /\ UNCHANGED <<assigned, service>>
  /\ UNCHANGED <<tick, announced, unit, cable>>

\* The device runs the script, or the request is cut off or its answer lost.
Arrive ==
  /\ fetch.at = "sent" /\ fetch.heard /\ fetch' = NoFetch
  /\ unit' = Applied(unit, fetch.roles, fetch.service)
  /\ UNCHANGED <<routerRow, tick, announced, cable>>
Lost == /\ fetch.at # "none" /\ fetch' = NoFetch
        /\ UNCHANGED <<routerRow, tick, announced, unit, cable>>
\* The last line of a script; it may come late or never.
Announce == /\ unit.phase = "running" /\ Online(unit) /\ announced' = TRUE
            /\ UNCHANGED <<routerRow, tick, fetch, unit, cable>>

-----------------------------------------------------------------------------
(* What is checked                                                         *)

WiringType ==
  /\ assigned \in Assignments /\ service \in Modes /\ flagged \in BOOLEAN
  /\ tick \in {{}, {TRUE}, {FALSE}} /\ announced \in BOOLEAN /\ fetch \in Fetches
  /\ unit \in Units /\ cable \in Ethers

\* Each wired port but the WAN is in the bridge of its role, whatever it was used
\* for before ("so role re-assignment is clean", provision.py).
Runs(roles) ==
  \A e \in Ethers \ {unit.wan} :
    unit.bridge[e] = IF e \in DOMAIN roles /\ roles[e] # "wan" THEN roles[e] ELSE "none"

\* The roles of the row are asked for, or on their way, or what the device runs.
Coming == fetch.at # "none" /\ fetch.heard
Delivered ==
  \/ flagged \/ ~Explicit(assigned)
  \/ IF Coming THEN fetch.roles = assigned ELSE unit.phase = "boot" \/ Runs(assigned)

\* What can come between them: a heartbeat is answered from a row that is not
\* the row any more, an answer is lost when its flag is cleared, a sweep
\* saves its old flag over a new one.
Slip ==
  \/ Clear /\ ~fetch.home /\ fetch.roles # assigned
  \/ Lost /\ ~fetch.home /\ ~flagged
  \/ TickSave /\ tick = {FALSE} /\ flagged

\* Roles that are asked for are kept in mind, until the device runs them and for
\* as long as it does, unless one of these three happens.
RolesDelivered == Delivered => Delivered' \/ Slip

\* A script never cuts the connection it came over, unless the reseller chose
\* another port for it.
UplinkKept ==
  Arrive /\ Online(unit) =>
    Online(unit') \/ (Explicit(fetch.roles) /\ ExplicitWan(fetch.roles) # cable)

WiringNext ==
  \/ \E S \in SUBSET AllPorts : \E a \in [S -> Roles] : SetTopology(a)
  \/ (\E mode \in Modes : SetServiceMode(mode)) \/ Reflag
  \/ TickLoad \/ TickSave \/ TickKilled
  \/ (\E p \in Ethers : Plug(p)) \/ Reset \/ Ask \/ Clear \/ Arrive \/ Lost \/ Announce
WiringSpec == WiringInit /\ [][WiringNext]_wiring
=============================================================================
