------------------------------ MODULE Routers ------------------------------
(***************************************************************************)
(* The fleet: Router rows, the NAS rows and the clients FreeRADIUS has     *)
(* loaded, the WireGuard peers in the kernel and in wg0.conf, and what the *)
(* devices run.                                                            *)
(*                                                                         *)
(* A request is a process: the sequence of SQL statements and subprocess   *)
(* calls it has still to execute, each of which takes effect by itself.    *)
(* What it loaded before is in their arguments, so a row that is saved     *)
(* whole is written back from the copy, as by Model.save().                *)
(*                                                                         *)
(* Keys, NAS secrets and settings are numbered by the request that made    *)
(* them, tunnel addresses by their order; 0 is none.  Status "provisioned" *)
(* stands for provisioned, online and offline (module Outages tells those  *)
(* apart), "unknown" for a device that has no row.                         *)
(***************************************************************************)
EXTENDS Integers, Sequences, FiniteSets, SequencesExt, TLC

CONSTANTS Mikrotiks,    \* devices whose key pair the server makes
          OpenWrts,     \* devices that make their own on first boot
          Resellers,
          NoOne,
          Workers,      \* threads that serve requests; one may run check_routers
          MaxRequests   \* bound: requests that create keys, secrets, settings

ASSUME DeviceAssumption ==
  Mikrotiks \cap OpenWrts = {} /\ IsFiniteSet(Mikrotiks \cup OpenWrts)
ASSUME OwnerAssumption == NoOne \notin Resellers
ASSUME BoundAssumption == MaxRequests \in Nat

VARIABLES row,      \* routers.Router rows
          nas,      \* radius.Nas rows
          clients,  \* the NAS rows FreeRADIUS read when it last started
          kernel,   \* the peers of the running interface
          file,     \* the [Peer] sections of wg0.conf
          device,   \* the last script each device has applied
          todo,     \* what each process has still to execute
          served    \* numbers keys, secrets and settings

wireguard == <<kernel, file>>
vars == <<row, nas, clients, wireguard, device, todo, served>>

Routers == Mikrotiks \cup OpenWrts
Rows == [owner : Resellers \cup {NoOne}, key : Nat, private : Nat, ip : Nat,
         secret : Nat, needs : BOOLEAN, settings : Nat, shook : BOOLEAN,
         status : {"unknown", "available", "pending", "provisioned", "failed"}]
Peers == [key : Nat, ip : Nat]
Clients == [ip : Nat, router : Routers, secret : Nat]
Scripts == [key : Nat, ip : Nat, secret : Nat, settings : Nat]

Blank == [owner |-> NoOne, key |-> 0, private |-> 0, ip |-> 0, secret |-> 0, needs |-> FALSE,
          settings |-> 0, shook |-> FALSE, status |-> "unknown"]

\* No device is known, and no peer is left from another installation.
Begin ==
  /\ row = [r \in Routers |-> Blank]
  /\ nas = {} /\ clients = {}
  /\ kernel = {} /\ file = {}
  /\ device = [r \in Routers |-> [key |-> 0, ip |-> 0, secret |-> 0, settings |-> 0]]
  /\ todo = [w \in Workers |-> <<>>]
Init == Begin /\ served = 0

Fresh == served + 1
Claimed(r) == row[r].owner # NoOne
\* The peers reconcile_wg writes: rows with a key and an address.
RowPeers == {[key |-> row[r].key, ip |-> row[r].ip] :
               r \in {s \in Routers : row[s].key # 0 /\ row[s].ip # 0}}
Addresses == {row[r].ip : r \in Routers}
\* _allocate_tunnel_ip
NextAddress == Max(Addresses \cup {0}) + 1
\* get_handshakes: the peer of the row's key is the device's own.
TunnelUp(r) == /\ row[r].key # 0 /\ device[r].key = row[r].key
               /\ [key |-> device[r].key, ip |-> device[r].ip] \in kernel

-----------------------------------------------------------------------------
(* Statements and subprocess calls                                         *)

Write(r, fields)  == <<[op |-> "write", router |-> r, fields |-> fields]>>
Allocate(r, c, how) == <<[op |-> "allocate", router |-> r, copy |-> c, how |-> how]>>
Read              == <<[op |-> "read"]>>
Set(key, ip, else) == <<[op |-> "set", key |-> key, ip |-> ip, else |-> else]>> \o Read
Unset(key)        == IF key = 0 THEN <<>> ELSE <<[op |-> "unset", key |-> key, else |-> <<>>]>> \o Read
Respond(r, script) == <<[op |-> "respond", router |-> r, script |-> script]>>
NasDrop(ip)       == <<[op |-> "nasdrop", ip |-> ip], [op |-> "restart"]>>
\* Fault for mutation: the row of the router's former address stays.
Nas_KeepsStale(r, c) == <<[op |-> "nasput", router |-> r, ip |-> c.ip, secret |-> c.secret],
                          [op |-> "restart"]>>
\* upsert_nas_and_reload
Nas(r, c) == <<[op |-> "nasstale", router |-> r, ip |-> c.ip],
               [op |-> "nasput", router |-> r, ip |-> c.ip, secret |-> c.secret],
               [op |-> "restart"]>>

\* generate_provision_rsc: the private key, address, secret and settings of the copy.
Script(c) == [key |-> c.private, ip |-> c.ip, secret |-> c.secret, settings |-> c.settings]

Load(w, statements) == todo[w] = <<>> /\ todo' = [todo EXCEPT ![w] = statements]
\* A request that makes a key, a secret or new settings.
Serve(w, statements) == served < MaxRequests /\ served' = Fresh /\ Load(w, statements)
Unserved == UNCHANGED served
Untouched == UNCHANGED <<row, nas, clients, wireguard, device>>

Generated(c) == [c EXCEPT !.key = Fresh, !.private = Fresh, !.secret = Fresh]

-----------------------------------------------------------------------------
(* Claim and release                                                       *)

\* router_add (the API): an OpenWrt device must have sent its key.
RouterAdd(w, r, o) ==
  LET c == row[r]
      mine(d) == [d EXCEPT !.owner = o, !.status = "pending"]
      keyed == mine([c EXCEPT !.secret = IF @ = 0 THEN Fresh ELSE @])
  IN  /\ c.status # "unknown" /\ c.owner = NoOne
      /\ \/ /\ r \in Mikrotiks
            /\ Serve(w, Allocate(r, mine(Generated(c)), "api"))
         \/ /\ r \in OpenWrts /\ c.key # 0
            /\ Serve(w, IF c.ip = 0 THEN Allocate(r, keyed, "api")
                        ELSE Write(r, keyed) \o Set(c.key, c.ip, <<>>) \o Nas(r, keyed))
      /\ Untouched

\* _handle_mikrotik_add of the dashboard.
HandleMikrotikAdd(w, r, o) ==
  /\ r \in Mikrotiks /\ row[r].status # "unknown" /\ ~Claimed(r)
  /\ Serve(w, Allocate(r, [Generated(row[r]) EXCEPT !.owner = o, !.status = "pending"], "page"))
  /\ Untouched

\* _handle_openwrt_add: the key may still be missing.
HandleOpenwrtAdd(w, r, o) ==
  /\ r \in OpenWrts /\ row[r].status # "unknown" /\ ~Claimed(r)
  /\ Serve(w, Allocate(r, [row[r] EXCEPT !.owner = o, !.status = "pending", !.secret = Fresh],
                       "page"))
  /\ Untouched

\* router_remove: the peer, the NAS row, then the whole row.
RouterRemove(w, r) ==
  LET c == row[r]
  IN  /\ Claimed(r)
      /\ Load(w, Unset(c.key) \o (IF c.ip = 0 THEN <<>> ELSE NasDrop(c.ip))
                 \o Write(r, [Blank EXCEPT !.status = "available", !.needs = c.needs,
                                           !.settings = c.settings, !.shook = c.shook]))
      /\ Unserved /\ Untouched

\* RouterAdmin.mark_available: the private key stays in the row.
MarkAvailable(w, r) ==
  /\ row[r].status # "unknown"
  /\ Load(w, Unset(row[r].key)
             \o Write(r, [status |-> "available", owner |-> NoOne, key |-> 0, ip |-> 0, secret |-> 0]))
  /\ Unserved /\ Untouched

\* RouterAdmin.mark_offline
MarkOffline(w, r) ==
  /\ row[r].status # "unknown"
  /\ Load(w, Write(r, [status |-> "provisioned"]))
  /\ Unserved /\ Untouched

-----------------------------------------------------------------------------
(* Settings                                                                *)

\* router_wifi_config
WifiConfig(w, r) ==
  /\ Claimed(r)
  /\ Serve(w, Write(r, [settings |-> Fresh, needs |-> TRUE]))
  /\ Untouched

\* router_topology: one WAN port of the board, MikroTik only.
Topology(w, r) ==
  /\ Claimed(r) /\ r \in Mikrotiks
  /\ Serve(w, Write(r, [settings |-> Fresh, needs |-> TRUE]))
  /\ Untouched

Redeploy(w, r) ==
  /\ Claimed(r)
  /\ Load(w, Write(r, [needs |-> TRUE]))
  /\ Unserved /\ Untouched

\* router_wifi: pushed over the tunnel to a device that is online, not saved.
RouterWifi(r) ==
  /\ Claimed(r) /\ r \in Mikrotiks /\ row[r].status = "provisioned" /\ TunnelUp(r)
  /\ served < MaxRequests /\ served' = Fresh
  /\ device' = [device EXCEPT ![r].settings = Fresh]
  /\ UNCHANGED <<row, nas, clients, wireguard, todo>>

-----------------------------------------------------------------------------
(* Devices: boot, phone home, heartbeat; and the sweep of check_routers    *)

\* First boot, a reflash or a factory reset; OpenWrt then makes a new key.
Boot(r) ==
  /\ served < MaxRequests /\ served' = Fresh
  /\ device' = [device EXCEPT ![r] = [key |-> IF r \in OpenWrts THEN Fresh ELSE 0, ip |-> 0,
                                      secret |-> 0, settings |-> 0]]
  /\ UNCHANGED <<row, nas, clients, wireguard, todo>>

\* get_or_create of an auto-registered device.
Registered(r) == IF row[r].status = "unknown" THEN [Blank EXCEPT !.status = "available"] ELSE row[r]
Register(r) == row' = [row EXCEPT ![r] = Registered(r)]

\* import_serials_view: MikroTiks the operator lists.
ImportSerials(r) ==
  /\ r \in Mikrotiks /\ row[r].status = "unknown" /\ Register(r)
  /\ UNCHANGED <<nas, clients, wireguard, device, todo, served>>

\* Fault for mutation: the private key is saved alone, from the copy.
Deliver_Partial(r, c) == Write(r, [status |-> "provisioned", private |-> c.private])
                         \o Respond(r, Script(c))
\* The script and the whole row, from the copy.
Deliver(r, c) == Write(r, [c EXCEPT !.status = "provisioned"])
                 \o Respond(r, Script([c EXCEPT !.status = "provisioned"]))

\* router_provision, of a device that has only its bootstrap: credentials if there are none, the script, the whole row.
RouterProvision(w, r) ==
  LET c == Registered(r)
  IN  /\ r \in Mikrotiks /\ device[r].key = 0
      /\ Register(r)
      /\ \/ c.owner = NoOne /\ Load(w, <<>>) /\ Unserved
         \/ c.owner # NoOne /\ c.private # 0 /\ c.key # 0 /\ Load(w, Deliver(r, c)) /\ Unserved
         \/ /\ c.owner # NoOne /\ (c.private = 0 \/ c.key = 0)
            /\ Serve(w, Unset(c.key) \o Allocate(r, Generated(c), "phone"))
      /\ UNCHANGED <<nas, clients, wireguard, device>>

\* The fields a heartbeat saves: online again only after a recent handshake.
Seen(c) == {<<>>} \cup IF c.shook /\ c.status # "pending"
                       THEN {[status |-> "provisioned"]} ELSE {}


\* router_heartbeat of a MikroTik, whose script installs the scheduler.
HeartbeatMikrotik(w, r) ==
  LET c == row[r]
  IN  /\ r \in Mikrotiks /\ c.status # "unknown" /\ device[r].key # 0
      /\ \E fields \in Seen(c) :
           Load(w, Write(r, fields)
                   \o IF c.owner # NoOne /\ (c.status = "pending" \/ c.needs) /\ c.private # 0
                      THEN Write(r, [status |-> "provisioned", needs |-> FALSE])
                           \o Respond(r, Script(c))
                      ELSE <<>>)
      /\ Unserved /\ Untouched

\* The peer of a device that sends another key than its row has.
Swap(c, key) == IF c.ip = 0 THEN <<>> ELSE Unset(c.key) \o Set(key, c.ip, <<>>)

\* router_heartbeat of an OpenWrt device: the peers first, then the row.
HeartbeatOpenwrt(w, r) ==
  LET c == Registered(r)
      key == device[r].key
      new == key # c.key
      d == [c EXCEPT !.key = key]
      keyed(f) == [n \in {"key"} \cup DOMAIN f |-> IF n = "key" THEN key ELSE f[n]]
  IN  /\ r \in OpenWrts /\ key # 0
      /\ Register(r)
      /\ \E fields \in Seen(c) :
           Load(w, (IF new THEN Swap(c, key) ELSE <<>>)
                   \o Write(r, IF new THEN keyed(fields) ELSE fields)
                   \o IF d.owner # NoOne /\ d.status = "pending"
                      THEN Write(r, [status |-> "provisioned"]) \o Respond(r, Script(d))
                      ELSE <<>>)
      /\ Unserved /\ UNCHANGED <<nas, clients, wireguard, device>>

\* openwrt_provision, the older phone-home: the row first, then the peers.
OpenwrtProvision(w, r) ==
  LET c == Registered(r)
      key == device[r].key
      d == [c EXCEPT !.key = key]
      swap == IF key # c.key THEN Write(r, [key |-> key]) \o Swap(c, key) ELSE <<>>
      script == Write(r, [status |-> "provisioned"]) \o Respond(r, Script(d))
  IN  /\ r \in OpenWrts /\ key # 0
      /\ Register(r)
      /\ \/ c.owner = NoOne /\ Load(w, swap) /\ Unserved
         \/ c.owner # NoOne /\ c.ip # 0 /\ c.secret # 0 /\ Load(w, swap \o script) /\ Unserved
         \/ /\ c.owner # NoOne /\ (c.ip = 0 \/ c.secret = 0)
            /\ Serve(w, swap \o Allocate(r, [d EXCEPT !.secret = Fresh, !.status = "pending"], "phone"))
      /\ UNCHANGED <<nas, clients, wireguard, device>>

\* check_routers: what it writes of each router it loaded, flagged or not.
Swept == {r \in Routers : Claimed(r) /\ row[r].ip # 0 /\ row[r].status \in {"pending", "provisioned"}}
\* Fault for mutation: a healthy-looking row is never flagged.
Verdict_NeverFlags(r, flag) ==
  [status |-> row[r].status, shook |-> TunnelUp(r), needs |-> row[r].needs]
Verdict(r, flag) ==
  [status |-> row[r].status, shook |-> TunnelUp(r),
   needs |-> row[r].needs \/ (flag /\ ~TunnelUp(r) /\ row[r].status # "pending")]
CheckRouters(w, flag) ==
  /\ Swept # {}
  /\ Load(w, [k \in 1..Cardinality(Swept) |->
               LET r == SetToSeq(Swept)[k] IN Write(r, Verdict(r, flag))[1]])
  /\ Unserved /\ Untouched

\* reconcile_wg at boot and on deployment.
ReconcileCommand(w) == Load(w, Read) /\ Unserved /\ Untouched

-----------------------------------------------------------------------------
(* One statement or subprocess call                                        *)

At(w, op) == todo[w] # <<>> /\ Head(todo[w]).op = op
Now(w) == Head(todo[w])
Continue(w, statements) == todo' = [todo EXCEPT ![w] = statements \o Tail(@)]
Done(w) == Continue(w, <<>>)

\* save() of the columns that are given.
Saved(c, fields) == [f \in DOMAIN c |-> IF f \in DOMAIN fields THEN fields[f] ELSE c[f]]
DoWrite(w) ==
  /\ At(w, "write")
  /\ row' = [row EXCEPT ![Now(w).router] = Saved(@, Now(w).fields)]
  /\ Done(w)
  /\ UNCHANGED <<nas, clients, wireguard, device, served>>

\* Fault for mutation: the peer is added before the row is saved.
Credentialed_PeerFirst(r, c, how) ==
  (IF c.key = 0 THEN <<>> ELSE Set(c.key, c.ip, <<>>)) \o Write(r, c) \o Nas(r, c)
\* What follows the address: the row, then peer and NAS in the caller's order.
Credentialed(r, c, how) ==
  LET failed == IF how = "api" THEN Write(r, [status |-> "failed"]) ELSE <<>>
      peer == IF c.key = 0 THEN <<>> ELSE Set(c.key, c.ip, IF r \in Mikrotiks THEN failed ELSE <<>>)
      nasFirst == r \in Mikrotiks \/ how = "page"
  IN  Write(r, c) \o (IF nasFirst THEN Nas(r, c) \o peer ELSE peer \o Nas(r, c))
      \o IF how # "phone" THEN <<>>
         ELSE IF r \in Mikrotiks THEN Deliver(r, c)
         ELSE Write(r, [status |-> "provisioned"]) \o Respond(r, Script(c))

DoAllocate(w) ==
  /\ At(w, "allocate")
  /\ Continue(w, Credentialed(Now(w).router, [Now(w).copy EXCEPT !.ip = NextAddress], Now(w).how))
  /\ UNCHANGED <<row, nas, clients, wireguard, device, served>>

DoNas(w) ==
  /\ \/ At(w, "nasstale") /\ nas' = {n \in nas : n.router # Now(w).router \/ n.ip = Now(w).ip}
     \/ At(w, "nasdrop") /\ nas' = {n \in nas : n.ip # Now(w).ip}
     \/ /\ At(w, "nasput")
        /\ nas' = {n \in nas : n.ip # Now(w).ip}
                  \cup {[ip |-> Now(w).ip, router |-> Now(w).router, secret |-> Now(w).secret]}
  /\ Done(w)
  /\ UNCHANGED <<row, clients, wireguard, device, served>>

\* _reload_freeradius
DoRestart(w) ==
  /\ At(w, "restart")
  /\ clients' = nas
  /\ Done(w)
  /\ UNCHANGED <<row, nas, wireguard, device, served>>

\* wg set ... peer: an address belongs to the peer that got it last.
Assigned(peers, key, ip) == {p \in peers : p.key # key /\ p.ip # ip} \cup {[key |-> key, ip |-> ip]}
DoSet(w) ==
  /\ \/ At(w, "set") /\ kernel' = Assigned(kernel, Now(w).key, Now(w).ip)
     \/ At(w, "unset") /\ kernel' = {p \in kernel : p.key # Now(w).key}
  /\ Done(w)
  /\ UNCHANGED <<row, nas, clients, file, device, served>>

\* reconcile_wg: rows, mv, wg-quick strip, wg syncconf.
DoReconcile(w) ==
  /\ \/ /\ At(w, "read")
        /\ Continue(w, <<[op |-> "move", peers |-> RowPeers], [op |-> "strip"]>>)
        /\ UNCHANGED wireguard
     \/ At(w, "move") /\ file' = Now(w).peers /\ Done(w) /\ UNCHANGED kernel
     \/ At(w, "strip") /\ Continue(w, <<[op |-> "sync", peers |-> file]>>) /\ UNCHANGED wireguard
     \/ At(w, "sync") /\ kernel' = Now(w).peers /\ Done(w) /\ UNCHANGED file
  /\ UNCHANGED <<row, nas, clients, device, served>>

\* The device imports the script; an OpenWrt device keeps its own key.
DoRespond(w) ==
  LET r == Now(w).router
  IN  /\ At(w, "respond")
      /\ device' = [device EXCEPT ![r] = [Now(w).script EXCEPT !.key = IF r \in OpenWrts
                                                              THEN device[r].key ELSE @]]
      /\ Done(w)
      /\ UNCHANGED <<row, nas, clients, wireguard, served>>

Statement(w) == \/ DoWrite(w) \/ DoAllocate(w) \/ DoNas(w) \/ DoRestart(w)
                \/ DoSet(w) \/ DoReconcile(w) \/ DoRespond(w)

-----------------------------------------------------------------------------
(* Faults                                                                  *)

Tunnelling == {"set", "unset", "read", "move", "strip", "sync"}
From(s, ops) == LET kept == {k \in DOMAIN s : s[k].op \notin ops}
                IN  IF kept = {} THEN <<>> ELSE SubSeq(s, Min(kept), Len(s))
\* WireGuardError: in wg set it ends the peer change, in reconcile_wg that alone.
WireGuardFails(w) ==
  /\ \/ /\ At(w, "set") \/ At(w, "unset")
        /\ todo' = [todo EXCEPT ![w] = Now(w).else \o From(Tail(@), Tunnelling)]
     \/ /\ todo[w] # <<>> /\ Now(w).op \in Tunnelling \ {"set", "unset"}
        /\ todo' = [todo EXCEPT ![w] = From(Tail(@), {"move", "strip", "sync"})]
  /\ UNCHANGED <<row, nas, clients, wireguard, device, served>>
\* systemctl restart fails and is logged.
RestartFails(w) ==
  /\ At(w, "restart") /\ Done(w)
  /\ UNCHANGED <<row, nas, clients, wireguard, device, served>>
\* The response does not reach the device.
ResponseLost(w) ==
  /\ At(w, "respond") /\ Done(w)
  /\ UNCHANGED <<row, nas, clients, wireguard, device, served>>

-----------------------------------------------------------------------------
(* What is checked                                                         *)

Idle == \A w \in Workers : todo[w] = <<>>

TypeOK ==
  /\ row \in [Routers -> Rows]
  /\ nas \subseteq Clients /\ clients \subseteq Clients
  /\ kernel \subseteq Peers /\ file \subseteq Peers
  /\ device \in [Routers -> Scripts]
  /\ served \in 0..MaxRequests

\* The running interface and wg0.conf have exactly the peers of the rows when
\* no request is in progress (wg_utils.py: "the on-disk config never drifts").
PeersFollowRows == Idle => kernel = RowPeers /\ file = RowPeers

\* No two routers have one tunnel address, though addresses are given up and
\* handed out again.
AddressesDistinct ==
  \A r, s \in Routers : row[r].ip # 0 /\ row[r].ip = row[s].ip => r = s

\* FreeRADIUS knows a claimed router by one address and one secret, those its
\* row delivers to the device.
NasFollowsRow ==
  Idle => \A r \in Routers : Claimed(r) =>
    {n \in nas : n.router = r} = {[ip |-> row[r].ip, router |-> r, secret |-> row[r].secret]}

\* A settings change of a claimed MikroTik is on the device, or will be
\* delivered by a later heartbeat, whatever was delivered around it.
SettingNotLost ==
  Idle => \A r \in Mikrotiks :
    Claimed(r) /\ device[r].settings < row[r].settings /\ device[r].key # 0
      => row[r].needs \/ row[r].status = "pending"

\* The key pair of a MikroTik row is one pair, whichever requests overlapped.
KeyPairMatches ==
  \A r \in Mikrotiks : row[r].key # 0 => row[r].private = row[r].key

Agrees(r) == LET d == device[r] IN
  d.key = row[r].key /\ d.ip = row[r].ip /\ d.secret = row[r].secret
Convergent(r) == Claimed(r) /\ row[r].key # 0 /\ row[r].status # "failed"

-----------------------------------------------------------------------------
Claims(w) == \E r \in Routers, o \in Resellers :
  RouterAdd(w, r, o) \/ HandleMikrotikAdd(w, r, o) \/ HandleOpenwrtAdd(w, r, o)
Releases(w) == \E r \in Routers : RouterRemove(w, r) \/ MarkAvailable(w, r)
Settles(w) == \E r \in Routers : WifiConfig(w, r) \/ Topology(w, r) \/ Redeploy(w, r)
Heartbeats(w) == \E r \in Routers : HeartbeatMikrotik(w, r) \/ HeartbeatOpenwrt(w, r)
PhoneHomes(w) == \E r \in Routers : RouterProvision(w, r) \/ OpenwrtProvision(w, r)
Sweeps(w) == \E flag \in BOOLEAN : CheckRouters(w, flag)
Devices == \E r \in Routers : Boot(r) \/ RouterWifi(r) \/ ImportSerials(r)
Faults(w) == WireGuardFails(w) \/ RestartFails(w) \/ ResponseLost(w)

Request(w) == \/ Claims(w) \/ Releases(w) \/ Settles(w) \/ Heartbeats(w) \/ PhoneHomes(w)
              \/ Sweeps(w) \/ ReconcileCommand(w) \/ \E r \in Routers : MarkOffline(w, r)

Next == Devices \/ \E w \in Workers : Request(w) \/ Statement(w) \/ Faults(w)
Spec == Init /\ [][Next]_vars
=============================================================================
