----------------------------- MODULE MCRouters -----------------------------
(***************************************************************************)
(* Instances of Routers: one MikroTik and one OpenWrt device, one reseller.*)
(* The mode says what may happen and what may overlap:                     *)
(*   quiet    one request at a time, nothing fails, no claimed router is   *)
(*            given up and no device with a tunnel changes its key         *)
(*   serial   one request at a time, routers are given up and claimed      *)
(*            again, devices are reset, responses are lost                 *)
(*   churn    one request at a time: claims and releases, more of them     *)
(*   faulty   as in serial, and subprocesses fail                          *)
(*   overlap  two requests at a time, about the MikroTik                   *)
(***************************************************************************)
EXTENDS Routers

CONSTANTS m, x, ann, nobody, w1, w2
ASSUME ThreadAssumption == w1 \in Workers

VARIABLE mode
modal == <<vars, mode>>

\* The number of the first request: MaxRequests is 4, so a mode has 4, 3 or 2.
First == [quiet |-> 0, churn |-> 0, serial |-> 1, faulty |-> 2, overlap |-> 2]
ASSUME FirstAssumption == \A k \in DOMAIN First : First[k] <= MaxRequests

SameKey(w) == \E r \in Routers :
  \/ HeartbeatMikrotik(w, r)
  \/ HeartbeatOpenwrt(w, r) /\ (row[r].ip = 0 \/ row[r].key = device[r].key)
Quiet(w) == \/ Claims(w) \/ Settles(w) \/ PhoneHomes(w) \/ Sweeps(w)
            \/ ReconcileCommand(w) \/ SameKey(w)
Serial(w) == \/ Claims(w) \/ Releases(w) \/ Heartbeats(w) \/ Sweeps(w)
             \/ \E r \in Routers : MarkOffline(w, r) \/ RouterProvision(w, r)
Churn(w) == \/ Claims(w) \/ Releases(w)
            \/ \E r \in Routers : /\ row[r].status = "unknown"
                                 /\ (HeartbeatOpenwrt(w, r) \/ RouterProvision(w, r))
Overlap(w) == \E r \in Mikrotiks, o \in Resellers :
  \/ RouterAdd(w, r, o) \/ HandleMikrotikAdd(w, r, o)
  \/ RouterRemove(w, r) \/ MarkAvailable(w, r) \/ RouterProvision(w, r)
Boots == \E r \in Routers : Boot(r)

Step ==
  \/ \E w \in Workers : mode = "overlap" /\ (Statement(w) \/ Overlap(w))
  \/ \E w \in {w1} :
       \/ mode # "overlap" /\ Statement(w)
       \/ mode = "quiet" /\ Idle /\ Quiet(w)
       \/ mode = "churn" /\ Idle /\ Churn(w)
       \/ mode \in {"serial", "faulty"} /\ (ResponseLost(w) \/ (Idle /\ Serial(w)))
       \/ mode = "faulty" /\ (WireGuardFails(w) \/ RestartFails(w))
  \/ mode = "quiet" /\ Idle /\ Devices
  \/ mode \in {"churn", "serial", "faulty"} /\ Idle /\ Boots

MCInit == Begin /\ mode \in DOMAIN First /\ served = First[mode]
MCNext == Step /\ UNCHANGED mode

\* A thread goes on; devices phone home and beat; the timer of check_routers
\* runs, now and then after the ten minutes of backoff; a response gets through
\* if enough are sent.
Fairness ==
  /\ WF_vars(mode = "serial" /\ Statement(w1))
  /\ SF_vars(mode = "serial" /\ Idle /\ CheckRouters(w1, TRUE))
  /\ \A r \in Mikrotiks :
       /\ SF_vars(mode = "serial" /\ DoRespond(w1) /\ Now(w1).router = r)
       /\ SF_vars(mode = "serial" /\ Idle /\ HeartbeatMikrotik(w1, r))
       /\ SF_vars(mode = "serial" /\ Idle /\ RouterProvision(w1, r))
MCSpec == MCInit /\ [][MCNext]_modal /\ Fairness

\* One request at a time, everything allowed.
SerialSpec == MCInit /\ mode = "serial" /\ [][MCNext]_modal

\* Whatever fails or is lost, while requests do not overlap each router has an
\* address of its own and the NAS row and server that go with it; and when
\* nothing fails and no tunnel is given up, the peers are those of the rows and
\* every setting is on the device or on its way.
RowsAgree ==
  /\ TypeOK
  /\ mode # "overlap" => AddressesDistinct /\ NasFollowsRow
  /\ mode = "quiet" => PeersFollowRows /\ SettingNotLost
\* A claimed MikroTik comes to run the credentials of its row although
\* responses are lost: the sweep flags it until its tunnel is up.
SerialClaimsConverge ==
  \A r \in Mikrotiks : (mode = "serial" /\ Convergent(r)) ~> (Agrees(r) \/ ~Convergent(r))
=============================================================================
