------------------------------ MODULE Outages ------------------------------
(***************************************************************************)
(* Router health: the status of each claimed router with its strikes, the  *)
(* health log, and the announcements made from it.                         *)
(*                                                                         *)
(* check_routers is one process: it loads the rows and the handshakes,     *)
(* saves router after router from that copy, inserts the log rows it has   *)
(* collected, and then walks the log rows that nobody has been told of.    *)
(* Heartbeats and OpenWISP webhooks save and log in steps of their own.    *)
(* Times are abstracted to what the code compares: a signal is fresh or    *)
(* stale, a log row is new (under CONFIRM_SECONDS), confirmed, or old      *)
(* (over MAX_NOTIFY_AGE_SECONDS).                                          *)
(***************************************************************************)
EXTENDS Integers, Sequences, FiniteSets, FiniteSetsExt

CONSTANTS Routers,
          Mikrotiks,   \* the routers a heartbeat answers when they are flagged
          Strikes,     \* OFFLINE_STRIKES_REQUIRED
          Ceiling,     \* the highest offline_strikes, 255 in the code
          MaxLog,      \* bound: rows of the health log that are followed
          MaxCrashes   \* bound: kills of check_routers

ASSUME StrikesAssumption == Strikes \in Nat \ {0} /\ Ceiling \in Nat /\ Strikes <= Ceiling
ASSUME BoundsAssumption == MaxLog \in Nat /\ MaxCrashes \in Nat

VARIABLES shaking,   \* the kernel has a fresh handshake of the peer
          health,    \* the row: status, strikes, signals, needs_reprovision
          log,       \* RouterHealthLog rows in the order of created_at
          sweep,     \* where check_routers is, and what it holds
          request,   \* per router: the log row a heartbeat or webhook has still to write
          unwell,    \* history: what the last sweep saw of the router
          crashes

vars == <<shaking, health, log, sweep, request, unwell, crashes>>

Statuses == {"pending", "provisioned", "online", "offline"}
\* seen: last_seen is fresh; cached: wg_last_handshake is.
Healths == [status : Statuses, strikes : 0..Ceiling, seen : BOOLEAN, cached : BOOLEAN,
            needs : BOOLEAN]
LogRows == [router : Routers, event : {"online", "offline"}, age : {"new", "confirmed", "old"},
            settled : {"pending", "quiet", "sent"}, told : BOOLEAN]
\* What a longer log would hold is left out.
Followed(rows) == SubSeq(rows, 1, Min({MaxLog, Len(rows)}))
Event(r, e) == [router |-> r, event |-> e, age |-> "new", settled |-> "pending", told |-> FALSE]

\* What a run of check_routers holds: first its copies and the log rows it has
\* found, then the entries to settle and the status of their routers.
Saving == [at : {"save"}, copy : [Routers -> Healths], shook : [Routers -> BOOLEAN],
           left : SUBSET Routers, found : Seq(LogRows)]
Walking == [at : {"walk", "tell"}, pending : SUBSET (1..MaxLog), status : [Routers -> Statuses]]
Off == [at |-> "off"]

Init ==
  /\ shaking \in [Routers -> BOOLEAN]
  /\ \E status \in [Routers -> {"pending", "online"}] :
       health = [r \in Routers |-> [status |-> status[r], strikes |-> 0, seen |-> TRUE,
                                    cached |-> FALSE, needs |-> FALSE]]
  /\ log = <<>>
  /\ sweep = Off
  /\ request = [r \in Routers |-> <<>>]
  /\ unwell = [r \in Routers |-> FALSE]
  /\ crashes = 0

-----------------------------------------------------------------------------
(* The device and its tunnel                                               *)

Tunnel(r) ==
  /\ shaking' = [shaking EXCEPT ![r] = ~@]
  /\ UNCHANGED <<health, log, sweep, request, unwell, crashes>>

\* Five minutes pass after an event, then an hour.
Age(i) ==
  /\ log[i].age # "old"
  /\ log' = [log EXCEPT ![i].age = IF @ = "new" THEN "confirmed" ELSE "old"]
  /\ UNCHANGED <<shaking, health, sweep, request, unwell, crashes>>
\* The last heartbeat, or the cached handshake, becomes stale.
Stale(r) ==
  /\ health' \in {[health EXCEPT ![r].seen = FALSE], [health EXCEPT ![r].cached = FALSE]}
  /\ UNCHANGED <<shaking, log, sweep, request, unwell, crashes>>

-----------------------------------------------------------------------------
(* Heartbeat, webhook, administration                                      *)

\* Fault for mutation: the recovery is not logged.
Heartbeat_Silent(r) ==
  /\ request[r] = <<>>
  /\ health' = [health EXCEPT ![r].seen = TRUE,
                 ![r].status = IF @ # "pending" /\ health[r].cached THEN "online" ELSE "provisioned"]
  /\ UNCHANGED <<shaking, log, sweep, request, unwell, crashes>>
\* router_heartbeat: online if the handshake the sweep cached is fresh; then,
\* if the status was offline, a log row; a flagged router gets its script.
Heartbeat(r) ==
  LET h == health[r]
      online == h.status # "pending" /\ h.cached
      deliver == h.status = "pending" \/ (r \in Mikrotiks /\ h.needs)
  IN  /\ request[r] = <<>>
      /\ health' = [health EXCEPT ![r].seen = TRUE,
                                  ![r].status = IF deliver THEN "provisioned"
                                                ELSE IF online THEN "online" ELSE @,
                                  ![r].needs = @ /\ r \notin Mikrotiks]
      /\ request' = [request EXCEPT ![r] = IF h.status = "offline" /\ online
                                           THEN <<"online">> ELSE <<>>]
      /\ UNCHANGED <<shaking, log, sweep, unwell, crashes>>

\* openwisp_webhook
Webhook(r) ==
  LET h == health[r] IN
  /\ request[r] = <<>>
  /\ \/ /\ health' = [health EXCEPT ![r].status = "online", ![r].seen = TRUE]
        /\ request' = [request EXCEPT ![r] = IF h.status = "offline" THEN <<"online">> ELSE <<>>]
     \/ /\ health' = [health EXCEPT ![r].status = "offline"]
        /\ request' = [request EXCEPT ![r] = IF h.status \in {"online", "provisioned"}
                                             THEN <<"offline">> ELSE <<>>]
  /\ UNCHANGED <<shaking, log, sweep, unwell, crashes>>

\* RouterHealthLog.objects.create after the save of the router.
LogEvent(r) ==
  /\ request[r] # <<>>
  /\ log' = Followed(Append(log, Event(r, Head(request[r]))))
  /\ request' = [request EXCEPT ![r] = <<>>]
  /\ UNCHANGED <<shaking, health, sweep, unwell, crashes>>

\* RouterAdmin.mark_offline
MarkOffline(r) ==
  /\ health' = [health EXCEPT ![r].status = "offline"]
  /\ UNCHANGED <<shaking, log, sweep, request, unwell, crashes>>

-----------------------------------------------------------------------------
(* check_routers                                                           *)

SweepLoad ==
  /\ sweep.at = "off"
  /\ sweep' = [at |-> "save", copy |-> health, shook |-> shaking,
               left |-> Routers, found |-> <<>>]
  /\ UNCHANGED <<shaking, health, log, request, unwell, crashes>>

\* Fault for mutation: a healthy router keeps its strikes.
StrikesOf_Kept(h, healthy) == IF h.status = "pending" \/ healthy THEN h.strikes
                              ELSE Min({h.strikes + 1, Ceiling})
StrikesOf(h, healthy) == IF h.status = "pending" THEN h.strikes
                         ELSE IF healthy THEN 0 ELSE Min({h.strikes + 1, Ceiling})
\* Hysteresis: offline after Strikes checks in a row, online at once.
StatusOf(h, healthy) ==
  IF h.status = "pending" THEN "pending"
  ELSE IF healthy THEN "online"
  ELSE IF h.status = "offline" \/ StrikesOf(h, healthy) >= Strikes THEN "offline"
  ELSE h.status

\* Save one router from the copy, and remember its log row; in_backoff is open.
SaveRouter(r) ==
  LET h == sweep.copy[r]
      healthy == h.seen /\ sweep.shook[r]
      status == StatusOf(h, healthy)
  IN  /\ \E backoff \in BOOLEAN :
           health' = [health EXCEPT ![r] =
             [status |-> status, strikes |-> StrikesOf(h, healthy),
              seen |-> h.seen, cached |-> sweep.shook[r],
              needs |-> h.needs \/ (h.seen /\ ~sweep.shook[r] /\ h.status # "pending" /\ ~backoff)]]
      /\ sweep' = [sweep EXCEPT !.left = @ \ {r},
                     !.found = IF status # h.status /\ status \in {"online", "offline"}
                               THEN Append(@, Event(r, status)) ELSE @]
      /\ unwell' = [unwell EXCEPT ![r] = IF h.status = "pending" THEN @ ELSE ~healthy]
      /\ UNCHANGED <<shaking, log, request, crashes>>
\* The routers, in whatever order the database lists them.
SweepSave == sweep.at = "save" /\ \E r \in sweep.left : SaveRouter(r)

\* Fault for mutation: the rows that are too old to announce are not looked for.
Unsettled_Recent(rows) == {i \in DOMAIN rows : rows[i].settled = "pending" /\ rows[i].age # "old"}
Unsettled(rows) == {i \in DOMAIN rows : rows[i].settled = "pending"}
\* bulk_create, then the rows with notified_at NULL and their routers.
SweepInsert ==
  LET rows == Followed(log \o sweep.found)
  IN  /\ sweep.at = "save" /\ sweep.left = {}
      /\ log' = rows
      /\ sweep' = [at |-> "walk", pending |-> Unsettled(rows),
                   status |-> [r \in Routers |-> health[r].status]]
      /\ UNCHANGED <<shaking, health, request, unwell, crashes>>

Recoveries(i) == {j \in DOMAIN log : j > i /\ log[j].router = log[i].router
                                     /\ log[j].event = "online"}
\* Fault for mutation: of an outage that is over, only the first half is settled.
Blip_Half(i) == {i}
\* A brief outage: the event and the recovery that ended it.
Blip(i) == {i, Min(Recoveries(i))}
Quieted(rows) == [i \in DOMAIN log |-> IF i \in rows /\ log[i].settled = "pending"
                                       THEN [log[i] EXCEPT !.settled = "quiet"] ELSE log[i]]
Skip(rows) == sweep' = [sweep EXCEPT !.pending = @ \ rows]

\* One entry of _dispatch_pending_notifications that is not announced.
WalkQuietly ==
  LET i == Min(sweep.pending)
      e == log[i]
  IN  /\ sweep.at = "walk" /\ sweep.pending # {}
      /\ \/ /\ e.age = "old"
            /\ log' = Quieted({i}) /\ Skip({i})
         \/ /\ e.age # "old" /\ e.event = "offline" /\ Recoveries(i) # {}
            /\ log' = Quieted(Blip(i)) /\ Skip(Blip(i))
         \/ /\ e.age = "new" /\ e.event = "offline" /\ Recoveries(i) = {}
            /\ UNCHANGED log /\ Skip({i})
         \/ /\ e.age = "confirmed" /\ e.event = "offline" /\ Recoveries(i) = {}
            /\ sweep.status[e.router] # "offline"
            /\ log' = Quieted({i}) /\ Skip({i})
      /\ UNCHANGED <<shaking, health, request, unwell, crashes>>

\* An entry that is to be announced.
WalkLoudly ==
  LET i == Min(sweep.pending)
      e == log[i]
  IN  /\ sweep.at = "walk" /\ sweep.pending # {} /\ e.age # "old"
      /\ \/ e.event = "online"
         \/ /\ e.age = "confirmed" /\ Recoveries(i) = {}
            /\ sweep.status[e.router] = "offline"
      /\ sweep' = [sweep EXCEPT !.at = "tell"]
      /\ UNCHANGED <<shaking, health, log, request, unwell, crashes>>

\* The notifications are sent, then notified_at is saved.
Tell ==
  LET i == Min(sweep.pending)
  IN  /\ sweep.at = "tell"
      /\ \/ ~log[i].told /\ log' = [log EXCEPT ![i].told = TRUE] /\ UNCHANGED sweep
         \/ /\ log[i].told
            /\ log' = [log EXCEPT ![i].settled = "sent"]
            /\ sweep' = [sweep EXCEPT !.at = "walk", !.pending = @ \ {Min(@)}]
      /\ UNCHANGED <<shaking, health, request, unwell, crashes>>

\* A notification raises: the row stays pending for the next run.
TellFails ==
  /\ sweep.at = "tell"
  /\ sweep' = [sweep EXCEPT !.at = "walk", !.pending = @ \ {Min(@)}]
  /\ UNCHANGED <<shaking, health, log, request, unwell, crashes>>

SweepEnd ==
  /\ sweep.at = "walk" /\ sweep.pending = {}
  /\ sweep' = Off
  /\ UNCHANGED <<shaking, health, log, request, unwell, crashes>>

\* The unit is killed; systemd starts it again at the next tick.
SweepCrash ==
  /\ sweep.at # "off" /\ crashes < MaxCrashes
  /\ crashes' = crashes + 1
  /\ sweep' = Off
  /\ UNCHANGED <<shaking, health, log, request, unwell>>

-----------------------------------------------------------------------------
(* What is checked                                                         *)

TypeOK ==
  /\ shaking \in [Routers -> BOOLEAN]
  /\ health \in [Routers -> Healths]
  /\ log \in Seq(LogRows) /\ Len(log) <= MaxLog
  /\ sweep = Off \/ sweep \in Saving \/ sweep \in Walking
  /\ request \in [Routers -> {<<>>, <<"online">>, <<"offline">>}]
  /\ unwell \in [Routers -> BOOLEAN]

Settled == sweep.at = "off" /\ \A r \in Routers : request[r] = <<>>
RowsOf(r) == {i \in DOMAIN log : log[i].router = r}
\* router_outages pairs each "offline" with the next "online" and lists what
\* is left as the outage that goes on.
OpenOutage(r) == RowsOf(r) # {} /\ log[Max(RowsOf(r))].event = "offline"
\* The health log tells the status: an outage of a router goes on exactly
\* while its status is offline.
StatusFollowsLog ==
  Settled /\ Len(log) < MaxLog => \A r \in Routers :
    health[r].status = "offline" <=> OpenOutage(r)

\* check_routers takes a router offline only after two unhealthy checks in a
\* row, whatever heartbeats and webhooks write in between.
HysteresisHolds ==
  [][\A r \in Routers : SweepSave /\ sweep.copy[r].status # "offline"
       /\ health[r].status # "offline" /\ health'[r].status = "offline" => unwell[r]]_vars

\* A recovery is announced only after the outage it ends was announced.
Announced(i) == log[i].settled # "sent" /\ ~log[i].told /\ log'[i].told
RecoveryIsEarned(i) ==
  Announced(i) /\ log[i].event = "online" =>
    \E k \in RowsOf(log[i].router) : k < i /\ log[k].event = "offline" /\ log[k].told

\* Every event is announced or settled quietly in the end, although
\* notifications fail and runs of check_routers are killed.
EventsSettled == []<>(\A i \in DOMAIN log : log[i].settled # "pending")

-----------------------------------------------------------------------------
CheckRouters == SweepSave \/ SweepInsert \/ WalkQuietly \/ WalkLoudly \/ Tell \/ SweepEnd
World == \E r \in Routers : Tunnel(r) \/ Stale(r)
Requests == \E r \in Routers : Heartbeat(r) \/ Webhook(r) \/ MarkOffline(r)
Next == \/ SweepLoad \/ CheckRouters \/ TellFails \/ SweepCrash \/ World \/ Requests
        \/ (\E r \in Routers : LogEvent(r)) \/ \E i \in DOMAIN log : Age(i)
Spec == Init /\ [][Next]_vars

\* The timer of check_routers, and the clock.
Fairness == /\ WF_vars(SweepLoad) /\ WF_vars(CheckRouters)
            /\ \A i \in 1..MaxLog : WF_vars(i \in DOMAIN log /\ Age(i))
=============================================================================
