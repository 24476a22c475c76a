------------------------------ MODULE Notices ------------------------------
(***************************************************************************)
(* The expiry reminders (send_expiry_reminders) and the path of a message  *)
(* to a subscriber (notifications/notify.py): preferences, settings and    *)
(* template are looked at, a NotificationLog row is written, the message   *)
(* goes out, the row is marked, and only after the last channel does a     *)
(* cache key say that this reminder is done.                               *)
(*                                                                         *)
(* A tick is twelve hours.  A run takes seconds, begins anywhere in its    *)
(* tick, and reads each window's list once.  A key lasts 24 hours: it is   *)
(* there in the tick after the one it was set in, and it may or may not be *)
(* there in the one after that.                                            *)
(***************************************************************************)
EXTENDS Integers, FiniteSets

CONSTANTS Plans,      \* subscriptions, one for each subscriber
          Lives,      \* how many ticks a plan can last
          MaxStops    \* bound: runs killed, and pages saved

VARIABLES plans,    \* the subscriptions: status and full ticks left
          keys,     \* the cache keys expiry_1d_.. and expiry_3d_..
          wants,    \* transactional_enabled of each subscriber
          config,   \* ResellerNotificationConfig
          template, \* the NotificationTemplate row of each reminder
          run,      \* the run of the command
          schedule, \* every quarter of an hour (1), or once a day (2)
          wait,     \* ticks until a run must have ended
          tried,    \* how often each reminder was begun
          stuck,    \* log rows left at 'sending'
          stops     \* runs killed, pages saved

pages == <<wants, config, template>>
marks == <<schedule, wait, tried, stuck, stops>>
noticeVars == <<plans, keys, pages, run, marks>>

Windows == {"1d", "3d"}
Routes == {"sms", "whatsapp", "both"}
Spans == [status : {"none", "active", "over"}, left : Int]
NoRun == [at |-> "idle", window |-> "1d", todo |-> {}, plan |-> CHOOSE p \in Plans : TRUE, by |-> {}]
NoPlan == [status |-> "none", left |-> 0]

NoticesInit ==
  /\ plans = [p \in Plans |-> NoPlan]
  /\ keys = [p \in Plans |-> [w \in Windows |-> 0]]
  /\ wants = [p \in Plans |-> TRUE]
  /\ config = [send |-> Windows, route |-> "sms"]
  /\ template = [w \in Windows |-> "none"]
  /\ schedule \in {1, 2}
  /\ run = NoRun /\ wait = 0 /\ stuck = 0 /\ stops = 0
  /\ tried = [p \in Plans |-> [w \in Windows |-> 0]]

\* A purchase makes the subscription; another one, or a cancellation, ends it.
Buy(p, n) ==
  /\ plans[p].status = "none"
  /\ plans' = [plans EXCEPT ![p] = [status |-> "active", left |-> n - 1]]
  /\ UNCHANGED <<keys, pages, run, marks>>
Replaced(p) ==
  /\ plans[p].status = "active"
  /\ plans' = [plans EXCEPT ![p].status = "over"]
  /\ UNCHANGED <<keys, pages, run, marks>>

\* Twelve hours pass, and expire_plans ends what has run out.
Aged(plan) ==
  IF plan.status # "active" THEN plan
  ELSE IF plan.left = 0 THEN [status |-> "over", left |-> -1] ELSE [plan EXCEPT !.left = @ - 1]
Elapse ==
  /\ run.at = "idle" /\ wait > 0 /\ wait' = wait - 1
  /\ plans' = [p \in Plans |-> Aged(plans[p])]
  /\ keys' = [p \in Plans |-> [w \in Windows |-> IF keys[p][w] = 0 THEN 0 ELSE keys[p][w] - 1]]
  /\ UNCHANGED <<pages, run, schedule, tried, stuck, stops>>

\* Fault for mutation: the three-day window starts a day before the end.
Window_Wide(w) == IF w = "1d" THEN 0..1 ELSE 2..7
\* The ticks left at 0 to 24, and at 48 to 96 hours before the end.
Window(w) == IF w = "1d" THEN 0..1 ELSE 4..7
Listed(w) == {p \in Plans : plans[p].status = "active" /\ plans[p].left \in Window(w)}

Begin ==
  /\ run.at = "idle" /\ (schedule = 1 \/ wait = 0)
  /\ run' = [NoRun EXCEPT !.at = "each", !.todo = Listed("1d")]
  /\ UNCHANGED <<plans, keys, pages, marks>>
\* After the one-day reminders the list of the three-day ones is read.
Turn ==
  /\ run.at = "each" /\ run.todo = {} /\ run.window = "1d"
  /\ run' = [run EXCEPT !.window = "3d", !.todo = Listed("3d")]
  /\ UNCHANGED <<plans, keys, pages, marks>>
Finish ==
  /\ run.at = "each" /\ run.todo = {} /\ run.window = "3d"
  /\ run' = NoRun /\ wait' = schedule
  /\ UNCHANGED <<plans, keys, pages, schedule, tried, stuck, stops>>

\* notify_subscriber returns early.  A reminder without a row of its own has a
\* default body.
Silent(p, w) == ~wants[p] \/ w \notin config.send \/ template[w] \in {"off", "empty"}
\* The channel is the reseller's, whatever the subscriber prefers.
ByRoute == IF config.route = "both" THEN {"whatsapp", "sms"} ELSE {config.route}

\* The next subscription of the list.  Unless its key is there, notify_subscriber
\* looks at everything once, and writes the row of the first channel.
Remind(p) ==
  /\ run.at = "each" /\ p \in run.todo
  /\ LET w == run.window
         here == [run EXCEPT !.todo = @ \ {p}, !.plan = p] IN
     \/ keys[p][w] > 0 /\ run' = [run EXCEPT !.todo = @ \ {p}] /\ UNCHANGED tried
     \/ /\ keys[p][w] < 2
        /\ IF Silent(p, w)
           THEN run' = [here EXCEPT !.at = "key"] /\ UNCHANGED tried
           ELSE /\ run' = [here EXCEPT !.at = "send", !.by = ByRoute]
                /\ tried' = [tried EXCEPT ![p][w] = @ + 1]
  /\ UNCHANGED <<plans, keys, pages, schedule, wait, stuck, stops>>

\* The message goes out or fails, its row is marked, and with 'both' the row of
\* the SMS is next.
Deliver ==
  /\ run.at = "send"
  /\ run' = IF run.by = {"whatsapp", "sms"} THEN [run EXCEPT !.by = {"sms"}]
            ELSE [run EXCEPT !.at = "key", !.by = {}]
  /\ UNCHANGED <<plans, keys, pages, marks>>

\* Fault for mutation: the key lasts for twelve hours.
Lasting_Short == 2
Lasting == 3
\* cache.set, whether anything was sent or not.
SetKey ==
  /\ run.at = "key"
  /\ keys' = [keys EXCEPT ![run.plan][run.window] = Lasting]
  /\ run' = [run EXCEPT !.at = "each", !.plan = NoRun.plan]
  /\ UNCHANGED <<plans, pages, marks>>

\* The process is killed.
Stop ==
  /\ run.at # "idle" /\ stops < MaxStops /\ stops' = stops + 1
  /\ run' = NoRun /\ wait' = (IF schedule = 2 THEN 2 ELSE wait)
  /\ stuck' = stuck + (IF run.at = "send" THEN 1 ELSE 0)
  /\ UNCHANGED <<plans, keys, pages, schedule, tried>>

Saved == stops < MaxStops /\ stops' = stops + 1 /\ UNCHANGED <<plans, keys, run, schedule, wait, tried, stuck>>
\* subscriber_notification_prefs.
Choose(p) ==
  /\ wants' = [wants EXCEPT ![p] = ~@]
  /\ UNCHANGED <<config, template>> /\ Saved
\* notification_config_save: settings, then the templates it was given.
SaveConfig(send, route, w, body) ==
  /\ config' = [send |-> send, route |-> route]
  /\ template' \in {template, [template EXCEPT ![w] = body]}
  /\ UNCHANGED wants /\ Saved
\* seed_default_templates makes the rows that are missing: notification_config
\* does it, and wa_webhook when the session connects.
Seed ==
  /\ template' = [w \in Windows |-> IF template[w] = "none" THEN "on" ELSE template[w]]
  /\ UNCHANGED <<wants, config>> /\ Saved

RunStep == Begin \/ Turn \/ Finish \/ (\E p \in Plans : Remind(p)) \/ Deliver \/ SetKey
PageStep ==
  \/ \E p \in Plans : Choose(p)
  \/ \E send \in SUBSET Windows, route \in Routes, w \in Windows, body \in {"on", "off", "empty"} :
       SaveConfig(send, route, w, body)
  \/ Seed

NoticesType ==
  /\ plans \in [Plans -> Spans] /\ keys \in [Plans -> [Windows -> 0..3]]
  /\ wants \in [Plans -> BOOLEAN]
  /\ config \in [send : SUBSET Windows, route : Routes]
  /\ template \in [Windows -> {"none", "on", "off", "empty"}]
  /\ run.at \in {"idle", "each", "send", "key"} /\ run.todo \subseteq Plans
  /\ schedule \in {1, 2} /\ wait \in 0..2 /\ stuck \in Nat /\ stops \in 0..MaxStops
  /\ tried \in [Plans -> [Windows -> Nat]]

\* A subscription gets its one-day reminder once and its three-day reminder at
\* most twice, and one more for each run that was killed, which also leaves at
\* most one log row behind at 'sending'.
RemindersBounded ==
  /\ \A p \in Plans : tried[p]["1d"] <= 1 + stops /\ tried[p]["3d"] <= 2 + stops
  /\ stuck <= stops

\* While the runs come on time and nothing is switched off, who had a plan for a
\* day and a half, and used it to the end, was reminded before.
RemindedInTime == \A p \in Plans : plans[p].left < 0 => tried[p]["1d"] >= 1
=============================================================================
