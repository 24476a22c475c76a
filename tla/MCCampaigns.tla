---------------------------- MODULE MCCampaigns ----------------------------
(***************************************************************************)
(* Instances of Campaigns, and of Notices and Alerts, one at a time.       *)
(*   any     a WhatsApp campaign, with SMS or not; every step at any time, *)
(*           except that subscribers opt in and out before the first run   *)
(*   sms     an SMS campaign to all; no run is killed, and a cancellation  *)
(*           is not during a run                                           *)
(*   linked  a WhatsApp campaign over a session that stays connected       *)
(*   pages   the reminders of one plan, with kills and pages saved         *)
(*   steady  the reminders of plans that last, with nothing switched off   *)
(*   checks  check_alerts under any settings, one alarm up at a time       *)
(*   serial  the operator's settings and session events, one by one        *)
(*   open    they overlap, while the settings page polls                   *)
(***************************************************************************)
EXTENDS Campaigns

CONSTANTS Plans, Lives, MaxStops, Silents, Limited, MaxFlips, MaxEdits, MaxAlertKills

VARIABLES plans, keys, wants, config, template, run, schedule, wait, tried, stuck, stops,
          platform, opSession, events, form, answer, raised, throttle, check, said, quiet,
          unseen, flips, edits, alertKills,
          mode

N == INSTANCE Notices
A == INSTANCE Alerts

notices == <<plans, keys, wants, config, template, run, schedule, wait, tried, stuck, stops>>
alerts == <<platform, opSession, events, form, answer, raised, throttle, check, said, quiet,
            unseen, flips, edits, alertKills>>
modal == <<vars, notices, alerts, mode>>

Any == mode = "any"
Sending == mode \in {"any", "sms", "linked"}
Reminding == mode \in {"pages", "steady"}
Alerting == mode \in {"checks", "serial", "open"}

Free == Any \/ job.at = "idle"
Channel(ch) == (Any /\ ch # "sms") \/ (mode = "sms" /\ ch = "sms") \/ (mode = "linked" /\ ch = "whatsapp")
CampaignStep ==
  \/ \E ch \in Channels : Channel(ch) /\ Create(ch)
  \/ Any /\ job.at = "idle" /\ campaign.status = "queued" /\ \E s \in Subscribers : Prefer(s)
  \/ Any /\ Crash
  \/ Free /\ Cancel
  \/ Load \/ Advance
  \/ (Any \/ (mode = "linked" /\ (Drains \/ (known # "connected" /\ Opened)))) /\ Linked

Bought(p, n) ==
  /\ N!Buy(p, n)
  /\ IF mode = "steady" THEN n >= 3 ELSE p = CHOOSE q \in Plans : TRUE
ReminderStep ==
  \/ N!RunStep \/ N!Elapse
  \/ \E p \in Plans : N!Replaced(p) \/ \E n \in Lives : Bought(p, n)
  \/ mode = "pages" /\ (N!Stop \/ N!PageStep)

Usual == [on |-> TRUE, phones |-> TRUE, channel |-> "both", wa |-> FALSE]
Alone == form.at = "idle" /\ answer = "none"
Calm(a) == raised[a] + throttle[a] + said[a] = 0
AlertStep ==
  \/ /\ mode = "checks"
     /\ \/ A!CheckStep \/ A!KillCheck \/ A!SessionMoves
        \/ \E a \in A!Alarms : A!AlarmStep(a) /\ \A b \in A!Alarms \ {a} : Calm(b)
  \/ mode = "serial" /\ A!FormLoad
  \/ mode = "serial" /\ \E on, phones \in BOOLEAN, ch \in A!OpChannels : A!FormSave(on, phones, ch)
  \/ mode = "serial" /\ Alone /\ A!SessionMoves
  \/ mode \in {"checks", "serial"} /\ Alone /\ A!Webhook
  \/ /\ mode = "open"
     /\ \/ A!SessionMoves \/ A!Webhook \/ A!EventLost \/ A!OpDisconnect
        \/ A!Poll \/ A!FormLoad \/ A!FormSave(TRUE, TRUE, "both")

MCInit ==
  /\ Init /\ out = {} /\ N!NoticesInit /\ A!AlertsInit
  /\ mode \in {"any", "sms", "linked", "pages", "steady", "checks", "serial", "open"}
  /\ IF mode = "checks" THEN platform.on \/ platform.phones ELSE platform = Usual
  /\ ~Reminding => schedule = 1
MCNext ==
  /\ \/ Sending /\ CampaignStep /\ UNCHANGED <<notices, alerts>>
     \/ Reminding /\ ReminderStep /\ UNCHANGED <<vars, alerts>>
     \/ Alerting /\ AlertStep /\ UNCHANGED <<vars, notices>>
  /\ UNCHANGED mode
MCFairness == Fairness /\ WF_alerts(mode = "open" /\ A!Poll)
MCSpec == MCInit /\ [][MCNext]_modal /\ MCFairness

\* An SMS campaign counts what it tried, each message once, between two runs of
\* process_broadcasts; it is sent only when each recipient was tried, stays
\* cancelled once it is cancelled between two runs, and ends.
SmsCampaignHolds ==
  /\ [](TypeOK /\ (mode = "sms" => CountsAreTries /\ SentMeansTried))
  /\ [][mode = "sms" => CancelHolds]_modal
  /\ []<>(mode = "sms" => Over)
\* The queue of a connected session empties, and one loop at a time takes from
\* it, however often the session reconnects (drainQueue).
SessionDrains == [](SidecarType /\ OneLoopTakes) /\ QueueMoves
\* Reminders are neither repeated, kills apart, nor left out while runs come on
\* time (send_expiry_reminders).
RemindersRight ==
  /\ N!NoticesType /\ N!RemindersBounded
  /\ mode = "steady" => N!RemindedInTime
\* An alarm is throttled but not silenced (check_alerts), and what the platform's
\* row says of the operator's session is right when its writers take turns
\* (operator_settings_save).
AlarmsRight ==
  /\ A!AlertsType /\ A!ToldOncePerTick
  /\ mode = "checks" /\ platform.on /\ platform.phones /\ platform.channel # "whatsapp"
       => A!KeepsTelling
  /\ mode = "serial" => A!FlagFollows
\* So it always is, and while the page is open the row comes to be right again
\* also after writes that overlapped (get_status).
NoticesHold == [](RemindersRight /\ AlarmsRight) /\ []<>(mode = "open" => A!FlagRight)
=============================================================================
