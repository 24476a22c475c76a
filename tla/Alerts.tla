------------------------------- MODULE Alerts -------------------------------
(***************************************************************************)
(* What the operator is told: check_alerts with its hourly, ten-minute and *)
(* daily throttles, notify_operator, and the PlatformSettings row that it  *)
(* reads.  The row has three writers: the settings page, which saves the   *)
(* whole row it loaded, the events of the operator's WhatsApp session, and *)
(* the status poll of that page.                                           *)
(*                                                                         *)
(* Time passes for each alarm by itself: a tick is the time its throttle   *)
(* lasts.  A key is there through its own tick, and it may or may not be   *)
(* there in the next one; the hour for which a router has to be offline is *)
(* counted the same way.                                                   *)
(***************************************************************************)
EXTENDS Integers, Sequences, FiniteSets

CONSTANTS Silents,      \* routers, which alarm when offline for an hour
          Limited,      \* resellers, which alarm at their free limit
          MaxFlips,     \* bound: changes of the session, answers that fail
          MaxEdits,     \* bound: settings saved
          MaxAlertKills \* bound: runs killed

VARIABLES platform, \* the PlatformSettings row
          opSession, \* the operator's session: connected, connecting, out
          events,   \* what the service has still to tell wa_webhook
          form,     \* operator_settings_save, with the row it loaded
          answer,   \* get_status, with what the service answered
          raised,   \* how long each condition holds: 3 is long enough, 2 may be
          throttle, \* ticks an alarm's cache key is still held
          check,    \* the run of check_alerts
          said,     \* notifications begun for an alarm in this tick
          quiet,    \* ticks an alarm is up and no message was handed over, 4 for more
          unseen,   \* alarms whose tick has not seen a whole run
          flips, edits, alertKills

opWa == <<opSession, events, flips>>
writers == <<form, answer, edits>>
alarm == <<raised, throttle, said, quiet, unseen>>
alertVars == <<platform, opWa, writers, alarm, check, alertKills>>

Spike == "spike"
Alarms == Silents \union {Spike} \union Limited
OpChannels == {"sms", "whatsapp", "both"}
Platforms == [on : BOOLEAN, phones : BOOLEAN, channel : OpChannels, wa : BOOLEAN]
NoForm == [at |-> "idle", wa |-> FALSE]
NoCheck == [at |-> "idle", part |-> 0, todo |-> {}, alarm |-> Spike, channel |-> "sms"]

AlertsInit ==
  /\ platform \in Platforms /\ ~platform.wa
  /\ opSession = "out" /\ events = <<>> /\ form = NoForm /\ answer = "none"
  /\ raised = [a \in Alarms |-> 0] /\ throttle = [a \in Alarms |-> 0]
  /\ said = [a \in Alarms |-> 0] /\ quiet = [a \in Alarms |-> 0] /\ unseen = Alarms
  /\ check = NoCheck /\ flips = 0 /\ edits = 0 /\ alertKills = 0

(***************************************************************************)
(* The session and what Django believes of it.                             *)
(***************************************************************************)
Flip == flips < MaxFlips /\ flips' = flips + 1
\* The session opens, is logged out, or closes for a while: of that Django is
\* not told.
SessionMoves ==
  /\ Flip
  /\ \/ opSession # "connected" /\ opSession' = "connected" /\ events' = Append(events, TRUE)
     \/ opSession = "connected" /\ opSession' = "out" /\ events' = Append(events, FALSE)
     \/ opSession = "connected" /\ opSession' = "connecting" /\ UNCHANGED events
  /\ UNCHANGED <<platform, writers, alarm, check, alertKills>>

\* handle_webhook_connected and handle_webhook_disconnected save the field alone.
Believed(up) == platform' = [platform EXCEPT !.wa = up]
Webhook ==
  /\ events # <<>> /\ events' = Tail(events) /\ Believed(Head(events))
  /\ UNCHANGED <<opSession, flips, writers, alarm, check, alertKills>>
\* An event that does not arrive is not sent again.
EventLost ==
  /\ events # <<>> /\ events' = Tail(events)
  /\ UNCHANGED <<platform, opSession, flips, writers, alarm, check, alertKills>>
\* operator_wa.disconnect: whether the service hears of it or not.
OpDisconnect ==
  /\ Flip /\ opSession' \in {"out", opSession} /\ Believed(FALSE)
  /\ UNCHANGED <<events, writers, alarm, check, alertKills>>

\* get_status asks the service; one that cannot be reached is 'disconnected'.
PollAsk ==
  /\ answer = "none"
  /\ \/ answer' = opSession /\ UNCHANGED flips
     \/ answer' = "out" /\ Flip
  /\ UNCHANGED <<platform, opSession, events, form, edits, alarm, check, alertKills>>
\* Then it loads the row and saves the field if it differs.
PollSave ==
  /\ answer # "none" /\ answer' = "none"
  /\ Believed(answer = "connected")
  /\ UNCHANGED <<opWa, form, edits, alarm, check, alertKills>>

\* operator_settings_save loads the row, changes what it was given and saves all
\* of it.
FormLoad ==
  /\ form.at = "idle" /\ edits < MaxEdits /\ edits' = edits + 1
  /\ form' = [at |-> "loaded", wa |-> platform.wa]
  /\ UNCHANGED <<platform, opWa, answer, alarm, check, alertKills>>
FormSave(on, phones, channel) ==
  /\ form.at = "loaded" /\ form' = NoForm
  /\ platform' = [on |-> on, phones |-> phones, channel |-> channel, wa |-> form.wa]
  /\ UNCHANGED <<opWa, answer, edits, alarm, check, alertKills>>

(***************************************************************************)
(* The alarms and the run of check_alerts.                                 *)
(***************************************************************************)
\* A router goes offline; failed payments or subscribers add up.
Raise(a) ==
  /\ raised[a] = 0 /\ raised' = [raised EXCEPT ![a] = IF a \in Silents THEN 1 ELSE 3]
  /\ UNCHANGED <<platform, opWa, writers, throttle, said, quiet, unseen, check, alertKills>>
Clear(a) ==
  /\ raised[a] > 0 /\ raised' = [raised EXCEPT ![a] = 0] /\ quiet' = [quiet EXCEPT ![a] = 0]
  /\ UNCHANGED <<platform, opWa, writers, throttle, said, unseen, check, alertKills>>
Pass(a) ==
  /\ a \notin unseen /\ check.at = "idle" /\ unseen' = unseen \union {a}
  /\ raised' = [raised EXCEPT ![a] = IF @ \in {0, 3} THEN @ ELSE @ + 1]
  /\ throttle' = [throttle EXCEPT ![a] = IF @ = 0 THEN 0 ELSE @ - 1]
  /\ said' = [said EXCEPT ![a] = 0]
  /\ quiet' = [quiet EXCEPT ![a] = IF raised[a] = 0 THEN 0 ELSE IF @ = 4 THEN 4 ELSE @ + 1]
  /\ UNCHANGED <<platform, opWa, writers, check, alertKills>>

Part(n) == CASE n = 1 -> Silents [] n = 2 -> {Spike} [] n = 3 -> Limited
\* Routers, payments and resellers, one query after the other.
Query ==
  /\ \/ check.at = "idle"
     \/ check.at = "each" /\ check.todo = {} /\ check.part < 3
  /\ LET part == Part(check.part + 1) IN
     \E found \in SUBSET {a \in part : raised[a] >= 2} :
       /\ {a \in part : raised[a] = 3} \subseteq found
       /\ check' = [check EXCEPT !.at = "each", !.part = @ + 1, !.todo = found]
  /\ UNCHANGED <<platform, opWa, writers, alarm, alertKills>>
Checked ==
  /\ check.at = "each" /\ check.todo = {} /\ check.part = 3 /\ check' = NoCheck
  /\ unseen' = {}
  /\ UNCHANGED <<platform, opWa, writers, raised, throttle, said, quiet, alertKills>>

\* notify loads the row and takes the first channel: none when the event is off
\* or nobody is to be told.  The free limit is told by SMS in any case.
First(a) ==
  IF a \in Limited THEN IF platform.phones THEN "sms" ELSE "key"
  ELSE IF ~platform.on \/ ~platform.phones THEN "key"
  ELSE IF platform.channel # "sms" /\ platform.wa THEN "wa"
  ELSE IF platform.channel # "whatsapp" THEN "sms" ELSE "key"
Tell(a) ==
  /\ check.at = "each" /\ a \in check.todo
  /\ LET left == check.todo \ {a} IN
     \/ throttle[a] > 0 /\ check' = [check EXCEPT !.todo = left] /\ UNCHANGED said
     \/ /\ throttle[a] < 2
        /\ check' = [check EXCEPT !.todo = left, !.at = First(a), !.alarm = a, !.channel = platform.channel]
        /\ IF First(a) = "key" THEN UNCHANGED said ELSE said' = [said EXCEPT ![a] = @ + 1]
  /\ UNCHANGED <<platform, opWa, writers, raised, throttle, quiet, unseen, alertKills>>

\* Fault for mutation: with WhatsApp connected it is the only channel.
Fallback_Never == "key"
Spoken == quiet' = [quiet EXCEPT ![check.alarm] = 0]
Fallback == IF check.channel = "both" THEN "sms" ELSE "key"
\* operator_wa.send; with 'both' an SMS makes up for a message that failed.
ByWa ==
  /\ check.at = "wa"
  /\ \/ opSession = "connected" /\ check' = [check EXCEPT !.at = "key"] /\ Spoken
     \/ check' = [check EXCEPT !.at = Fallback] /\ UNCHANGED quiet
  /\ UNCHANGED <<platform, opWa, writers, raised, throttle, said, unseen, alertKills>>
BySms ==
  /\ check.at = "sms" /\ check' = [check EXCEPT !.at = "key"] /\ Spoken
  /\ UNCHANGED <<platform, opWa, writers, raised, throttle, said, unseen, alertKills>>

\* Fault for mutation: the key outlives the next hour.
Held_Long == 4
Held == 2
\* cache.set, whether anybody was told or not.
Throttle ==
  /\ check.at = "key"
  /\ throttle' = [throttle EXCEPT ![check.alarm] = Held]
  /\ check' = [check EXCEPT !.at = "each", !.alarm = Spike, !.channel = "sms"]
  /\ UNCHANGED <<platform, opWa, writers, raised, said, quiet, unseen, alertKills>>
KillCheck ==
  /\ check.at # "idle" /\ alertKills < MaxAlertKills /\ alertKills' = alertKills + 1
  /\ check' = NoCheck
  /\ UNCHANGED <<platform, opWa, writers, alarm>>

Poll == PollAsk \/ PollSave
CheckStep == Query \/ Checked \/ (\E a \in Alarms : Tell(a)) \/ ByWa \/ BySms \/ Throttle
AlarmStep(a) == Raise(a) \/ Clear(a) \/ Pass(a)

AlertsType ==
  /\ platform \in Platforms /\ opSession \in {"connected", "connecting", "out"}
  /\ events \in Seq(BOOLEAN) /\ form \in [at : {"idle", "loaded"}, wa : BOOLEAN]
  /\ answer \in {"none", "connected", "connecting", "out"}
  /\ raised \in [Alarms -> 0..3] /\ throttle \in [Alarms -> Nat]
  /\ said \in [Alarms -> Nat] /\ quiet \in [Alarms -> Nat] /\ unseen \subseteq Alarms
  /\ check.at \in {"idle", "each", "wa", "sms", "key"} /\ check.todo \subseteq Alarms

\* An alarm is told once in the time its throttle lasts, and once more for each
\* run killed before it set the key.
ToldOncePerTick == \A a \in Alarms : said[a] <= 1 + alertKills

\* While runs come on time, and the event is on, somebody is to be told, and SMS
\* is a channel, an alarm that stays up is told again and again, also when the row
\* takes the WhatsApp session for connected and it is not: never is it up for
\* three of its periods without a message that was handed over.
KeepsTelling == \A a \in Alarms : quiet[a] <= 2

\* While nothing writes the row between another's read and write, and no event is
\* lost, the row says of a session that is open or logged out what it is.
FlagFollows ==
  events = <<>> => /\ opSession = "connected" => platform.wa
                   /\ opSession = "out" => ~platform.wa

\* While the settings page is open its poll puts the row right again, time after
\* time, whatever the writes that overlapped left behind.
FlagRight == platform.wa = (opSession = "connected")
=============================================================================
