----------------------------- MODULE Campaigns -----------------------------
(***************************************************************************)
(* A broadcast of a reseller (notifications): the row, the log of what was *)
(* tried, the minutely command process_broadcasts with the copies it works *)
(* on, and the WhatsApp service it sends through (Sidecar).                *)
(*                                                                         *)
(* The command loads the row, the phones already tried and the subscribers *)
(* with their preferences once, and saves the counts at the end of its     *)
(* run.  Its timer starts no second run beside the first.                  *)
(***************************************************************************)
EXTENDS Sidecar

CONSTANTS Subscribers,  \* every subscriber of the reseller: Messages
          Batch         \* SMS_BATCH_PER_RUN

ASSUME CampaignsAssumption == Subscribers = Messages /\ Batch \in Nat \ {0}

VARIABLES campaign, \* the Broadcast row
          log,      \* the NotificationLog rows: whom, by which channel
          out,      \* who has opted out of this type
          job,      \* the run of process_broadcasts
          texts     \* how many SMS each subscriber got

broadcast == <<campaign, log, out, job, texts>>
vars == <<sidecar, broadcast>>

Channels == {"whatsapp", "sms", "both"}
Rows == [status : {"none", "queued", "sending", "sent", "cancelled"},
         channel : Channels, total : Nat, sent : Nat, failed : Nat]
\* Where a run is: nowhere, at its start, between two subscribers, or at one:
\* about to hand over to WhatsApp, to write the log of an SMS, to send it.
Stages == {"idle", "start", "each", "wa", "sms", "text"}
Runs == [at : Stages, copy : Rows, tried : SUBSET Subscribers, left : SUBSET Subscribers,
         without : SUBSET Subscribers, batch : Nat, sub : Subscribers]
NoRow == [status |-> "none", channel |-> "sms", total |-> 0, sent |-> 0, failed |-> 0]
NoRun == [at |-> "idle", copy |-> NoRow, tried |-> {}, left |-> {}, without |-> {},
          batch |-> 0, sub |-> CHOOSE s \in Subscribers : TRUE]

Init ==
  /\ SidecarInit
  /\ campaign = NoRow /\ log = {} /\ job = NoRun
  /\ out \in SUBSET Subscribers /\ texts = [s \in Subscribers |-> 0]

\* broadcast_create: the recipients are counted, not listed.
Create(ch) ==
  /\ campaign.status = "none"
  /\ campaign' = [NoRow EXCEPT !.status = "queued", !.channel = ch,
                               !.total = Cardinality(Subscribers \ out)]
  /\ UNCHANGED <<sidecar, log, out, job, texts>>

\* broadcast_cancel updates the row where it is still queued.
Cancel ==
  /\ campaign.status = "queued"
  /\ campaign' = [campaign EXCEPT !.status = "cancelled"]
  /\ UNCHANGED <<sidecar, log, out, job, texts>>

\* subscriber_notification_prefs.
Prefer(s) ==
  /\ out' = IF s \in out THEN out \ {s} ELSE out \union {s}
  /\ UNCHANGED <<sidecar, campaign, log, job, texts>>

Active == campaign.status \in {"queued", "sending"}

\* The run loads the active rows.
Load ==
  /\ job.at = "idle" /\ Active
  /\ job' = [NoRun EXCEPT !.at = "start", !.copy = campaign]
  /\ UNCHANGED <<sidecar, campaign, log, out, texts>>

Phones == {l[1] : l \in log}
\* Fault for mutation: what earlier runs did is forgotten.
Tried_Nobody == {}
Tried == Phones

\* A queued one is set to sending, whatever it has become since, and who has
\* been tried and who has not is read.
Start ==
  /\ job.at = "start"
  /\ campaign' = IF job.copy.status = "queued"
                 THEN [campaign EXCEPT !.status = "sending"] ELSE campaign
  /\ job' = [job EXCEPT !.at = "each", !.tried = Tried, !.left = Subscribers,
                        !.without = out, !.copy.status = "sending"]
  /\ UNCHANGED <<sidecar, log, out, texts>>

\* The loop goes on with the next subscriber, or with the SMS of this one.
Back(run) == [run EXCEPT !.at = "each", !.sub = NoRun.sub]
AfterWhatsApp(run) == IF run.copy.channel = "whatsapp" THEN Back(run) ELSE [run EXCEPT !.at = "sms"]
ByWhatsApp == job.copy.channel # "sms"

\* The next subscriber of the loop.
Each(s) ==
  /\ job.at = "each" /\ s \in job.left /\ job.batch < Batch
  /\ LET here == [job EXCEPT !.left = @ \ {s}, !.sub = s] IN
     \/ s \in job.tried /\ job' = Back(here) /\ UNCHANGED log
     \/ /\ s \in job.without \ job.tried
        /\ job' = Back([here EXCEPT !.copy.sent = @ + 1]) /\ UNCHANGED log
     \/ /\ s \notin job.without \union job.tried
        /\ IF ByWhatsApp /\ known = "connected"
           THEN log' = log \union {<<s, "whatsapp">>} /\ job' = [here EXCEPT !.at = "wa"]
           ELSE job' = AfterWhatsApp(here) /\ UNCHANGED log
  /\ UNCHANGED <<sidecar, campaign, out, texts>>

\* send_whatsapp: the answer is not looked at and no log_id goes with it.
Hand ==
  /\ job.at = "wa" /\ Send(job.sub)
  /\ job' = AfterWhatsApp(job)
  /\ UNCHANGED <<campaign, log, out, texts>>

\* _log of an SMS.
Note ==
  /\ job.at = "sms" /\ job' = [job EXCEPT !.at = "text"]
  /\ log' = log \union {<<job.sub, "sms">>}
  /\ UNCHANGED <<sidecar, campaign, out, texts>>

\* Fault for mutation: the failures count as sent and as failed.
Counted_Both(row, ok) == [row EXCEPT !.sent = @ + 1, !.failed = @ + (IF ok THEN 0 ELSE 1)]
Counted(row, ok) == IF ok THEN [row EXCEPT !.sent = @ + 1] ELSE [row EXCEPT !.failed = @ + 1]

\* send_sms and the count of what it says.
Text(ok) ==
  /\ job.at = "text"
  /\ texts' = IF ok THEN [texts EXCEPT ![job.sub] = @ + 1] ELSE texts
  /\ job' = Back([job EXCEPT !.batch = @ + 1, !.copy = Counted(@, ok)])
  /\ UNCHANGED <<sidecar, campaign, log, out>>

Complete(row) == row.sent + row.failed >= row.total

Ended(row) == IF Complete(row) THEN "sent" ELSE row.status

\* The end of the run: status and counts are saved from the copy.
Save ==
  /\ job.at = "each" /\ (job.left = {} \/ job.batch >= Batch)
  /\ LET row == job.copy IN
     campaign' = [campaign EXCEPT !.sent = row.sent, !.failed = row.failed,
                                  !.status = Ended(row)]
  /\ job' = NoRun
  /\ UNCHANGED <<sidecar, log, out, texts>>

\* The run is killed, or one of its statements fails.
Crash == job.at # "idle" /\ job' = NoRun /\ UNCHANGED <<sidecar, campaign, log, out, texts>>

Advance == Start \/ (\E s \in Subscribers : Each(s)) \/ Hand \/ Note \/ (\E ok \in BOOLEAN : Text(ok)) \/ Save
Linked == SidecarStep /\ UNCHANGED broadcast
Next ==
  \/ \E ch \in Channels : Create(ch)
  \/ \E s \in Subscribers : Prefer(s)
  \/ Cancel \/ Load \/ Advance \/ Crash \/ Linked

\* systemd starts the command every minute and a run goes on; the loops of the
\* service go on with what they await.
Runner == Load \/ Advance
Fairness ==
  /\ WF_vars(Runner)
  /\ WF_vars(OpenDrain /\ UNCHANGED broadcast)
  /\ \A g \in Objects : WF_vars((Settle(g) \/ Wake(g)) /\ UNCHANGED broadcast)
Spec == Init /\ [][Next]_vars /\ Fairness

TypeOK ==
  /\ SidecarType
  /\ campaign \in Rows /\ log \subseteq Subscribers \X {"sms", "whatsapp"}
  /\ out \subseteq Subscribers /\ job \in Runs /\ texts \in [Subscribers -> Nat]

\* Nobody gets a campaign twice by one channel, however often runs are killed
\* and the service restarted: the log comes before the message.
SentAtMostOnce == \A s \in Subscribers : texts[s] <= 1 /\ wired[s] <= 1

Over == campaign.status \in {"none", "sent", "cancelled"}

\* Between runs the counts are the number of messages tried.
CountsAreTries == job.at = "idle" => campaign.sent + campaign.failed = Cardinality(log)

\* A campaign is 'sent' only once each of its recipients was tried.
SentMeansTried == campaign.status = "sent" => Subscribers \ out \subseteq Phones

\* A cancelled campaign stays cancelled.
CancelHolds == campaign.status = "cancelled" => UNCHANGED campaign

=============================================================================
