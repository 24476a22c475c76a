-------------------------------- MODULE Field --------------------------------
(***************************************************************************)
(* Field work on tickets: the operator assigns, the AI worker sends the    *)
(* technician a brief and acts on the replies (ai/jobs.py, ai/tools.py,    *)
(* ai/agents/field.py, ai/agents/field_inbound.py), technicians leave      *)
(* (staff/views.py), and a sweep every ten minutes asks silent ones for    *)
(* news and escalates, to a human, who does not answer and what is past    *)
(* its service level (tickets/management/commands/sweep_field_pings.py).   *)
(*                                                                         *)
(* The confirmation a technician is asked for is left out: it is kept on   *)
(* the ticket (pending_close_action), but no tool looks at it before it    *)
(* changes a status; only the prompt puts the two in order.                *)
(*                                                                         *)
(* The sweep loads its tickets first and then walks through them, sending  *)
(* a message for each; the worker takes one job at a time.                 *)
(***************************************************************************)
EXTENDS Integers, Sequences, FiniteSets

CONSTANTS Tickets,
          MaxPings,    \* max_field_pings
          MaxBriefs, MaxKills, MaxSilent \* bounds: assignments, killed sweeps, escalations counted

VARIABLES ticket,   \* the Ticket rows
          tally,    \* what happened to each: escalations, messages, assignments
          briefs,   \* the jobs of the ai queue: tickets whose brief is to be sent
          sweep,    \* the sweep: where it is, the rows it loaded, those left
          agent,    \* the worker: where it is, and the ticket of its job
          aiPaused, \* ai_paused_at
          kills     \* sweeps killed

fieldVars == <<ticket, tally, briefs, sweep, agent, aiPaused, kills>>

\* In progress, or awaiting the customer, is as assigned; closed as resolved.
Statuses == {"open", "assigned", "resolved"}
Row == [status : Statuses, staff : BOOLEAN, sent : BOOLEAN, due : BOOLEAN, pings : 0..MaxPings,
        late : BOOLEAN, reason : BOOLEAN]
NewRow == [status |-> "open", staff |-> FALSE, sent |-> FALSE, due |-> FALSE, pings |-> 0,
           late |-> FALSE, reason |-> FALSE]
Counts == [silent : 0..MaxSilent, breach : Nat, pinged : Nat, briefed : Nat]
NoCounts == [silent |-> 0, breach |-> 0, pinged |-> 0, briefed |-> 0]
Asleep == [place |-> "idle", rows |-> <<>>, rest |-> {}, t |-> 0]
Waiting == [place |-> "idle", t |-> 0]

Ended(row) == row.status = "resolved"
FieldInit ==
  /\ ticket = [t \in Tickets |-> NewRow] /\ tally = [t \in Tickets |-> NoCounts]
  /\ briefs = <<>> /\ sweep = Asleep /\ agent = Waiting /\ aiPaused = FALSE /\ kills = 0

(* The operator and the clock. *********************************************)

\* assign_ticket queues a brief; so does a reassignment.
Assign(t) ==
  /\ tally[t].briefed < MaxBriefs /\ tally' = [tally EXCEPT ![t].briefed = @ + 1]
  /\ ticket' = [ticket EXCEPT ![t].staff = TRUE,
                              ![t].status = IF @ = "open" THEN "assigned" ELSE @]
  /\ briefs' = Append(briefs, t) /\ UNCHANGED <<sweep, agent, aiPaused, kills>>
SetStatus(t, s) ==
  /\ ticket[t].status # s /\ ticket' = [ticket EXCEPT ![t].status = s]
  /\ UNCHANGED <<tally, briefs, sweep, agent, aiPaused, kills>>

\* ticket_escalate, with a reason of the operator's own.
EscalateByHand(t) ==
  /\ ~ticket[t].reason /\ ticket' = [ticket EXCEPT ![t].reason = TRUE]
  /\ UNCHANGED <<tally, briefs, sweep, agent, aiPaused, kills>>

\* staff_delete: the tickets of a technician who leaves have nobody assigned
\* (SET_NULL); their status and their count of pings stay.
Leave(gone) ==
  /\ \A t \in gone : ticket[t].staff
  /\ ticket' = [t \in Tickets |-> [ticket[t] EXCEPT !.staff = @ /\ t \notin gone]]
  /\ UNCHANGED <<tally, briefs, sweep, agent, aiPaused, kills>>
PauseAI == aiPaused' = ~aiPaused /\ UNCHANGED <<ticket, tally, briefs, sweep, agent, kills>>

\* cap_field_ping_minutes pass since the last message; sla_due_at passes.
Due(t) == /\ ticket[t].sent /\ ~ticket[t].due /\ ticket' = [ticket EXCEPT ![t].due = TRUE]
          /\ UNCHANGED <<tally, briefs, sweep, agent, aiPaused, kills>>
Late(t) == /\ ~ticket[t].late /\ ticket' = [ticket EXCEPT ![t].late = TRUE]
           /\ UNCHANGED <<tally, briefs, sweep, agent, aiPaused, kills>>

(* The worker of the ai queue. *********************************************)

\* run_dispatch_brief: dropped while paused or without a technician, else the
\* model calls the tool that sends the brief, or fails to.
TakeBrief(calls) ==
  /\ agent.place = "idle" /\ briefs # <<>> /\ briefs' = Tail(briefs)
  /\ agent' = IF aiPaused \/ ~ticket[Head(briefs)].staff \/ ~calls THEN Waiting
              ELSE [place |-> "stamp", t |-> Head(briefs)]
  /\ UNCHANGED <<ticket, tally, sweep, aiPaused, kills>>

\* tool_send_dispatch_wa stamps the ticket whether or not the message was
\* taken, or finds nobody to write to: the technician is gone.
StampBrief(found) ==
  /\ agent.place = "stamp" /\ agent' = Waiting
  /\ ticket' = IF found THEN [ticket EXCEPT ![agent.t].sent = TRUE, ![agent.t].due = FALSE] ELSE ticket
  /\ UNCHANGED <<tally, briefs, sweep, aiPaused, kills>>

\* A technician's message is a job of its own, in which the model changes the
\* status of any ticket of the reseller, to anything, as often as it likes
\* (tool_change_status_ticket).
TakeReply ==
  /\ agent.place = "idle" /\ ~aiPaused /\ agent' = [place |-> "reply", t |-> 0]
  /\ UNCHANGED <<ticket, tally, briefs, sweep, aiPaused, kills>>
Apply(t, s) == agent.place = "reply" /\ SetStatus(t, s)
Replied ==
  /\ agent.place = "reply" /\ agent' = Waiting
  /\ UNCHANGED <<ticket, tally, briefs, sweep, aiPaused, kills>>

(* The sweep. **************************************************************)

SweepBegin ==
  /\ sweep.place = "idle"
  /\ sweep' = [place |-> "pings", rows |-> ticket, t |-> 0,
               rest |-> {t \in Tickets : ticket[t].sent /\ ticket[t].staff /\ ~Ended(ticket[t])}]
  /\ UNCHANGED <<ticket, tally, briefs, agent, aiPaused, kills>>

Passed(t) == sweep' = [sweep EXCEPT !.rest = @ \ {t}]

\* Fault for mutation: one ping too many.
Exhausted_Over(row) == FALSE
Exhausted(row) == row.pings >= MaxPings

\* Not due by the row loaded, or paused: passed over. Pinged enough: an event,
\* a message to the admin contacts. Else a ping, and then its stamp.
Skip(t) ==
  /\ sweep.place = "pings" /\ t \in sweep.rest
  /\ aiPaused \/ ~sweep.rows[t].due
  /\ Passed(t) /\ UNCHANGED <<ticket, tally, briefs, agent, aiPaused, kills>>
Escalate(t) ==
  /\ sweep.place = "pings" /\ t \in sweep.rest /\ ~aiPaused
  /\ sweep.rows[t].due /\ Exhausted(sweep.rows[t]) /\ Passed(t)
  /\ tally' = [tally EXCEPT ![t].silent = IF @ = MaxSilent THEN @ ELSE @ + 1]
  /\ UNCHANGED <<ticket, briefs, agent, aiPaused, kills>>
Ping(t) ==
  /\ sweep.place = "pings" /\ t \in sweep.rest /\ ~aiPaused
  /\ sweep.rows[t].due /\ ~Exhausted(sweep.rows[t])
  /\ sweep' = [sweep EXCEPT !.place = "stamp", !.t = t]
  /\ tally' = [tally EXCEPT ![t].pinged = IF @ > MaxPings + MaxKills THEN @ ELSE @ + 1]
  /\ UNCHANGED <<ticket, briefs, agent, aiPaused, kills>>

\* Fault for mutation: the count stands still.
Counted_Still(row) == row.pings
Counted(row) == row.pings + 1

StampPing ==
  /\ sweep.place = "stamp"
  /\ ticket' = [ticket EXCEPT ![sweep.t].due = FALSE, ![sweep.t].pings = Counted(sweep.rows[sweep.t])]
  /\ sweep' = [sweep EXCEPT !.place = "pings", !.rest = @ \ {sweep.t}]
  /\ UNCHANGED <<tally, briefs, agent, aiPaused, kills>>

Breached(row) == row.late /\ ~row.reason /\ ~Ended(row)

\* _sla_breach_sweep loads its tickets, then escalates each, whatever it is by
\* then (tickets.services.escalate: reason, priority, event).
SweepBreaches ==
  /\ sweep.place = "pings" /\ sweep.rest = {}
  /\ sweep' = [Asleep EXCEPT !.place = "breaches", !.rest = {t \in Tickets : Breached(ticket[t])}]
  /\ UNCHANGED <<ticket, tally, briefs, agent, aiPaused, kills>>
EscalateBreach(t) ==
  /\ sweep.place = "breaches" /\ t \in sweep.rest /\ Passed(t)
  /\ ticket' = [ticket EXCEPT ![t].reason = TRUE]
  /\ tally' = [tally EXCEPT ![t].breach = IF @ > 1 THEN @ ELSE @ + 1]
  /\ UNCHANGED <<briefs, agent, aiPaused, kills>>
SweepEnd ==
  /\ sweep.place = "breaches" /\ sweep.rest = {} /\ sweep' = Asleep
  /\ UNCHANGED <<ticket, tally, briefs, agent, aiPaused, kills>>
KillSweep ==
  /\ sweep.place # "idle" /\ kills < MaxKills /\ kills' = kills + 1 /\ sweep' = Asleep
  /\ UNCHANGED <<ticket, tally, briefs, agent, aiPaused>>

Sweeping == \/ SweepBegin \/ StampPing \/ SweepBreaches \/ SweepEnd
            \/ \E t \in Tickets : Skip(t) \/ Escalate(t) \/ Ping(t) \/ EscalateBreach(t)
Worker == \/ TakeReply \/ Replied \/ \E b \in BOOLEAN : TakeBrief(b) \/ StampBrief(b)
          \/ \E t \in Tickets, s \in Statuses : Apply(t, s)
Dispatcher == \/ PauseAI \/ \E gone \in (SUBSET Tickets) \ {{}} : Leave(gone)
              \/ \E t \in Tickets : \/ Assign(t) \/ EscalateByHand(t) \/ Late(t)
                                    \/ \E s \in Statuses : SetStatus(t, s)
FieldNext == Sweeping \/ Worker \/ Dispatcher \/ KillSweep \/ \E t \in Tickets : Due(t)
FieldSpec == /\ FieldInit /\ [][FieldNext]_fieldVars
             /\ WF_fieldVars(Sweeping) /\ \A t \in Tickets : WF_fieldVars(Due(t))

(* Properties. *************************************************************)

\* The types of the rows, the tallies and the processes.
FieldType ==
  /\ ticket \in [Tickets -> Row] /\ tally \in [Tickets -> Counts]
  /\ \A i \in DOMAIN briefs : briefs[i] \in Tickets
  /\ sweep.place \in {"idle", "pings", "stamp", "breaches"} /\ sweep.rest \subseteq Tickets
  /\ agent.place \in {"idle", "stamp", "reply"} /\ aiPaused \in BOOLEAN /\ kills \in 0..MaxKills

\* A ticket's technicians get no more pings in all than the reseller's maximum,
\* and one for each sweep killed between the message and its stamp, whoever is
\* assigned and whatever the status does meanwhile (sweep_field_pings).
PingsBounded == \A t \in Tickets : tally[t].pinged <= MaxPings + kills

\* A ticket past its service level is escalated for it once, though every sweep
\* looks for it again (_sla_breach_sweep).
BreachOnce == \A t \in Tickets : tally[t].breach <= 1

\* A technician is asked no more often than the ticket allows, and a breach of
\* the service level is escalated once (sweep_field_pings).
FieldBounded == PingsBounded /\ BreachOnce

\* A technician who was sent a brief and stays silent is brought to a human,
\* unless the ticket ends, the assistant is paused, or the technician leaves:
\* a ticket with nobody assigned is not swept (sweep_field_pings).
SilenceSurfaces ==
  \A t \in Tickets : ticket[t].sent /\ ticket[t].staff
                       ~> tally[t].silent > 0 \/ Ended(ticket[t]) \/ aiPaused \/ ~ticket[t].staff

\* A ticket past its service level gets its reason or ends, the assistant paused
\* or not (_sla_breach_sweep).
BreachSurfaces == \A t \in Tickets : ticket[t].late ~> ticket[t].reason \/ Ended(ticket[t])
==============================================================================
