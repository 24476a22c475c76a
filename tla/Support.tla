----------------------------- MODULE Support ------------------------------
(***************************************************************************)
(* Tickets: the status machine and audit trail of tickets/services.py, the *)
(* load counters of the staff, and the satisfaction question that follows  *)
(* a resolution ("Is it working? YES/NO") with its 24-hour sweep.          *)
(*                                                                         *)
(* A caller loads the ticket row first; the helpers then run a transaction *)
(* that writes the changed columns from that copy.  Delays are abstracted: *)
(* a scheduled ping or an overdue answer may come at any time.             *)
(***************************************************************************)
EXTENDS Integers, Sequences, FiniteSets

CONSTANTS Tickets,        \* tickets.Ticket rows that may come to exist
          Staff,          \* staff.StaffMember rows
          Conversations,  \* conversations.Conversation rows of customers
          Conversation,   \* Ticket.conversation; NoOne when it has none
          Solo,           \* tickets whose callers happen not to overlap
          Workers,        \* request threads and queue workers
          Sweep,          \* the sweep_field_pings process
          NoOne,          \* no staff, no ticket, no conversation
          NoRequest,      \* the locals of an idle process
          Moves,          \* bound: the statuses callers ask for
          MaxCalls        \* bound: calls from staff and agents

ASSUME ConversationAssumption ==
  /\ Conversation \in [Tickets -> Conversations \cup {NoOne}]
  /\ NoOne \notin Tickets \cup Staff \cup Conversations
ASSUME SweepAssumption == Sweep \notin Workers
ASSUME SoloAssumption == Solo \subseteq Tickets

VARIABLES ticket,    \* the Ticket rows
          trail,     \* their TicketEvent rows, oldest first
          load,      \* StaffMember.current_load
          jobs,      \* satisfaction pings scheduled on the 'ai' queue
          awaiting,  \* diagnostic_state['awaiting_confirmation_ticket_id']
          pc,        \* where each process is
          req,       \* what it loaded
          calls      \* calls so far

vars == <<ticket, trail, load, jobs, awaiting, pc, req, calls>>

Processes == Workers \cup {Sweep}
Terminal == {"resolved", "closed"}
Statuses == {"open", "assigned", "in_progress", "awaiting_customer"} \cup Terminal
Rows == [status : Statuses \cup {"none"}, staff : Staff \cup {NoOne},
         resolved : BOOLEAN, closed : BOOLEAN]
Kinds == {"created", "assigned", "status_changed", "resolved", "closed", "reopened"}
Events == [kind : Kinds, from : Statuses \cup {"none"}, to : Statuses \cup {"none"}]

ASSUME BoundAssumption == Moves \subseteq Statuses /\ MaxCalls \in Nat

NoRow == [status |-> "none", staff |-> NoOne, resolved |-> FALSE, closed |-> FALSE]

Init ==
  /\ ticket = [t \in Tickets |-> NoRow]
  /\ trail = [t \in Tickets |-> <<>>]
  /\ load = [s \in Staff |-> 0]
  /\ jobs = [t \in Tickets |-> 0]
  /\ awaiting = [c \in Conversations |-> NoOne]
  /\ pc = [p \in Processes |-> "idle"]
  /\ req = [p \in Processes |-> NoRequest]
  /\ calls = 0

Exists(t) == ticket[t].status # "none"
Goto(p, l) == pc' = [pc EXCEPT ![p] = l]
Return(p) == Goto(p, "idle") /\ req' = [req EXCEPT ![p] = NoRequest]
Event(kind, from, to) == [kind |-> kind, from |-> from, to |-> to]
Assigned == Event("assigned", "none", "none")
Log(t, events) == trail' = [trail EXCEPT ![t] = @ \o events]
Call == calls < MaxCalls /\ calls' = calls + 1


\* _bump_staff_load: max(0, current_load + delta) of the value read before.
Bumped(read, delta) == IF read + delta < 0 THEN 0 ELSE read + delta

-----------------------------------------------------------------------------
(* Loading: what a view, an agent tool or a job does before the transaction *)

Holds(p, t) == /\ pc[p] \in {"loaded", "writing"}
               /\ req[p].t = t

\* The process loads the row of t for a call; c is the conversation it answers.
LoadRow(p, op, t, to, c) ==
  /\ t \in Solo => \A q \in Processes : ~Holds(q, t)
  /\ req' = [req EXCEPT ![p] = [op |-> op, t |-> t, to |-> to, conv |-> c,
                                copy |-> ticket[t], loads |-> load]]
  /\ Goto(p, "loaded")
  /\ UNCHANGED <<ticket, trail, load, jobs, awaiting>>

\* ticket_create and tool_open_ticket: a row of its own, with or without staff.
LoadCreate(w, t, s) ==
  /\ pc[w] = "idle"
  /\ ~Exists(t) /\ \A q \in Processes : ~Holds(q, t)
  /\ LoadRow(w, "create", t, s, NoOne)
  /\ Call

\* ticket_assign and tool_assign_ticket; assign_ticket returns at once when
\* the staff member has the ticket already.
LoadAssign(w, t, s) ==
  /\ pc[w] = "idle"
  /\ Exists(t) /\ ticket[t].staff # s
  /\ LoadRow(w, "assign", t, s, NoOne)
  /\ Call

\* ticket_status, tool_close_ticket, tool_change_status_ticket: any status of
\* STATUS_CHOICES; change_status returns at once when the copy has it.
LoadStatus(w, t, status) ==
  /\ pc[w] = "idle"
  /\ Exists(t) /\ ticket[t].status # status
  /\ LoadRow(w, "status", t, status, NoOne)
  /\ Call

-----------------------------------------------------------------------------
(* The transactions of tickets/services.py                                 *)

\* change_status updates the ticket, and so locks its row, before it reads the
\* load; no other transaction on the ticket commits in between.
Unlocked(t, p) ==
  \A q \in Processes \ {p} : ~(pc[q] = "writing" /\ req[q].t = t /\ req[q].op = "status")

\* The transaction reads the load of the staff reached through the ticket; the
\* load of a new assignee was read with its row, before the transaction.
Begin(p) ==
  LET r == req[p] IN
  /\ pc[p] = "loaded"
  /\ r.op = "status" => Unlocked(r.t, p)
  /\ req' = [req EXCEPT ![p].loads =
       IF r.op = "status" \/ r.to = NoOne THEN load
       ELSE [load EXCEPT ![r.to] = r.loads[r.to]]]
  /\ Goto(p, "writing")
  /\ UNCHANGED <<ticket, trail, load, jobs, awaiting, calls>>

\* create_ticket: the row, its events and the load of the assignee.
CommitCreate(p) ==
  LET r == req[p]
      status == IF r.to = NoOne THEN "open" ELSE "assigned"
  IN  /\ pc[p] = "writing" /\ r.op = "create"
      /\ ticket' = [ticket EXCEPT ![r.t].status = status, ![r.t].staff = r.to]
      /\ load' = IF r.to = NoOne THEN load
                 ELSE [load EXCEPT ![r.to] = Bumped(r.loads[r.to], 1)]
      /\ Log(r.t, <<Event("created", "none", status)>>
                  \o IF r.to = NoOne THEN <<>> ELSE <<Assigned>>)
      /\ Return(p)
      /\ UNCHANGED <<jobs, awaiting, calls>>

\* Fault for mutation: assigning puts a finished ticket back to work.
CommitAssign_Reopens(p) ==
  LET r == req[p] IN
  /\ pc[p] = "writing" /\ r.op = "assign" /\ Unlocked(r.t, p)
  /\ ticket' = [ticket EXCEPT ![r.t].staff = r.to, ![r.t].status = "assigned"]
  /\ Log(r.t, <<Assigned>>)
  /\ Return(p)
  /\ UNCHANGED <<load, jobs, awaiting, calls>>

\* assign_ticket: writes staff and status of the copy, moves the load over.
CommitAssign(p) ==
  LET r == req[p]
      before == r.copy.staff
      freed == IF before = NoOne THEN load
               ELSE [load EXCEPT ![before] = Bumped(r.loads[before], -1)]
  IN  /\ pc[p] = "writing" /\ r.op = "assign" /\ Unlocked(r.t, p)
      /\ ticket' = [ticket EXCEPT ![r.t].staff = r.to,
           ![r.t].status = IF r.copy.status = "open" THEN "assigned" ELSE r.copy.status]
      /\ load' = [freed EXCEPT ![r.to] = Bumped(r.loads[r.to], 1)]
      /\ Log(r.t, <<Assigned>>)
      /\ Return(p)
      /\ UNCHANGED <<jobs, awaiting, calls>>

\* The kind of event a status change is logged as.
StatusKind(from, to) ==
  IF from \in Terminal /\ to \notin Terminal THEN "reopened"
  ELSE IF to \in Terminal THEN to ELSE "status_changed"

\* The caller goes on: an answer to a satisfaction question clears the pointer.
Done(p) == IF req[p].conv = NoOne THEN Return(p) ELSE Goto(p, "clear") /\ req' = req

\* Fault for mutation: closing does not stamp the resolution.
CommitStatus_NoStamp(p) ==
  LET r == req[p] IN
  /\ pc[p] = "writing" /\ r.op = "status"
  /\ ticket' = [ticket EXCEPT ![r.t].status = r.to,
                              ![r.t].resolved = @ \/ (r.to = "resolved"),
                              ![r.t].closed = @ \/ (r.to = "closed")]
  /\ Log(r.t, <<Event(StatusKind(r.copy.status, r.to), r.copy.status, r.to)>>)
  /\ Done(p)
  /\ UNCHANGED <<load, jobs, awaiting, calls>>

\* change_status: stamps, one unit of load when the ticket ends, the event,
\* and on commit the satisfaction ping of a resolved ticket with a customer.
CommitStatus(p) ==
  LET r == req[p]
      staff == r.copy.staff
  IN  /\ pc[p] = "writing" /\ r.op = "status"
      /\ ticket' = [ticket EXCEPT ![r.t].status = r.to,
                                  ![r.t].resolved = @ \/ r.to \in Terminal,
                                  ![r.t].closed = @ \/ (r.to = "closed")]
      /\ load' = IF r.to \in Terminal /\ staff # NoOne
                 THEN [load EXCEPT ![staff] = Bumped(r.loads[staff], -1)] ELSE load
      /\ Log(r.t, <<Event(StatusKind(r.copy.status, r.to), r.copy.status, r.to)>>)
      /\ jobs' = IF r.to = "resolved" /\ Conversation[r.t] # NoOne
                 THEN [jobs EXCEPT ![r.t] = @ + 1] ELSE jobs
      /\ Done(p)
      /\ UNCHANGED <<awaiting, calls>>

-----------------------------------------------------------------------------
(* The satisfaction question                                               *)

\* tool_schedule_satisfaction_ping: an agent schedules one more ping.
SchedulePing(t) ==
  /\ Exists(t)
  /\ Call
  /\ jobs' = [jobs EXCEPT ![t] = @ + 1]
  /\ UNCHANGED <<ticket, trail, load, awaiting, pc, req>>

\* send_satisfaction_ping: skipped unless the ticket is still resolved and has
\* a customer; else the message goes out, before the pointer is stamped.
SendPing(w, t) ==
  LET c == Conversation[t] IN
  /\ pc[w] = "idle" /\ jobs[t] > 0
  /\ jobs' = [jobs EXCEPT ![t] = @ - 1]
  /\ IF ticket[t].status = "resolved" /\ c # NoOne
     THEN Goto(w, "stamp") /\ req' = [req EXCEPT ![w] = [t |-> t, conv |-> c]]
     ELSE UNCHANGED <<pc, req>>
  /\ UNCHANGED <<ticket, trail, load, awaiting, calls>>

\* The pointer replaces whatever the conversation was waiting for.
StampAwaiting(w) ==
  /\ pc[w] = "stamp"
  /\ awaiting' = [awaiting EXCEPT ![req[w].conv] = req[w].t]
  /\ Return(w)
  /\ UNCHANGED <<ticket, trail, load, jobs, calls>>

\* tool_conversation_set_state and _reset_if_stale: the customer agent writes
\* the state it loaded, with a pointer of its own, an old one, or without.
AgentState(c, t) ==
  /\ t # NoOne => Exists(t)
  /\ Call
  /\ awaiting' = [awaiting EXCEPT ![c] = t]
  /\ UNCHANGED <<ticket, trail, load, jobs, pc, req>>

\* A reply of the customer, or the sweep (verdict "timeout"), finds a pointer.
ReadPointer(p, c, verdict) ==
  /\ pc[p] = "idle" /\ awaiting[c] # NoOne
  /\ req' = [req EXCEPT ![p] = [t |-> awaiting[c], conv |-> c, verdict |-> verdict]]
  /\ Goto(p, "asked")
  /\ UNCHANGED <<ticket, trail, load, jobs, awaiting, calls>>

\* The status a verdict moves the ticket to; its own status for no change.
Judged(verdict, status) ==
  CASE verdict = "yes" -> "closed"
    [] verdict = "no" -> "in_progress"
    [] verdict = "timeout" /\ status = "resolved" -> "closed"
    [] OTHER -> status

\* _handle_satisfaction_reply and sweep_stale_awaiting_confirmations load the
\* ticket and change its status, unless it has the status already.
Judge(p) ==
  LET r == req[p]
      status == Judged(r.verdict, ticket[r.t].status)
  IN  /\ pc[p] = "asked"
      /\ IF status = ticket[r.t].status
         THEN Goto(p, "clear") /\ UNCHANGED <<ticket, trail, load, jobs, awaiting, req>>
         ELSE LoadRow(p, "status", r.t, status, r.conv)
      /\ UNCHANGED calls

\* Fault for mutation: the pointer stays.
ClearAwaiting_Stays(p) ==
  /\ pc[p] = "clear"
  /\ Return(p)
  /\ UNCHANGED <<ticket, trail, load, jobs, awaiting, calls>>

\* _clear_awaiting writes the loaded state without the pointer.
ClearAwaiting(p) ==
  /\ pc[p] = "clear"
  /\ awaiting' = [awaiting EXCEPT ![req[p].conv] = NoOne]
  /\ Return(p)
  /\ UNCHANGED <<ticket, trail, load, jobs, calls>>

-----------------------------------------------------------------------------

Continue(p) == \/ Begin(p) \/ CommitCreate(p) \/ CommitAssign(p) \/ CommitStatus(p)
               \/ StampAwaiting(p) \/ Judge(p) \/ ClearAwaiting(p)

Calls(w) ==
  \E t \in Tickets :
    \/ \E s \in Staff \cup {NoOne} : LoadCreate(w, t, s)
    \/ \E s \in Staff : LoadAssign(w, t, s)
    \/ \E status \in Moves : LoadStatus(w, t, status)

Questions == \/ \E t \in Tickets : SchedulePing(t) \/ \E w \in Workers : SendPing(w, t)
             \/ \E c \in Conversations :
                  \/ \E t \in Tickets \cup {NoOne} : AgentState(c, t)
                  \/ \E w \in Workers, v \in {"yes", "no", "ambiguous"} : ReadPointer(w, c, v)
                  \/ ReadPointer(Sweep, c, "timeout")

Next == \/ \E p \in Processes : Continue(p)
        \/ \E w \in Workers : Calls(w)
        \/ Questions

\* What was started goes on, and the timer runs the sweep again and again.
Fairness == /\ \A p \in Processes : WF_vars(Continue(p))
            /\ \A c \in Conversations : WF_vars(ReadPointer(Sweep, c, "timeout"))

Spec == Init /\ [][Next]_vars
FairSpec == Spec /\ Fairness

-----------------------------------------------------------------------------
(* Properties                                                              *)

CallsMade ==
  [op : {"create", "assign", "status"}, t : Tickets, to : Statuses \cup Staff \cup {NoOne},
   conv : Conversations \cup {NoOne}, copy : Rows, loads : [Staff -> Nat]]
Pings == [t : Tickets, conv : Conversations]
Answers == [t : Tickets, conv : Conversations,
            verdict : {"yes", "no", "ambiguous", "timeout"}]

\* Every variable keeps its type; a staff load is never negative.
TypeOK ==
  /\ ticket \in [Tickets -> Rows]
  /\ trail \in [Tickets -> Seq(Events)]
  /\ load \in [Staff -> Nat]
  /\ jobs \in [Tickets -> Nat]
  /\ awaiting \in [Conversations -> Tickets \cup {NoOne}]
  /\ pc \in [Processes -> {"idle", "loaded", "writing", "stamp", "asked", "clear"}]
  /\ req \in [Processes -> {NoRequest} \cup CallsMade \cup Pings \cup Answers]
  /\ calls \in 0..MaxCalls

\* However stale the copies callers write back, a finished ticket has the time
\* it was resolved, and a closed one the time it was closed
\* (time_to_resolution_seconds and the KPIs subtract them).
TerminalIsStamped ==
  \A t \in Tickets : /\ ticket[t].status \in Terminal => ticket[t].resolved
                     /\ ticket[t].status = "closed" => ticket[t].closed

\* What an event says the status becomes.
Replayed(status, e) ==
  IF e.kind # "assigned" THEN e.to ELSE IF status = "open" THEN "assigned" ELSE status

\* The status after each prefix of a trail.
Past(events) ==
  LET past[i \in 0..Len(events)] == IF i = 0 THEN "none" ELSE Replayed(past[i - 1], events[i])
  IN  past

\* An event tells the status it found, and a reopening is logged as one.
Tells(e, status) ==
  e.kind # "assigned" =>
    /\ e.from = status
    /\ e.kind = "reopened" <=> (status \in Terminal /\ e.to \notin Terminal)

\* A ticket whose callers do not overlap has an exact audit trail: each event
\* names the status the events before it led to, a reopening is logged as one,
\* and together they lead to the status of the row.
TrailReplays ==
  \A t \in Solo :
    /\ Past(trail[t])[Len(trail[t])] = ticket[t].status
    /\ \A i \in DOMAIN trail[t] : Tells(trail[t][i], Past(trail[t])[i - 1])

\* No conversation waits for an answer about a ticket for ever: the reply, or
\* the sweep after 24 hours, takes the pointer away.
NoEternalWait ==
  \A c \in Conversations, t \in Tickets : awaiting[c] = t ~> awaiting[c] # t

=============================================================================
