------------------------------- MODULE Inbox -------------------------------
(***************************************************************************)
(* The reseller's inbox: WhatsApp messages that come in by webhook, the    *)
(* people who read and answer them in the dashboard, and the AI agent that *)
(* answers for them (conversations/services.py and views.py, ai/jobs.py,   *)
(* ai/agents, ai/tools.py, ai/safety.py).                                  *)
(*                                                                         *)
(* One customer's thread.  Webhooks and dashboard tabs are request threads *)
(* that load the row and later save some columns of their copy; agent runs *)
(* are jobs of one queue worker (sabiwifi-rqworker.service), which keeps   *)
(* its copy of the row through all calls of the language model.  What the  *)
(* model says is arbitrary: any tool, any number of times.                 *)
(***************************************************************************)
EXTENDS Integers, Sequences, FiniteSets, SequencesExt

CONSTANTS Deliveries,   \* webhook calls that may come in
          Id,           \* the external_message_id each one carries
          Tabs,         \* dashboard tabs of the reseller's people
          Nobody,       \* the locals of a process at rest
          AutoSend,     \* the auto_send_replies capability
          Cap,          \* max_outbound_per_customer_per_day
          QuoteCap,     \* auto_quote_below_ngn; 0 for none
          Price,        \* what a renewal of the customer's plan costs
          MaxSteps,     \* MAX_STEPS of the runner
          MinRuns,      \* CIRCUIT_MIN_RUNS
          MaxBatch,     \* bound: tool calls in one answer of the model
          MaxReplies,   \* bound: outbound rows before the world is still
          MaxClicks     \* bound: what people do

ASSUME InboxAssumption ==
  /\ Cap \in Nat \ {0} /\ MaxSteps \in Nat \ {0} /\ MinRuns \in Nat
  /\ QuoteCap \in Nat /\ Price \in Nat
  /\ MaxBatch \in Nat \ {0} /\ MaxReplies \in Nat /\ MaxClicks \in Nat
ASSUME AutoSendAssumption == AutoSend \in BOOLEAN

VARIABLES thread,   \* the Conversation row
          rows,     \* inbound Message rows, named by the delivery that made them
          replies,  \* outbound Message rows, oldest first
          today,    \* the first outbound row of today
          client,   \* whether the sender is a Subscriber by now
          hook,     \* where each delivery is
          tab,      \* what each tab is doing
          queue,    \* route_inbound_message jobs on the 'ai' queue
          worker,   \* the job of the queue worker
          paused,   \* ResellerAIConfig.ai_paused_at is set
          window,   \* AIAgentRun rows of the last 15 minutes
          links,    \* amounts of payment links made without a human
          unseen,   \* inbound rows nobody has opened or answered
          handed,   \* the agent has handed the thread to people
          clicks    \* what people have done so far

world == <<client, clicks>>
people == <<tab, unseen>>
agent == <<queue, worker, paused, window, links, handed>>
inbox == <<thread, rows, replies, today, hook, world, people, agent>>

States == {"open", "pending_human", "ai_drafted", "resolved"}
Steps == {"unset", "sales", "support"}
Threads == [gen : Nat, there : BOOLEAN, state : States, unread : Nat,
            ai : BOOLEAN, step : Steps, linked : BOOLEAN]
Replies == [auto : BOOLEAN, ai : BOOLEAN, draft : BOOLEAN, kept : BOOLEAN,
            wired : Nat]
Copies == [gen : Nat, unread : Nat, step : Steps, linked : BOOLEAN]
Jobs == [copy : Copies, at : {"think", "tools"}, entry : Steps \ {"unset"},
         steps : 0..MaxSteps, batch : 0..MaxBatch, said : BOOLEAN, gave : BOOLEAN]

Errands == [op : {"read", "drop", "send"}, copy : Copies, shown : SUBSET Deliveries, i : Nat]
ASSUME NobodyAssumption == Nobody \notin Errands

\* What a process still uses of the row it loaded.
Copy(c) == [gen |-> c.gen, unread |-> c.unread, step |-> c.step, linked |-> c.linked]

NewThread(gen) == [gen |-> gen, there |-> FALSE, state |-> "open", unread |-> 0,
                   ai |-> TRUE, step |-> "unset", linked |-> FALSE]

InboxInit ==
  /\ thread = NewThread(0) /\ rows = {} /\ replies = <<>> /\ today = 1
  /\ client \in BOOLEAN
  /\ hook = [d \in Deliveries |-> "away"] /\ tab = [t \in Tabs |-> Nobody]
  /\ queue = <<>> /\ worker = Nobody /\ paused = FALSE
  /\ window = [total |-> 0, failed |-> 0]
  /\ links = {} /\ unseen = {} /\ handed = FALSE /\ clicks = 0

----------------------------------------------------------------------------
\* Inbound messages


\* record_inbound_message looks for the id before it locks the conversation.
Seen(d) == \E r \in rows : Id[r] = Id[d]

Arrive(d) ==
  /\ hook[d] = "away"
  /\ hook' = [hook EXCEPT ![d] = IF Seen(d) THEN "done" ELSE "new"]
  /\ UNCHANGED <<thread, rows, replies, today, world, people, agent>>


\* Under the lock: counters, the link to a subscriber, resolved to open again.
Received(c) ==
  [c EXCEPT !.there = TRUE, !.unread = @ + 1, !.linked = @ \/ client,
            !.state = IF @ = "resolved" THEN "open" ELSE @]

Record(d) ==
  /\ hook[d] = "new"
  /\ hook' = [hook EXCEPT ![d] = "done"]
  /\ thread' = Received(thread)
  /\ rows' = rows \cup {d} /\ unseen' = unseen \cup {d}
  /\ queue' = IF thread.ai THEN Append(queue, d) ELSE queue
  /\ UNCHANGED <<replies, today, world, tab, worker, paused, window, links, handed>>

\* The customer signs up; the next message links the thread to the account.
SignUp ==
  /\ ~client /\ client' = TRUE
  /\ UNCHANGED <<thread, rows, replies, today, hook, people, agent, clicks>>

----------------------------------------------------------------------------
\* Outbound rows.  record_outbound_message saves the copy's unread_count.

Reply(auto, ai, draft) ==
  [auto |-> auto, ai |-> ai, draft |-> draft, kept |-> TRUE,
   wired |-> IF draft THEN 0 ELSE 1]

\* Fault for mutation: an answer by a human leaves the thread unread.
Outbound_Unread(copy, human) == [thread EXCEPT !.unread = copy.unread]

Outbound(copy, human) == [thread EXCEPT !.unread = IF human THEN 0 ELSE copy.unread]

Alive(copy) == thread.there /\ copy.gen = thread.gen

----------------------------------------------------------------------------
\* People.  Each operation loads the row; two of them act on it later.

Click == clicks < MaxClicks /\ clicks' = clicks + 1
Idle(t) == tab[t] = Nobody /\ thread.there

\* conversation_detail lists the messages, then clears the counter.
Open(t) ==
  /\ Idle(t) /\ Click
  /\ tab' = [tab EXCEPT ![t] = [op |-> "read", copy |-> Copy(thread), shown |-> rows, i |-> 0]]
  /\ UNCHANGED <<thread, rows, replies, today, hook, client, unseen, agent>>

ClearUnread(t) ==
  /\ tab[t] # Nobody /\ tab[t].op = "read"
  /\ thread' = IF tab[t].copy.unread # 0 /\ Alive(tab[t].copy)
               THEN [thread EXCEPT !.unread = 0] ELSE thread
  /\ unseen' = unseen \ tab[t].shown
  /\ tab' = [tab EXCEPT ![t] = Nobody]
  /\ UNCHANGED <<rows, replies, today, hook, world, agent>>

\* conversation_reply
Answer(t) ==
  /\ Idle(t) /\ Click /\ Len(replies) < MaxReplies
  /\ replies' = Append(replies, Reply(FALSE, FALSE, FALSE))
  /\ thread' = Outbound(thread, TRUE) /\ unseen' = {}
  /\ UNCHANGED <<rows, today, hook, client, tab, agent>>

\* conversation_resolve, conversation_reopen, conversation_toggle_ai
Mark(t) ==
  /\ Idle(t) /\ Click
  /\ \/ thread' = [thread EXCEPT !.state = "resolved"] /\ UNCHANGED handed
     \/ thread' = [thread EXCEPT !.state = "open"] /\ UNCHANGED handed
     \/ thread' = [thread EXCEPT !.ai = ~@] /\ handed' = (handed /\ thread.ai)
  /\ UNCHANGED <<rows, replies, today, hook, client, people,
                 queue, worker, paused, window, links>>

\* conversation_delete refuses a thread that is not resolved; the row and all
\* its messages go when it is deleted.
AskDelete(t) ==
  /\ Idle(t) /\ Click /\ thread.state = "resolved"
  /\ tab' = [tab EXCEPT ![t] = [op |-> "drop", copy |-> Copy(thread), shown |-> {}, i |-> 0]]
  /\ UNCHANGED <<thread, rows, replies, today, hook, client, unseen, agent>>

Delete(t) ==
  /\ tab[t] # Nobody /\ tab[t].op = "drop"
  /\ tab' = [tab EXCEPT ![t] = Nobody]
  /\ IF Alive(tab[t].copy)
     THEN /\ thread' = NewThread(thread.gen + 1) /\ rows' = {} /\ unseen' = {}
          /\ replies' = [i \in DOMAIN replies |->
                          [replies[i] EXCEPT !.kept = FALSE, !.draft = FALSE]]
          /\ handed' = FALSE
     ELSE UNCHANGED <<thread, rows, unseen, replies, handed>>
  /\ UNCHANGED <<today, hook, world, queue, worker, paused, window, links>>


\* conversation_send_draft finds the draft, sends it on the wire, and saves.
IsDraft(i) == replies[i].draft
Approve(t, i) ==
  /\ Idle(t) /\ Click /\ IsDraft(i)
  /\ replies' = [replies EXCEPT ![i].wired = @ + 1]
  /\ tab' = [tab EXCEPT ![t] = [op |-> "send", copy |-> Copy(thread), shown |-> {}, i |-> i]]
  /\ UNCHANGED <<thread, rows, today, hook, client, unseen, agent>>

Sent(t) ==
  /\ tab[t] # Nobody /\ tab[t].op = "send"
  /\ tab' = [tab EXCEPT ![t] = Nobody]
  /\ replies' = [replies EXCEPT ![tab[t].i].draft = FALSE]
  /\ thread' = IF Alive(tab[t].copy) THEN [thread EXCEPT !.state = "open"] ELSE thread
  /\ UNCHANGED <<rows, today, hook, world, unseen, agent>>

\* conversation_discard_draft
Discard(t, i) ==
  /\ Idle(t) /\ Click /\ IsDraft(i) /\ replies[i].wired = 0
  /\ replies' = [replies EXCEPT ![i].draft = FALSE, ![i].kept = FALSE]
  /\ thread' = IF \E j \in DOMAIN replies \ {i} : replies[j].draft
               THEN thread ELSE [thread EXCEPT !.state = "open"]
  /\ UNCHANGED <<rows, today, hook, client, people, agent>>

\* pause_ai and resume_ai
Switch ==
  /\ Click /\ paused' = ~paused
  /\ UNCHANGED <<thread, rows, replies, today, hook, client, people,
                 queue, worker, window, links, handed>>

----------------------------------------------------------------------------
\* The agent

\* CustomerAgent: state older than six hours is dropped, a thread that has an
\* account leaves the sales steps, and a fresh one starts by what it is linked to.
Reset(c, old) == IF old THEN [c EXCEPT !.step = "unset"] ELSE c

Promoted(c) == IF c.linked /\ c.step = "sales" THEN [c EXCEPT !.step = "support"] ELSE c
Entry(c) == IF c.step # "unset" THEN c.step ELSE IF c.linked THEN "support" ELSE "sales"

\* route_inbound_message: the message may be gone, the thread or the reseller
\* may have no AI; otherwise AgentRunner.run writes its AIAgentRun row.
Routed(d) == d \in rows /\ thread.ai /\ ~paused
Take ==
  /\ worker = Nobody /\ queue # <<>> /\ queue' = Tail(queue)
  /\ IF ~Routed(Head(queue))
     THEN UNCHANGED <<thread, worker, window>>
     ELSE \E old \in BOOLEAN : LET c == Promoted(Reset(thread, old)) IN
            /\ thread' = c
            /\ worker' = [copy |-> Copy(c), at |-> "think", entry |-> Entry(c), steps |-> 0,
                          batch |-> 0, said |-> FALSE, gave |-> FALSE]
            /\ window' = [window EXCEPT !.total = @ + 1]
  /\ UNCHANGED <<rows, replies, today, hook, world, people, paused, links, handed>>

\* safety.outbound_today_count counts the agent's rows of today, drafts too.
SentToday == {i \in today..Len(replies) : replies[i].ai /\ replies[i].kept}

CapReached == Cardinality(SentToday) >= Cap

\* The runner keeps a reply as a draft when auto-send is off or the cap is reached.
Drafting == ~AutoSend \/ CapReached

\* The source of a reply that is sent is an argument the model may give and
\* nobody looks at: an AI source, a person's, or any other word.
Labels == {"ai", "human_staff", "other"}

\* A draft is the runner's row.  What is sent is recorded under its label: only
\* an AI source counts against the cap, a person's marks the thread as read.
Write(copy, label) ==
  /\ Len(replies) < MaxReplies /\ Alive(copy)
  /\ IF Drafting
     THEN /\ replies' = Append(replies, Reply(FALSE, TRUE, TRUE))
          /\ thread' = [Outbound(copy, FALSE) EXCEPT !.state = "ai_drafted"]
     ELSE /\ replies' = Append(replies, Reply(TRUE, label = "ai", FALSE))
          /\ thread' = Outbound(copy, label = "human_staff")

\* The counter the run's copy has from then on.
Read(copy, label) == IF ~Drafting /\ label = "human_staff" THEN 0 ELSE copy.unread

\* send_reply
Say(w) ==
  \E label \in Labels :
    /\ Write(w.copy, label)
    /\ worker' = [w EXCEPT !.said = TRUE, !.copy.unread = Read(w.copy, label)]
    /\ UNCHANGED <<links, handed>>

\* Fault for mutation: the AI stays on after the hand-over.
Escalated_StaysOn(c) == [c EXCEPT !.state = "pending_human"]


\* escalate_to_human
Escalated(c) == [c EXCEPT !.state = "pending_human", !.ai = FALSE]

Escalate(w) ==
  /\ Alive(w.copy)
  /\ thread' = Escalated(thread)
  /\ worker' = [w EXCEPT !.gave = TRUE]
  /\ handed' = TRUE
  /\ UNCHANGED <<replies, links>>

\* conversation_set_state
SetStep(w) ==
  /\ Alive(w.copy)
  /\ \E s \in Steps \ {"unset"} :
       /\ thread' = [thread EXCEPT !.step = s]
       /\ worker' = [w EXCEPT !.copy.step = s]
  /\ UNCHANGED <<replies, links, handed>>

\* create_payment_link needs its amount; create_renewal_payment_link takes the
\* price of the plan without one.  The gate reads the argument, 0 when absent.
Gated(arg) == QuoteCap > 0 /\ arg > QuoteCap
Link(w) ==
  /\ \E arg \in {0, Price} :
       links' = IF Gated(arg) THEN links ELSE links \cup {Price}
  /\ worker' = w
  /\ UNCHANGED <<thread, replies, handed>>

\* The tools that only read, and every tool that answers with an error.
Look(w) == worker' = w /\ UNCHANGED <<thread, replies, links, handed>>

\* One tool call; the answer of the model may hold more of them.
Tool(w) == Say(w) \/ Escalate(w) \/ SetStep(w) \/ Link(w) \/ Look(w)
Call ==
  /\ worker # Nobody /\ worker.batch < MaxBatch
  /\ worker.at = "tools" \/ worker.steps < MaxSteps
  /\ Tool([worker EXCEPT !.at = "tools", !.batch = @ + 1])
  /\ UNCHANGED <<rows, today, hook, world, people, queue, paused, window>>

\* Fault for mutation: the loop over the model's answers has no bound.
More_Endless ==
  /\ worker # Nobody /\ worker.at = "tools" /\ ~worker.said
  /\ worker' = [worker EXCEPT !.at = "think", !.batch = 0]
  /\ UNCHANGED <<thread, rows, replies, today, hook, world, people,
                 queue, paused, window, links, handed>>

\* The results go back to the model, unless the customer has his reply.
More ==
  /\ worker # Nobody /\ worker.at = "tools" /\ ~worker.said
  /\ worker' = [worker EXCEPT !.at = "think", !.batch = 0, !.steps = @ + 1]
  /\ UNCHANGED <<thread, rows, replies, today, hook, world, people,
                 queue, paused, window, links, handed>>

\* The run is over: after the reply, an answer without tools or MAX_STEPS.
\* Text that was never sent is sent now.
Done ==
  /\ worker # Nobody /\ (worker.said \/ worker.at = "think")
  /\ worker' = Nobody
  /\ \/ worker.said /\ UNCHANGED <<thread, replies>>
     \/ ~worker.said /\ UNCHANGED <<thread, replies>>
     \/ ~worker.said /\ Write(worker.copy, "ai")
  /\ UNCHANGED <<rows, today, hook, world, people, queue, paused, window, links, handed>>

\* The provider raises.  An error of its configuration pauses the AI at once,
\* any other when half of the last MinRuns runs or more have failed.
Tripped == window.total >= MinRuns /\ 2 * (window.failed + 1) >= window.total
Fail ==
  /\ worker # Nobody /\ worker.at = "think" /\ worker.steps < MaxSteps
  /\ worker' = Nobody
  /\ window' = [window EXCEPT !.failed = @ + 1]
  /\ \E permanent \in BOOLEAN : paused' = (paused \/ permanent \/ Tripped)
  /\ UNCHANGED <<thread, rows, replies, today, hook, world, people, queue, links, handed>>

\* The worker is killed in a run: the job is not tried again.
Kill ==
  /\ worker # Nobody /\ worker' = Nobody
  /\ UNCHANGED <<thread, rows, replies, today, hook, world, people,
                 queue, paused, window, links, handed>>

\* notify_customer_ticket_milestone and _send_customer_reply, jobs of the same
\* worker: always sent, and counted with the agent's rows.
Milestone ==
  /\ worker = Nobody /\ thread.there /\ Len(replies) < MaxReplies
  /\ replies' = Append(replies, Reply(FALSE, TRUE, FALSE))
  /\ thread' = Outbound(thread, FALSE)
  /\ UNCHANGED <<rows, today, hook, world, people, agent>>

\* A quarter of an hour without a run, and midnight.
Quarter ==
  /\ worker = Nobody /\ window.total > 0
  /\ window' = [total |-> 0, failed |-> 0]
  /\ UNCHANGED <<thread, rows, replies, today, hook, world, people,
                 queue, worker, paused, links, handed>>
Midnight ==
  /\ today <= Len(replies) /\ today' = Len(replies) + 1
  /\ UNCHANGED <<thread, rows, replies, hook, world, people, agent>>

----------------------------------------------------------------------------
Hooks(d) == Arrive(d) \/ Record(d)
Begins(t) == Open(t) \/ Answer(t) \/ Mark(t) \/ AskDelete(t)
             \/ \E i \in DOMAIN replies : Approve(t, i) \/ Discard(t, i)
Ends(t) == ClearUnread(t) \/ Delete(t) \/ Sent(t)
AgentRuns == Take \/ Call \/ More \/ Done \/ Fail
InboxNext ==
  \/ \E d \in Deliveries : Hooks(d)
  \/ \E t \in Tabs : Begins(t) \/ Ends(t)
  \/ AgentRuns \/ Kill \/ Milestone \/ Switch \/ SignUp \/ Quarter \/ Midnight

\* The queue worker goes on, and a provider answers or times out.
InboxFairness == WF_inbox(AgentRuns)
InboxSpec == InboxInit /\ [][InboxNext]_inbox /\ InboxFairness

----------------------------------------------------------------------------
InboxType ==
  /\ thread \in Threads /\ rows \subseteq Deliveries /\ unseen \subseteq rows
  /\ replies \in Seq(Replies) /\ today \in 1..(Len(replies) + 1)
  /\ client \in BOOLEAN /\ paused \in BOOLEAN /\ handed \in BOOLEAN
  /\ hook \in [Deliveries -> {"away", "new", "done"}]
  /\ tab \in [Tabs -> Errands \cup {Nobody}]
  /\ queue \in Seq(Deliveries) /\ worker \in Jobs \cup {Nobody}
  /\ window \in [total : Nat, failed : Nat] /\ window.failed <= window.total
  /\ links \subseteq {Price} /\ clicks \in 0..MaxClicks

\* The counter of a thread is the number of messages that nobody has opened or
\* answered (record_inbound_message, record_outbound_message, conversation_detail).
UnreadCountsUnseen == thread.unread = Cardinality(unseen)

\* A message the provider delivers again is recorded once.
RecordedOnce == \A r, s \in rows : Id[r] = Id[s] => r = s

\* A draft that people approve goes to the customer once.
DraftSentOnce == \A i \in DOMAIN replies : replies[i].wired <= 1

\* The agent by itself never sends a customer more than the day's cap, under
\* whatever label, and however milestones and drafts come between.
RepliesCapped ==
  Cardinality({i \in today..Len(replies) : replies[i].auto /\ replies[i].kept}) <= Cap

\* After an agent has handed a thread to people no later run answers in it by
\* itself until they switch its AI on again.
HandOverHolds ==
  \A i \in DOMAIN replies' \ DOMAIN replies :
    (replies'[i].auto \/ replies'[i].draft) /\ handed => worker # Nobody /\ worker.gave

\* A customer who has an account is never led through the sales steps.
SubscriberNotSoldTo ==
  worker # Nobody /\ worker.copy.linked => worker.entry = "support"

\* Every run ends, and every message that is waiting gets its turn.
QueueDrains == []<>(queue = <<>> /\ worker = Nobody)
=============================================================================
