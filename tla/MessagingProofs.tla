-------------------------- MODULE MessagingProofs --------------------------
(***************************************************************************)
(* Theorems about what a reseller sends by WhatsApp and SMS.  About        *)
(* Campaigns, for any subscribers, batch and number of sessions: nobody    *)
(* gets a broadcast twice by one channel, however often                    *)
(* process_broadcasts is killed and the WhatsApp service restarted.  About *)
(* Inbox, for any deliveries, tabs and bounds: the rails of the agent      *)
(* under every interleaving, and what the thread shows when webhooks,      *)
(* people and agent runs take turns.  About Notices and Alerts, in the     *)
(* scenes of MCCampaigns (K): reminders neither repeated nor left out,     *)
(* alarms neither repeated nor silenced, the flag of the operator's        *)
(* session.  About Sidecar and one SMS campaign: one loop at a time sends, *)
(* and the counts of the row are the tries of the log.                     *)
(***************************************************************************)
EXTENDS Campaigns, MCInbox, TLAPS, FiniteSetTheorems, SequenceTheorems

\* The constants and variables of Notices and Alerts, which MCCampaigns has
\* beside those of a campaign; Inbox has an unseen of its own.
CONSTANTS Plans, Lives, MaxStops, Silents, Limited, MaxFlips, MaxEdits, MaxAlertKills
VARIABLES plans, keys, wants, config, template, run, schedule, wait, tried, stuck, stops,
          platform, opSession, events, form, answer, raised, throttle, check, said, quiet,
          missed, flips, edits, alertKills

K == INSTANCE MCCampaigns WITH unseen <- missed


Queued(q, s) == \E i \in 1..Len(q) : q[i] = s
Sends(l, g, s) == l[g].at = "sending" /\ l[g].with = s
Held(l, s) == \E g \in Objects : Sends(l, g, s)

\* A message is in the queue once or held by one loop or on the wire, if at all.
QueuedOnce(q) == \A i, j \in 1..Len(q) : q[i] = q[j] => i = j
HeldOnce(l) == \A g, h \in Objects, s \in Messages : Sends(l, g, s) /\ Sends(l, h, s) => g = h
OnWire(q, l, w) == \A s \in Messages :
  /\ w[s] \in {0, 1}
  /\ Queued(q, s) => ~Held(l, s) /\ w[s] = 0
  /\ Held(l, s) => w[s] = 0
Once(q, l, w) == QueuedOnce(q) /\ HeldOnce(l) /\ OnWire(q, l, w)

Typed ==
  /\ sendQueue \in Seq(Messages)
  /\ loop = [g \in Objects |-> loop[g]]
  /\ wired = [s \in Messages |-> wired[s]] /\ texts = [s \in Subscribers |-> texts[s]]
  /\ job = [at |-> job.at, copy |-> job.copy, tried |-> job.tried, left |-> job.left,
            without |-> job.without, batch |-> job.batch, sub |-> job.sub]
  /\ job.left \subseteq Subscribers
  /\ job.at \in {"wa", "sms", "text"} => job.sub \in Subscribers \ job.left

\* What has gone to the service, or is about to, is in the log.
Handing(s) == job.at = "wa" /\ job.sub = s
WhatsAppLogged == \A s \in Messages :
  /\ Handing(s) => ~Queued(sendQueue, s) /\ ~Held(loop, s) /\ wired[s] = 0
  /\ Handing(s) \/ Queued(sendQueue, s) \/ Held(loop, s) \/ wired[s] = 1 => <<s, "whatsapp">> \in log

\* The same of an SMS.
SmsLogged ==
  /\ \A s \in Subscribers : texts[s] \in {0, 1} /\ (texts[s] = 1 => <<s, "sms">> \in log)
  /\ job.at \in {"wa", "sms"} => <<job.sub, "sms">> \notin log
  /\ job.at = "text" => texts[job.sub] = 0 /\ <<job.sub, "sms">> \in log

\* Whom a run has yet to try is not in the log.
LeftUntried ==
  job.at \in {"each", "wa", "sms", "text"} =>
    \A s \in job.left \ job.tried : <<s, "whatsapp">> \notin log /\ <<s, "sms">> \notin log

IInv == Typed /\ Once(sendQueue, loop, wired) /\ WhatsAppLogged /\ SmsLogged /\ LeftUntried

-----------------------------------------------------------------------------
(* The queue and the loops                                                 *)

\* A loop that takes the head of the queue moves one message.
LEMMA Taken ==
  ASSUME NEW q \in Seq(Messages), q # <<>>, NEW l, l = [g \in Objects |-> l[g]], NEW w,
         Once(q, l, w), NEW g, l[g].at # "sending",
         NEW l2, l2 = [l EXCEPT ![g] = [at |-> "sending", with |-> Head(q)]]
  PROVE  /\ Tail(q) \in Seq(Messages) /\ l2 = [h \in Objects |-> l2[h]]
         /\ Once(Tail(q), l2, w)
         /\ \A s \in Messages : Queued(Tail(q), s) \/ Held(l2, s) => Queued(q, s) \/ Held(l, s)
<1> DEFINE t == Tail(q)
<1>1. /\ t \in Seq(Messages) /\ Len(t) = Len(q) - 1 /\ Len(q) \in Nat \ {0}
      /\ \A i \in 1..Len(t) : i + 1 \in 1..Len(q) /\ t[i] = q[i + 1]
      /\ Head(q) = q[1] /\ 1 \in 1..Len(q) /\ q[1] \in Messages
  OBVIOUS
<1>2. l2 = [h \in Objects |-> l2[h]] OBVIOUS
<1>3. \A h \in Objects : l2[h] = IF h = g THEN [at |-> "sending", with |-> q[1]] ELSE l[h]
  BY <1>1
<1>4. \A h \in Objects : \A s : Sends(l2, h, s) <=> (h = g /\ s = q[1]) \/ (h # g /\ Sends(l, h, s))
  BY <1>3 DEF Sends
<1>5. ~Held(l, q[1]) /\ w[q[1]] = 0 BY <1>1 DEF Once, OnWire, Queued
<1>6. \A i \in 1..Len(t) : t[i] # q[1]
  <2> TAKE i \in 1..Len(t)
  <2>1. i + 1 \in 1..Len(q) /\ t[i] = q[i + 1] /\ i + 1 # 1 /\ 1 \in 1..Len(q) BY <1>1
  <2> QED BY <2>1 DEF Once, QueuedOnce
<1>7. \A s \in Messages : Queued(t, s) => Queued(q, s) /\ s # q[1] BY <1>1, <1>6 DEF Queued
<1>8. \A s \in Messages : Held(l2, s) => s = q[1] \/ Held(l, s) BY <1>4 DEF Held
<1>9. QueuedOnce(t)
  <2> SUFFICES ASSUME NEW i \in 1..Len(t), NEW j \in 1..Len(t), t[i] = t[j] PROVE i = j
    BY DEF QueuedOnce
  <2>1. i + 1 = j + 1 BY <1>1 DEF Once, QueuedOnce
  <2> QED BY <1>1, <2>1
<1>10. HeldOnce(l2)
  <2> SUFFICES ASSUME NEW h \in Objects, NEW k \in Objects, NEW s \in Messages,
                      Sends(l2, h, s), Sends(l2, k, s)
               PROVE  h = k
    BY DEF HeldOnce
  <2>1. CASE h # g /\ k # g BY <2>1, <1>4 DEF Once, HeldOnce
  <2>2. CASE h = g \/ k = g BY <2>2, <1>4, <1>5 DEF Held
  <2> QED BY <2>1, <2>2
<1>11. OnWire(t, l2, w)
  <2> SUFFICES ASSUME NEW s \in Messages
               PROVE  /\ w[s] \in {0, 1} /\ (Queued(t, s) => ~Held(l2, s) /\ w[s] = 0)
                      /\ (Held(l2, s) => w[s] = 0)
    BY DEF OnWire
  <2> QED BY <1>5, <1>7, <1>8 DEF Once, OnWire
<1>12. Queued(q, q[1]) BY <1>1 DEF Queued
<1> QED BY <1>1, <1>2, <1>7, <1>8, <1>9, <1>10, <1>11, <1>12 DEF Once

\* A message comes to the end of the queue that is nowhere yet.
LEMMA Appended ==
  ASSUME NEW q \in Seq(Messages), NEW l, NEW w, Once(q, l, w), NEW m \in Messages,
         ~Queued(q, m), ~Held(l, m), w[m] = 0
  PROVE  /\ Append(q, m) \in Seq(Messages) /\ Once(Append(q, m), l, w)
         /\ \A s \in Messages : Queued(Append(q, m), s) => Queued(q, s) \/ s = m
<1> DEFINE a == Append(q, m)
<1>1. /\ a \in Seq(Messages) /\ Len(a) = Len(q) + 1 /\ Len(q) \in Nat
      /\ \A i \in 1..Len(a) : a[i] = IF i = Len(q) + 1 THEN m ELSE q[i]
  OBVIOUS
<1>2. \A i \in 1..Len(a) : i = Len(q) + 1 \/ i \in 1..Len(q) BY <1>1
<1>3. \A s \in Messages : Queued(a, s) => Queued(q, s) \/ s = m BY <1>1, <1>2 DEF Queued
<1>4. \A i \in 1..Len(q) : q[i] # m BY DEF Queued
<1>5. QueuedOnce(a)
  <2> SUFFICES ASSUME NEW i \in 1..Len(a), NEW j \in 1..Len(a), a[i] = a[j] PROVE i = j
    BY DEF QueuedOnce
  <2>1. CASE i = Len(q) + 1 BY <2>1, <1>1, <1>2, <1>4
  <2>2. CASE j = Len(q) + 1 BY <2>2, <1>1, <1>2, <1>4
  <2>3. CASE i # Len(q) + 1 /\ j # Len(q) + 1 BY <2>3, <1>1, <1>2 DEF Once, QueuedOnce
  <2> QED BY <2>1, <2>2, <2>3
<1>6. OnWire(a, l, w) BY <1>3 DEF Once, OnWire
<1> QED BY <1>1, <1>3, <1>5, <1>6 DEF Once

\* drainQueue: the queue q goes on as it is, or a loop takes its head.
LEMMA DrainedOnce ==
  ASSUME NEW g, NEW q \in Seq(Messages), Drained(g, q), loop = [h \in Objects |-> loop[h]],
         Once(q, loop, wired)
  PROVE  /\ sendQueue' \in Seq(Messages) /\ loop' = [h \in Objects |-> loop'[h]]
         /\ Once(sendQueue', loop', wired)
         /\ \A s \in Messages : Queued(sendQueue', s) \/ Held(loop', s) => Queued(q, s) \/ Held(loop, s)
<1>1. CASE sendQueue' = q /\ loop' = loop BY <1>1
<1>2. CASE /\ q # <<>> /\ loop[g].at = "none" /\ sendQueue' = Tail(q)
           /\ loop' = [loop EXCEPT ![g] = [at |-> "sending", with |-> Head(q)]]
  BY <1>2, Taken, SMTT(30)
<1> QED BY <1>1, <1>2 DEF Drained

LEMMA NobodyHeld == \A l : (\A g \in Objects : l[g].at # "sending") => HeldOnce(l) /\ \A s : ~Held(l, s)
BY DEF HeldOnce, Held, Sends

LEMMA NobodyThere == NoLoop.at = "none"
BY DEF NoLoop

LEMMA NothingTried ==
  /\ NoRun = [at |-> NoRun.at, copy |-> NoRun.copy, tried |-> NoRun.tried, left |-> NoRun.left,
              without |-> NoRun.without, batch |-> NoRun.batch, sub |-> NoRun.sub]
  /\ NoRun.at = "idle" /\ NoRun.left = {}
BY DEF NoRun

LEMMA EmptyQueue == QueuedOnce(<<>>) /\ \A s : ~Queued(<<>>, s)
BY DEF QueuedOnce, Queued

-----------------------------------------------------------------------------
(* The initial state and the steps of the service                          *)

LEMMA InitInv == Init => IInv
<1> SUFFICES ASSUME Init PROVE IInv OBVIOUS
<1>1. sendQueue = <<>> /\ loop = [g \in Objects |-> NoLoop] /\ wired = [m \in Messages |-> 0]
  BY DEF Init, SidecarInit
<1>2. \A g \in Objects : loop[g].at # "sending" BY <1>1 DEF NoLoop
<1>3. Once(sendQueue, loop, wired) BY <1>1, <1>2, NobodyHeld, EmptyQueue DEF Once, OnWire
<1>4. Typed /\ job.at = "idle" BY <1>1 DEF Init, Typed, NoRun
<1>5. WhatsAppLogged BY <1>1, <1>2, <1>4, NobodyHeld, EmptyQueue DEF WhatsAppLogged, Handing
<1>6. SmsLogged /\ LeftUntried BY <1>4 DEF Init, SmsLogged, LeftUntried
<1> QED BY <1>3, <1>4, <1>5, <1>6 DEF IInv

\* A step that leaves the broadcast alone and moves messages on.
LEMMA MovesOn ==
  ASSUME IInv, UNCHANGED broadcast, sendQueue' \in Seq(Messages),
         loop' = [h \in Objects |-> loop'[h]], wired' = [s \in Messages |-> wired'[s]],
         Once(sendQueue', loop', wired'),
         \A s \in Messages : Queued(sendQueue', s) \/ Held(loop', s) \/ wired'[s] = 1
                             => Queued(sendQueue, s) \/ Held(loop, s) \/ wired[s] = 1
  PROVE  IInv'
<1>1. Typed' BY DEF IInv, Typed, broadcast
<1>2. WhatsAppLogged'
  <2> SUFFICES ASSUME NEW s \in Messages
               PROVE  /\ Handing(s)' => ~Queued(sendQueue', s) /\ ~Held(loop', s) /\ wired'[s] = 0
                      /\ Handing(s)' \/ Queued(sendQueue', s) \/ Held(loop', s) \/ wired'[s] = 1
                         => <<s, "whatsapp">> \in log'
    BY DEF WhatsAppLogged, Queued, Held, Sends
  <2>1. log' = log /\ (Handing(s)' <=> Handing(s)) BY DEF broadcast, Handing
  <2>2. wired'[s] \in {0, 1} BY DEF Once, OnWire
  <2>3. wired[s] = 1 => wired[s] # 0 OBVIOUS
  <2> QED BY <2>1, <2>2, <2>3 DEF IInv, WhatsAppLogged
<1>3. SmsLogged' /\ LeftUntried' BY DEF IInv, SmsLogged, LeftUntried, broadcast
<1>4. Once(sendQueue, loop, wired)' BY DEF Once, QueuedOnce, HeldOnce, OnWire, Queued, Held, Sends
<1> QED BY <1>1, <1>2, <1>3, <1>4 DEF IInv

LEMMA SidecarStepInv == ASSUME IInv, SidecarStep, UNCHANGED broadcast PROVE IInv'
<1> USE DEF IInv
<1>1. CASE OpenDrain
  <2>1. CASE UNCHANGED <<sendQueue, loop>> BY <1>1, <2>1, MovesOn DEF OpenDrain, Typed
  <2>2. CASE Drained(session, sendQueue)
    BY <1>1, <2>2, DrainedOnce, MovesOn DEF OpenDrain, Typed
  <2> QED BY <1>1, <2>1, <2>2 DEF OpenDrain
<1>2. ASSUME NEW g \in Objects, Settle(g) PROVE IInv'
  <2> DEFINE m == loop[g].with
  <2>1. /\ Sends(loop, g, m) /\ sendQueue' = sendQueue
        /\ loop' = [loop EXCEPT ![g] = [NoLoop EXCEPT !.at = "waiting"]]
        /\ wired' \in {wired, [wired EXCEPT ![m] = @ + 1]}
    BY <1>2 DEF Settle, Sends
  <2>2. \A h \in Objects : loop'[h] = IF h = g THEN [NoLoop EXCEPT !.at = "waiting"] ELSE loop[h]
    BY <2>1 DEF Typed
  <2>3. loop' = [h \in Objects |-> loop'[h]] BY <2>1 DEF Typed
  <2>4. \A h \in Objects : \A s : Sends(loop', h, s) <=> h # g /\ Sends(loop, h, s)
    BY <2>2 DEF Sends, NoLoop
  <2>5. \A s \in Messages : Held(loop', s) => Held(loop, s) /\ s # m
    BY <2>1, <2>4 DEF Held, Once, HeldOnce
  <2>6. Held(loop, m) BY <2>1 DEF Held
  <2>7. /\ wired' = [s \in Messages |-> wired'[s]]
        /\ \A s \in Messages : wired'[s] = wired[s] \/ (s = m /\ wired'[s] = wired[s] + 1)
    BY <2>1 DEF Typed
  <2>8. HeldOnce(loop') BY <2>4 DEF Once, HeldOnce
  <2>9. OnWire(sendQueue, loop', wired')
    <3> SUFFICES ASSUME NEW s \in Messages
                 PROVE  /\ wired'[s] \in {0, 1}
                        /\ Queued(sendQueue, s) => ~Held(loop', s) /\ wired'[s] = 0
                        /\ Held(loop', s) => wired'[s] = 0
      BY DEF OnWire
    <3>1. CASE wired'[s] = wired[s] BY <3>1, <2>5 DEF Once, OnWire
    <3>2. CASE s = m /\ wired'[s] = wired[s] + 1 BY <3>2, <2>5, <2>6 DEF Once, OnWire
    <3> QED BY <2>7, <3>1, <3>2
  <2>10. Once(sendQueue', loop', wired') BY <2>1, <2>8, <2>9 DEF Once
  <2>11. \A s \in Messages : Queued(sendQueue', s) \/ Held(loop', s) \/ wired'[s] = 1
                             => Queued(sendQueue, s) \/ Held(loop, s) \/ wired[s] = 1
    BY <2>1, <2>5, <2>6, <2>7
  <2> QED BY <2>1, <2>3, <2>7, <2>10, <2>11, MovesOn DEF Typed
<1>3. ASSUME NEW g \in Objects, Wake(g) PROVE IInv'
  <2>1. loop[g].at = "waiting" /\ wired' = wired BY <1>3 DEF Wake
  <2>2. CASE /\ sendQueue # <<>> /\ sendQueue' = Tail(sendQueue)
             /\ loop' = [loop EXCEPT ![g] = [at |-> "sending", with |-> Head(sendQueue)]]
    <3>1. loop[g].at # "sending" BY <2>1
    <3>2. /\ sendQueue \in Seq(Messages) /\ loop = [h \in Objects |-> loop[h]]
          /\ Once(sendQueue, loop, wired)
      BY DEF Typed
    <3>0. loop' = [loop EXCEPT ![g] = [at |-> "sending", with |-> Head(sendQueue)]]
      BY <2>2
    <3>5. /\ Tail(sendQueue) \in Seq(Messages) /\ loop' = [h \in Objects |-> loop'[h]]
          /\ Once(Tail(sendQueue), loop', wired)
          /\ \A s \in Messages : Queued(Tail(sendQueue), s) \/ Held(loop', s)
                              => Queued(sendQueue, s) \/ Held(loop, s)
      BY <2>2, <3>0, <3>1, <3>2, Taken
    <3>3. /\ sendQueue' \in Seq(Messages) /\ loop' = [h \in Objects |-> loop'[h]]
          /\ Once(sendQueue', loop', wired)
          /\ \A s \in Messages : Queued(sendQueue', s) \/ Held(loop', s)
                              => Queued(sendQueue, s) \/ Held(loop, s)
      BY <2>2, <3>5
    <3>4. wired' = [s \in Messages |-> wired'[s]] BY <2>1 DEF Typed
    <3> QED BY <2>1, <3>3, <3>4, MovesOn
  <2>3. CASE loop' = [loop EXCEPT ![g] = NoLoop] /\ sendQueue' = sendQueue
    <3>1. \A h \in Objects : loop'[h] = IF h = g THEN NoLoop ELSE loop[h] BY <2>3 DEF Typed
    <3>2. \A h \in Objects : \A s : Sends(loop', h, s) => Sends(loop, h, s)
      <4> TAKE h \in Objects
      <4> TAKE s
      <4>1. CASE h = g
        <5>1. loop'[h].at = "none" BY <3>1, <4>1, NobodyThere
        <5> QED BY <5>1 DEF Sends
      <4>2. CASE h # g BY <3>1, <4>2 DEF Sends
      <4> QED BY <4>1, <4>2
    <3>3. \A s : Held(loop', s) => Held(loop, s) BY <3>2 DEF Held
    <3>4. Once(sendQueue', loop', wired') BY <2>1, <2>3, <3>2, <3>3 DEF Once, HeldOnce, OnWire
    <3>5. loop' = [h \in Objects |-> loop'[h]] BY <2>3 DEF Typed
    <3> QED BY <2>1, <2>3, <3>3, <3>4, <3>5, MovesOn DEF Typed
  <2> QED BY <1>3, <2>2, <2>3 DEF Wake
<1>4. CASE Opened \/ Closed \/ StartSession \/ Poll
  <2>1. UNCHANGED <<sendQueue, loop, wired>> BY <1>4 DEF Opened, Closed, StartSession, Anew, Poll
  <2> QED BY <2>1, MovesOn DEF Typed
<1>5. CASE Disconnect
  <2>1. sendQueue' = <<>> /\ loop' = loop /\ wired' = wired BY <1>5 DEF Disconnect
  <2>2. Once(sendQueue', loop', wired') BY <2>1, EmptyQueue DEF Once, OnWire
  <2> QED BY <2>1, <2>2, EmptyQueue, MovesOn DEF Typed
<1>6. CASE Restart
  <2>1. sendQueue' = <<>> /\ loop' = [g \in Objects |-> NoLoop] /\ wired' = wired
    BY <1>6 DEF Restart
  <2>2. \A g \in Objects : loop'[g].at # "sending" BY <2>1 DEF NoLoop
  <2>3. HeldOnce(loop') /\ \A s : ~Held(loop', s) BY <2>2, NobodyHeld
  <2>4. Once(sendQueue', loop', wired') BY <2>1, <2>3, EmptyQueue DEF Once, OnWire
  <2> QED BY <2>1, <2>3, <2>4, EmptyQueue, MovesOn DEF Typed
<1> QED BY <1>1, <1>2, <1>3, <1>4, <1>5, <1>6 DEF SidecarStep, Drains

-----------------------------------------------------------------------------
(* The steps of the broadcast                                              *)

\* A step that leaves the service alone and hands nothing over.
LEMMA StaysOff ==
  ASSUME IInv, UNCHANGED sidecar, log \subseteq log', job'.at # "wa"
  PROVE  Once(sendQueue, loop, wired)' /\ WhatsAppLogged'
<1>1. UNCHANGED <<sendQueue, loop, wired>> BY DEF sidecar, link
<1>2. Once(sendQueue, loop, wired)'
  BY <1>1 DEF IInv, Once, QueuedOnce, HeldOnce, OnWire, Queued, Held, Sends
<1>3. WhatsAppLogged'
  <2> SUFFICES ASSUME NEW s \in Messages, (Queued(sendQueue, s) \/ Held(loop, s) \/ wired[s] = 1)'
               PROVE  <<s, "whatsapp">> \in log'
    BY DEF WhatsAppLogged, Handing
  <2> QED BY <1>1 DEF IInv, WhatsAppLogged, Queued, Held, Sends
<1> QED BY <1>2, <1>3

\* The run ends or has not begun: nothing of it matters.
LEMMA Rests ==
  ASSUME IInv, UNCHANGED <<sidecar, log, texts>>, job'.at \notin {"each", "wa", "sms", "text"},
         Typed'
  PROVE  IInv'
BY StaysOff DEF IInv, SmsLogged, LeftUntried

LEMMA ManagedInv ==
  ASSUME IInv, (\E ch \in Channels : Create(ch)) \/ Cancel \/ \E s \in Subscribers : Prefer(s)
  PROVE  IInv'
<1>1. UNCHANGED <<sidecar, log, job, texts>> BY DEF Create, Cancel, Prefer
<1>2. UNCHANGED <<sendQueue, loop, wired>> BY <1>1 DEF sidecar, link
<1> QED BY <1>1, <1>2 DEF IInv, Typed, Once, QueuedOnce, HeldOnce, OnWire, Queued, Held, Sends,
                          WhatsAppLogged, Handing, SmsLogged, LeftUntried

LEMMA RunInv == ASSUME IInv, Load \/ Save \/ Crash PROVE IInv'
<1>1. UNCHANGED <<sidecar, log, texts>> BY DEF Load, Save, Crash
<1>2. UNCHANGED <<sendQueue, loop, wired>> BY <1>1 DEF sidecar, link
<1>3. job' = NoRun \/ job' = [NoRun EXCEPT !.at = "start", !.copy = campaign]
  BY DEF Load, Save, Crash
<1>4. Typed' /\ job'.at \notin {"each", "wa", "sms", "text"}
  <2>1. /\ job' = [at |-> job'.at, copy |-> job'.copy, tried |-> job'.tried, left |-> job'.left,
                   without |-> job'.without, batch |-> job'.batch, sub |-> job'.sub]
        /\ job'.at \in {"idle", "start"} /\ job'.left = {}
    BY <1>3, NothingTried
  <2>2. Typed' BY <1>1, <1>2, <2>1 DEF IInv, Typed
  <2> QED BY <2>1, <2>2
<1> QED BY <1>1, <1>4, Rests

LEMMA StartInv == ASSUME IInv, Start PROVE IInv'
<1>1. UNCHANGED <<sidecar, log, texts>> BY DEF Start
<1>2. UNCHANGED <<sendQueue, loop, wired>> BY <1>1 DEF sidecar, link
<1>3. job'.at = "each" /\ job'.tried = Phones /\ job'.left = Subscribers /\ Typed'
  BY <1>1, <1>2 DEF Start, IInv, Typed, Tried
<1>4. SmsLogged' BY <1>1, <1>3 DEF IInv, SmsLogged
<1>5. LeftUntried'
  <2> SUFFICES ASSUME NEW s, s \notin Phones PROVE <<s, "whatsapp">> \notin log /\ <<s, "sms">> \notin log
    BY <1>1, <1>3 DEF LeftUntried
  <2>1. \A x \in log : x[1] # s BY DEF Phones
  <2>2. <<s, "whatsapp">>[1] = s /\ <<s, "sms">>[1] = s OBVIOUS
  <2> QED BY <2>1, <2>2
<1> QED BY <1>1, <1>3, <1>4, <1>5, StaysOff DEF IInv

LEMMA EachInv == ASSUME IInv, NEW s \in Subscribers, Each(s) PROVE IInv'
<1>1. UNCHANGED <<sidecar, texts>> /\ job.at = "each" /\ s \in job.left BY DEF Each
<1>2. UNCHANGED <<sendQueue, loop, wired>> BY <1>1 DEF sidecar, link
<1>3. /\ job.left \subseteq Subscribers /\ job'.left = job.left \ {s} /\ job'.tried = job.tried
      /\ job'.at \in {"each", "wa", "sms"} /\ (job'.at # "each" => job'.sub = s /\ s \notin job.tried)
      /\ IF job'.at = "wa" THEN log' = log \union {<<s, "whatsapp">>} ELSE log' = log
      /\ job' = [at |-> job'.at, copy |-> job'.copy, tried |-> job'.tried, left |-> job'.left,
                 without |-> job'.without, batch |-> job'.batch, sub |-> job'.sub]
  BY <1>1 DEF Each, IInv, Typed, Back, AfterWhatsApp
<1>4. Typed' BY <1>1, <1>2, <1>3 DEF IInv, Typed
<1>5. s \notin job.tried => <<s, "whatsapp">> \notin log /\ <<s, "sms">> \notin log
  BY <1>1 DEF IInv, LeftUntried
<1>6. SmsLogged' BY <1>1, <1>3, <1>5 DEF IInv, SmsLogged
<1>7. LeftUntried'
  <2> SUFFICES ASSUME NEW t \in job.left \ job.tried, t # s
               PROVE  <<t, "whatsapp">> \notin log' /\ <<t, "sms">> \notin log'
    BY <1>3 DEF LeftUntried
  <2>1. <<t, "whatsapp">> \notin log /\ <<t, "sms">> \notin log BY <1>1 DEF IInv, LeftUntried
  <2>2. <<t, "whatsapp">> # <<s, "whatsapp">> /\ <<t, "sms">> # <<s, "whatsapp">> OBVIOUS
  <2> QED BY <1>3, <2>1, <2>2
<1>8. CASE job'.at # "wa" BY <1>1, <1>3, <1>4, <1>6, <1>7, <1>8, StaysOff DEF IInv
<1>9. CASE job'.at = "wa"
  <2>1. Once(sendQueue, loop, wired)'
    BY <1>2 DEF IInv, Once, QueuedOnce, HeldOnce, OnWire, Queued, Held, Sends
  <2>2. ~Queued(sendQueue, s) /\ ~Held(loop, s) /\ wired[s] = 0
    BY <1>3, <1>5, <1>9, CampaignsAssumption DEF IInv, WhatsAppLogged, Once, OnWire
  <2>3. WhatsAppLogged'
    <3> SUFFICES ASSUME NEW t \in Messages
                 PROVE  /\ t = s => ~Queued(sendQueue, t) /\ ~Held(loop, t) /\ wired[t] = 0
                        /\ t = s \/ Queued(sendQueue, t) \/ Held(loop, t) \/ wired[t] = 1
                           => <<t, "whatsapp">> \in log'
      BY <1>2, <1>3, <1>9 DEF WhatsAppLogged, Handing, Queued, Held, Sends
    <3> QED BY <1>3, <1>9, <2>2 DEF IInv, WhatsAppLogged
  <2> QED BY <1>4, <1>6, <1>7, <2>1, <2>3 DEF IInv
<1> QED BY <1>8, <1>9

LEMMA HandInv == ASSUME IInv, Hand PROVE IInv'
<1> DEFINE m == job.sub
<1>1. job.at = "wa" /\ Send(m) /\ UNCHANGED <<log, texts>> BY DEF Hand
<1>2. m \in Messages /\ ~Queued(sendQueue, m) /\ ~Held(loop, m) /\ wired[m] = 0
  BY <1>1, CampaignsAssumption DEF IInv, Typed, WhatsAppLogged, Handing
<1>3. /\ job'.at \in {"each", "sms"} /\ job'.left = job.left /\ job'.tried = job.tried
      /\ job'.at = "sms" => job'.sub = m
      /\ job' = [at |-> job'.at, copy |-> job'.copy, tried |-> job'.tried, left |-> job'.left,
                 without |-> job'.without, batch |-> job'.batch, sub |-> job'.sub]
  BY DEF Hand, IInv, Typed, AfterWhatsApp, Back
<1>4. /\ sendQueue' \in Seq(Messages) /\ loop' = [h \in Objects |-> loop'[h]] /\ wired' = wired
      /\ Once(sendQueue', loop', wired)
      /\ \A s \in Messages : Queued(sendQueue', s) \/ Held(loop', s)
                             => Queued(sendQueue, s) \/ Held(loop, s) \/ s = m
  <2>1. CASE UNCHANGED sidecar
    BY <2>1 DEF sidecar, link, IInv, Typed
  <2>2. CASE Drained(session, Append(sendQueue, m)) /\ UNCHANGED wired
    <3>1. /\ Append(sendQueue, m) \in Seq(Messages) /\ Once(Append(sendQueue, m), loop, wired)
          /\ \A s \in Messages : Queued(Append(sendQueue, m), s) => Queued(sendQueue, s) \/ s = m
      BY <1>2, Appended DEF IInv, Typed
    <3> QED BY <2>2, <3>1, DrainedOnce DEF IInv, Typed
  <2> QED BY <1>1, <2>1, <2>2 DEF Send
<1>5. Typed' BY <1>1, <1>3, <1>4 DEF IInv, Typed
<1>6. Once(sendQueue, loop, wired)'
  BY <1>4 DEF Once, QueuedOnce, HeldOnce, OnWire, Queued, Held, Sends
<1>7. WhatsAppLogged'
  <2> SUFFICES ASSUME NEW s \in Messages, Queued(sendQueue', s) \/ Held(loop', s) \/ wired'[s] = 1
               PROVE  <<s, "whatsapp">> \in log
    BY <1>1, <1>3 DEF WhatsAppLogged, Handing, Queued, Held, Sends
  <2>1. <<m, "whatsapp">> \in log BY <1>1, <1>2 DEF IInv, WhatsAppLogged, Handing
  <2> QED BY <1>4, <2>1 DEF IInv, WhatsAppLogged
<1>8. SmsLogged' BY <1>1, <1>3 DEF IInv, SmsLogged
<1>9. LeftUntried' BY <1>1, <1>3 DEF IInv, LeftUntried
<1> QED BY <1>5, <1>6, <1>7, <1>8, <1>9 DEF IInv

LEMMA NoteInv == ASSUME IInv, Note PROVE IInv'
<1> DEFINE m == job.sub
<1>1. /\ job.at = "sms" /\ UNCHANGED <<sidecar, texts>> /\ log' = log \union {<<m, "sms">>}
      /\ job' = [job EXCEPT !.at = "text"] /\ m \in Subscribers \ job.left
  BY DEF Note, IInv, Typed
<1>2. UNCHANGED <<sendQueue, loop, wired>> BY <1>1 DEF sidecar, link
<1>3. Typed' /\ job'.at = "text" /\ job'.sub = m /\ job'.left = job.left /\ job'.tried = job.tried
  BY <1>1, <1>2 DEF IInv, Typed
<1>4. SmsLogged' BY <1>1, <1>3 DEF IInv, SmsLogged
<1>5. LeftUntried'
  <2> SUFFICES ASSUME NEW t \in job.left \ job.tried
               PROVE  <<t, "whatsapp">> \notin log' /\ <<t, "sms">> \notin log'
    BY <1>3 DEF LeftUntried
  <2>1. <<t, "whatsapp">> \notin log /\ <<t, "sms">> \notin log BY <1>1 DEF IInv, LeftUntried
  <2>2. t # m /\ <<t, "whatsapp">> # <<m, "sms">> /\ <<t, "sms">> # <<m, "sms">> BY <1>1
  <2> QED BY <1>1, <2>1, <2>2
<1> QED BY <1>1, <1>3, <1>4, <1>5, StaysOff DEF IInv

LEMMA TextInv == ASSUME IInv, NEW ok \in BOOLEAN, Text(ok) PROVE IInv'
<1> DEFINE m == job.sub
<1>1. /\ job.at = "text" /\ UNCHANGED <<sidecar, log>> /\ m \in Subscribers
      /\ texts' = IF ok THEN [texts EXCEPT ![m] = @ + 1] ELSE texts
  BY DEF Text, IInv, Typed
<1>2. UNCHANGED <<sendQueue, loop, wired>> BY <1>1 DEF sidecar, link
<1>3. /\ job'.at = "each" /\ job'.left = job.left /\ job'.tried = job.tried
      /\ job' = [at |-> job'.at, copy |-> job'.copy, tried |-> job'.tried, left |-> job'.left,
                 without |-> job'.without, batch |-> job'.batch, sub |-> job'.sub]
  BY DEF Text, IInv, Typed, Back
<1>4. texts' = [s \in Subscribers |-> texts'[s]]
      /\ \A s \in Subscribers : texts'[s] = texts[s] \/ (s = m /\ texts'[s] = texts[s] + 1)
  BY <1>1 DEF IInv, Typed
<1>5. Typed' BY <1>1, <1>2, <1>3, <1>4 DEF IInv, Typed
<1>6. SmsLogged' BY <1>1, <1>3, <1>4 DEF IInv, SmsLogged
<1>7. LeftUntried' BY <1>1, <1>3 DEF IInv, LeftUntried
<1> QED BY <1>1, <1>3, <1>5, <1>6, <1>7, StaysOff DEF IInv

-----------------------------------------------------------------------------
(* The theorem                                                             *)

LEMMA NextInv == IInv /\ [Next]_vars => IInv'
<1> SUFFICES ASSUME IInv, [Next]_vars PROVE IInv' OBVIOUS
<1>1. CASE Advance BY <1>1, StartInv, EachInv, HandInv, NoteInv, TextInv, RunInv DEF Advance
<1>2. CASE Linked BY <1>2, SidecarStepInv DEF Linked
<1>3. CASE (\E ch \in Channels : Create(ch)) \/ Cancel \/ \E s \in Subscribers : Prefer(s)
  BY <1>3, ManagedInv
<1>4. CASE Load \/ Crash BY <1>4, RunInv
<1>5. CASE UNCHANGED vars
  <2>1. UNCHANGED <<sendQueue, loop, wired>> /\ UNCHANGED broadcast
    BY <1>5 DEF vars, sidecar, link
  <2>2. /\ sendQueue \in Seq(Messages) /\ loop = [h \in Objects |-> loop[h]]
        /\ wired = [s \in Messages |-> wired[s]] /\ Once(sendQueue, loop, wired)
    BY DEF IInv, Typed
  <2> QED BY <2>1, <2>2, MovesOn
<1> QED BY <1>1, <1>2, <1>3, <1>4, <1>5 DEF Next

\* The log comes before the message, so nobody gets a campaign twice by one
\* channel, through kills, lost connections and restarts (process_broadcasts,
\* drainQueue).
THEOREM NobodyTwice == Spec => []SentAtMostOnce
<1>1. IInv => SentAtMostOnce
  <2> SUFFICES ASSUME IInv, NEW s \in Subscribers PROVE texts[s] <= 1 /\ wired[s] <= 1
    BY DEF SentAtMostOnce
  <2>1. texts[s] \in {0, 1} BY DEF IInv, SmsLogged
  <2>2. wired[s] \in {0, 1} BY CampaignsAssumption DEF IInv, Once, OnWire
  <2> QED BY <2>1, <2>2
<1> QED BY <1>1, InitInv, NextInv, PTL DEF Spec

-----------------------------------------------------------------------------
(* The inbox                                                               *)

\* The job of the worker is in the window, and between answer and tools it has
\* a step left.
JobFits(w, runs) ==
  w # Nobody => (w.at = "tools" => w.steps < MaxSteps) /\ runs.failed < runs.total

InboxTyped ==
  /\ InboxType /\ IsFiniteSet(unseen)
  /\ \A t \in Tabs : tab[t] # Nobody /\ tab[t].op = "send" => tab[t].i \in DOMAIN replies
  /\ JobFits(worker, window)

-----------------------------------------------------------------------------
(* Types                                                                   *)

\* A thread that is typed gives a typed copy.
LEMMA CopyType == ASSUME NEW c \in Threads PROVE Copy(c) \in Copies
BY DEF Threads, Copies, Copy

\* What a run saves of its copy.
LEMMA OutboundType ==
  ASSUME InboxTyped, NEW copy \in Copies, NEW human \in BOOLEAN
  PROVE  Outbound(copy, human) \in Threads
BY DEF InboxTyped, InboxType, Outbound, Threads, Copies

LEMMA CopyOfThread == ASSUME InboxTyped PROVE Outbound(thread, FALSE) \in Threads
BY DEF InboxTyped, InboxType, Outbound, Threads, Copies

LEMMA NewThreadType == ASSUME NEW n \in Nat PROVE NewThread(n) \in Threads
BY DEF NewThread, Threads, States, Steps

LEMMA NewJobType ==
  ASSUME NEW copy \in Copies, NEW entry \in Steps \ {"unset"}
  PROVE  [copy |-> copy, at |-> "think", entry |-> entry, steps |-> 0,
          batch |-> 0, said |-> FALSE, gave |-> FALSE] \in Jobs
<1>1. 0 \in 0..MaxSteps /\ 0 \in 0..MaxBatch BY InboxAssumption
<1> QED BY <1>1 DEF Jobs

LEMMA ReplyType ==
  ASSUME NEW auto \in BOOLEAN, NEW ai \in BOOLEAN, NEW draft \in BOOLEAN
  PROVE  Reply(auto, ai, draft) \in Replies
BY DEF Reply, Replies

\* A reply more.
LEMMA OneReplyMore ==
  ASSUME InboxTyped, NEW r \in Replies
  PROVE  /\ Append(replies, r) \in Seq(Replies)
         /\ Len(Append(replies, r)) = Len(replies) + 1
         /\ \A i \in DOMAIN replies : Append(replies, r)[i] = replies[i]
         /\ Append(replies, r)[Len(replies) + 1] = r
         /\ DOMAIN replies \subseteq DOMAIN Append(replies, r)
         /\ DOMAIN Append(replies, r) = DOMAIN replies \cup {Len(replies) + 1}
         /\ today \in 1..(Len(Append(replies, r)) + 1)
BY AppendProperties DEF InboxTyped, InboxType

LEMMA ReceivedType == ASSUME InboxTyped PROVE Received(thread) \in Threads
<1> DEFINE linked == thread.linked \/ client
           state == IF thread.state = "resolved" THEN "open" ELSE thread.state
<1>0. thread \in Threads BY DEF InboxTyped, InboxType
<1>1. linked \in BOOLEAN /\ state \in States /\ thread.unread + 1 \in Nat BY <1>0 DEF Threads, States
<1>2. Received(thread) = [thread EXCEPT !.there = TRUE, !.unread = @ + 1, !.linked = linked, !.state = state]
  BY DEF Received
<1> HIDE DEF linked, state
<1> QED BY <1>0, <1>1, <1>2 DEF Threads

LEMMA HooksTyped ==
  ASSUME InboxTyped, NEW d \in Deliveries, Arrive(d) \/ Record(d)
  PROVE  InboxTyped'
<1> USE DEF InboxTyped, InboxType
<1>1. CASE Arrive(d) BY <1>1 DEF Arrive, people, agent, world
<1>2. CASE Record(d)
  <2>1. thread' \in Threads BY <1>2, ReceivedType DEF Record
  <2>2. queue' \in Seq(Deliveries) BY <1>2, AppendProperties DEF Record
  <2>3. IsFiniteSet(unseen') BY <1>2, FS_AddElement DEF Record
  <2> QED BY <1>2, <2>1, <2>2, <2>3 DEF Record, world
<1> QED BY <1>1, <1>2

LEMMA BeginsTyped ==
  ASSUME InboxTyped, NEW t \in Tabs, Begins(t)
  PROVE  InboxTyped'
<1> USE InboxAssumption DEF Click
<1>0. Copy(thread) \in Copies BY CopyType DEF InboxTyped, InboxType
<1>c. clicks \in 0..MaxClicks /\ clicks + 1 \in Nat BY DEF InboxTyped, InboxType
<1>1. CASE Open(t)
  <2>1. [op |-> "read", copy |-> Copy(thread), shown |-> rows, i |-> 0] \in Errands
    BY <1>0 DEF Errands, InboxTyped, InboxType
  <2> QED BY <1>1, <1>0, <2>1 DEF Open, InboxTyped, InboxType, agent
<1>2. CASE Answer(t)
  <2>1. Outbound(thread, TRUE) \in Threads BY DEF Outbound, Threads, States, InboxTyped, InboxType
  <2>2. IsFiniteSet({}) BY FS_EmptySet
  <2>3. Reply(FALSE, FALSE, FALSE) \in Replies BY ReplyType
  <2>4. replies' = Append(replies, Reply(FALSE, FALSE, FALSE)) BY <1>2 DEF Answer
  <2>5. /\ replies' \in Seq(Replies) /\ DOMAIN replies \subseteq DOMAIN replies'
        /\ today \in 1..(Len(replies') + 1)
    BY <2>3, <2>4, OneReplyMore
  <2>6. clicks' \in 0..MaxClicks BY <1>2, <1>c DEF Answer
  <2>7. thread' \in Threads BY <1>2, <2>1 DEF Answer
  <2>8. InboxType' BY <1>2, <2>5, <2>6, <2>7 DEF Answer, InboxTyped, InboxType, agent
  <2> QED BY <1>2, <2>2, <2>5, <2>8 DEF Answer, InboxTyped, agent
<1>3. CASE Mark(t)
  <2>1. thread' \in Threads BY <1>3, ZenonT(40) DEF Mark, Threads, States, InboxTyped, InboxType
  <2>2. handed' \in BOOLEAN BY <1>3 DEF Mark, InboxTyped, InboxType
  <2> QED BY <1>3, <2>1, <2>2, SMTT(30) DEF Mark, InboxTyped, InboxType, people
<1>4. CASE AskDelete(t)
  <2>1. [op |-> "drop", copy |-> Copy(thread), shown |-> {}, i |-> 0] \in Errands
    BY <1>0 DEF Errands
  <2> QED BY <1>4, <1>0, <2>1 DEF AskDelete, InboxTyped, InboxType, agent
<1>5. ASSUME NEW i \in DOMAIN replies, Approve(t, i) PROVE InboxTyped'
  <2>1. [op |-> "send", copy |-> Copy(thread), shown |-> {}, i |-> i] \in Errands
    BY <1>0 DEF Errands, InboxTyped, InboxType
  <2>2. /\ replies' \in Seq(Replies) /\ DOMAIN replies' = DOMAIN replies
        /\ Len(replies') = Len(replies)
    <3>0. replies[i] \in Replies BY DEF InboxTyped, InboxType
    <3>1. [replies[i] EXCEPT !.wired = @ + 1] \in Replies BY <3>0 DEF Replies
    <3>2. replies' = [replies EXCEPT ![i] = [replies[i] EXCEPT !.wired = @ + 1]] BY <1>5 DEF Approve
    <3> QED BY <3>1, <3>2, ExceptSeq DEF InboxTyped, InboxType
  <2> QED BY <1>5, <1>0, <2>1, <2>2, SMTT(30) DEF Approve, InboxTyped, InboxType, agent
<1>6. ASSUME NEW i \in DOMAIN replies, Discard(t, i) PROVE InboxTyped'
  <2>1. thread' \in Threads BY <1>6 DEF Discard, Threads, States, InboxTyped, InboxType
  <2>2. /\ replies' \in Seq(Replies) /\ DOMAIN replies' = DOMAIN replies
        /\ Len(replies') = Len(replies)
    <3>0. replies[i] \in Replies BY DEF InboxTyped, InboxType
    <3>1. [replies[i] EXCEPT !.draft = FALSE, !.kept = FALSE] \in Replies BY <3>0 DEF Replies
    <3>2. replies' = [replies EXCEPT ![i] = [replies[i] EXCEPT !.draft = FALSE, !.kept = FALSE]]
      BY <1>6 DEF Discard
    <3> QED BY <3>1, <3>2, ExceptSeq DEF InboxTyped, InboxType
  <2> QED BY <1>6, <2>1, <2>2, SMTT(30) DEF Discard, InboxTyped, InboxType, agent, people
<1> QED BY <1>1, <1>2, <1>3, <1>4, <1>5, <1>6 DEF Begins

LEMMA EndsTyped ==
  ASSUME InboxTyped, NEW t \in Tabs, Ends(t)
  PROVE  InboxTyped'
<1>1. CASE ClearUnread(t)
  <2>1. thread' \in Threads BY <1>1 DEF ClearUnread, Threads, States, InboxTyped, InboxType
  <2>2. IsFiniteSet(unseen') BY <1>1, FS_Subset DEF ClearUnread, InboxTyped
  <2> QED BY <1>1, <2>1, <2>2 DEF ClearUnread, InboxTyped, InboxType, agent, world
<1>2. CASE Delete(t)
  <2>0. thread \in Threads /\ thread.gen + 1 \in Nat BY DEF InboxTyped, InboxType, Threads
  <2>1. thread' \in Threads BY <1>2, <2>0, NewThreadType DEF Delete
  <2>2. IsFiniteSet(unseen') /\ unseen' \subseteq rows' /\ rows' \subseteq Deliveries
    BY <1>2, FS_EmptySet DEF Delete, InboxTyped, InboxType
  <2>3. /\ replies' \in Seq(Replies) /\ DOMAIN replies' = DOMAIN replies
        /\ Len(replies') = Len(replies)
    <3> DEFINE dropped == [i \in DOMAIN replies |-> [replies[i] EXCEPT !.kept = FALSE, !.draft = FALSE]]
    <3>0. Len(replies) \in Nat /\ DOMAIN replies = 1..Len(replies) BY DEF InboxTyped, InboxType
    <3>1. \A i \in 1..Len(replies) : [replies[i] EXCEPT !.kept = FALSE, !.draft = FALSE] \in Replies
      <4> TAKE i \in 1..Len(replies)
      <4>1. replies[i] \in Replies BY DEF InboxTyped, InboxType
      <4> QED BY <4>1 DEF Replies
    <3>2. dropped \in [1..Len(replies) -> Replies] BY <3>0, <3>1
    <3> HIDE DEF dropped
    <3>4. dropped \in Seq(Replies) BY <3>0, <3>2, SeqDef
    <3>5. DOMAIN dropped = 1..Len(dropped) /\ Len(dropped) \in Nat BY <3>4, LenProperties
    <3>6. Len(dropped) = Len(replies) /\ DOMAIN dropped = DOMAIN replies BY <3>0, <3>2, <3>5
    <3>3. replies' = replies \/ replies' = dropped BY <1>2 DEF Delete, dropped
    <3> QED BY <3>3, <3>4, <3>6 DEF InboxTyped, InboxType
  <2>4. handed' \in BOOLEAN BY <1>2 DEF Delete, InboxTyped, InboxType
  <2> QED BY <1>2, <2>1, <2>2, <2>3, <2>4 DEF Delete, InboxTyped, InboxType, world
<1>3. CASE Sent(t)
  <2>0. tab[t] \in Errands /\ tab[t].i \in DOMAIN replies BY <1>3 DEF Sent, InboxTyped, InboxType
  <2>1. thread' \in Threads BY <1>3 DEF Sent, Threads, States, InboxTyped, InboxType
  <2>2. /\ replies' \in Seq(Replies) /\ DOMAIN replies' = DOMAIN replies
        /\ Len(replies') = Len(replies)
    <3> DEFINE i == tab[t].i
    <3>0. replies[i] \in Replies BY <2>0 DEF InboxTyped, InboxType
    <3>1. [replies[i] EXCEPT !.draft = FALSE] \in Replies BY <3>0 DEF Replies
    <3>2. replies' = [replies EXCEPT ![i] = [replies[i] EXCEPT !.draft = FALSE]] BY <1>3 DEF Sent
    <3> QED BY <2>0, <3>1, <3>2, ExceptSeq DEF InboxTyped, InboxType
  <2> QED BY <1>3, <2>1, <2>2 DEF Sent, InboxTyped, InboxType, agent, world
<1> QED BY <1>1, <1>2, <1>3 DEF Ends

\* The steps of the worker and of time.
LEMMA TakeTyped == ASSUME InboxTyped, Take PROVE InboxTyped'
<1>1. queue' \in Seq(Deliveries) /\ Head(queue) \in Deliveries
  BY HeadTailProperties DEF Take, InboxTyped, InboxType
<1>2. CASE ~Routed(Head(queue))
  BY <1>1, <1>2 DEF Take, InboxTyped, InboxType, world, people
<1>3. CASE Routed(Head(queue))
  <2>1. PICK old \in BOOLEAN :
          LET c == Promoted(Reset(thread, old)) IN
            /\ thread' = c
            /\ worker' = [copy |-> Copy(c), at |-> "think", entry |-> Entry(c), steps |-> 0,
                          batch |-> 0, said |-> FALSE, gave |-> FALSE]
            /\ window' = [window EXCEPT !.total = @ + 1]
    BY <1>3 DEF Take
  <2> DEFINE c == Promoted(Reset(thread, old))
  <2>2. Reset(thread, old) \in Threads BY DEF Reset, Threads, Steps, InboxTyped, InboxType
  <2>3. c \in Threads BY <2>2 DEF Promoted, Threads, Steps
  <2> HIDE DEF c
  <2>4. Copy(c) \in Copies BY <2>3, CopyType
  <2>5. Entry(c) \in Steps \ {"unset"} BY <2>3 DEF Entry, Threads, Steps
  <2>6. worker' = [copy |-> Copy(c), at |-> "think", entry |-> Entry(c), steps |-> 0,
                   batch |-> 0, said |-> FALSE, gave |-> FALSE]
    BY <2>1 DEF c
  <2>7. worker' \in Jobs /\ worker'.at = "think" BY <2>4, <2>5, <2>6, NewJobType
  <2>8. window' \in [total : Nat, failed : Nat] /\ window'.failed < window'.total
    BY <2>1 DEF InboxTyped, InboxType
  <2>9. thread' \in Threads BY <2>1, <2>3 DEF c
  <2> QED BY <1>1, <2>7, <2>8, <2>9 DEF Take, InboxTyped, InboxType, world, people, JobFits
<1> QED BY <1>2, <1>3

\* The row a run adds.
Added(label) == IF Drafting THEN Reply(FALSE, TRUE, TRUE) ELSE Reply(TRUE, label = "ai", FALSE)

LEMMA AddedType ==
  ASSUME NEW label
  PROVE  /\ Added(label) \in Replies
         /\ Added(label).auto <=> ~Drafting
         /\ Added(label).ai <=> Drafting \/ label = "ai"
<1>1. (label = "ai") \in BOOLEAN /\ TRUE \in BOOLEAN /\ FALSE \in BOOLEAN OBVIOUS
<1>2. Reply(FALSE, TRUE, TRUE) \in Replies /\ Reply(TRUE, label = "ai", FALSE) \in Replies BY <1>1, ReplyType
<1>3. Added(label) \in Replies BY <1>2 DEF Added
<1> QED BY <1>3 DEF Added, Reply

\* What a run writes: the reply, and the columns of its copy.
LEMMA WriteType ==
  ASSUME InboxTyped, NEW copy \in Copies, NEW label, Write(copy, label)
  PROVE  /\ replies' = Append(replies, Added(label))
         /\ thread' \in Threads /\ thread'.ai = thread.ai
         /\ thread'.unread = Read(copy, label) /\ Read(copy, label) \in Nat
         /\ replies' \in Seq(Replies)
         /\ DOMAIN replies \subseteq DOMAIN replies' /\ today \in 1..(Len(replies') + 1)
<1>0. thread \in Threads BY DEF InboxTyped, InboxType
<1>1. replies' = Append(replies, Added(label)) BY DEF Write, Added
<1>2. /\ replies' \in Seq(Replies)
      /\ DOMAIN replies \subseteq DOMAIN replies' /\ today \in 1..(Len(replies') + 1)
  BY <1>1, AddedType, OneReplyMore
<1>3. Read(copy, label) \in Nat BY DEF Read, Copies
<1>4. CASE Drafting
  <2>1. thread' = [Outbound(copy, FALSE) EXCEPT !.state = "ai_drafted"] BY <1>4 DEF Write
  <2>2. Outbound(copy, FALSE) \in Threads BY OutboundType
  <2>3. Outbound(copy, FALSE).ai = thread.ai /\ Outbound(copy, FALSE).unread = copy.unread
    BY <1>0 DEF Outbound, Threads
  <2>4. thread' \in Threads /\ thread'.ai = thread.ai /\ thread'.unread = copy.unread
    BY <2>1, <2>2, <2>3 DEF Threads, States
  <2> QED BY <1>1, <1>2, <1>3, <1>4, <2>4 DEF Read
<1>5. CASE ~Drafting
  <2>1. thread' = Outbound(copy, label = "human_staff") BY <1>5 DEF Write
  <2>2. thread' \in Threads BY <2>1, OutboundType
  <2>3. thread'.ai = thread.ai /\ thread'.unread = IF label = "human_staff" THEN 0 ELSE copy.unread
    BY <1>0, <2>1 DEF Outbound, Threads
  <2> QED BY <1>1, <1>2, <1>3, <1>5, <2>2, <2>3 DEF Read
<1> QED BY <1>4, <1>5

\* The job of a run that has answered.
LEMMA SaidJob ==
  ASSUME NEW w \in Jobs, NEW n \in Nat
  PROVE  LET s == [w EXCEPT !.said = TRUE, !.copy.unread = n] IN
         /\ s \in Jobs /\ s.at = w.at /\ s.steps = w.steps /\ s.entry = w.entry /\ s.gave = w.gave
         /\ s.copy.linked = w.copy.linked /\ s.copy.unread = n
<1> DEFINE c == [w.copy EXCEPT !.unread = n]
<1>1. c \in Copies /\ c.linked = w.copy.linked /\ c.unread = n BY DEF Jobs, Copies
<1>2. [w EXCEPT !.said = TRUE, !.copy.unread = n] = [w EXCEPT !.said = TRUE, !.copy = c] BY DEF Jobs
<1> HIDE DEF c
<1>3. /\ [w EXCEPT !.said = TRUE, !.copy = c] \in Jobs
      /\ [w EXCEPT !.said = TRUE, !.copy = c].copy = c
  BY <1>1 DEF Jobs
<1>4. LET s == [w EXCEPT !.said = TRUE, !.copy = c] IN
      s.at = w.at /\ s.steps = w.steps /\ s.entry = w.entry /\ s.gave = w.gave
  BY DEF Jobs
<1> QED BY <1>1, <1>2, <1>3, <1>4

LEMMA CallTyped == ASSUME InboxTyped, Call PROVE InboxTyped'
<1> DEFINE w == [worker EXCEPT !.at = "tools", !.batch = @ + 1]
<1>0. /\ worker \in Jobs /\ worker # Nobody /\ worker.batch \in 0..MaxBatch /\ worker.batch < MaxBatch /\ worker.steps < MaxSteps
      /\ worker.copy \in Copies
  BY DEF Call, InboxTyped, InboxType, Jobs, JobFits
<1>1. w \in Jobs /\ w.at = "tools" /\ w.copy = worker.copy /\ w.steps = worker.steps
  <2>1. worker.batch + 1 \in 0..MaxBatch BY <1>0, InboxAssumption
  <2>2. w = [worker EXCEPT !.at = "tools", !.batch = worker.batch + 1] OBVIOUS
  <2> HIDE DEF w
  <2> QED BY <1>0, <2>1, <2>2 DEF Jobs
<1>2. /\ UNCHANGED <<rows, today, hook, world, people, queue, paused, window>> /\ Tool(w)
  BY DEF Call
<1> HIDE DEF w
<1>3. /\ thread' \in Threads /\ handed' \in BOOLEAN /\ links' \subseteq {Price}
      /\ replies' \in Seq(Replies) /\ DOMAIN replies \subseteq DOMAIN replies'
      /\ today \in 1..(Len(replies') + 1)
      /\ worker' \in Jobs /\ worker'.at = "tools" /\ worker'.steps = worker.steps
  <2>1. CASE Say(w)
    <3>1. PICK label \in Labels : /\ Write(w.copy, label) /\ UNCHANGED <<links, handed>>
                                  /\ worker' = [w EXCEPT !.said = TRUE, !.copy.unread = Read(w.copy, label)]
      BY <2>1 DEF Say
    <3> DEFINE n == Read(w.copy, label)
    <3>2. /\ thread' \in Threads /\ replies' \in Seq(Replies) /\ n \in Nat
          /\ DOMAIN replies \subseteq DOMAIN replies' /\ today \in 1..(Len(replies') + 1)
      BY <1>0, <1>1, <3>1, WriteType
    <3>3. worker' = [w EXCEPT !.said = TRUE, !.copy.unread = n] BY <3>1
    <3> HIDE DEF n
    <3>4. worker' \in Jobs /\ worker'.at = "tools" /\ worker'.steps = worker.steps
      BY <1>1, <3>2, <3>3, SaidJob
    <3> QED BY <3>1, <3>2, <3>4 DEF InboxTyped, InboxType
  <2>2. CASE Escalate(w)
    <3>1. worker' = [w EXCEPT !.gave = TRUE] BY <2>2 DEF Escalate
    <3>2. worker' \in Jobs /\ worker'.at = "tools" /\ worker'.steps = worker.steps BY <1>1, <3>1 DEF Jobs
    <3>3. thread' \in Threads BY <2>2 DEF Escalate, Escalated, Threads, States, InboxTyped, InboxType
    <3> QED BY <2>2, <3>2, <3>3 DEF Escalate, InboxTyped, InboxType
  <2>3. CASE SetStep(w)
    <3>1. PICK s \in Steps \ {"unset"} : thread' = [thread EXCEPT !.step = s] /\ worker' = [w EXCEPT !.copy.step = s]
      BY <2>3 DEF SetStep
    <3>2. [w.copy EXCEPT !.step = s] \in Copies BY <1>0, <1>1 DEF Copies
    <3>3. worker' = [w EXCEPT !.copy = [w.copy EXCEPT !.step = s]] BY <3>1
    <3>4. worker' \in Jobs /\ worker'.at = "tools" /\ worker'.steps = worker.steps
      BY <1>1, <3>2, <3>3 DEF Jobs
    <3>5. thread' \in Threads BY <3>1 DEF Threads, InboxTyped, InboxType
    <3> QED BY <2>3, <3>4, <3>5 DEF SetStep, InboxTyped, InboxType
  <2>4. CASE Link(w)
    <3>1. links' \subseteq {Price} BY <2>4 DEF Link, InboxTyped, InboxType
    <3> QED BY <1>1, <2>4, <3>1 DEF Link, InboxTyped, InboxType
  <2>5. CASE Look(w) BY <1>1, <2>5 DEF Look, InboxTyped, InboxType
  <2> QED BY <1>2, <2>1, <2>2, <2>3, <2>4, <2>5 DEF Tool
<1>4. InboxType' BY <1>2, <1>3 DEF InboxTyped, InboxType, world, people
<1> QED BY <1>0, <1>2, <1>3, <1>4 DEF InboxTyped, JobFits, people

LEMMA RunsTyped ==
  ASSUME InboxTyped, More \/ Done \/ Fail \/ Kill
  PROVE  InboxTyped'
<1>1. CASE More
  <2>0. /\ worker \in Jobs /\ worker # Nobody
        /\ worker.steps \in 0..MaxSteps /\ worker.steps < MaxSteps
    BY <1>1 DEF More, InboxTyped, InboxType, JobFits, Jobs
  <2>1. worker.steps + 1 \in 0..MaxSteps /\ 0 \in 0..MaxBatch BY <2>0, InboxAssumption
  <2>2. worker' = [worker EXCEPT !.at = "think", !.batch = 0, !.steps = worker.steps + 1]
    BY <1>1 DEF More
  <2>3. worker' \in Jobs /\ worker'.at = "think" BY <2>0, <2>1, <2>2 DEF Jobs
  <2> QED BY <1>1, <2>0, <2>3 DEF More, InboxTyped, InboxType, JobFits, world, people
<1>2. CASE Done
  <2>1. CASE UNCHANGED <<thread, replies>>
    BY <1>2, <2>1 DEF Done, InboxTyped, InboxType, JobFits, world, people
  <2>2. CASE ~UNCHANGED <<thread, replies>>
    <3>1. Write(worker.copy, "ai") BY <1>2, <2>2 DEF Done
    <3>2. worker.copy \in Copies BY <1>2 DEF Done, InboxTyped, InboxType, Jobs
    <3>3. /\ thread' \in Threads /\ replies' \in Seq(Replies)
          /\ DOMAIN replies \subseteq DOMAIN replies' /\ today \in 1..(Len(replies') + 1)
      BY <3>1, <3>2, WriteType
    <3> QED BY <1>2, <3>3 DEF Done, InboxTyped, InboxType, JobFits, world, people
  <2> QED BY <2>1, <2>2
<1>3. CASE Fail
  <2>1. window' \in [total : Nat, failed : Nat] /\ window'.failed <= window'.total
    BY <1>3 DEF Fail, InboxTyped, InboxType, JobFits
  <2>2. paused' \in BOOLEAN BY <1>3 DEF Fail, InboxTyped, InboxType
  <2> QED BY <1>3, <2>1, <2>2 DEF Fail, InboxTyped, InboxType, JobFits, world, people
<1>4. CASE Kill BY <1>4 DEF Kill, InboxTyped, InboxType, JobFits, world, people
<1> QED BY <1>1, <1>2, <1>3, <1>4

LEMMA WorldTyped ==
  ASSUME InboxTyped, Milestone \/ Switch \/ SignUp \/ Quarter \/ Midnight
  PROVE  InboxTyped'
<1>1. CASE Milestone
  <2>1. thread' \in Threads BY <1>1, CopyOfThread DEF Milestone
  <2>2. Reply(FALSE, TRUE, FALSE) \in Replies BY ReplyType
  <2>3. replies' = Append(replies, Reply(FALSE, TRUE, FALSE)) BY <1>1 DEF Milestone
  <2>4. /\ replies' \in Seq(Replies) /\ DOMAIN replies \subseteq DOMAIN replies'
        /\ today \in 1..(Len(replies') + 1)
    BY <2>2, <2>3, OneReplyMore
  <2> QED BY <1>1, <2>1, <2>4 DEF Milestone, InboxTyped, InboxType, world, people, agent
<1>2. CASE Switch
  <2>1. clicks' \in 0..MaxClicks BY <1>2, InboxAssumption DEF Switch, Click, InboxTyped, InboxType
  <2> QED BY <1>2, <2>1 DEF Switch, InboxTyped, InboxType, people
<1>3. CASE SignUp BY <1>3 DEF SignUp, InboxTyped, InboxType, people, agent
<1>4. CASE Quarter
  BY <1>4 DEF Quarter, InboxTyped, InboxType, JobFits, world, people
<1>5. CASE Midnight
  <2>1. Len(replies) + 1 \in 1..(Len(replies) + 1) BY DEF InboxTyped, InboxType
  <2> QED BY <1>5, <2>1 DEF Midnight, InboxTyped, InboxType, world, people, agent
<1> QED BY <1>1, <1>2, <1>3, <1>4, <1>5

LEMMA TypedStep == ASSUME InboxTyped, [InboxNext]_inbox PROVE InboxTyped'
<1>1. CASE UNCHANGED inbox BY <1>1 DEF inbox, world, people, agent, InboxTyped, InboxType
<1>2. CASE InboxNext
  BY <1>2, HooksTyped, BeginsTyped, EndsTyped, TakeTyped, CallTyped, RunsTyped, WorldTyped
  DEF InboxNext, Hooks, AgentRuns
<1> QED BY <1>1, <1>2

LEMMA TypedInit == InboxInit => InboxTyped
<1> SUFFICES ASSUME InboxInit PROVE InboxTyped OBVIOUS
<1>1. NewThread(0) \in Threads BY NewThreadType
<1>2. IsFiniteSet({}) BY FS_EmptySet
<1>3. <<>> \in Seq(Replies) /\ <<>> \in Seq(Deliveries) /\ Len(<<>>) = 0 BY EmptySeq
<1>4. 1 \in 1..(0 + 1) /\ 0 \in 0..MaxClicks BY InboxAssumption
<1>5. [total |-> 0, failed |-> 0] \in [total : Nat, failed : Nat] OBVIOUS
<1>6. InboxType
  <2>1. thread \in Threads /\ rows \subseteq Deliveries /\ unseen \subseteq rows BY <1>1 DEF InboxInit
  <2>2. replies \in Seq(Replies) /\ today \in 1..(Len(replies) + 1) /\ queue \in Seq(Deliveries)
    BY <1>3, <1>4 DEF InboxInit
  <2>3. hook \in [Deliveries -> {"away", "new", "done"}] BY DEF InboxInit
  <2>4. window \in [total : Nat, failed : Nat] /\ window.failed <= window.total BY <1>5 DEF InboxInit
  <2> QED BY <1>4, <2>1, <2>2, <2>3, <2>4 DEF InboxInit, InboxType
<1> QED BY <1>2, <1>6 DEF InboxInit, InboxTyped, JobFits

-----------------------------------------------------------------------------
(* The rails                                                               *)

\* The agent's own replies of the day.
Automatic(rs, from) == {i \in from..Len(rs) : rs[i].auto /\ rs[i].kept}

\* They count against the cap.
Labelled == \A i \in DOMAIN replies : replies[i].auto => replies[i].ai
CapCounted == RepliesCapped /\ Labelled

\* Who handed the thread over has switched its AI off, and only the run that
\* did it is still at work.
Railed ==
  /\ (mode # "label" => CapCounted) /\ SubscriberNotSoldTo
  /\ handed => ~thread.ai
  /\ handed /\ worker # Nobody => worker.gave

LEMMA CappedIs ==
  /\ RepliesCapped <=> Cardinality(Automatic(replies, today)) <= Cap
  /\ RepliesCapped' <=> Cardinality(Automatic(replies', today')) <= Cap
BY DEF RepliesCapped, Automatic

LEMMA SentFinite == ASSUME InboxTyped PROVE IsFiniteSet(SentToday) /\ IsFiniteSet(Automatic(replies, today))
<1>1. today \in Int /\ Len(replies) \in Int BY DEF InboxTyped, InboxType
<1>2. IsFiniteSet(today..Len(replies)) BY <1>1, FS_Interval
<1> QED BY <1>2, FS_Subset DEF SentToday, Automatic

\* Nothing is added to the day.
LEMMA CapFewer ==
  ASSUME InboxTyped, RepliesCapped, Automatic(replies', today') \subseteq Automatic(replies, today)
  PROVE  RepliesCapped'
<1>1. Cardinality(Automatic(replies', today')) <= Cardinality(Automatic(replies, today))
      /\ Cardinality(Automatic(replies', today')) \in Nat /\ Cardinality(Automatic(replies, today)) \in Nat
  BY SentFinite, FS_Subset, FS_CardinalityType
<1>2. Cardinality(Automatic(replies, today)) <= Cap BY CappedIs
<1>3. Cardinality(Automatic(replies', today')) <= Cap BY <1>1, <1>2, InboxAssumption
<1> QED BY <1>3, CappedIs

\* A reply more, by the agent itself only below the cap.
LEMMA CapOneMore ==
  ASSUME InboxTyped, CapCounted, today' = today, NEW r \in Replies,
         replies' = Append(replies, r), r.auto => ~CapReached /\ r.ai
  PROVE  CapCounted'
<1> DEFINE n == Len(replies)
<1>1. /\ Len(replies') = n + 1 /\ n \in Nat /\ today \in Nat
      /\ \A i \in 1..n : replies'[i] = replies[i]
      /\ replies'[n + 1] = r /\ today >= 1
  BY OneReplyMore DEF InboxTyped, InboxType
<1> HIDE DEF n
<1>2. \A i \in today..(n + 1) : i = n + 1 \/ (i \in today..n /\ i \in 1..n) BY <1>1
<1>5. DOMAIN replies = 1..n /\ DOMAIN replies' = 1..(n + 1)
  BY OneReplyMore, LenProperties DEF n, InboxTyped, InboxType
<1>6. Labelled' BY <1>1, <1>5 DEF CapCounted, Labelled
<1>3. CASE r.auto
  <2>7. \A i \in 1..n : replies[i].auto => replies[i].ai BY <1>5 DEF CapCounted, Labelled
  <2>1. Automatic(replies', today') \subseteq SentToday \cup {n + 1}
    BY <1>1, <1>2, <2>7 DEF Automatic, SentToday, n
  <2>0. IsFiniteSet(SentToday) /\ Cardinality(SentToday) \in Nat BY SentFinite, FS_CardinalityType
  <2>6. /\ IsFiniteSet(SentToday \cup {n + 1})
        /\ \/ Cardinality(SentToday \cup {n + 1}) = Cardinality(SentToday)
           \/ Cardinality(SentToday \cup {n + 1}) = Cardinality(SentToday) + 1
    BY <2>0, FS_AddElement
  <2>2. /\ IsFiniteSet(SentToday \cup {n + 1}) /\ Cardinality(SentToday) \in Nat
        /\ Cardinality(SentToday \cup {n + 1}) <= Cardinality(SentToday) + 1
    BY <2>0, <2>6
  <2>3. /\ Cardinality(Automatic(replies', today')) <= Cardinality(SentToday \cup {n + 1})
        /\ Cardinality(Automatic(replies', today')) \in Nat
        /\ Cardinality(SentToday \cup {n + 1}) \in Nat
    BY <2>1, <2>2, FS_Subset, FS_CardinalityType
  <2>4. Cardinality(SentToday) < Cap BY <1>3, <2>2, InboxAssumption DEF CapReached
  <2>5. Cardinality(Automatic(replies', today')) <= Cap BY <2>2, <2>3, <2>4, InboxAssumption
  <2> QED BY <1>6, <2>5, CappedIs DEF CapCounted
<1>4. CASE ~r.auto
  <2>1. Automatic(replies', today') \subseteq Automatic(replies, today)
    BY <1>1, <1>2, <1>4 DEF Automatic, n
  <2> QED BY <1>6, <2>1, CapFewer DEF CapCounted
<1> QED BY <1>3, <1>4

\* A step that adds no reply, takes up no job and leaves the hand-over as it was.
LEMMA RailsSame ==
  ASSUME InboxTyped, Railed, UNCHANGED mode, today' = today,
         DOMAIN replies' = DOMAIN replies, Len(replies') = Len(replies),
         \A i \in DOMAIN replies : /\ replies'[i].ai = replies[i].ai
                                   /\ replies'[i].auto = replies[i].auto
                                   /\ replies'[i].kept => replies[i].kept,
         worker' = worker \/ worker' = Nobody,
         handed' => handed /\ thread'.ai = thread.ai
  PROVE  Railed'
<1>1. Automatic(replies', today') \subseteq Automatic(replies, today)
  <2>1. \A i \in today..Len(replies) : i \in DOMAIN replies BY DEF InboxTyped, InboxType
  <2> QED BY <2>1 DEF Automatic
<1>2. Labelled => Labelled' BY DEF Labelled
<1> QED BY <1>1, <1>2, CapFewer DEF Railed, CapCounted, SubscriberNotSoldTo

\* A step of the run in progress that records no reply.
LEMMA RailsRun ==
  ASSUME InboxTyped, Railed, worker # Nobody, UNCHANGED <<mode, today, replies>>,
         worker'.copy.linked = worker.copy.linked, worker'.entry = worker.entry,
         handed' => (handed \/ worker'.gave) /\ ~thread'.ai, worker.gave => worker'.gave
  PROVE  Railed'
<1>1. CapCounted => CapCounted' BY DEF CapCounted, RepliesCapped, Labelled
<1> QED BY <1>1 DEF Railed, SubscriberNotSoldTo

\* A reply that a run writes, under the label of the schema unless the model
\* is free to choose it.
LEMMA RailsWrite ==
  ASSUME InboxTyped, Railed, worker # Nobody, NEW copy \in Copies, NEW label, Write(copy, label),
         UNCHANGED <<mode, today, handed>>, ToSchema \/ label = "ai",
         \/ worker' = Nobody
         \/ /\ worker'.copy.linked = worker.copy.linked /\ worker'.entry = worker.entry
            /\ worker'.gave = worker.gave
  PROVE  Railed'
<1> DEFINE r == Added(label)
<1>1. r \in Replies /\ (r.auto => ~CapReached) /\ (label = "ai" => r.ai) BY AddedType DEF Drafting
<1>2. replies' = Append(replies, r) /\ thread'.ai = thread.ai BY WriteType
<1>3. mode # "label" => r.ai
  <2>1. /\ DOMAIN replies' = DOMAIN replies \cup {Len(replies) + 1}
        /\ replies'[Len(replies) + 1] = r /\ Len(replies) + 1 \notin DOMAIN replies
    BY <1>1, <1>2, OneReplyMore, LenProperties DEF InboxTyped, InboxType
  <2> QED BY <1>1, <2>1 DEF ToSchema
<1> HIDE DEF r
<1>4. mode # "label" => CapCounted' BY <1>1, <1>2, <1>3, CapOneMore DEF Railed
<1> QED BY <1>2, <1>4 DEF Railed, SubscriberNotSoldTo

LEMMA PeopleRailed ==
  ASSUME InboxTyped, Railed, UNCHANGED mode, NEW t \in Tabs, Begins(t) \/ Ends(t)
  PROVE  Railed'
<1>0. thread \in Threads BY DEF InboxTyped, InboxType
<1>1. CASE Open(t) \/ AskDelete(t) BY <1>1, RailsSame DEF Open, AskDelete, agent
<1>2. CASE Answer(t)
  <2>1. Reply(FALSE, FALSE, FALSE) \in Replies /\ ~Reply(FALSE, FALSE, FALSE).auto BY ReplyType DEF Reply
  <2>2. replies' = Append(replies, Reply(FALSE, FALSE, FALSE)) /\ today' = today BY <1>2 DEF Answer
  <2>3. mode # "label" => CapCounted' BY <2>1, <2>2, CapOneMore DEF Railed
  <2>4. thread'.ai = thread.ai BY <1>0, <1>2 DEF Answer, Outbound, Threads
  <2> QED BY <1>2, <2>3, <2>4 DEF Answer, agent, Railed, SubscriberNotSoldTo
<1>3. CASE Mark(t)
  <2>1. handed' => handed /\ thread'.ai = thread.ai
    BY <1>0, <1>3 DEF Mark, Railed, Threads
  <2> QED BY <1>3, <2>1, RailsSame DEF Mark
<1>4. ASSUME NEW i \in DOMAIN replies, Approve(t, i) \/ Discard(t, i) PROVE Railed'
  <2>0. \A j \in DOMAIN replies : replies[j] \in Replies BY DEF InboxTyped, InboxType
  <2>1. /\ DOMAIN replies' = DOMAIN replies /\ Len(replies') = Len(replies)
        /\ \A j \in DOMAIN replies : /\ replies'[j].ai = replies[j].ai /\ replies'[j].auto = replies[j].auto
                                     /\ replies'[j].kept => replies[j].kept
    <3>1. CASE Approve(t, i)
      <4>1. replies' = [replies EXCEPT ![i] = [replies[i] EXCEPT !.wired = @ + 1]] BY <3>1 DEF Approve
      <4> QED BY <2>0, <4>1, LenProperties DEF Replies, InboxTyped, InboxType
    <3>2. CASE Discard(t, i)
      <4>1. replies' = [replies EXCEPT ![i] = [replies[i] EXCEPT !.draft = FALSE, !.kept = FALSE]]
        BY <3>2 DEF Discard
      <4> QED BY <2>0, <4>1, LenProperties DEF Replies, InboxTyped, InboxType
    <3> QED BY <1>4, <3>1, <3>2
  <2>2. thread'.ai = thread.ai BY <1>0, <1>4 DEF Approve, Discard, Threads
  <2>3. UNCHANGED <<today, worker, handed>> BY <1>4 DEF Approve, Discard, agent
  <2> QED BY <2>1, <2>2, <2>3, RailsSame
<1>5. CASE ClearUnread(t)
  <2>1. thread'.ai = thread.ai BY <1>0, <1>5 DEF ClearUnread, Threads
  <2> QED BY <1>5, <2>1, RailsSame DEF ClearUnread, agent
<1>6. CASE Delete(t)
  <2>0. \A j \in DOMAIN replies : replies[j] \in Replies BY DEF InboxTyped, InboxType
  <2>1. /\ DOMAIN replies' = DOMAIN replies
        /\ \A j \in DOMAIN replies : /\ replies'[j].ai = replies[j].ai /\ replies'[j].auto = replies[j].auto
                                     /\ replies'[j].kept => replies[j].kept
    <3>1. CASE replies' = replies BY <3>1
    <3>2. CASE replies' # replies
      <4>1. replies' = [j \in DOMAIN replies |-> [replies[j] EXCEPT !.kept = FALSE, !.draft = FALSE]]
        BY <1>6, <3>2 DEF Delete
      <4> QED BY <2>0, <4>1 DEF Replies
    <3> QED BY <3>1, <3>2
  <2>2. Len(replies') = Len(replies)
    <3>1. replies \in Seq(Replies) /\ replies' \in Seq(Replies) BY <1>6, EndsTyped DEF Ends, InboxTyped, InboxType
    <3> QED BY <2>1, <3>1, LenProperties
  <2>3. UNCHANGED <<today, worker>> BY <1>6 DEF Delete
  <2>4. handed' => handed /\ thread'.ai = thread.ai BY <1>6 DEF Delete
  <2> QED BY <2>1, <2>2, <2>3, <2>4, RailsSame
<1>7. CASE Sent(t)
  <2> DEFINE i == tab[t].i
  <2>0. i \in DOMAIN replies /\ \A j \in DOMAIN replies : replies[j] \in Replies
    BY <1>7 DEF Sent, InboxTyped, InboxType
  <2>1. replies' = [replies EXCEPT ![i] = [replies[i] EXCEPT !.draft = FALSE]] BY <1>7 DEF Sent
  <2>2. /\ DOMAIN replies' = DOMAIN replies /\ Len(replies') = Len(replies)
        /\ \A j \in DOMAIN replies : /\ replies'[j].ai = replies[j].ai /\ replies'[j].auto = replies[j].auto
                                     /\ replies'[j].kept => replies[j].kept
    <3> HIDE DEF i
    <3> QED BY <2>0, <2>1, LenProperties DEF Replies, InboxTyped, InboxType
  <2>3. thread'.ai = thread.ai BY <1>0, <1>7 DEF Sent, Threads
  <2> QED BY <1>7, <2>2, <2>3, RailsSame DEF Sent, agent
<1> QED BY <1>1, <1>2, <1>3, <1>4, <1>5, <1>6, <1>7 DEF Begins, Ends

LEMMA AgentRailed ==
  ASSUME InboxTyped, Railed, UNCHANGED mode,
         Take \/ (Call /\ ToSchema) \/ More \/ Done \/ Fail \/ Kill
  PROVE  Railed'
<1>0. thread \in Threads BY DEF InboxTyped, InboxType
<1>1. CASE Take
  <2>0. UNCHANGED <<today, replies, handed>> BY <1>1 DEF Take
  <2>1. CASE ~Routed(Head(queue)) BY <1>1, <2>0, <2>1, RailsSame DEF Take
  <2>2. CASE Routed(Head(queue))
    <3>1. PICK old \in BOOLEAN :
            LET c == Promoted(Reset(thread, old)) IN
              /\ thread' = c
              /\ worker' = [copy |-> Copy(c), at |-> "think", entry |-> Entry(c), steps |-> 0,
                            batch |-> 0, said |-> FALSE, gave |-> FALSE]
      BY <1>1, <2>2 DEF Take
    <3> DEFINE c == Promoted(Reset(thread, old))
    <3>2. c.linked => c.step # "sales" /\ c.step \in Steps BY <1>0 DEF Promoted, Reset, Threads, Steps
    <3>3. c.linked => Entry(c) = "support" BY <3>2 DEF Entry, Steps
    <3> HIDE DEF c
    <3>4. worker'.copy.linked = c.linked /\ worker'.entry = Entry(c) BY <3>1 DEF c, Copy
    <3>5. ~handed BY <2>2 DEF Railed, Routed
    <3>6. CapCounted => CapCounted' BY <2>0 DEF CapCounted, RepliesCapped, Labelled
    <3> QED BY <2>0, <3>3, <3>4, <3>5, <3>6 DEF Railed, SubscriberNotSoldTo
  <2> QED BY <2>1, <2>2
<1>2. CASE Call /\ ToSchema
  <2> DEFINE w == [worker EXCEPT !.at = "tools", !.batch = @ + 1]
  <2>0. /\ worker \in Jobs /\ worker # Nobody /\ worker.copy \in Copies
        /\ worker.batch \in 0..MaxBatch /\ worker.batch < MaxBatch
    BY <1>2 DEF Call, InboxTyped, InboxType, Jobs
  <2>1. /\ w.copy = worker.copy /\ w.entry = worker.entry /\ w.gave = worker.gave
        /\ DOMAIN w = {"copy", "at", "entry", "steps", "batch", "said", "gave"}
    BY <2>0 DEF Jobs
  <2>7. w \in Jobs
    <3>1. worker.batch + 1 \in 0..MaxBatch BY <2>0, InboxAssumption
    <3>2. w = [worker EXCEPT !.at = "tools", !.batch = worker.batch + 1] OBVIOUS
    <3> HIDE DEF w
    <3> QED BY <2>0, <3>1, <3>2 DEF Jobs
  <2>2. Tool(w) /\ UNCHANGED today BY <1>2 DEF Call
  <2> HIDE DEF w
  <2>3. CASE Say(w)
    <3>1. PICK label \in Labels : /\ Write(w.copy, label) /\ UNCHANGED handed
                                  /\ worker' = [w EXCEPT !.said = TRUE, !.copy.unread = Read(w.copy, label)]
      BY <2>3 DEF Say
    <3> DEFINE n == Read(w.copy, label)
    <3>2. n \in Nat BY <2>0, <2>1, <3>1, WriteType
    <3>3. worker' = [w EXCEPT !.said = TRUE, !.copy.unread = n] BY <3>1
    <3> HIDE DEF n
    <3>a. PICK k \in Nat : worker' = [w EXCEPT !.said = TRUE, !.copy.unread = k] BY <3>2, <3>3
    <3>b. worker'.copy.linked = w.copy.linked /\ worker'.entry = w.entry /\ worker'.gave = w.gave
      BY <2>7, <3>a, SaidJob
    <3>4. /\ worker'.copy.linked = worker.copy.linked /\ worker'.entry = worker.entry
          /\ worker'.gave = worker.gave
      BY <2>1, <3>b
    <3> QED BY <1>2, <2>0, <2>1, <2>2, <3>1, <3>4, RailsWrite
  <2>4. CASE Escalate(w)
    <3>1. worker' = [w EXCEPT !.gave = TRUE] /\ UNCHANGED replies BY <2>4 DEF Escalate
    <3>2. worker'.copy = worker.copy /\ worker'.entry = worker.entry /\ worker'.gave BY <2>1, <3>1
    <3>3. ~thread'.ai BY <1>0, <2>4 DEF Escalate, Escalated, Threads
    <3> QED BY <2>0, <2>2, <3>1, <3>2, <3>3, RailsRun
  <2>5. CASE SetStep(w)
    <3>1. PICK s : thread' = [thread EXCEPT !.step = s] /\ worker' = [w EXCEPT !.copy.step = s]
      BY <2>5 DEF SetStep
    <3>2. worker'.copy.linked = worker.copy.linked /\ worker'.entry = worker.entry
          /\ worker'.gave = worker.gave
      BY <2>0, <2>1, <3>1 DEF Copies
    <3>3. thread'.ai = thread.ai /\ UNCHANGED <<replies, handed>> BY <1>0, <2>5, <3>1 DEF SetStep, Threads
    <3> QED BY <2>0, <2>2, <3>2, <3>3, RailsRun DEF Railed
  <2>6. CASE Link(w) \/ Look(w) BY <2>0, <2>1, <2>2, <2>6, RailsRun DEF Link, Look, Railed
  <2> QED BY <2>2, <2>3, <2>4, <2>5, <2>6 DEF Tool
<1>3. CASE More
  <2>0. worker \in Jobs BY <1>3 DEF More, InboxTyped, InboxType
  <2>1. worker'.copy = worker.copy /\ worker'.entry = worker.entry /\ worker'.gave = worker.gave
    BY <1>3, <2>0 DEF More, Jobs
  <2> QED BY <1>3, <2>1, RailsRun DEF More, Railed
<1>4. CASE Done
  <2>1. CASE UNCHANGED <<thread, replies>> BY <1>4, <2>1, RailsSame DEF Done
  <2>2. CASE ~UNCHANGED <<thread, replies>>
    <3>1. Write(worker.copy, "ai") BY <1>4, <2>2 DEF Done
    <3>2. worker # Nobody /\ worker' = Nobody /\ UNCHANGED <<today, handed>> BY <1>4 DEF Done
    <3>3. worker.copy \in Copies BY <3>2 DEF InboxTyped, InboxType, Jobs
    <3> QED BY <3>1, <3>2, <3>3, RailsWrite
  <2> QED BY <2>1, <2>2
<1>5. CASE Fail \/ Kill BY <1>5, RailsSame DEF Fail, Kill
<1> QED BY <1>1, <1>2, <1>3, <1>4, <1>5

LEMMA OthersRailed ==
  ASSUME InboxTyped, Railed, UNCHANGED mode,
         (\E d \in Deliveries : Hooks(d)) \/ Milestone \/ Switch \/ SignUp \/ Quarter \/ Midnight
  PROVE  Railed'
<1>0. thread \in Threads BY DEF InboxTyped, InboxType
<1>1. ASSUME NEW d \in Deliveries, Arrive(d) PROVE Railed' BY <1>1, RailsSame DEF Arrive, agent
<1>2. ASSUME NEW d \in Deliveries, Record(d) PROVE Railed'
  <2>1. thread'.ai = thread.ai BY <1>0, <1>2 DEF Record, Received, Threads
  <2> QED BY <1>2, <2>1, RailsSame DEF Record
<1>3. CASE Milestone
  <2>1. Reply(FALSE, TRUE, FALSE) \in Replies /\ ~Reply(FALSE, TRUE, FALSE).auto BY ReplyType DEF Reply
  <2>2. replies' = Append(replies, Reply(FALSE, TRUE, FALSE)) /\ today' = today BY <1>3 DEF Milestone
  <2>3. mode # "label" => CapCounted' BY <2>1, <2>2, CapOneMore DEF Railed
  <2>4. thread'.ai = thread.ai BY <1>0, <1>3 DEF Milestone, Outbound, Threads
  <2> QED BY <1>3, <2>3, <2>4 DEF Milestone, agent, Railed, SubscriberNotSoldTo
<1>4. CASE Switch \/ SignUp \/ Quarter BY <1>4, RailsSame DEF Switch, SignUp, Quarter, people, agent
<1>5. CASE Midnight
  <2>1. today' = Len(replies) + 1 /\ replies' = replies /\ Len(replies) \in Nat
    BY <1>5 DEF Midnight, InboxTyped, InboxType
  <2>2. \A i \in today'..Len(replies') : FALSE BY <2>1
  <2>3. Automatic(replies', today') = {} BY <2>2 DEF Automatic
  <2>4. CapCounted => CapCounted' BY <2>1, <2>3, CapFewer DEF CapCounted, Labelled
  <2> QED BY <1>5, <2>4 DEF Midnight, agent, Railed, SubscriberNotSoldTo
<1> QED BY <1>1, <1>2, <1>3, <1>4, <1>5 DEF Hooks

LEMMA RailsInit == InboxInit => Railed
<1> SUFFICES ASSUME InboxInit PROVE Railed OBVIOUS
<1>1. \A i \in 1..0 : FALSE OBVIOUS
<1>2. Automatic(replies, today) = {}
  <2>1. Len(replies) = 0 /\ today = 1 BY DEF InboxInit
  <2> QED BY <1>1, <2>1 DEF Automatic
<1>3. Cardinality(Automatic(replies, today)) <= Cap BY <1>2, FS_EmptySet, InboxAssumption
<1>4. RepliesCapped BY <1>3, CappedIs
<1>5. Labelled BY DEF InboxInit, Labelled
<1> QED BY <1>4, <1>5 DEF InboxInit, Railed, CapCounted, SubscriberNotSoldTo

LEMMA RailsStep == ASSUME InboxTyped, Railed, [MCNext]_modal PROVE Railed'
<1>0. UNCHANGED mode BY DEF MCNext, modal
<1>1. CASE UNCHANGED inbox BY <1>0, <1>1, RailsSame DEF inbox, world, people, agent
<1>2. CASE \E t \in Tabs : Begins(t) \/ Ends(t) BY <1>0, <1>2, PeopleRailed
<1>3. CASE Take \/ (Call /\ ToSchema) \/ More \/ Done \/ Fail \/ Kill BY <1>0, <1>3, AgentRailed
<1>4. CASE (\E d \in Deliveries : Hooks(d)) \/ Milestone \/ Switch \/ SignUp \/ Quarter \/ Midnight
  BY <1>0, <1>4, OthersRailed
<1>5. MCNext => \/ \E t \in Tabs : Begins(t) \/ Ends(t)
                \/ Take \/ (Call /\ ToSchema) \/ More \/ Done \/ Fail \/ Kill
                \/ (\E d \in Deliveries : Hooks(d)) \/ Milestone \/ Switch \/ SignUp \/ Quarter \/ Midnight
  BY Zenon DEF MCNext, Hooks
<1> QED BY <1>1, <1>2, <1>3, <1>4, <1>5 DEF modal

\* A reply of a run is added to a thread that was handed over by the run that
\* did it.  Nobody else adds one that the agent would be held to.
LEMMA HandedSame == ASSUME DOMAIN replies' = DOMAIN replies PROVE HandOverHolds
BY DEF HandOverHolds

LEMMA HandedByPerson ==
  ASSUME InboxTyped, NEW ai \in BOOLEAN, replies' = Append(replies, Reply(FALSE, ai, FALSE))
  PROVE  HandOverHolds
<1> DEFINE r == Reply(FALSE, ai, FALSE)
<1>1. r \in Replies /\ ~r.auto /\ ~r.draft BY ReplyType DEF Reply
<1> HIDE DEF r
<1>2. replies' = Append(replies, r) BY DEF r
<1>3. DOMAIN replies' = DOMAIN replies \cup {Len(replies) + 1} /\ replies'[Len(replies) + 1] = r
  BY <1>1, <1>2, OneReplyMore
<1> QED BY <1>1, <1>3 DEF HandOverHolds

LEMMA HandedStep == ASSUME InboxTyped, Railed, [InboxNext]_inbox PROVE HandOverHolds
<1>1. CASE UNCHANGED replies BY <1>1, HandedSame
<1>2. CASE worker # Nobody BY <1>2 DEF Railed, HandOverHolds
<1>3. CASE worker = Nobody /\ InboxNext
  <2>1. ASSUME NEW t \in Tabs, Begins(t) \/ Ends(t) PROVE HandOverHolds
    <3>1. CASE Answer(t) BY <3>1, HandedByPerson DEF Answer
    <3>2. ASSUME NEW i \in DOMAIN replies, Approve(t, i) \/ Discard(t, i) PROVE HandOverHolds
      BY <3>2, HandedSame DEF Approve, Discard
    <3>3. CASE Delete(t) BY <3>3, HandedSame DEF Delete
    <3>4. CASE Sent(t) BY <3>4, HandedSame DEF Sent
    <3>5. CASE Open(t) \/ Mark(t) \/ AskDelete(t) \/ ClearUnread(t)
      BY <3>5, HandedSame DEF Open, Mark, AskDelete, ClearUnread
    <3> QED BY <2>1, <3>1, <3>2, <3>3, <3>4, <3>5 DEF Begins, Ends
  <2>2. CASE Milestone BY <2>2, HandedByPerson DEF Milestone
  <2>3. CASE AgentRuns \/ Kill
    BY <1>3, <2>3, HandedSame DEF AgentRuns, Take, Call, More, Done, Fail, Kill
  <2>4. CASE (\E d \in Deliveries : Hooks(d)) \/ Switch \/ SignUp \/ Quarter \/ Midnight
    BY <2>4, HandedSame DEF Hooks, Arrive, Record, Switch, SignUp, Quarter, Midnight
  <2> QED BY <1>3, <2>1, <2>2, <2>3, <2>4 DEF InboxNext
<1> QED BY <1>1, <1>2, <1>3 DEF inbox

\* Every step of the instance is a step of Inbox.
LEMMA InstanceSteps == MCNext => InboxNext /\ UNCHANGED mode
<1> SUFFICES ASSUME MCNext PROVE InboxNext /\ UNCHANGED mode OBVIOUS
<1>1. UNCHANGED mode BY DEF MCNext
<1>2. (\E d \in Deliveries : (Free /\ Due(d) /\ Arrive(d)) \/ Record(d)) => InboxNext
  BY DEF InboxNext, Hooks
<1>3. (\E t \in Tabs : (Free /\ Staffed /\ Begins(t)) \/ Ends(t)) => InboxNext
  BY DEF InboxNext
<1>4. Take \/ Call \/ More \/ Done \/ Fail => InboxNext
  <2>1. Take \/ Call \/ More \/ Done \/ Fail => AgentRuns BY Zenon DEF AgentRuns
  <2>2. AgentRuns => InboxNext BY Zenon DEF InboxNext
  <2> QED BY <2>1, <2>2
<1>5. Kill \/ Milestone \/ Switch => InboxNext BY Zenon DEF InboxNext
<1>6. SignUp \/ Quarter \/ Midnight => InboxNext BY Zenon DEF InboxNext
<1> QED BY <1>1, <1>2, <1>3, <1>4, <1>5, <1>6 DEF MCNext

\* The rails hold for every cap and any number of messages, whatever the
\* language model asks for and whoever comes in between; the cap as long as
\* the model leaves the label of its replies alone.
THEOREM RailsStay == MCSpec => RailsHold
<1>1. MCInit => InboxTyped /\ Railed BY TypedInit, RailsInit DEF MCInit
<1>2. InboxTyped /\ Railed /\ [MCNext]_modal => InboxTyped' /\ Railed'
  BY TypedStep, RailsStep, InstanceSteps DEF modal
<1>3. InboxTyped /\ Railed => Capped /\ SubscriberNotSoldTo BY DEF Railed, CapCounted, Capped
<1>4. InboxTyped /\ Railed /\ [MCNext]_modal => [HandOverHolds]_modal
  BY HandedStep, InstanceSteps DEF modal
<1> QED BY <1>1, <1>2, <1>3, <1>4, PTL DEF MCSpec, RailsHold

-----------------------------------------------------------------------------
(* Taking turns                                                            *)

\* A webhook, a person or the agent is at work.
Turns ==
  /\ worker # Nobody => (\A t \in Tabs : tab[t] = Nobody) /\ (\A d \in Deliveries : hook[d] # "new")
  /\ \A t \in Tabs : tab[t] # Nobody => /\ \A u \in Tabs \ {t} : tab[u] = Nobody
                                        /\ \A d \in Deliveries : hook[d] # "new"
  /\ \A d, e \in Deliveries : hook[d] = "new" /\ hook[e] = "new" => d = e
\* A message about to be recorded has no row.
RowsOnce == RecordedOnce /\ \A d \in Deliveries : hook[d] = "new" => ~Seen(d)
\* Who is at work has a copy of the row as it is.
Current ==
  /\ \A t \in Tabs : tab[t] # Nobody =>
       thread.there /\ tab[t].copy = Copy(thread) /\ (tab[t].op = "read" => tab[t].shown = rows)
  /\ worker # Nobody => worker.copy.unread = thread.unread
\* A draft was not sent, but for the one that is being sent.
Sending(t, i) == tab[t] # Nobody /\ tab[t].op = "send" /\ tab[t].i = i
Drafted ==
  \A i \in DOMAIN replies : /\ replies[i].wired <= 1
                            /\ replies[i].draft => replies[i].wired = 0 \/ \E t \in Tabs : Sending(t, i)
CalmInv == Turns /\ UnreadCountsUnseen /\ RowsOnce /\ Current /\ Drafted

\* Replies that are added have been sent, or are drafts.
LEMMA DraftedMore ==
  ASSUME InboxTyped, Drafted, UNCHANGED tab, NEW auto \in BOOLEAN, NEW ai \in BOOLEAN, NEW draft \in BOOLEAN,
         replies' = Append(replies, Reply(auto, ai, draft))
  PROVE  Drafted'
<1> DEFINE r == Reply(auto, ai, draft)
<1>1. r \in Replies /\ r.wired <= 1 /\ (r.draft => r.wired = 0) BY ReplyType DEF Reply
<1>2. /\ DOMAIN replies' = DOMAIN replies \cup {Len(replies) + 1}
      /\ \A i \in DOMAIN replies : replies'[i] = replies[i]
      /\ replies'[Len(replies) + 1] = r
  BY <1>1, OneReplyMore
<1> HIDE DEF r
<1> QED BY <1>1, <1>2 DEF Drafted, Sending

\* A step that changes neither replies nor rows.
LEMMA DraftedSame ==
  ASSUME Drafted, replies' = replies, UNCHANGED tab
  PROVE  Drafted'
BY DEF Drafted, Sending

\* A step after which nobody is at work.
LEMMA AtRest ==
  ASSUME InboxTyped, \A t \in Tabs : tab'[t] = Nobody, worker' = Nobody,
         \A d \in Deliveries : hook'[d] # "new"
  PROVE  Turns' /\ Current' /\ (RecordedOnce' => RowsOnce')
BY DEF Turns, Current, RowsOnce

LEMMA HooksCalm ==
  ASSUME InboxTyped, CalmInv, NEW d \in Deliveries, (Quiet /\ Arrive(d)) \/ Record(d)
  PROVE  CalmInv'
<1> USE DEF CalmInv
<1>0. hook \in [Deliveries -> {"away", "new", "done"}] /\ tab \in [Tabs -> Errands \cup {Nobody}]
  BY DEF InboxTyped, InboxType
<1>1. CASE Quiet /\ Arrive(d)
  <2>1. UNCHANGED <<thread, rows, replies, tab, unseen, worker>> BY <1>1 DEF Arrive, people, agent
  <2>2. Turns' BY <1>0, <1>1, <2>1 DEF Turns, Quiet, Arrive
  <2>3. RowsOnce' BY <1>0, <1>1, <2>1 DEF RowsOnce, Quiet, Arrive, RecordedOnce, Seen
  <2>4. Current' BY <1>1, <2>1 DEF Current, Copy
  <2> QED BY <2>1, <2>2, <2>3, <2>4, DraftedSame DEF UnreadCountsUnseen
<1>2. CASE Record(d)
  <2>1. /\ UNCHANGED <<replies, tab, worker>> /\ hook[d] = "new" /\ hook' = [hook EXCEPT ![d] = "done"]
        /\ rows' = rows \cup {d} /\ unseen' = unseen \cup {d} /\ thread'.unread = thread.unread + 1
    BY <1>2 DEF Record, Received, InboxTyped, InboxType, Threads
  <2>2. (\A t \in Tabs : tab'[t] = Nobody) /\ worker' = Nobody /\ \A e \in Deliveries : hook'[e] # "new"
    BY <1>0, <2>1 DEF Turns
  <2>3. RecordedOnce' BY <2>1 DEF RowsOnce, RecordedOnce, Seen
  <2>4. d \notin unseen BY <2>1 DEF RowsOnce, Seen, InboxTyped, InboxType
  <2>5. Cardinality(unseen') = Cardinality(unseen) + 1 BY <2>1, <2>4, FS_AddElement DEF InboxTyped
  <2> QED BY <2>1, <2>2, <2>3, <2>5, AtRest, DraftedSame DEF UnreadCountsUnseen
<1> QED BY <1>1, <1>2

\* Who begins something finds everybody at rest.
LEMMA BeginsCalm ==
  ASSUME InboxTyped, CalmInv, Quiet, NEW t \in Tabs, Begins(t)
  PROVE  CalmInv'
<1> USE DEF CalmInv
<1>0. /\ hook \in [Deliveries -> {"away", "new", "done"}] /\ tab \in [Tabs -> Errands \cup {Nobody}]
      /\ thread \in Threads /\ Copy(thread) \in Copies /\ rows \subseteq Deliveries
      /\ \A j \in DOMAIN replies : replies[j] \in Replies /\ j \in Nat
  BY CopyType DEF InboxTyped, InboxType
<1>q. /\ worker = Nobody /\ \A u \in Tabs : tab[u] = Nobody
      /\ \A d \in Deliveries : hook[d] # "new"
  BY DEF Quiet
<1>w. ASSUME UNCHANGED worker, UNCHANGED hook, UNCHANGED thread, UNCHANGED rows, thread.there,
             NEW e \in Errands, tab' = [tab EXCEPT ![t] = e],
             e.copy = Copy(thread), e.op = "read" => e.shown = rows
      PROVE  Turns' /\ RowsOnce' /\ Current'
  <2>1. tab'[t] = e /\ e # Nobody /\ \A u \in Tabs \ {t} : tab'[u] = Nobody
    BY <1>0, <1>q, <1>w, NobodyAssumption
  <2>2. Turns' BY <1>q, <1>w, <2>1 DEF Turns
  <2>3. Current' BY <1>q, <1>w, <2>1 DEF Current, Copy
  <2> QED BY <1>w, <2>2, <2>3 DEF RowsOnce, RecordedOnce, Seen
<1>1. CASE Open(t)
  <2> DEFINE e == [op |-> "read", copy |-> Copy(thread), shown |-> rows, i |-> 0]
  <2>1. e \in Errands /\ e.copy = Copy(thread) /\ (e.op = "read" => e.shown = rows) /\ e.op # "send"
    BY <1>0 DEF Errands
  <2>2. /\ tab' = [tab EXCEPT ![t] = e] /\ thread.there
        /\ UNCHANGED <<worker, hook, thread, rows, replies, unseen>>
    BY <1>1 DEF Open, Idle, agent
  <2> HIDE DEF e
  <2>3. Turns' /\ RowsOnce' /\ Current' BY <1>w, <2>1, <2>2
  <2>4. Drafted' BY <1>q, <2>2 DEF Drafted, Sending
  <2> QED BY <2>2, <2>3, <2>4 DEF UnreadCountsUnseen
<1>2. CASE Answer(t)
  <2>1. /\ UNCHANGED <<worker, hook, tab, rows>> /\ unseen' = {}
        /\ replies' = Append(replies, Reply(FALSE, FALSE, FALSE))
    BY <1>2 DEF Answer, agent
  <2>2. thread'.unread = 0 BY <1>0, <1>2 DEF Answer, Outbound, Threads
  <2>3. UnreadCountsUnseen' BY <2>1, <2>2, FS_EmptySet DEF UnreadCountsUnseen
  <2>4. Drafted' BY <2>1, DraftedMore
  <2>5. RecordedOnce' BY <2>1 DEF RowsOnce, RecordedOnce
  <2> QED BY <1>q, <2>1, <2>3, <2>4, <2>5, AtRest
<1>3. CASE Mark(t)
  <2>1. UNCHANGED <<worker, hook, tab, rows, replies, unseen>> /\ thread'.unread = thread.unread
    BY <1>0, <1>3 DEF Mark, people, Threads
  <2>2. RecordedOnce' BY <2>1 DEF RowsOnce, RecordedOnce
  <2> QED BY <1>q, <2>1, <2>2, AtRest, DraftedSame DEF UnreadCountsUnseen
<1>4. CASE AskDelete(t)
  <2> DEFINE e == [op |-> "drop", copy |-> Copy(thread), shown |-> {}, i |-> 0]
  <2>1. e \in Errands /\ e.copy = Copy(thread) /\ (e.op = "read" => e.shown = rows)
    BY <1>0 DEF Errands
  <2>2. /\ tab' = [tab EXCEPT ![t] = e] /\ thread.there
        /\ UNCHANGED <<worker, hook, thread, rows, replies, unseen>>
    BY <1>4 DEF AskDelete, Idle, agent
  <2> HIDE DEF e
  <2>3. Turns' /\ RowsOnce' /\ Current' BY <1>w, <2>1, <2>2
  <2>4. Drafted' BY <1>q, <2>2 DEF Drafted, Sending
  <2> QED BY <2>2, <2>3, <2>4 DEF UnreadCountsUnseen
<1>5. ASSUME NEW i \in DOMAIN replies, Approve(t, i) PROVE CalmInv'
  <2> DEFINE e == [op |-> "send", copy |-> Copy(thread), shown |-> {}, i |-> i]
  <2>1. /\ e \in Errands /\ e.copy = Copy(thread) /\ (e.op = "read" => e.shown = rows)
        /\ e.op = "send" /\ e.i = i
    BY <1>0 DEF Errands
  <2>2. /\ tab' = [tab EXCEPT ![t] = e] /\ thread.there /\ replies[i].draft
        /\ UNCHANGED <<worker, hook, thread, rows, unseen>>
        /\ replies' = [replies EXCEPT ![i] = [replies[i] EXCEPT !.wired = @ + 1]]
    BY <1>5 DEF Approve, Idle, agent, IsDraft
  <2> HIDE DEF e
  <2>3. Turns' /\ RowsOnce' /\ Current' BY <1>w, <2>1, <2>2
  <2>4. replies[i].wired = 0 BY <1>q, <2>2 DEF Drafted, Sending
  <2>5. tab'[t] = e /\ e # Nobody BY <1>0, <2>1, <2>2, NobodyAssumption
  <2>6. Sending(t, i)' BY <2>1, <2>5 DEF Sending
  <2>7. replies'[i].wired = 1 /\ \A j \in DOMAIN replies \ {i} : replies'[j] = replies[j]
    BY <1>0, <2>2, <2>4 DEF Replies
  <2>8. DOMAIN replies' = DOMAIN replies BY <2>2
  <2>9. \A j \in DOMAIN replies \ {i} : replies[j].draft => replies[j].wired = 0
    BY <1>q DEF Drafted, Sending
  <2>10. Drafted' BY <2>6, <2>7, <2>8, <2>9 DEF Drafted
  <2> QED BY <2>2, <2>3, <2>10 DEF UnreadCountsUnseen
<1>6. ASSUME NEW i \in DOMAIN replies, Discard(t, i) PROVE CalmInv'
  <2>1. UNCHANGED <<worker, hook, tab, rows, unseen>> /\ thread'.unread = thread.unread
    BY <1>0, <1>6 DEF Discard, people, agent, Threads
  <2>2. replies' = [replies EXCEPT ![i] = [replies[i] EXCEPT !.draft = FALSE, !.kept = FALSE]]
    BY <1>6 DEF Discard
  <2>3. /\ DOMAIN replies' = DOMAIN replies
        /\ \A j \in DOMAIN replies : replies'[j].wired = replies[j].wired /\ (replies'[j].draft => replies[j].draft)
    BY <1>0, <2>2 DEF Replies
  <2>4. Drafted' BY <2>1, <2>3 DEF Drafted, Sending
  <2>5. RecordedOnce' BY <2>1 DEF RowsOnce, RecordedOnce
  <2> QED BY <1>q, <2>1, <2>4, <2>5, AtRest DEF UnreadCountsUnseen
<1> QED BY <1>1, <1>2, <1>3, <1>4, <1>5, <1>6 DEF Begins

LEMMA EndsCalm ==
  ASSUME InboxTyped, CalmInv, NEW t \in Tabs, Ends(t)
  PROVE  CalmInv'
<1> USE DEF CalmInv
<1>0. /\ tab \in [Tabs -> Errands \cup {Nobody}] /\ thread \in Threads /\ unseen \subseteq rows
      /\ \A j \in DOMAIN replies : replies[j] \in Replies
      /\ tab[t] # Nobody
  <2>1. tab[t] # Nobody BY DEF Ends, ClearUnread, Delete, Sent
  <2>2. \A j \in DOMAIN replies : replies[j] \in Replies BY DEF InboxTyped, InboxType
  <2> QED BY <2>1, <2>2 DEF InboxTyped, InboxType
<1>q. /\ worker = Nobody /\ \A u \in Tabs \ {t} : tab[u] = Nobody
      /\ \A d \in Deliveries : hook[d] # "new"
      /\ thread.there /\ tab[t].copy = Copy(thread) /\ (tab[t].op = "read" => tab[t].shown = rows)
  BY <1>0 DEF Turns, Current
<1>a. Alive(tab[t].copy) /\ tab[t].copy.unread = thread.unread BY <1>q DEF Alive, Copy
<1>r. /\ UNCHANGED <<worker, hook>> /\ \A u \in Tabs : tab'[u] = Nobody
  BY <1>0, <1>q DEF Ends, ClearUnread, Delete, Sent, agent
<1>1. CASE ClearUnread(t)
  <2>1. unseen' = {} BY <1>0, <1>1, <1>q DEF ClearUnread
  <2>2. thread'.unread = 0 BY <1>0, <1>1, <1>a DEF ClearUnread, Threads
  <2>3. UnreadCountsUnseen' BY <2>1, <2>2, FS_EmptySet DEF UnreadCountsUnseen
  <2>4. UNCHANGED <<rows, replies>> /\ tab[t].op = "read" BY <1>1 DEF ClearUnread
  <2>5. Drafted' BY <1>0, <1>q, <2>4 DEF Drafted, Sending
  <2>6. RecordedOnce' BY <2>4 DEF RowsOnce, RecordedOnce
  <2> QED BY <1>q, <1>r, <2>3, <2>5, <2>6, AtRest
<1>2. CASE Delete(t)
  <2>1. /\ rows' = {} /\ unseen' = {} /\ thread' = NewThread(thread.gen + 1)
        /\ replies' = [i \in DOMAIN replies |-> [replies[i] EXCEPT !.kept = FALSE, !.draft = FALSE]]
    BY <1>2, <1>a DEF Delete
  <2>2. UnreadCountsUnseen' BY <2>1, FS_EmptySet DEF UnreadCountsUnseen, NewThread
  <2>3. DOMAIN replies' = DOMAIN replies
        /\ \A j \in DOMAIN replies : replies'[j].wired = replies[j].wired /\ ~replies'[j].draft
    BY <1>0, <2>1 DEF Replies
  <2>4. Drafted' BY <2>3 DEF Drafted
  <2>5. RecordedOnce' BY <2>1 DEF RecordedOnce
  <2> QED BY <1>q, <1>r, <2>2, <2>4, <2>5, AtRest
<1>3. CASE Sent(t)
  <2> DEFINE i == tab[t].i
  <2>1. /\ UNCHANGED <<rows, unseen>> /\ i \in DOMAIN replies
        /\ replies' = [replies EXCEPT ![i] = [replies[i] EXCEPT !.draft = FALSE]]
    BY <1>3 DEF Sent, InboxTyped
  <2>2. thread'.unread = thread.unread BY <1>0, <1>3 DEF Sent, Threads
  <2> HIDE DEF i
  <2>3. /\ DOMAIN replies' = DOMAIN replies /\ ~replies'[i].draft
        /\ replies'[i].wired = replies[i].wired
        /\ \A j \in DOMAIN replies \ {i} : replies'[j] = replies[j]
    BY <1>0, <2>1 DEF Replies
  <2>4. \A j \in DOMAIN replies \ {i} : replies[j].draft => replies[j].wired = 0
    BY <1>q DEF Drafted, Sending, i
  <2>5. Drafted' BY <2>1, <2>3, <2>4 DEF Drafted
  <2>6. RecordedOnce' BY <2>1 DEF RowsOnce, RecordedOnce
  <2> QED BY <1>q, <1>r, <2>1, <2>2, <2>5, <2>6, AtRest DEF UnreadCountsUnseen
<1> QED BY <1>1, <1>2, <1>3 DEF Ends

\* A step of the worker that leaves the rows and what nobody has seen, and
\* counts what its copy counted.
LEMMA RunCalm ==
  ASSUME InboxTyped, CalmInv, UNCHANGED <<hook, tab, rows, unseen>>, thread'.unread = thread.unread,
         worker # Nobody \/ Quiet,
         worker' # Nobody => worker'.copy.unread = thread.unread,
         Drafted'
  PROVE  CalmInv'
<1>1. (\A t \in Tabs : tab[t] = Nobody) /\ \A d \in Deliveries : hook[d] # "new"
  BY DEF CalmInv, Turns, Quiet
<1>2. Turns' BY <1>1 DEF Turns
<1>3. RowsOnce' BY DEF CalmInv, RowsOnce, RecordedOnce, Seen
<1>4. Current' BY <1>1 DEF Current
<1> QED BY <1>2, <1>3, <1>4 DEF CalmInv, UnreadCountsUnseen

LEMMA WriteCalm ==
  ASSUME InboxTyped, CalmInv, worker # Nobody, NEW label, Write(worker.copy, label), UNCHANGED tab,
         mode = "calm", ToSchema \/ label = "ai"
  PROVE  /\ Drafted' /\ thread'.unread = thread.unread
         /\ Read(worker.copy, label) = thread.unread
<1>1. worker.copy \in Copies /\ worker.copy.unread = thread.unread
  BY DEF CalmInv, Current, InboxTyped, InboxType, Jobs
<1>2. replies' = Append(replies, Added(label)) /\ thread'.unread = Read(worker.copy, label) BY <1>1, WriteType
<1>3. Drafting \/ label = "ai"
  <2>1. /\ DOMAIN replies' = DOMAIN replies \cup {Len(replies) + 1}
        /\ replies'[Len(replies) + 1] = Added(label) /\ Len(replies) + 1 \notin DOMAIN replies
    BY <1>2, AddedType, OneReplyMore, LenProperties DEF InboxTyped, InboxType
  <2>2. ToSchema => Added(label).ai BY <2>1 DEF ToSchema
  <2> QED BY <2>2, AddedType
<1>4. Read(worker.copy, label) = thread.unread BY <1>1, <1>3 DEF Read
<1>5. (label = "ai") \in BOOLEAN /\ TRUE \in BOOLEAN /\ FALSE \in BOOLEAN OBVIOUS
<1>6. Drafted' BY <1>2, <1>5, DraftedMore DEF CalmInv, Added
<1> QED BY <1>2, <1>4, <1>6

LEMMA AgentCalm ==
  ASSUME InboxTyped, CalmInv, mode = "calm",
         (Quiet /\ (Take \/ Milestone)) \/ (Call /\ ToSchema) \/ More \/ Done \/ Fail \/ Kill
  PROVE  CalmInv'
<1>0. thread \in Threads BY DEF InboxTyped, InboxType
<1>d. Drafted BY DEF CalmInv
<1>c. worker # Nobody => worker.copy.unread = thread.unread BY DEF CalmInv, Current
<1>1. CASE Quiet /\ Take
  <2>1. UNCHANGED <<hook, tab, rows, unseen, replies>> BY <1>1 DEF Take, people
  <2>2. thread'.unread = thread.unread /\ (worker' # Nobody => worker'.copy.unread = thread.unread)
    <3>1. CASE ~Routed(Head(queue)) BY <1>1, <3>1 DEF Take
    <3>2. CASE Routed(Head(queue))
      <4>1. PICK old \in BOOLEAN :
              LET c == Promoted(Reset(thread, old)) IN
                /\ thread' = c
                /\ worker' = [copy |-> Copy(c), at |-> "think", entry |-> Entry(c), steps |-> 0,
                              batch |-> 0, said |-> FALSE, gave |-> FALSE]
        BY <1>1, <3>2 DEF Take
      <4> DEFINE c == Promoted(Reset(thread, old))
      <4>2. c.unread = thread.unread BY <1>0 DEF Promoted, Reset, Threads
      <4> HIDE DEF c
      <4>3. worker'.copy = Copy(c) /\ thread' = c BY <4>1 DEF c
      <4> QED BY <4>2, <4>3 DEF Copy
    <3> QED BY <3>1, <3>2
  <2> QED BY <1>1, <1>d, <2>1, <2>2, RunCalm, DraftedSame
<1>2. CASE Quiet /\ Milestone
  <2>1. UNCHANGED <<hook, tab, rows, unseen, worker>> BY <1>2 DEF Milestone, people, agent
  <2>2. thread'.unread = thread.unread BY <1>0, <1>2 DEF Milestone, Outbound, Threads
  <2>3. replies' = Append(replies, Reply(FALSE, TRUE, FALSE)) BY <1>2 DEF Milestone
  <2>4. Drafted' BY <1>d, <2>1, <2>3, DraftedMore
  <2> QED BY <1>2, <1>c, <2>1, <2>2, <2>4, RunCalm
<1>3. CASE Call /\ ToSchema
  <2> DEFINE w == [worker EXCEPT !.at = "tools", !.batch = @ + 1]
  <2>0. /\ worker \in Jobs /\ worker # Nobody /\ worker.copy \in Copies
        /\ worker.batch \in 0..MaxBatch /\ worker.batch < MaxBatch
    BY <1>3 DEF Call, InboxTyped, InboxType, Jobs
  <2>7. w \in Jobs
    <3>1. worker.batch + 1 \in 0..MaxBatch BY <2>0, InboxAssumption
    <3>2. w = [worker EXCEPT !.at = "tools", !.batch = worker.batch + 1] OBVIOUS
    <3> HIDE DEF w
    <3> QED BY <2>0, <3>1, <3>2 DEF Jobs
  <2>1. /\ w.copy = worker.copy
        /\ DOMAIN w = {"copy", "at", "entry", "steps", "batch", "said", "gave"}
    BY <2>0 DEF Jobs
  <2>2. Tool(w) /\ UNCHANGED <<hook, tab, rows, unseen>> BY <1>3 DEF Call, people
  <2> HIDE DEF w
  <2>3. CASE Say(w)
    <3>1. PICK label \in Labels : /\ Write(w.copy, label)
                                  /\ worker' = [w EXCEPT !.said = TRUE, !.copy.unread = Read(w.copy, label)]
      BY <2>3 DEF Say
    <3> DEFINE n == Read(w.copy, label)
    <3>2. Drafted' /\ thread'.unread = thread.unread /\ n = thread.unread
      BY <1>3, <2>0, <2>1, <2>2, <3>1, WriteCalm
    <3>3. worker' = [w EXCEPT !.said = TRUE, !.copy.unread = n] BY <3>1
    <3> HIDE DEF n
    <3>4. n \in Nat BY <1>0, <3>2 DEF Threads
    <3>5. worker'.copy.unread = thread.unread BY <2>7, <3>2, <3>3, <3>4, SaidJob
    <3> QED BY <1>c, <2>0, <2>2, <3>2, <3>5, RunCalm
  <2>4. CASE Escalate(w)
    <3>1. worker'.copy = worker.copy /\ UNCHANGED replies BY <2>1, <2>4 DEF Escalate
    <3>2. thread'.unread = thread.unread BY <1>0, <2>4 DEF Escalate, Escalated, Threads
    <3> QED BY <1>c, <1>d, <2>0, <2>2, <3>1, <3>2, RunCalm, DraftedSame
  <2>5. CASE SetStep(w)
    <3>1. PICK s : thread' = [thread EXCEPT !.step = s] /\ worker' = [w EXCEPT !.copy.step = s]
      BY <2>5 DEF SetStep
    <3>2. worker'.copy.unread = worker.copy.unread BY <2>0, <2>1, <3>1 DEF Copies
    <3>3. thread'.unread = thread.unread /\ UNCHANGED replies BY <1>0, <2>5, <3>1 DEF SetStep, Threads
    <3> QED BY <1>c, <1>d, <2>0, <2>2, <3>2, <3>3, RunCalm, DraftedSame
  <2>6. CASE Link(w) \/ Look(w)
    <3>1. worker'.copy = worker.copy /\ UNCHANGED <<thread, replies>> BY <2>1, <2>6 DEF Link, Look
    <3> QED BY <1>c, <1>d, <2>0, <2>2, <3>1, RunCalm, DraftedSame
  <2> QED BY <2>2, <2>3, <2>4, <2>5, <2>6 DEF Tool
<1>4. CASE More
  <2>0. worker \in Jobs /\ worker # Nobody BY <1>4 DEF More, InboxTyped, InboxType
  <2>1. worker'.copy = worker.copy BY <1>4, <2>0 DEF More, Jobs
  <2>2. UNCHANGED <<hook, tab, rows, unseen, thread, replies>> BY <1>4 DEF More, people
  <2> QED BY <1>c, <1>d, <2>0, <2>1, <2>2, RunCalm, DraftedSame
<1>5. CASE Done
  <2>0. worker # Nobody /\ worker' = Nobody /\ UNCHANGED <<hook, tab, rows, unseen>>
    BY <1>5 DEF Done, people
  <2>1. CASE UNCHANGED <<thread, replies>> BY <1>d, <2>0, <2>1, RunCalm, DraftedSame
  <2>2. CASE ~UNCHANGED <<thread, replies>>
    <3>1. Write(worker.copy, "ai") BY <1>5, <2>2 DEF Done
    <3>2. Drafted' /\ thread'.unread = thread.unread BY <2>0, <3>1, WriteCalm
    <3> QED BY <2>0, <3>2, RunCalm
  <2> QED BY <2>1, <2>2
<1>6. CASE Fail \/ Kill
  <2>1. worker # Nobody /\ worker' = Nobody /\ UNCHANGED <<hook, tab, rows, unseen, thread, replies>>
    BY <1>6 DEF Fail, Kill, people
  <2> QED BY <1>d, <2>1, RunCalm, DraftedSame
<1> QED BY <1>1, <1>2, <1>3, <1>4, <1>5, <1>6

CalmKept == mode = "calm" => CalmInv

LEMMA CalmStep == ASSUME InboxTyped, CalmKept, [MCNext]_modal PROVE CalmKept'
<1> SUFFICES ASSUME mode = "calm", MCNext \/ UNCHANGED modal, CalmInv PROVE CalmInv'
  BY DEF CalmKept, MCNext, modal
<1>1. CASE UNCHANGED modal
  BY <1>1 DEF modal, inbox, people, agent, CalmInv, Turns, UnreadCountsUnseen, RowsOnce, RecordedOnce, Seen,
     Current, Copy, Drafted, Sending
<1>2. CASE MCNext
  <2>1. Free <=> Quiet BY DEF Free
  <2>2. \/ \E d \in Deliveries : (Quiet /\ Arrive(d)) \/ Record(d)
        \/ \E t \in Tabs : (Quiet /\ Begins(t)) \/ Ends(t)
        \/ (Quiet /\ (Take \/ Milestone)) \/ (Call /\ ToSchema) \/ More \/ Done \/ Fail \/ Kill
    BY <1>2, <2>1 DEF MCNext, Long
  <2> QED BY <2>2, HooksCalm, BeginsCalm, EndsCalm, AgentCalm
<1> QED BY <1>1, <1>2

LEMMA CalmInit == InboxInit => CalmInv
<1> SUFFICES ASSUME InboxInit PROVE CalmInv OBVIOUS
<1>1. UnreadCountsUnseen BY FS_EmptySet DEF InboxInit, NewThread, UnreadCountsUnseen
<1>2. \A t \in Tabs : tab[t] = Nobody BY DEF InboxInit
<1>3. worker = Nobody /\ (\A d \in Deliveries : hook[d] # "new") /\ rows = {} BY DEF InboxInit
<1>4. Drafted BY DEF InboxInit, Drafted
<1> QED BY <1>1, <1>2, <1>3, <1>4 DEF CalmInv, Turns, RowsOnce, RecordedOnce, Current

\* While webhooks, people and agent runs take turns the unread badge counts what
\* nobody saw, a message is recorded once and a draft is sent once, for any
\* number of deliveries and tabs.
THEOREM ThreadsCalm == MCSpec => []CalmThreads
<1>1. MCInit => InboxTyped /\ CalmKept BY TypedInit, CalmInit DEF MCInit, CalmKept
<1>2. InboxTyped /\ CalmKept /\ [MCNext]_modal => InboxTyped' /\ CalmKept'
  BY TypedStep, CalmStep, InstanceSteps DEF modal
<1>3. InboxTyped /\ CalmKept => CalmThreads
  BY DEF InboxTyped, CalmKept, CalmInv, CalmThreads, RowsOnce, Drafted, DraftSentOnce
<1> QED BY <1>1, <1>2, <1>3, PTL DEF MCSpec

-----------------------------------------------------------------------------
(* The reminders, of which a subscription gets no more than the windows    *)
(* leave room for                                                          *)

Spots == [at : {"idle", "each", "send", "key"}, window : K!N!Windows, todo : SUBSET Plans,
          plan : Plans \cup {K!N!NoRun.plan}, by : SUBSET {"whatsapp", "sms"}]
ListTyped ==
  /\ run \in Spots
  /\ run.at \in {"send", "key"} => run.plan \in Plans
  /\ run.at = "idle" => run.todo = {}
NoticeTyped ==
  /\ plans \in [Plans -> K!N!Spans] /\ keys \in [Plans -> [K!N!Windows -> 0..3]]
  /\ tried \in [Plans -> [K!N!Windows -> Nat]]
  /\ schedule \in {1, 2} /\ wait \in 0..2 /\ stuck \in Nat /\ stops \in 0..MaxStops
PagesTyped ==
  /\ wants \in [Plans -> BOOLEAN] /\ config \in [send : SUBSET K!N!Windows, route : K!N!Routes]
  /\ template \in [K!N!Windows -> {"none", "on", "off", "empty"}]
RemindTyped == ListTyped /\ NoticeTyped /\ PagesTyped

\* How many reminders fit in when the next one cannot be before x ticks are left;
\* a key that was just set, or is about to be, holds the next one back.
Most(w) == IF w = "1d" THEN 1 ELSE 2
Fitting(w, x) == IF w = "1d" THEN IF x >= 0 THEN 1 ELSE 0
                 ELSE IF x >= 6 THEN 2 ELSE IF x >= 4 THEN 1 ELSE 0
UnderWay(at, plan, win, p, w) == at \in {"send", "key"} /\ plan = p /\ win = w
Kept(r, ks, p, w) == IF UnderWay(r.at, r.plan, r.window, p, w) THEN 3 ELSE ks[p][w]
Soonest(left, k) == IF k >= 2 THEN left - (k - 1) ELSE left
Room(pl, r, ks, p, w) ==
  IF pl[p].status = "none" THEN Most(w)
  ELSE IF pl[p].status = "over" /\ ~(p \in r.todo /\ r.window = w) THEN 0
  ELSE Fitting(w, Soonest(pl[p].left, Kept(r, ks, p, w)))

\* Who is on the list of a run was in its window when the run read it.
ListRight == \A p \in run.todo : plans[p].status # "none" /\ plans[p].left \in K!N!Window(run.window)
RoomLeft == \A p \in Plans, w \in K!N!Windows :
              tried[p][w] + Room(plans, run, keys, p, w) <= Most(w) + stops
ReminderInv == RemindTyped /\ ListRight /\ RoomLeft /\ stuck <= stops

LEMMA FittingFacts ==
  ASSUME NEW w \in K!N!Windows, NEW x \in Int, NEW y \in Int, y <= x
  PROVE  /\ Fitting(w, x) \in 0..Most(w) /\ Fitting(w, y) <= Fitting(w, x)
         /\ Fitting(w, x) <= Fitting(w, x - 2) + 1
         /\ x \in K!N!Window(w) => Fitting(w, x) = Fitting(w, x - 2) + 1
BY DEF Fitting, Most, K!N!Windows, K!N!Window

LEMMA RoomTyped ==
  ASSUME RemindTyped, NEW p \in Plans, NEW w \in K!N!Windows
  PROVE  Room(plans, run, keys, p, w) \in 0..Most(w)
<1>1. plans[p].left \in Int /\ keys[p][w] \in 0..3 BY DEF RemindTyped, NoticeTyped, K!N!Spans
<1>2. Kept(run, keys, p, w) \in 0..3 BY <1>1 DEF Kept
<1>3. Soonest(plans[p].left, Kept(run, keys, p, w)) \in Int BY <1>1, <1>2 DEF Soonest
<1>4. Fitting(w, Soonest(plans[p].left, Kept(run, keys, p, w))) \in 0..Most(w) BY <1>3, FittingFacts
<1>5. Most(w) \in Nat /\ 0 \in 0..Most(w) /\ Most(w) \in 0..Most(w) BY DEF Most
<1> QED BY <1>4, <1>5 DEF Room

LEMMA ReminderStart ==
  ASSUME K!N!NoticesInit, MaxStops \in Nat PROVE ReminderInv
<1>1. /\ plans = [p \in Plans |-> [status |-> "none", left |-> 0]]
      /\ keys = [p \in Plans |-> [w \in K!N!Windows |-> 0]] /\ tried = [p \in Plans |-> [w \in K!N!Windows |-> 0]]
      /\ run = K!N!NoRun /\ wait = 0 /\ stuck = 0 /\ stops = 0 /\ schedule \in {1, 2}
  BY DEF K!N!NoticesInit, K!N!NoPlan
<1>2. ListTyped
  <2>1. run \in Spots /\ run.at = "idle" /\ run.todo = {} BY <1>1 DEF K!N!NoRun, Spots, K!N!Windows
  <2> QED BY <2>1 DEF ListTyped
<1>3. NoticeTyped BY <1>1 DEF NoticeTyped, K!N!Spans
<1>4. PagesTyped BY DEF K!N!NoticesInit, PagesTyped, K!N!Routes
<1>5. ListRight BY <1>1 DEF ListRight, K!N!NoRun
<1>6. ASSUME NEW p \in Plans, NEW w \in K!N!Windows
      PROVE  tried[p][w] + Room(plans, run, keys, p, w) <= Most(w) + stops
  <2>1. tried[p][w] = 0 /\ plans[p].status = "none" BY <1>1
  <2> QED BY <1>1, <2>1 DEF Room, Most
<1> QED BY <1>1, <1>2, <1>3, <1>4, <1>5, <1>6 DEF ReminderInv, RemindTyped, RoomLeft

\* A step after which no subscription has more room.
LEMMA RoomKept ==
  ASSUME RemindTyped, RemindTyped', RoomLeft, UNCHANGED tried, stops' >= stops,
         \A p \in Plans, w \in K!N!Windows :
           Room(plans', run', keys', p, w) <= Room(plans, run, keys, p, w) + (stops' - stops)
  PROVE  RoomLeft'
<1> SUFFICES ASSUME NEW p \in Plans, NEW w \in K!N!Windows
             PROVE  tried[p][w] + Room(plans', run', keys', p, w) <= Most(w) + stops'
  BY DEF RoomLeft
<1>1. PICK n \in Nat : n = tried[p][w] BY DEF RemindTyped, NoticeTyped
<1>2. PICK m \in Nat : m = Most(w) BY DEF Most
<1>3. PICK a \in 0..m : a = Room(plans, run, keys, p, w) BY <1>2, RoomTyped
<1>4. PICK s \in Nat : s = stops BY DEF RemindTyped, NoticeTyped
<1>5. PICK t \in Nat : t = stops' BY DEF RemindTyped, NoticeTyped
<1>6. n + a <= m + s BY <1>1, <1>2, <1>3, <1>4 DEF RoomLeft
<1>7. PICK b : b = Room(plans', run', keys', p, w) OBVIOUS
<1>8. b \in Int
  <2>1. plans'[p].left \in Int /\ keys'[p][w] \in 0..3 BY DEF RemindTyped, NoticeTyped, K!N!Spans
  <2>2. Kept(run', keys', p, w) \in 0..3 BY <2>1 DEF Kept
  <2>3. Soonest(plans'[p].left, Kept(run', keys', p, w)) \in Int BY <2>1, <2>2 DEF Soonest
  <2>4. Fitting(w, Soonest(plans'[p].left, Kept(run', keys', p, w))) \in 0..Most(w) BY <2>3, FittingFacts
  <2> QED BY <1>2, <1>7, <2>4 DEF Room
<1>9. b <= a + (t - s) BY <1>3, <1>4, <1>5, <1>7
<1>10. n + b <= m + t BY <1>6, <1>8, <1>9
<1> QED BY <1>1, <1>2, <1>5, <1>7, <1>10

\* A subscription is bought, or ended.
LEMMA RemindBuy ==
  ASSUME ReminderInv, NEW p \in Plans, NEW n \in Nat \ {0}, K!N!Buy(p, n)
  PROVE  ReminderInv'
<1>1. /\ plans[p].status = "none" /\ plans' = [plans EXCEPT ![p] = [status |-> "active", left |-> n - 1]]
      /\ UNCHANGED <<keys, wants, config, template, run, schedule, wait, tried, stuck, stops>>
  BY DEF K!N!Buy, K!N!pages, K!N!marks
<1>2. /\ plans' \in [Plans -> K!N!Spans] /\ plans'[p].status = "active" /\ plans'[p].left = n - 1
      /\ \A q \in Plans : q # p => plans'[q] = plans[q]
  BY <1>1 DEF ReminderInv, RemindTyped, NoticeTyped, K!N!Spans
<1>3. RemindTyped' BY <1>1, <1>2 DEF ReminderInv, RemindTyped, ListTyped, NoticeTyped, PagesTyped
<1>4. p \notin run.todo BY <1>1 DEF ReminderInv, ListRight
<1>5. ListRight'
  <2>1. run.todo \subseteq Plans BY DEF ReminderInv, RemindTyped, ListTyped, Spots
  <2> QED BY <1>1, <1>2, <1>4, <2>1 DEF ReminderInv, ListRight
<1>6. ASSUME NEW q \in Plans, NEW w \in K!N!Windows
      PROVE  Room(plans', run', keys', q, w) <= Room(plans, run, keys, q, w) + (stops' - stops)
  <2>1. Room(plans, run, keys, q, w) \in 0..Most(w) /\ stops' - stops = 0
    BY <1>1, RoomTyped DEF ReminderInv, RemindTyped, NoticeTyped
  <2>2. CASE q = p
    <3>1. plans'[p].left \in Int /\ keys[p][w] \in 0..3 BY <1>2 DEF ReminderInv, RemindTyped, NoticeTyped, K!N!Spans
    <3>2. Kept(run, keys, p, w) \in 0..3 BY <3>1 DEF Kept
    <3>3. Soonest(plans'[p].left, Kept(run, keys, p, w)) \in Int BY <3>1, <3>2 DEF Soonest
    <3>4. PICK f \in 0..Most(w) : f = Fitting(w, Soonest(plans'[p].left, Kept(run, keys, p, w)))
      BY <3>3, FittingFacts
    <3>5. Room(plans', run', keys', p, w) = f BY <1>1, <1>2, <3>4 DEF Room
    <3>6. Room(plans, run, keys, p, w) = Most(w) BY <1>1 DEF Room
    <3> QED BY <2>1, <2>2, <3>5, <3>6 DEF Most
  <2>3. CASE q # p
    <3>1. Room(plans', run', keys', q, w) = Room(plans, run, keys, q, w) BY <1>1, <1>2, <2>3 DEF Room
    <3> QED BY <2>1, <3>1 DEF Most
  <2> QED BY <2>2, <2>3
<1>7. stops' >= stops BY <1>1 DEF ReminderInv, RemindTyped, NoticeTyped
<1>8. RoomLeft' BY <1>1, <1>3, <1>6, <1>7, RoomKept DEF ReminderInv
<1> QED BY <1>1, <1>3, <1>5, <1>8 DEF ReminderInv

LEMMA RemindReplaced ==
  ASSUME ReminderInv, NEW p \in Plans, K!N!Replaced(p)
  PROVE  ReminderInv'
<1>1. /\ plans[p].status = "active" /\ plans' = [plans EXCEPT ![p].status = "over"]
      /\ UNCHANGED <<keys, wants, config, template, run, schedule, wait, tried, stuck, stops>>
  BY DEF K!N!Replaced, K!N!pages, K!N!marks
<1>2. /\ plans' \in [Plans -> K!N!Spans] /\ plans'[p].status = "over" /\ plans'[p].left = plans[p].left
      /\ \A q \in Plans : q # p => plans'[q] = plans[q]
  BY <1>1 DEF ReminderInv, RemindTyped, NoticeTyped, K!N!Spans
<1>3. RemindTyped' BY <1>1, <1>2 DEF ReminderInv, RemindTyped, ListTyped, NoticeTyped, PagesTyped
<1>4. ListRight'
  <2>1. run.todo \subseteq Plans BY DEF ReminderInv, RemindTyped, ListTyped, Spots
  <2> QED BY <1>1, <1>2, <2>1 DEF ReminderInv, ListRight
<1>5. ASSUME NEW q \in Plans, NEW w \in K!N!Windows
      PROVE  Room(plans', run', keys', q, w) <= Room(plans, run, keys, q, w) + (stops' - stops)
  <2>1. Room(plans, run, keys, q, w) \in 0..Most(w) /\ stops' - stops = 0 /\ Most(w) \in Nat
    BY <1>1, RoomTyped DEF ReminderInv, RemindTyped, NoticeTyped, Most
  <2>2. Room(plans', run', keys', q, w) = Room(plans, run, keys, q, w) \/ Room(plans', run', keys', q, w) = 0
    BY <1>1, <1>2 DEF Room
  <2> QED BY <2>1, <2>2
<1>6. stops' >= stops BY <1>1 DEF ReminderInv, RemindTyped, NoticeTyped
<1>7. RoomLeft' BY <1>1, <1>3, <1>5, <1>6, RoomKept DEF ReminderInv
<1> QED BY <1>1, <1>3, <1>4, <1>7 DEF ReminderInv

\* Twelve hours pass: what is left shrinks by as much as the keys.
LEMMA RemindElapse ==
  ASSUME ReminderInv, K!N!Elapse
  PROVE  ReminderInv'
<1>1. /\ run.at = "idle" /\ wait > 0 /\ wait' = wait - 1
      /\ plans' = [p \in Plans |-> K!N!Aged(plans[p])]
      /\ keys' = [p \in Plans |-> [w \in K!N!Windows |-> IF keys[p][w] = 0 THEN 0 ELSE keys[p][w] - 1]]
      /\ UNCHANGED <<wants, config, template, run, schedule, tried, stuck, stops>>
  BY DEF K!N!Elapse, K!N!pages
<1>2. run.todo = {} BY <1>1 DEF ReminderInv, RemindTyped, ListTyped
<1>3. ASSUME NEW p \in Plans
      PROVE  /\ K!N!Aged(plans[p]) \in K!N!Spans
             /\ plans[p].status = "none" => K!N!Aged(plans[p]).status = "none"
             /\ K!N!Aged(plans[p]).status = "none" => plans[p].status = "none"
             /\ plans[p].status = "over" => K!N!Aged(plans[p]).status = "over"
             /\ plans[p].status = "active" => K!N!Aged(plans[p]).left = plans[p].left - 1
  <2>1. plans[p] \in K!N!Spans BY DEF ReminderInv, RemindTyped, NoticeTyped
  <2> QED BY <2>1 DEF K!N!Aged, K!N!Spans
<1>4. RemindTyped'
  <2>1. plans' \in [Plans -> K!N!Spans] BY <1>1, <1>3
  <2>2. keys' \in [Plans -> [K!N!Windows -> 0..3]]
    <3>1. \A p \in Plans, w \in K!N!Windows : (IF keys[p][w] = 0 THEN 0 ELSE keys[p][w] - 1) \in 0..3
      BY DEF ReminderInv, RemindTyped, NoticeTyped
    <3> QED BY <1>1, <3>1
  <2>3. wait' \in 0..2 BY <1>1 DEF ReminderInv, RemindTyped, NoticeTyped
  <2> QED BY <1>1, <2>1, <2>2, <2>3 DEF ReminderInv, RemindTyped, ListTyped, NoticeTyped, PagesTyped
<1>5. ListRight' BY <1>1, <1>2 DEF ListRight
<1>6. ASSUME NEW p \in Plans, NEW w \in K!N!Windows
      PROVE  Room(plans', run', keys', p, w) <= Room(plans, run, keys, p, w) + (stops' - stops)
  <2>1. Room(plans, run, keys, p, w) \in 0..Most(w) /\ stops' - stops = 0 /\ Most(w) \in Nat
    BY <1>1, RoomTyped DEF ReminderInv, RemindTyped, NoticeTyped, Most
  <2>2. plans'[p] = K!N!Aged(plans[p]) BY <1>1
  <2>3. CASE plans[p].status = "none"
    <3>1. Room(plans', run', keys', p, w) = Room(plans, run, keys, p, w) BY <1>3, <2>2, <2>3 DEF Room
    <3> QED BY <2>1, <3>1
  <2>4. CASE plans'[p].status = "over"
    <3>1. Room(plans', run', keys', p, w) = 0 BY <1>1, <1>2, <2>4 DEF Room
    <3> QED BY <2>1, <3>1
  <2>5. CASE plans[p].status # "none" /\ plans'[p].status # "over"
    <3>1. plans[p].status = "active" /\ plans'[p].status = "active" /\ plans'[p].left = plans[p].left - 1
      BY <1>3, <2>2, <2>5 DEF ReminderInv, RemindTyped, NoticeTyped, K!N!Spans
    <3>2. PICK l \in Int : l = plans[p].left BY DEF ReminderInv, RemindTyped, NoticeTyped, K!N!Spans
    <3>3. PICK k \in 0..3 : k = keys[p][w] BY DEF ReminderInv, RemindTyped, NoticeTyped
    <3>4. keys'[p][w] = IF k = 0 THEN 0 ELSE k - 1 BY <1>1, <3>3
    <3>5. Kept(run, keys, p, w) = k /\ Kept(run', keys', p, w) = IF k = 0 THEN 0 ELSE k - 1
      BY <1>1, <3>3, <3>4 DEF Kept, UnderWay
    <3>6. PICK x \in Int : x = Soonest(l, k) BY <3>2, <3>3 DEF Soonest
    <3>7. PICK y \in Int : y = Soonest(l - 1, IF k = 0 THEN 0 ELSE k - 1) BY <3>2, <3>3 DEF Soonest
    <3>8. y <= x BY <3>2, <3>3, <3>6, <3>7 DEF Soonest
    <3>9. Room(plans, run, keys, p, w) = Fitting(w, x) BY <3>1, <3>2, <3>5, <3>6 DEF Room
    <3>10. Room(plans', run', keys', p, w) = Fitting(w, y) BY <3>1, <3>2, <3>5, <3>7 DEF Room
    <3>11. Fitting(w, y) <= Fitting(w, x) BY <3>8, FittingFacts
    <3> QED BY <2>1, <3>9, <3>10, <3>11
  <2> QED BY <2>3, <2>4, <2>5
<1>7. stops' >= stops BY <1>1 DEF ReminderInv, RemindTyped, NoticeTyped
<1>8. RoomLeft' BY <1>1, <1>4, <1>6, <1>7, RoomKept DEF ReminderInv
<1> QED BY <1>1, <1>4, <1>5, <1>8 DEF ReminderInv

\* Where a run begins, turns to the next list, ends, or goes on with a message,
\* no subscription gains room.
LEMMA RoomStill ==
  ASSUME ReminderInv, RemindTyped', ListRight', UNCHANGED <<plans, tried, stops, stuck>>,
         \A p \in Plans, w \in K!N!Windows :
           /\ Kept(run', keys', p, w) = Kept(run, keys, p, w)
           /\ plans[p].status = "over" /\ p \in run'.todo /\ run'.window = w => p \in run.todo /\ run.window = w
  PROVE  ReminderInv'
<1>1. ASSUME NEW p \in Plans, NEW w \in K!N!Windows
      PROVE  Room(plans', run', keys', p, w) <= Room(plans, run, keys, p, w) + (stops' - stops)
  <2>1. Room(plans, run, keys, p, w) \in 0..Most(w) /\ stops' - stops = 0 /\ Most(w) \in Nat
    BY RoomTyped DEF ReminderInv, RemindTyped, NoticeTyped, Most
  <2>2. Room(plans', run', keys', p, w) = Room(plans, run, keys, p, w) \/ Room(plans', run', keys', p, w) = 0
    BY DEF Room
  <2> QED BY <2>1, <2>2
<1>2. stops' >= stops BY DEF ReminderInv, RemindTyped, NoticeTyped
<1>3. RoomLeft' BY <1>1, <1>2, RoomKept DEF ReminderInv
<1> QED BY <1>3 DEF ReminderInv

LEMMA ListedFacts ==
  ASSUME RemindTyped, NEW w \in K!N!Windows
  PROVE  /\ K!N!Listed(w) \subseteq Plans
         /\ \A p \in K!N!Listed(w) : plans[p].status = "active" /\ plans[p].left \in K!N!Window(w)
BY DEF K!N!Listed

LEMMA NoRunFacts ==
  /\ K!N!NoRun \in Spots /\ K!N!NoRun.at = "idle" /\ K!N!NoRun.window = "1d" /\ K!N!NoRun.todo = {}
BY DEF K!N!NoRun, Spots, K!N!Windows

LEMMA RemindTurns ==
  ASSUME ReminderInv, K!N!Begin \/ K!N!Turn \/ K!N!Finish
  PROVE  ReminderInv'
<1>1. /\ run.at \in {"idle", "each"} /\ run.todo = {} /\ wait' \in 0..2
      /\ UNCHANGED <<plans, keys, wants, config, template, schedule, tried, stuck, stops>>
      /\ \/ run' = [K!N!NoRun EXCEPT !.at = "each", !.todo = K!N!Listed("1d")]
         \/ run' = [run EXCEPT !.window = "3d", !.todo = K!N!Listed("3d")] /\ run.at = "each"
         \/ run' = K!N!NoRun
  BY DEF ReminderInv, RemindTyped, ListTyped, NoticeTyped, K!N!Begin, K!N!Turn, K!N!Finish, K!N!pages, K!N!marks
<1>2. PICK w \in K!N!Windows : /\ run' \in Spots /\ run'.at \in {"idle", "each"} /\ run'.window = w
                               /\ run'.todo \in {{}, K!N!Listed(w)} /\ (run'.at = "idle" => run'.todo = {})
  <2>1. "1d" \in K!N!Windows /\ "3d" \in K!N!Windows BY DEF K!N!Windows
  <2>2. run \in Spots /\ K!N!Listed("1d") \subseteq Plans /\ K!N!Listed("3d") \subseteq Plans
    BY <2>1, ListedFacts DEF ReminderInv, RemindTyped, ListTyped
  <2>3. CASE run' = [K!N!NoRun EXCEPT !.at = "each", !.todo = K!N!Listed("1d")]
    <3>1. run' \in Spots /\ run'.at = "each" /\ run'.window = "1d" /\ run'.todo = K!N!Listed("1d")
      BY <2>1, <2>2, <2>3, NoRunFacts DEF Spots
    <3> QED BY <2>1, <3>1
  <2>4. CASE run' = [run EXCEPT !.window = "3d", !.todo = K!N!Listed("3d")] /\ run.at = "each"
    <3>1. run' \in Spots /\ run'.at = "each" /\ run'.window = "3d" /\ run'.todo = K!N!Listed("3d")
      BY <2>1, <2>2, <2>4 DEF Spots
    <3> QED BY <2>1, <3>1
  <2>5. CASE run' = K!N!NoRun BY <2>1, <2>5, NoRunFacts
  <2> QED BY <1>1, <2>3, <2>4, <2>5
<1>3. \A p \in run'.todo : plans[p].status = "active" /\ plans[p].left \in K!N!Window(run'.window)
  BY <1>2, ListedFacts DEF ReminderInv
<1>4. RemindTyped'
  <2>1. ListTyped' BY <1>2 DEF ListTyped
  <2> QED BY <1>1, <2>1 DEF ReminderInv, RemindTyped, NoticeTyped, PagesTyped
<1>5. ListRight' BY <1>1, <1>3 DEF ListRight
<1>6. \A p \in Plans, x \in K!N!Windows : Kept(run', keys', p, x) = Kept(run, keys, p, x)
  BY <1>1, <1>2 DEF Kept, UnderWay
<1> QED BY <1>1, <1>3, <1>4, <1>5, <1>6, RoomStill

LEMMA RemindSends ==
  ASSUME ReminderInv, K!N!Deliver \/ K!N!SetKey
  PROVE  ReminderInv'
<1>1. /\ run.at \in {"send", "key"} /\ run.plan \in Plans /\ run.window \in K!N!Windows /\ run \in Spots
      /\ UNCHANGED <<plans, wants, config, template, schedule, wait, tried, stuck, stops>>
  BY DEF ReminderInv, RemindTyped, ListTyped, Spots, K!N!Deliver, K!N!SetKey, K!N!pages, K!N!marks
<1>2. /\ run' \in Spots /\ run'.window = run.window /\ run'.todo = run.todo /\ keys' \in [Plans -> [K!N!Windows -> 0..3]]
      /\ run'.at \in {"each", "send", "key"} /\ (run'.at # "each" => run'.plan = run.plan)
      /\ \A p \in Plans, w \in K!N!Windows : Kept(run', keys', p, w) = Kept(run, keys, p, w)
  <2>1. CASE K!N!Deliver
    <3>1. /\ run.at = "send" /\ UNCHANGED keys
          /\ \/ run' = [run EXCEPT !.by = {"sms"}] \/ run' = [run EXCEPT !.at = "key", !.by = {}]
      BY <2>1 DEF K!N!Deliver
    <3>2. run' \in Spots /\ run'.window = run.window /\ run'.todo = run.todo /\ run'.plan = run.plan
          /\ run'.at \in {"send", "key"}
      BY <1>1, <3>1 DEF Spots
    <3>3. \A p \in Plans, w \in K!N!Windows : Kept(run', keys', p, w) = Kept(run, keys, p, w)
      BY <3>1, <3>2 DEF Kept, UnderWay
    <3> QED BY <3>1, <3>2, <3>3 DEF ReminderInv, RemindTyped, NoticeTyped
  <2>2. CASE K!N!SetKey
    <3>1. PICK o \in Plans, x \in K!N!Windows : o = run.plan /\ x = run.window BY <1>1
    <3>2. /\ run.at = "key" /\ keys' = [keys EXCEPT ![o][x] = 3]
          /\ run' = [run EXCEPT !.at = "each", !.plan = K!N!NoRun.plan]
      BY <2>2, <3>1 DEF K!N!SetKey, K!N!Lasting
    <3>3. run' \in Spots /\ run'.window = run.window /\ run'.todo = run.todo /\ run'.at = "each"
      BY <1>1, <3>2 DEF Spots
    <3>4. /\ keys' \in [Plans -> [K!N!Windows -> 0..3]] /\ keys'[o][x] = 3
          /\ \A p \in Plans, w \in K!N!Windows : p # o \/ w # x => keys'[p][w] = keys[p][w]
      BY <3>2 DEF ReminderInv, RemindTyped, NoticeTyped
    <3>5. \A p \in Plans, w \in K!N!Windows : Kept(run', keys', p, w) = Kept(run, keys, p, w)
      BY <3>1, <3>2, <3>3, <3>4 DEF Kept, UnderWay
    <3> QED BY <3>3, <3>4, <3>5
  <2> QED BY <2>1, <2>2
<1>3. RemindTyped'
  <2>1. ListTyped' BY <1>1, <1>2 DEF ListTyped
  <2>2. NoticeTyped' BY <1>1, <1>2 DEF ReminderInv, RemindTyped, NoticeTyped
  <2> QED BY <1>1, <2>1, <2>2 DEF ReminderInv, RemindTyped, PagesTyped
<1>4. ListRight' BY <1>1, <1>2 DEF ReminderInv, ListRight
<1> QED BY <1>1, <1>2, <1>3, <1>4, RoomStill

\* A page is saved.
LEMMA RemindPages ==
  ASSUME ReminderInv, MaxStops \in Nat, K!N!PageStep
  PROVE  ReminderInv'
<1>1. /\ stops < MaxStops /\ stops' = stops + 1
      /\ UNCHANGED <<plans, keys, run, schedule, wait, tried, stuck>>
  BY DEF K!N!PageStep, K!N!Choose, K!N!SaveConfig, K!N!Seed, K!N!Saved
<1>2. PagesTyped'
  <2>1. CASE \E p \in Plans : K!N!Choose(p)
    BY <2>1 DEF ReminderInv, RemindTyped, PagesTyped, K!N!Choose
  <2>2. CASE \E send \in SUBSET K!N!Windows, route \in K!N!Routes, w \in K!N!Windows, body \in {"on", "off", "empty"} :
               K!N!SaveConfig(send, route, w, body)
    BY <2>2 DEF ReminderInv, RemindTyped, PagesTyped, K!N!SaveConfig
  <2>3. CASE K!N!Seed BY <2>3 DEF ReminderInv, RemindTyped, PagesTyped, K!N!Seed
  <2> QED BY <2>1, <2>2, <2>3 DEF K!N!PageStep
<1>3. PICK s \in Nat : s = stops BY DEF ReminderInv, RemindTyped, NoticeTyped
<1>4. stops' = s + 1 /\ stops' \in 0..MaxStops BY <1>1, <1>3
<1>5. RemindTyped' BY <1>1, <1>2, <1>4 DEF ReminderInv, RemindTyped, ListTyped, NoticeTyped
<1>6. ListRight' BY <1>1 DEF ReminderInv, ListRight
<1>7. ASSUME NEW p \in Plans, NEW w \in K!N!Windows
      PROVE  Room(plans', run', keys', p, w) <= Room(plans, run, keys, p, w) + (stops' - stops)
  <2>1. Room(plans, run, keys, p, w) \in 0..Most(w) /\ Most(w) \in Nat BY RoomTyped DEF ReminderInv, Most
  <2>2. Room(plans', run', keys', p, w) = Room(plans, run, keys, p, w) BY <1>1 DEF Room, Kept
  <2> QED BY <1>3, <1>4, <2>1, <2>2
<1>8. stops' >= stops /\ stuck' <= stops' BY <1>1, <1>3, <1>4 DEF ReminderInv, RemindTyped, NoticeTyped
<1>9. RoomLeft' BY <1>1, <1>5, <1>7, <1>8, RoomKept DEF ReminderInv
<1> QED BY <1>5, <1>6, <1>8, <1>9 DEF ReminderInv

\* A killed run may have sent a message without its key.
LEMMA RemindStop ==
  ASSUME ReminderInv, MaxStops \in Nat, K!N!Stop
  PROVE  ReminderInv'
<1>1. /\ stops < MaxStops /\ stops' = stops + 1 /\ run' = K!N!NoRun /\ wait' \in {2, wait}
      /\ stuck' \in {stuck, stuck + 1} /\ UNCHANGED <<plans, keys, wants, config, template, schedule, tried>>
  BY DEF ReminderInv, RemindTyped, NoticeTyped, K!N!Stop, K!N!pages
<1>2. PICK s \in Nat : s = stops BY DEF ReminderInv, RemindTyped, NoticeTyped
<1>3. stops' = s + 1 /\ stops' \in 0..MaxStops BY <1>1, <1>2
<1>4. stuck' \in Nat /\ stuck' <= stops' BY <1>1, <1>2, <1>3 DEF ReminderInv, RemindTyped, NoticeTyped
<1>5. RemindTyped'
  <2>1. ListTyped' BY <1>1, NoRunFacts DEF ListTyped
  <2> QED BY <1>1, <1>3, <1>4, <2>1 DEF ReminderInv, RemindTyped, NoticeTyped, PagesTyped
<1>6. ListRight' BY <1>1, NoRunFacts DEF ListRight
<1>7. ASSUME NEW p \in Plans, NEW w \in K!N!Windows
      PROVE  Room(plans', run', keys', p, w) <= Room(plans, run, keys, p, w) + (stops' - stops)
  <2>1. Room(plans, run, keys, p, w) \in 0..Most(w) /\ Most(w) \in Nat /\ stops' - stops = 1
    BY <1>2, <1>3, RoomTyped DEF ReminderInv, Most
  <2>2. PICK l \in Int : l = plans[p].left BY DEF ReminderInv, RemindTyped, NoticeTyped, K!N!Spans
  <2>3. PICK k \in 0..3 : k = keys[p][w] BY DEF ReminderInv, RemindTyped, NoticeTyped
  <2>4. PICK x \in Int : x = Soonest(l, k) BY <2>2, <2>3 DEF Soonest
  <2>5. Kept(run', keys', p, w) = k BY <1>1, <2>3, NoRunFacts DEF Kept, UnderWay
  <2>6. CASE plans[p].status = "none" BY <1>1, <2>1, <2>6 DEF Room
  <2>7. CASE plans[p].status = "over"
    <3>1. Room(plans', run', keys', p, w) = 0 BY <1>1, <2>7, NoRunFacts DEF Room
    <3> QED BY <2>1, <3>1
  <2>8. CASE plans[p].status \notin {"none", "over"}
    <3>1. Room(plans', run', keys', p, w) = Fitting(w, x) BY <1>1, <2>2, <2>4, <2>5, <2>8 DEF Room
    <3>2. CASE UnderWay(run.at, run.plan, run.window, p, w)
      <4>1. Kept(run, keys, p, w) = 3 BY <3>2 DEF Kept
      <4>2. PICK y \in Int : y = l - 2 BY <2>2
      <4>3. Room(plans, run, keys, p, w) = Fitting(w, y) BY <2>2, <2>8, <4>1, <4>2 DEF Room, Soonest
      <4>4. x <= l BY <2>2, <2>3, <2>4 DEF Soonest
      <4>5. Fitting(w, x) <= Fitting(w, l) BY <2>2, <4>4, FittingFacts
      <4>6. Fitting(w, l) <= Fitting(w, y) + 1
        <5>1. Fitting(w, l) <= Fitting(w, l - 2) + 1 BY <2>2, FittingFacts
        <5> QED BY <4>2, <5>1
      <4>7. Fitting(w, x) \in Nat /\ Fitting(w, l) \in Nat /\ Fitting(w, y) \in Nat
        BY <2>2, <4>2, FittingFacts DEF Fitting
      <4> QED BY <2>1, <3>1, <4>3, <4>5, <4>6, <4>7
    <3>3. CASE ~UnderWay(run.at, run.plan, run.window, p, w)
      <4>1. Kept(run, keys, p, w) = k BY <2>3, <3>3 DEF Kept
      <4>2. Room(plans, run, keys, p, w) = Fitting(w, x) BY <2>2, <2>4, <2>8, <4>1 DEF Room
      <4> QED BY <2>1, <3>1, <4>2
    <3> QED BY <3>2, <3>3
  <2> QED BY <2>6, <2>7, <2>8
<1>8. stops' >= stops BY <1>2, <1>3
<1>9. RoomLeft' BY <1>1, <1>5, <1>7, <1>8, RoomKept DEF ReminderInv
<1> QED BY <1>4, <1>5, <1>6, <1>9 DEF ReminderInv

\* The next of the list: what is begun uses one place.
LEMMA RemindNext ==
  ASSUME ReminderInv, NEW o \in Plans, K!N!Remind(o)
  PROVE  ReminderInv'
<1>1. PICK x \in K!N!Windows : x = run.window BY DEF ReminderInv, RemindTyped, ListTyped, Spots
<1>2. /\ run.at = "each" /\ o \in run.todo /\ run \in Spots
      /\ UNCHANGED <<plans, keys, wants, config, template, schedule, wait, stuck, stops>>
      /\ plans[o].status # "none" /\ plans[o].left \in K!N!Window(x)
  BY <1>1 DEF ReminderInv, RemindTyped, ListTyped, ListRight, K!N!Remind, K!N!pages
<1>3. \/ run' = [run EXCEPT !.todo = @ \ {o}] /\ UNCHANGED tried
      \/ /\ keys[o][x] < 2
         /\ \/ run' = [run EXCEPT !.todo = @ \ {o}, !.plan = o, !.at = "key"] /\ UNCHANGED tried
            \/ /\ run' = [run EXCEPT !.todo = @ \ {o}, !.plan = o, !.at = "send", !.by = K!N!ByRoute]
               /\ tried' = [tried EXCEPT ![o][x] = @ + 1]
  BY <1>1 DEF K!N!Remind
<1>4. K!N!ByRoute \subseteq {"whatsapp", "sms"}
  BY DEF K!N!ByRoute, ReminderInv, RemindTyped, PagesTyped, K!N!Routes
<1>5. /\ run' \in Spots /\ run'.window = x /\ run'.todo = run.todo \ {o} /\ run'.at \in {"each", "send", "key"}
      /\ run'.at # "each" => run'.plan = o /\ keys[o][x] < 2
  BY <1>1, <1>2, <1>3, <1>4 DEF Spots
<1>6. /\ tried' \in [Plans -> [K!N!Windows -> Nat]]
      /\ \A p \in Plans, w \in K!N!Windows : tried'[p][w] = tried[p][w] \/ (p = o /\ w = x /\ run'.at = "send")
      /\ tried'[o][x] \in {tried[o][x], tried[o][x] + 1}
  <2>1. tried \in [Plans -> [K!N!Windows -> Nat]] BY DEF ReminderInv, RemindTyped, NoticeTyped
  <2>2. CASE UNCHANGED tried BY <2>1, <2>2
  <2>3. CASE /\ run' = [run EXCEPT !.todo = @ \ {o}, !.plan = o, !.at = "send", !.by = K!N!ByRoute]
             /\ tried' = [tried EXCEPT ![o][x] = @ + 1]
    <3>1. run'.at = "send" BY <1>2, <2>3 DEF Spots
    <3>2. tried' \in [Plans -> [K!N!Windows -> Nat]] BY <2>1, <2>3
    <3>3. tried'[o][x] = tried[o][x] + 1 BY <2>1, <2>3
    <3>4. \A p \in Plans, w \in K!N!Windows : tried'[p][w] = tried[p][w] \/ (p = o /\ w = x)
      BY <2>1, <2>3
    <3> QED BY <3>1, <3>2, <3>3, <3>4
  <2> QED BY <1>3, <2>2, <2>3
<1>7. RemindTyped'
  <2>1. ListTyped' BY <1>5 DEF ListTyped
  <2>2. NoticeTyped' BY <1>2, <1>6 DEF ReminderInv, RemindTyped, NoticeTyped
  <2> QED BY <1>2, <2>1, <2>2 DEF ReminderInv, RemindTyped, PagesTyped
<1>8. ListRight' BY <1>1, <1>2, <1>5 DEF ReminderInv, ListRight
<1>9. ASSUME NEW p \in Plans, NEW w \in K!N!Windows
      PROVE  tried'[p][w] + Room(plans', run', keys', p, w) <= Most(w) + stops'
  <2>1. PICK n \in Nat : n = tried[p][w] BY DEF ReminderInv, RemindTyped, NoticeTyped
  <2>2. PICK m \in Nat : m = Most(w) BY DEF Most
  <2>3. PICK a \in 0..m : a = Room(plans, run, keys, p, w) BY <2>2, RoomTyped DEF ReminderInv
  <2>4. PICK s \in Nat : s = stops BY DEF ReminderInv, RemindTyped, NoticeTyped
  <2>5. n + a <= m + s BY <2>1, <2>2, <2>3, <2>4 DEF ReminderInv, RoomLeft
  <2>6. CASE p = o /\ w = x /\ run'.at # "each"
    <3>1. PICK l \in Int : l = plans[o].left BY DEF ReminderInv, RemindTyped, NoticeTyped, K!N!Spans
    <3>2. Kept(run, keys, p, w) = keys[o][x] /\ keys[o][x] < 2 /\ keys[o][x] \in 0..3
      BY <1>2, <1>5, <2>6 DEF Kept, UnderWay, ReminderInv, RemindTyped, NoticeTyped
    <3>3. a = Fitting(w, l) BY <1>1, <1>2, <2>3, <2>6, <3>1, <3>2 DEF Room, Soonest
    <3>4. Kept(run', keys', p, w) = 3 BY <1>5, <2>6 DEF Kept, UnderWay
    <3>5. PICK y \in Int : y = l - 2 BY <3>1
    <3>6. Room(plans', run', keys', p, w) \in {0, Fitting(w, y)}
      BY <1>2, <2>6, <3>1, <3>4, <3>5 DEF Room, Soonest
    <3>7. Fitting(w, l) = Fitting(w, y) + 1 /\ Fitting(w, y) \in Nat
      <4>1. l \in K!N!Window(w) BY <1>2, <2>6, <3>1
      <4>2. Fitting(w, l) = Fitting(w, l - 2) + 1 BY <3>1, <4>1, FittingFacts
      <4> QED BY <3>5, <4>2 DEF Fitting
    <3>8. tried'[p][w] \in {n, n + 1} BY <1>6, <2>1, <2>6
    <3> QED BY <1>2, <2>2, <2>3, <2>4, <2>5, <3>3, <3>6, <3>7, <3>8
  <2>7. CASE ~(p = o /\ w = x /\ run'.at # "each")
    <3>1. Kept(run', keys', p, w) = Kept(run, keys, p, w) BY <1>2, <1>5, <2>7 DEF Kept, UnderWay
    <3>2. Room(plans', run', keys', p, w) \in {0, a} BY <1>1, <1>2, <1>5, <2>3, <3>1 DEF Room
    <3>3. tried'[p][w] = n BY <1>6, <2>1, <2>7
    <3> QED BY <1>2, <2>2, <2>3, <2>4, <2>5, <3>2, <3>3
  <2> QED BY <2>6, <2>7
<1>10. RoomLeft' BY <1>9 DEF RoomLeft
<1> QED BY <1>2, <1>7, <1>8, <1>10 DEF ReminderInv

LEMMA RemindMoves ==
  ASSUME ReminderInv, MaxStops \in Nat, Lives \subseteq Nat \ {0}, K!ReminderStep
  PROVE  ReminderInv'
<1>1. CASE K!N!Begin \/ K!N!Turn \/ K!N!Finish BY <1>1, RemindTurns
<1>2. CASE K!N!Deliver \/ K!N!SetKey BY <1>2, RemindSends
<1>3. CASE \E p \in Plans : K!N!Remind(p) BY <1>3, RemindNext
<1>4. CASE K!N!Elapse BY <1>4, RemindElapse
<1>5. CASE \E p \in Plans : K!N!Replaced(p) BY <1>5, RemindReplaced
<1>6. CASE \E p \in Plans : \E n \in Lives : K!Bought(p, n) BY <1>6, RemindBuy DEF K!Bought
<1>7. CASE K!N!Stop BY <1>7, RemindStop
<1>8. CASE K!N!PageStep BY <1>8, RemindPages
<1> QED BY <1>1, <1>2, <1>3, <1>4, <1>5, <1>6, <1>7, <1>8 DEF K!ReminderStep, K!N!RunStep

LEMMA RemindIdle ==
  ASSUME ReminderInv, UNCHANGED <<plans, keys, wants, config, template, run, schedule, wait, tried, stuck, stops>>
  PROVE  ReminderInv'
BY DEF ReminderInv, RemindTyped, ListTyped, NoticeTyped, PagesTyped, ListRight, RoomLeft

\* While runs come on time, who is in the last day was reminded, is on the list,
\* or will be before the plan ends.
NoneSilent == \A p \in Plans, w \in K!N!Windows : ~K!N!Silent(p, w)
SentFirst == /\ run.at \in {"send", "key"} => tried[run.plan][run.window] >= 1
             /\ \A p \in Plans : keys[p]["1d"] > 0 => tried[p]["1d"] >= 1
Awaits(p) == \/ tried[p]["1d"] >= 1
             \/ run.at # "idle" /\ run.window = "1d" /\ p \in run.todo
             \/ run.at = "idle" /\ wait <= plans[p].left
InTime == \A p \in Plans : /\ plans[p].left < 0 => tried[p]["1d"] >= 1
                           /\ plans[p].status = "active" => plans[p].left >= 0
                           /\ plans[p].status = "active" /\ plans[p].left \in 0..1 => Awaits(p)
SteadyInv == NoneSilent /\ SentFirst /\ InTime

LEMMA SteadyStart == ASSUME K!N!NoticesInit PROVE SteadyInv
<1>1. /\ plans = [p \in Plans |-> [status |-> "none", left |-> 0]]
      /\ keys = [p \in Plans |-> [w \in K!N!Windows |-> 0]] /\ run.at = "idle"
      /\ wants = [p \in Plans |-> TRUE] /\ config.send = K!N!Windows
      /\ template = [w \in K!N!Windows |-> "none"] /\ "1d" \in K!N!Windows
  BY NoRunFacts DEF K!N!NoticesInit, K!N!NoPlan, K!N!Windows
<1>2. NoneSilent BY <1>1 DEF NoneSilent, K!N!Silent
<1>3. SentFirst BY <1>1 DEF SentFirst
<1>4. InTime BY <1>1 DEF InTime
<1> QED BY <1>2, <1>3, <1>4 DEF SteadyInv

LEMMA SteadyBuy ==
  ASSUME ReminderInv, SteadyInv, NEW p \in Plans, NEW n \in Nat \ {0}, n >= 3, K!N!Buy(p, n)
  PROVE  SteadyInv'
<1>1. /\ plans' = [plans EXCEPT ![p] = [status |-> "active", left |-> n - 1]]
      /\ UNCHANGED <<keys, wants, config, template, run, schedule, wait, tried>>
  BY DEF K!N!Buy, K!N!pages, K!N!marks
<1>2. /\ plans'[p].status = "active" /\ plans'[p].left = n - 1 /\ n - 1 >= 2
      /\ \A q \in Plans : q # p => plans'[q] = plans[q]
  BY <1>1 DEF ReminderInv, RemindTyped, NoticeTyped
<1>3. InTime' BY <1>1, <1>2 DEF SteadyInv, InTime, Awaits
<1> QED BY <1>1, <1>3 DEF SteadyInv, NoneSilent, K!N!Silent, SentFirst

LEMMA SteadyReplaced ==
  ASSUME ReminderInv, SteadyInv, NEW p \in Plans, K!N!Replaced(p)
  PROVE  SteadyInv'
<1>1. /\ plans[p].status = "active" /\ plans' = [plans EXCEPT ![p].status = "over"]
      /\ UNCHANGED <<keys, wants, config, template, run, schedule, wait, tried>>
  BY DEF K!N!Replaced, K!N!pages, K!N!marks
<1>2. /\ plans'[p].status = "over" /\ plans'[p].left = plans[p].left
      /\ \A q \in Plans : q # p => plans'[q] = plans[q]
  BY <1>1 DEF ReminderInv, RemindTyped, NoticeTyped, K!N!Spans
<1>3. InTime' BY <1>1, <1>2 DEF SteadyInv, InTime, Awaits
<1> QED BY <1>1, <1>3 DEF SteadyInv, NoneSilent, K!N!Silent, SentFirst

LEMMA SteadyElapse ==
  ASSUME ReminderInv, SteadyInv, K!N!Elapse
  PROVE  SteadyInv'
<1>1. /\ run.at = "idle" /\ wait > 0 /\ wait' = wait - 1 /\ wait \in 0..2
      /\ plans' = [p \in Plans |-> K!N!Aged(plans[p])]
      /\ keys' = [p \in Plans |-> [w \in K!N!Windows |-> IF keys[p][w] = 0 THEN 0 ELSE keys[p][w] - 1]]
      /\ UNCHANGED <<wants, config, template, run, schedule, tried>>
  BY DEF K!N!Elapse, K!N!pages, ReminderInv, RemindTyped, NoticeTyped
<1>2. "1d" \in K!N!Windows BY DEF K!N!Windows
<1>3. SentFirst'
  <2>1. ASSUME NEW p \in Plans, keys'[p]["1d"] > 0 PROVE tried'[p]["1d"] >= 1
    <3>1. keys[p]["1d"] > 0 BY <1>1, <1>2, <2>1 DEF ReminderInv, RemindTyped, NoticeTyped
    <3> QED BY <1>1, <3>1 DEF SteadyInv, SentFirst
  <2> QED BY <1>1, <2>1 DEF SentFirst
<1>4. ASSUME NEW p \in Plans
      PROVE  /\ plans'[p].left < 0 => tried'[p]["1d"] >= 1
             /\ plans'[p].status = "active" => plans'[p].left >= 0
             /\ plans'[p].status = "active" /\ plans'[p].left \in 0..1 => Awaits(p)'
  <2>1. plans'[p] = K!N!Aged(plans[p]) /\ plans[p] \in K!N!Spans /\ tried' = tried
    BY <1>1 DEF ReminderInv, RemindTyped, NoticeTyped
  <2>2. /\ plans[p].left < 0 => tried[p]["1d"] >= 1
        /\ plans[p].status = "active" => plans[p].left >= 0
        /\ plans[p].status = "active" /\ plans[p].left \in 0..1 => tried[p]["1d"] >= 1 \/ wait <= plans[p].left
    BY <1>1 DEF SteadyInv, InTime, Awaits
  <2>3. CASE plans[p].status # "active"
    <3>1. plans'[p] = plans[p] BY <2>1, <2>3 DEF K!N!Aged
    <3> QED BY <2>1, <2>2, <2>3, <3>1
  <2>4. CASE plans[p].status = "active" /\ plans[p].left = 0
    <3>1. plans'[p] = [status |-> "over", left |-> -1] BY <2>1, <2>4 DEF K!N!Aged
    <3>2. tried[p]["1d"] >= 1 BY <1>1, <2>2, <2>4
    <3> QED BY <2>1, <3>1, <3>2
  <2>5. CASE plans[p].status = "active" /\ plans[p].left # 0
    <3>1. plans'[p].status = "active" /\ plans'[p].left = plans[p].left - 1
      BY <2>1, <2>5 DEF K!N!Aged, K!N!Spans
    <3>2. plans[p].left \in Nat /\ plans[p].left >= 1 BY <2>1, <2>2, <2>5 DEF K!N!Spans
    <3>3. tried[p]["1d"] >= 1 \/ wait <= plans[p].left BY <1>1, <2>2, <2>5, <3>2
    <3>4. tried[p]["1d"] >= 1 \/ wait' <= plans'[p].left BY <1>1, <3>1, <3>2, <3>3
    <3> QED BY <1>1, <3>1, <3>2, <3>4 DEF Awaits
  <2> QED BY <2>3, <2>4, <2>5
<1>5. InTime' BY <1>4 DEF InTime
<1> QED BY <1>1, <1>3, <1>5 DEF SteadyInv, NoneSilent, K!N!Silent

LEMMA SteadyRun ==
  ASSUME ReminderInv, ReminderInv', SteadyInv, K!N!RunStep
  PROVE  SteadyInv'
<1>1. UNCHANGED <<plans, wants, config, template, schedule>>
  BY DEF K!N!RunStep, K!N!Begin, K!N!Turn, K!N!Finish, K!N!Remind, K!N!Deliver, K!N!SetKey, K!N!pages, K!N!marks
<1>2. NoneSilent' BY <1>1 DEF SteadyInv, NoneSilent, K!N!Silent
<1>3. "1d" \in K!N!Windows /\ run \in Spots /\ plans \in [Plans -> K!N!Spans] /\ wait \in 0..2
      /\ tried \in [Plans -> [K!N!Windows -> Nat]]
  BY DEF K!N!Windows, ReminderInv, RemindTyped, ListTyped, NoticeTyped
<1>4. CASE K!N!Begin
  <2>1. /\ run.at = "idle" /\ (schedule = 1 \/ wait = 0) /\ UNCHANGED <<keys, tried, wait>>
        /\ run' = [K!N!NoRun EXCEPT !.at = "each", !.todo = K!N!Listed("1d")]
    BY <1>4 DEF K!N!Begin, K!N!marks
  <2>2. run'.at = "each" /\ run'.window = "1d" /\ run'.todo = K!N!Listed("1d")
    BY <2>1, NoRunFacts DEF Spots
  <2>3. \A p \in Plans : plans[p].status = "active" /\ plans[p].left \in 0..1 => p \in run'.todo
    BY <2>2 DEF K!N!Listed, K!N!Window
  <2>4. InTime' BY <1>1, <2>1, <2>2, <2>3 DEF SteadyInv, InTime, Awaits
  <2> QED BY <1>1, <1>2, <2>1, <2>2, <2>4 DEF SteadyInv, SentFirst
<1>5. CASE K!N!Turn \/ K!N!Finish
  <2>1. /\ run.at = "each" /\ run.todo = {} /\ UNCHANGED <<keys, tried>> /\ run'.at \in {"each", "idle"}
    BY <1>3, <1>5, NoRunFacts DEF K!N!Turn, K!N!Finish, K!N!marks, Spots
  <2>2. InTime' BY <1>1, <2>1 DEF SteadyInv, InTime, Awaits
  <2> QED BY <1>1, <1>2, <2>1, <2>2 DEF SteadyInv, SentFirst
<1>6. ASSUME NEW o \in Plans, K!N!Remind(o) PROVE SteadyInv'
  <2>1. PICK x \in K!N!Windows : x = run.window BY <1>3 DEF Spots
  <2>2. /\ run.at = "each" /\ o \in run.todo /\ UNCHANGED keys
        /\ \/ keys[o][x] > 0 /\ run' = [run EXCEPT !.todo = @ \ {o}] /\ UNCHANGED tried
           \/ /\ run' = [run EXCEPT !.todo = @ \ {o}, !.plan = o, !.at = "send", !.by = K!N!ByRoute]
              /\ tried' = [tried EXCEPT ![o][x] = @ + 1]
    BY <1>6, <2>1 DEF K!N!Remind, SteadyInv, NoneSilent
  <2>3. CASE keys[o][x] > 0 /\ run' = [run EXCEPT !.todo = @ \ {o}] /\ UNCHANGED tried
    <3>1. run'.at = "each" /\ run'.window = x /\ run'.todo = run.todo \ {o} BY <1>3, <2>1, <2>2, <2>3 DEF Spots
    <3>2. x = "1d" => tried[o]["1d"] >= 1 BY <2>3 DEF SteadyInv, SentFirst
    <3>3. InTime' BY <1>1, <2>1, <2>2, <2>3, <3>1, <3>2 DEF SteadyInv, InTime, Awaits
    <3> QED BY <1>2, <2>2, <2>3, <3>1, <3>3 DEF SteadyInv, SentFirst
  <2>4. CASE /\ run' = [run EXCEPT !.todo = @ \ {o}, !.plan = o, !.at = "send", !.by = K!N!ByRoute]
             /\ tried' = [tried EXCEPT ![o][x] = @ + 1]
    <3>1. /\ run'.at = "send" /\ run'.window = x /\ run'.todo = run.todo \ {o} /\ run'.plan = o
      BY <1>3, <2>1, <2>2, <2>4 DEF Spots
    <3>2. tried'[o][x] >= 1 /\ \A p \in Plans : tried'[p]["1d"] >= tried[p]["1d"]
      <4>1. tried'[o][x] = tried[o][x] + 1 /\ tried[o][x] \in Nat BY <1>3, <2>4
      <4>2. \A p \in Plans : tried'[p]["1d"] = tried[p]["1d"] \/ (p = o /\ x = "1d") BY <1>3, <2>4
      <4>3. \A p \in Plans : tried[p]["1d"] \in Nat BY <1>3
      <4> QED BY <4>1, <4>2, <4>3
    <3>3. \A p \in Plans : tried[p]["1d"] >= 1 => tried'[p]["1d"] >= 1
      <4> SUFFICES ASSUME NEW p \in Plans, tried[p]["1d"] >= 1 PROVE tried'[p]["1d"] >= 1 OBVIOUS
      <4>1. PICK i \in Nat : i = tried[p]["1d"] BY <1>3
      <4>2. PICK j \in Nat : j = tried'[p]["1d"] BY <1>3 DEF ReminderInv, RemindTyped, NoticeTyped
      <4> QED BY <3>2, <4>1, <4>2
    <3>4. InTime'
      <4> SUFFICES ASSUME NEW p \in Plans
                   PROVE  /\ plans[p].left < 0 => tried'[p]["1d"] >= 1
                          /\ plans[p].status = "active" => plans[p].left >= 0
                          /\ plans[p].status = "active" /\ plans[p].left \in 0..1
                               => tried'[p]["1d"] >= 1 \/ (run'.at # "idle" /\ run'.window = "1d" /\ p \in run'.todo)
        BY <1>1 DEF InTime, Awaits
      <4>1. plans[p].status = "active" /\ plans[p].left \in 0..1
              => tried[p]["1d"] >= 1 \/ (run.window = "1d" /\ p \in run.todo)
        BY <2>2 DEF SteadyInv, InTime, Awaits
      <4>2. /\ plans[p].left < 0 => tried[p]["1d"] >= 1
            /\ plans[p].status = "active" => plans[p].left >= 0
        BY DEF SteadyInv, InTime
      <4>3. tried[p]["1d"] >= 1 => tried'[p]["1d"] >= 1 BY <3>3
      <4>4. run.window = "1d" /\ p \in run.todo
              => tried'[p]["1d"] >= 1 \/ (run'.at # "idle" /\ run'.window = "1d" /\ p \in run'.todo)
        <5>1. CASE p = o BY <2>1, <3>2, <5>1
        <5>2. CASE p # o BY <2>1, <3>1, <5>2
        <5> QED BY <5>1, <5>2
      <4> QED BY <4>1, <4>2, <4>3, <4>4, Zenon
    <3>5. SentFirst' BY <2>2, <3>1, <3>2, <3>3 DEF SteadyInv, SentFirst
    <3> QED BY <1>2, <3>4, <3>5 DEF SteadyInv
  <2> QED BY <2>2, <2>3, <2>4
<1>7. CASE K!N!Deliver
  <2>1. /\ run.at = "send" /\ UNCHANGED <<keys, tried>>
        /\ \/ run' = [run EXCEPT !.by = {"sms"}] \/ run' = [run EXCEPT !.at = "key", !.by = {}]
    BY <1>7 DEF K!N!Deliver, K!N!marks
  <2>2. run'.at \in {"send", "key"} /\ run'.window = run.window /\ run'.plan = run.plan /\ run'.todo = run.todo
    BY <1>3, <2>1 DEF Spots
  <2>3. InTime' BY <1>1, <2>1, <2>2 DEF SteadyInv, InTime, Awaits
  <2> QED BY <1>2, <2>1, <2>2, <2>3 DEF SteadyInv, SentFirst
<1>8. CASE K!N!SetKey
  <2>1. PICK o \in Plans, x \in K!N!Windows : o = run.plan /\ x = run.window /\ run.at = "key"
    BY <1>3, <1>8 DEF Spots, ReminderInv, RemindTyped, ListTyped, K!N!SetKey
  <2>2. /\ keys' = [keys EXCEPT ![o][x] = 3] /\ UNCHANGED tried
        /\ run' = [run EXCEPT !.at = "each", !.plan = K!N!NoRun.plan]
    BY <1>8, <2>1 DEF K!N!SetKey, K!N!Lasting, K!N!marks
  <2>3. run'.at = "each" BY <1>3, <2>2 DEF Spots
  <2>4. tried[o][x] >= 1 BY <2>1 DEF SteadyInv, SentFirst
  <2>5. \A p \in Plans : keys'[p]["1d"] = keys[p]["1d"] \/ (p = o /\ x = "1d")
    BY <1>3, <2>2 DEF ReminderInv, RemindTyped, NoticeTyped
  <2>6. SentFirst' BY <2>2, <2>3, <2>4, <2>5 DEF SteadyInv, SentFirst
  <2>7. InTime' BY <1>1, <2>1, <2>2, <2>3 DEF SteadyInv, InTime, Awaits
  <2> QED BY <1>2, <2>6, <2>7 DEF SteadyInv
<1> QED BY <1>4, <1>5, <1>6, <1>7, <1>8 DEF K!N!RunStep

-----------------------------------------------------------------------------
(* The alarms, which are told once in the time of their throttle, and told *)
(* again as long as they are up                                            *)

Checks == [at : {"idle", "each", "wa", "sms", "key"}, part : 0..3, todo : SUBSET K!A!Alarms,
           alarm : K!A!Alarms, channel : K!A!OpChannels]
RowTyped ==
  /\ platform \in K!A!Platforms /\ opSession \in {"connected", "connecting", "out"}
  /\ events \in Seq(BOOLEAN) /\ form \in [at : {"idle", "loaded"}, wa : BOOLEAN]
  /\ answer \in {"none", "connected", "connecting", "out"}
AlarmTyped ==
  /\ raised \in [K!A!Alarms -> 0..3] /\ throttle \in [K!A!Alarms -> 0..2]
  /\ said \in [K!A!Alarms -> Nat] /\ quiet \in [K!A!Alarms -> Nat] /\ missed \subseteq K!A!Alarms
  /\ check \in Checks /\ alertKills \in Nat
  /\ check.at = "idle" => check.part = 0 /\ check.todo = {}

\* A message was begun for the alarm, and its key is not set yet.
Flying(c, a) == c.at \in {"wa", "sms", "key"} /\ c.alarm = a
RarelyTold == \A a \in K!A!Alarms :
          \/ said[a] <= alertKills
          \/ said[a] <= alertKills + 1 /\ (throttle[a] = 2 \/ Flying(check, a))

\* The event is on, somebody is to be told, and SMS is a channel.
Loud == platform.on /\ platform.phones /\ platform.channel # "whatsapp"
\* What the run must tell before it ends.
Pending(a) == raised[a] = 3 /\ throttle[a] = 0 /\ quiet[a] > 0
Awaited(c, a) == \/ c.at = "idle" \/ a \in c.todo \/ Flying(c, a)
             \/ \E n \in 1..3 : n > c.part /\ a \in K!A!Part(n)
QuietFor(a) ==
  /\ quiet[a] + throttle[a] <= 2
  /\ raised[a] \in {0, 1} => quiet[a] = 0
  /\ raised[a] = 2 => quiet[a] <= 1
  /\ Pending(a) => a \in missed /\ Awaited(check, a)
StillTold ==
  /\ check.at = "wa" => check.channel = "both"
  /\ check.at = "key" => quiet[check.alarm] = 0
  /\ \A a \in K!A!Alarms : QuietFor(a)

\* What the row says once the events on their way have arrived.
Coming(p, e) == IF e = <<>> THEN p.wa ELSE e[Len(e)]
Follows == /\ answer = "none" /\ (form.at = "loaded" => form.wa = platform.wa)
           /\ opSession = "connected" => Coming(platform, events)
           /\ opSession = "out" => ~Coming(platform, events)

AlertsInv ==
  /\ RowTyped /\ AlarmTyped /\ RarelyTold
  /\ mode = "checks" /\ Loud => StillTold
  /\ mode = "serial" => Follows

LEMMA AlarmFacts ==
  /\ K!A!Spike \in K!A!Alarms /\ K!A!NoCheck \in Checks /\ K!A!NoCheck.at = "idle"
  /\ K!A!NoCheck.part = 0 /\ K!A!NoCheck.todo = {}
  /\ \A n \in 1..3 : K!A!Part(n) \subseteq K!A!Alarms
  /\ \A a \in K!A!Alarms : \E n \in 1..3 : a \in K!A!Part(n)
<1>1. K!A!Part(1) = Silents BY DEF K!A!Part
<1>2. K!A!Part(2) = {K!A!Spike} BY DEF K!A!Part
<1>3. K!A!Part(3) = Limited BY DEF K!A!Part
<1>4. 1..3 = {1, 2, 3} OBVIOUS
<1>5. \A n \in 1..3 : K!A!Part(n) \subseteq K!A!Alarms BY <1>1, <1>2, <1>3, <1>4 DEF K!A!Alarms
<1>6. \A a \in K!A!Alarms : \E n \in 1..3 : a \in K!A!Part(n) BY <1>1, <1>2, <1>3, <1>4 DEF K!A!Alarms
<1>7. K!A!Spike \in K!A!Alarms BY DEF K!A!Alarms
<1> QED BY <1>5, <1>6, <1>7 DEF K!A!NoCheck, Checks, K!A!OpChannels

LEMMA AlertsStart ==
  ASSUME K!A!AlertsInit, mode = "serial" => platform = K!Usual PROVE AlertsInv
<1>1. /\ platform \in K!A!Platforms /\ ~platform.wa /\ opSession = "out" /\ events = <<>>
      /\ form = [at |-> "idle", wa |-> FALSE] /\ answer = "none" /\ alertKills = 0 /\ check = K!A!NoCheck
      /\ raised = [a \in K!A!Alarms |-> 0] /\ throttle = [a \in K!A!Alarms |-> 0]
      /\ said = [a \in K!A!Alarms |-> 0] /\ quiet = [a \in K!A!Alarms |-> 0] /\ missed = K!A!Alarms
  BY DEF K!A!AlertsInit, K!A!NoForm
<1>2. RowTyped BY <1>1 DEF RowTyped
<1>3. AlarmTyped BY <1>1, AlarmFacts DEF AlarmTyped
<1>4. RarelyTold BY <1>1 DEF RarelyTold
<1>5. StillTold BY <1>1, AlarmFacts DEF StillTold, QuietFor, Pending
<1>6. Follows BY <1>1 DEF Follows, Coming
<1> QED BY <1>2, <1>3, <1>4, <1>5, <1>6 DEF AlertsInv

\* The row's writers.  The alarms are left alone, and the settings too, except
\* by the page that saves them.
Untold == UNCHANGED <<raised, throttle, said, quiet, missed, check, alertKills, mode>>
LEMMA RowSteps ==
  ASSUME AlertsInv, RowTyped', Untold,
         mode = "checks" => /\ platform'.on = platform.on /\ platform'.phones = platform.phones
                            /\ platform'.channel = platform.channel,
         mode = "serial" => Follows'
  PROVE  AlertsInv'
<1>1. AlarmTyped' BY DEF AlertsInv, AlarmTyped, Untold
<1>2. RarelyTold' BY DEF AlertsInv, RarelyTold, Untold
<1>3. mode = "checks" /\ Loud' => StillTold'
  <2> SUFFICES ASSUME mode = "checks", Loud' PROVE StillTold' OBVIOUS
  <2>1. StillTold BY DEF AlertsInv, Loud
  <2> QED BY <2>1 DEF StillTold, QuietFor, Pending, Untold
<1> QED BY <1>1, <1>2, <1>3 DEF AlertsInv, Untold

LEMMA ComingFacts ==
  ASSUME NEW e \in Seq(BOOLEAN), NEW b \in BOOLEAN, NEW p
  PROVE  /\ Append(e, b) \in Seq(BOOLEAN) /\ Coming(p, Append(e, b)) = b
         /\ e # <<>> => /\ Tail(e) \in Seq(BOOLEAN) /\ Head(e) \in BOOLEAN
                        /\ Coming([p EXCEPT !.wa = Head(e)], Tail(e)) =
                             IF Len(e) = 1 THEN [p EXCEPT !.wa = Head(e)].wa ELSE e[Len(e)]
<1>1. Append(e, b) \in Seq(BOOLEAN) /\ Append(e, b) # <<>> /\ Len(Append(e, b)) = Len(e) + 1
      /\ Append(e, b)[Len(e) + 1] = b
  OBVIOUS
<1>2. ASSUME e # <<>>
      PROVE  /\ Tail(e) \in Seq(BOOLEAN) /\ Head(e) \in BOOLEAN
             /\ Coming([p EXCEPT !.wa = Head(e)], Tail(e)) =
                  IF Len(e) = 1 THEN [p EXCEPT !.wa = Head(e)].wa ELSE e[Len(e)]
  <2>1. Tail(e) \in Seq(BOOLEAN) /\ Head(e) \in BOOLEAN /\ Len(Tail(e)) = Len(e) - 1 /\ Len(e) \in Nat \ {0}
    BY <1>2
  <2>2. CASE Len(e) = 1
    <3>1. Len(Tail(e)) = 0 BY <2>1, <2>2
    <3>2. Tail(e) = <<>> BY <2>1, <3>1, EmptySeq
    <3> QED BY <2>1, <2>2, <3>2 DEF Coming
  <2>3. CASE Len(e) # 1
    <3>1. PICK n \in Nat : n = Len(e) BY <2>1
    <3>2. n # 0 /\ n # 1 /\ Len(Tail(e)) = n - 1 BY <2>1, <2>3, <3>1
    <3>3. Tail(e) # <<>>
      <4>1. n - 1 # 0 BY <3>2
      <4>2. Len(Tail(e)) # 0 BY <3>2, <4>1
      <4> QED BY <2>1, <4>2, EmptySeq
    <3>4. Len(Tail(e)) \in 1..Len(Tail(e))
      <4>1. n - 1 \in 1..(n - 1) BY <3>2
      <4> QED BY <3>2, <4>1
    <3>5. Tail(e)[Len(Tail(e))] = e[Len(Tail(e)) + 1] BY <1>2, <2>1, <3>3, <3>4, HeadTailProperties
    <3>6. Len(Tail(e)) + 1 = Len(e) BY <2>1
    <3> QED BY <2>1, <2>3, <3>3, <3>5, <3>6 DEF Coming
  <2> QED BY <2>1, <2>2, <2>3
<1> QED BY <1>1, <1>2 DEF Coming

LEMMA SessionFlip ==
  ASSUME AlertsInv, mode = "serial" => K!Alone, K!A!SessionMoves, UNCHANGED mode
  PROVE  AlertsInv'
<1>1. /\ UNCHANGED <<platform, form, answer, edits>> /\ Untold
      /\ \/ opSession' = "connected" /\ events' = Append(events, TRUE)
         \/ opSession' = "out" /\ events' = Append(events, FALSE)
         \/ opSession' = "connecting" /\ UNCHANGED events
  BY DEF K!A!SessionMoves, K!A!writers, K!A!alarm, Untold
<1>2. RowTyped'
  <2>1. events' \in Seq(BOOLEAN) BY <1>1, ComingFacts DEF AlertsInv, RowTyped
  <2> QED BY <1>1, <2>1 DEF AlertsInv, RowTyped
<1>3. mode = "serial" => Follows'
  <2> SUFFICES ASSUME mode = "serial" PROVE Follows' OBVIOUS
  <2>1. Follows /\ events \in Seq(BOOLEAN) BY DEF AlertsInv, RowTyped
  <2>2. \A b \in BOOLEAN : Coming(platform, Append(events, b)) = b BY <2>1, ComingFacts
  <2>3. CASE opSession' = "connected" /\ events' = Append(events, TRUE)
    <3>1. Coming(platform, events') = TRUE BY <2>2, <2>3
    <3> QED BY <1>1, <2>1, <2>3, <3>1 DEF Follows
  <2>4. CASE opSession' = "out" /\ events' = Append(events, FALSE)
    <3>1. Coming(platform, events') = FALSE BY <2>2, <2>4
    <3> QED BY <1>1, <2>1, <2>4, <3>1 DEF Follows
  <2>5. CASE opSession' = "connecting" /\ UNCHANGED events BY <1>1, <2>1, <2>5 DEF Follows
  <2> QED BY <1>1, <2>3, <2>4, <2>5
<1> QED BY <1>1, <1>2, <1>3, RowSteps

LEMMA WebhookHeard ==
  ASSUME AlertsInv, mode = "serial" => K!Alone, K!A!Webhook, UNCHANGED mode
  PROVE  AlertsInv'
<1>1. /\ events # <<>> /\ events' = Tail(events) /\ platform' = [platform EXCEPT !.wa = Head(events)]
      /\ UNCHANGED <<opSession, form, answer>> /\ Untold
  BY DEF K!A!Webhook, K!A!Believed, K!A!writers, K!A!alarm, Untold
<1>2. events \in Seq(BOOLEAN) /\ platform \in K!A!Platforms BY DEF AlertsInv, RowTyped
<1>3. events' \in Seq(BOOLEAN) /\ Head(events) \in BOOLEAN BY <1>1, <1>2
<1>4. /\ platform' \in K!A!Platforms /\ platform'.wa = Head(events) /\ platform'.on = platform.on
      /\ platform'.phones = platform.phones /\ platform'.channel = platform.channel
  BY <1>1, <1>2, <1>3 DEF K!A!Platforms
<1>5. RowTyped' BY <1>1, <1>3, <1>4 DEF AlertsInv, RowTyped
<1>6. mode = "serial" => Follows'
  <2> SUFFICES ASSUME mode = "serial" PROVE Follows' OBVIOUS
  <2>1. Follows /\ form.at = "idle" BY DEF AlertsInv, K!Alone
  <2>2. Coming(platform, events) = events[Len(events)] BY <1>1 DEF Coming
  <2>3. Coming(platform', events') = IF Len(events) = 1 THEN platform'.wa ELSE events[Len(events)]
    BY <1>1, <1>2, ComingFacts
  <2>4. Len(events) = 1 => Head(events) = events[Len(events)] BY <1>1, <1>2
  <2>5. Coming(platform', events') = Coming(platform, events) BY <1>4, <2>2, <2>3, <2>4
  <2> QED BY <1>1, <2>1, <2>5 DEF Follows
<1> QED BY <1>1, <1>4, <1>5, <1>6, RowSteps

LEMMA FormSteps ==
  ASSUME AlertsInv, UNCHANGED mode, mode \in {"serial", "open"},
         \/ K!A!FormLoad
         \/ \E on, phones \in BOOLEAN, ch \in K!A!OpChannels : K!A!FormSave(on, phones, ch)
  PROVE  AlertsInv'
<1>1. Untold /\ UNCHANGED <<opSession, events, answer>>
  BY DEF K!A!FormLoad, K!A!FormSave, K!A!opWa, K!A!alarm, Untold
<1>2. platform \in K!A!Platforms /\ form \in [at : {"idle", "loaded"}, wa : BOOLEAN]
  BY DEF AlertsInv, RowTyped
<1>3. /\ platform' \in K!A!Platforms /\ form' \in [at : {"idle", "loaded"}, wa : BOOLEAN]
      /\ platform'.wa \in {platform.wa, form.wa} /\ (platform'.wa # platform.wa => form.at = "loaded")
      /\ form'.at = "loaded" => form'.wa = platform'.wa
  <2>1. CASE K!A!FormLoad
    <3>1. UNCHANGED platform /\ form' = [at |-> "loaded", wa |-> platform.wa] BY <2>1 DEF K!A!FormLoad
    <3> QED BY <1>2, <3>1 DEF K!A!Platforms
  <2>2. ASSUME NEW on \in BOOLEAN, NEW phones \in BOOLEAN, NEW ch \in K!A!OpChannels, K!A!FormSave(on, phones, ch)
        PROVE  /\ platform' \in K!A!Platforms /\ form' \in [at : {"idle", "loaded"}, wa : BOOLEAN]
               /\ platform'.wa \in {platform.wa, form.wa} /\ (platform'.wa # platform.wa => form.at = "loaded")
               /\ form'.at = "loaded" => form'.wa = platform'.wa
    <3>1. /\ form.at = "loaded" /\ form' = [at |-> "idle", wa |-> FALSE]
          /\ platform' = [on |-> on, phones |-> phones, channel |-> ch, wa |-> form.wa]
      BY <2>2 DEF K!A!FormSave, K!A!NoForm
    <3> QED BY <1>2, <3>1 DEF K!A!Platforms
  <2> QED BY <2>1, <2>2
<1>4. RowTyped' BY <1>1, <1>3 DEF AlertsInv, RowTyped
<1>5. mode = "serial" => Follows'
  <2> SUFFICES ASSUME mode = "serial" PROVE Follows' OBVIOUS
  <2>1. Follows BY DEF AlertsInv
  <2>2. platform'.wa = platform.wa BY <1>3, <2>1 DEF Follows
  <2> QED BY <1>1, <1>3, <2>1, <2>2 DEF Follows, Coming
<1> QED BY <1>1, <1>4, <1>5, RowSteps

LEMMA OpenSteps ==
  ASSUME AlertsInv, UNCHANGED mode, mode = "open", K!A!EventLost \/ K!A!OpDisconnect \/ K!A!Poll
  PROVE  AlertsInv'
<1>1. /\ Untold /\ UNCHANGED form /\ events' \in {events, Tail(events)} /\ (events' # events => events # <<>>)
      /\ opSession' \in {"out", opSession} /\ answer' \in {"none", "out", answer, opSession}
      /\ platform' = platform \/ \E up \in BOOLEAN : platform' = [platform EXCEPT !.wa = up]
  BY DEF K!A!EventLost, K!A!OpDisconnect, K!A!Poll, K!A!PollAsk, K!A!PollSave, K!A!Believed, K!A!Flip,
         K!A!writers, K!A!opWa, K!A!alarm, Untold
<1>2. platform' \in K!A!Platforms BY <1>1 DEF AlertsInv, RowTyped, K!A!Platforms
<1>3. events' \in Seq(BOOLEAN) BY <1>1 DEF AlertsInv, RowTyped
<1>4. RowTyped' BY <1>1, <1>2, <1>3 DEF AlertsInv, RowTyped
<1> QED BY <1>1, <1>4, RowSteps

Unwritten == mode = "checks" /\ UNCHANGED <<platform, opSession, events, form, answer, mode>>
LEMMA CheckSteps ==
  ASSUME AlertsInv, Unwritten, AlarmTyped', RarelyTold', Loud /\ StillTold => StillTold'
  PROVE  AlertsInv'
<1>1. RowTyped' BY DEF AlertsInv, RowTyped, Unwritten
<1>2. Loud' => Loud BY DEF Loud, Unwritten
<1> QED BY <1>1, <1>2 DEF AlertsInv, Unwritten

LEMMA AlarmMoves ==
  ASSUME AlertsInv, mode = "checks", UNCHANGED mode, NEW a \in K!A!Alarms, K!A!Raise(a) \/ K!A!Clear(a)
  PROVE  AlertsInv'
<1>1. /\ Unwritten /\ UNCHANGED <<throttle, said, missed, check, alertKills>>
      /\ \/ raised[a] = 0 /\ raised' = [raised EXCEPT ![a] = IF a \in Silents THEN 1 ELSE 3] /\ UNCHANGED quiet
         \/ raised' = [raised EXCEPT ![a] = 0] /\ quiet' = [quiet EXCEPT ![a] = 0]
  BY DEF K!A!Raise, K!A!Clear, K!A!writers, K!A!opWa, Unwritten
<1>2. /\ raised' \in [K!A!Alarms -> 0..3] /\ quiet' \in [K!A!Alarms -> Nat]
      /\ \A b \in K!A!Alarms : b # a => raised'[b] = raised[b] /\ quiet'[b] = quiet[b]
      /\ quiet'[a] = 0 \/ (raised[a] = 0 /\ quiet'[a] = quiet[a])
      /\ \A b \in K!A!Alarms : quiet'[b] \in {0, quiet[b]}
  BY <1>1 DEF AlertsInv, AlarmTyped
<1>3. AlarmTyped' BY <1>1, <1>2 DEF AlertsInv, AlarmTyped
<1>4. RarelyTold' BY <1>1 DEF AlertsInv, RarelyTold
<1>5. ASSUME StillTold PROVE StillTold'
  <2>1. quiet'[a] = 0 BY <1>2, <1>5 DEF StillTold, QuietFor
  <2>2. throttle[a] \in 0..2 BY DEF AlertsInv, AlarmTyped
  <2>3. QuietFor(a)' BY <1>1, <2>1, <2>2 DEF QuietFor, Pending
  <2>4. ASSUME NEW b \in K!A!Alarms, b # a PROVE QuietFor(b)'
    BY <1>1, <1>2, <1>5, <2>4 DEF StillTold, QuietFor, Pending
  <2>5. check.at = "key" => quiet'[check.alarm] = 0
    BY <1>2, <1>5 DEF StillTold, AlertsInv, AlarmTyped, Checks
  <2> QED BY <1>1, <1>5, <2>3, <2>4, <2>5 DEF StillTold
<1> QED BY <1>1, <1>3, <1>4, <1>5, CheckSteps

LEMMA AlarmPasses ==
  ASSUME AlertsInv, mode = "checks", UNCHANGED mode, NEW a \in K!A!Alarms, K!A!Pass(a)
  PROVE  AlertsInv'
<1>1. /\ Unwritten /\ UNCHANGED <<check, alertKills>> /\ a \notin missed /\ check.at = "idle"
      /\ missed' = missed \cup {a}
      /\ raised' = [raised EXCEPT ![a] = IF raised[a] \in {0, 3} THEN raised[a] ELSE raised[a] + 1]
      /\ throttle' = [throttle EXCEPT ![a] = IF throttle[a] = 0 THEN 0 ELSE throttle[a] - 1]
      /\ said' = [said EXCEPT ![a] = 0]
      /\ quiet' = [quiet EXCEPT ![a] = IF raised[a] = 0 THEN 0 ELSE IF quiet[a] = 4 THEN 4 ELSE quiet[a] + 1]
  BY DEF K!A!Pass, K!A!writers, K!A!opWa, Unwritten
<1>2. /\ raised \in [K!A!Alarms -> 0..3] /\ throttle \in [K!A!Alarms -> 0..2]
      /\ said \in [K!A!Alarms -> Nat] /\ quiet \in [K!A!Alarms -> Nat]
  BY DEF AlertsInv, AlarmTyped
<1>3. PICK r \in 0..3, t \in 0..2, q \in Nat : r = raised[a] /\ t = throttle[a] /\ q = quiet[a] BY <1>2
<1>4. /\ raised'[a] = (IF r \in {0, 3} THEN r ELSE r + 1) /\ throttle'[a] = (IF t = 0 THEN 0 ELSE t - 1)
      /\ said'[a] = 0 /\ quiet'[a] = IF r = 0 THEN 0 ELSE IF q = 4 THEN 4 ELSE q + 1
  BY <1>1, <1>2, <1>3
<1>5. \A b \in K!A!Alarms : b # a => /\ raised'[b] = raised[b] /\ throttle'[b] = throttle[b]
                                     /\ said'[b] = said[b] /\ quiet'[b] = quiet[b]
  BY <1>1, <1>2
<1>6. AlarmTyped'
  <2>1. raised' \in [K!A!Alarms -> 0..3] BY <1>1, <1>2
  <2>2. throttle' \in [K!A!Alarms -> 0..2] BY <1>1, <1>2
  <2>3. said' \in [K!A!Alarms -> Nat] BY <1>1, <1>2
  <2>4. quiet' \in [K!A!Alarms -> Nat] BY <1>1, <1>2
  <2> QED BY <1>1, <2>1, <2>2, <2>3, <2>4 DEF AlertsInv, AlarmTyped
<1>7. RarelyTold'
  <2>1. ASSUME NEW b \in K!A!Alarms
        PROVE  \/ said'[b] <= alertKills'
               \/ said'[b] <= alertKills' + 1 /\ (throttle'[b] = 2 \/ Flying(check', b))
    <3>1. CASE b = a BY <1>1, <1>4, <3>1 DEF AlertsInv, AlarmTyped
    <3>2. CASE b # a BY <1>1, <1>5, <3>2 DEF AlertsInv, RarelyTold
    <3> QED BY <3>1, <3>2
  <2> QED BY <2>1 DEF RarelyTold
<1>8. ASSUME StillTold PROVE StillTold'
  <2>1. /\ q + t <= 2 /\ (r \in {0, 1} => q = 0) /\ (r = 2 => q <= 1) /\ ~(r = 3 /\ t = 0 /\ q > 0)
    BY <1>1, <1>3, <1>8 DEF StillTold, QuietFor, Pending
  <2>2. PICK s \in 0..3, u \in 0..2, v \in Nat : s = raised'[a] /\ u = throttle'[a] /\ v = quiet'[a]
    BY <1>6 DEF AlarmTyped
  <2>3. /\ s = (IF r \in {0, 3} THEN r ELSE r + 1) /\ u = (IF t = 0 THEN 0 ELSE t - 1)
        /\ v = IF r = 0 THEN 0 ELSE IF q = 4 THEN 4 ELSE q + 1
    BY <1>4, <2>2
  <2>4. v + u <= 2 /\ (s \in {0, 1} => v = 0) /\ (s = 2 => v <= 1) BY <2>1, <2>3
  <2>5. QuietFor(a)' BY <1>1, <2>2, <2>4 DEF QuietFor, Awaited
  <2>6. ASSUME NEW b \in K!A!Alarms, b # a PROVE QuietFor(b)'
    BY <1>1, <1>5, <1>8, <2>6 DEF StillTold, QuietFor, Pending
  <2> QED BY <1>1, <2>5, <2>6 DEF StillTold
<1> QED BY <1>1, <1>6, <1>7, <1>8, CheckSteps

\* A run that reads its next list, ends, or is killed.
LEMMA CheckTurns ==
  ASSUME AlertsInv, mode = "checks", UNCHANGED mode, K!A!Query \/ K!A!Checked \/ K!A!KillCheck
  PROVE  AlertsInv'
<1>1. Unwritten /\ UNCHANGED <<raised, throttle, said, quiet>>
  BY DEF K!A!Query, K!A!Checked, K!A!KillCheck, K!A!writers, K!A!opWa, K!A!alarm, Unwritten
<1>2. /\ check \in Checks /\ (check.at = "idle" => check.part = 0 /\ check.todo = {})
      /\ raised \in [K!A!Alarms -> 0..3] /\ alertKills \in Nat /\ said \in [K!A!Alarms -> Nat]
  BY DEF AlertsInv, AlarmTyped
<1>3. CASE K!A!Query
  <2>1. PICK k \in 0..3 : k = check.part BY <1>2 DEF Checks
  <2>2. /\ \/ check.at = "idle"
           \/ check.at = "each" /\ check.todo = {} /\ k < 3
        /\ UNCHANGED <<missed, alertKills>>
        /\ \E found \in SUBSET {a \in K!A!Part(k + 1) : raised[a] >= 2} :
             /\ {a \in K!A!Part(k + 1) : raised[a] = 3} \subseteq found
             /\ check' = [check EXCEPT !.at = "each", !.part = k + 1, !.todo = found]
    BY <1>3, <2>1 DEF K!A!Query, K!A!alarm
  <2>3. check.at \in {"idle", "each"} /\ check.todo = {} /\ k \in 0..2
    BY <1>2, <2>1, <2>2
  <2>4. PICK n \in 1..3 : n = k + 1 BY <2>3
  <2>5. PICK found :
          /\ found \subseteq K!A!Part(n) /\ {a \in K!A!Part(n) : raised[a] = 3} \subseteq found
          /\ check' = [check EXCEPT !.at = "each", !.part = n, !.todo = found]
    BY <2>2, <2>4
  <2>6. found \subseteq K!A!Alarms BY <2>5, AlarmFacts
  <2>7. check' \in Checks /\ check'.at = "each" /\ check'.part = n /\ check'.todo = found
    <3>1. n \in 0..3 /\ "each" \in {"idle", "each", "wa", "sms", "key"} OBVIOUS
    <3> QED BY <1>2, <2>5, <2>6, <3>1 DEF Checks
  <2>8. AlarmTyped' BY <1>1, <2>2, <2>7 DEF AlertsInv, AlarmTyped
  <2>9. RarelyTold' BY <1>1, <2>2, <2>3 DEF AlertsInv, RarelyTold, Flying
  <2>10. ASSUME StillTold PROVE StillTold'
    <3>1. ASSUME NEW a \in K!A!Alarms PROVE QuietFor(a)'
      <4>1. QuietFor(a) BY <2>10 DEF StillTold
      <4>2. ASSUME Pending(a) PROVE Awaited(check', a)
        <5>1. Awaited(check, a) /\ raised[a] = 3 BY <4>1, <4>2 DEF QuietFor, Pending
        <5>2. \E m \in 1..3 : m > k /\ a \in K!A!Part(m)
          <6>1. CASE check.at = "idle"
            <7>1. k = 0 BY <1>2, <2>1, <6>1
            <7>2. PICK m \in 1..3 : a \in K!A!Part(m) BY AlarmFacts
            <7> QED BY <7>1, <7>2
          <6>2. CASE check.at = "each" BY <2>1, <2>3, <5>1, <6>2 DEF Awaited, Flying
          <6> QED BY <2>3, <6>1, <6>2
        <5>3. PICK m \in 1..3 : m > k /\ a \in K!A!Part(m) BY <5>2
        <5>4. CASE m = n
          <6>1. a \in found BY <2>5, <5>1, <5>3, <5>4
          <6> QED BY <2>7, <6>1 DEF Awaited
        <5>5. CASE m # n
          <6>1. m > n BY <2>1, <2>4, <5>3, <5>5
          <6> QED BY <2>7, <5>3, <6>1 DEF Awaited
        <5> QED BY <5>4, <5>5
      <4> QED BY <1>1, <2>2, <4>1, <4>2 DEF QuietFor, Pending
    <3> QED BY <2>7, <3>1 DEF StillTold
  <2> QED BY <1>1, <2>8, <2>9, <2>10, CheckSteps
<1>4. CASE K!A!Checked
  <2>1. /\ check.at = "each" /\ check.todo = {} /\ check.part = 3 /\ check' = K!A!NoCheck
        /\ missed' = {} /\ UNCHANGED alertKills
    BY <1>4 DEF K!A!Checked
  <2>2. AlarmTyped' BY <1>1, <2>1, AlarmFacts DEF AlertsInv, AlarmTyped
  <2>3. RarelyTold' BY <1>1, <2>1 DEF AlertsInv, RarelyTold, Flying
  <2>4. ASSUME StillTold PROVE StillTold'
    <3>1. ASSUME NEW a \in K!A!Alarms PROVE QuietFor(a)'
      <4>1. QuietFor(a) BY <2>4 DEF StillTold
      <4>2. ~Awaited(check, a) BY <2>1 DEF Awaited, Flying
      <4> QED BY <1>1, <4>1, <4>2 DEF QuietFor, Pending
    <3> QED BY <2>1, <3>1, AlarmFacts DEF StillTold
  <2> QED BY <1>1, <2>2, <2>3, <2>4, CheckSteps
<1>5. CASE K!A!KillCheck
  <2>1. check' = K!A!NoCheck /\ alertKills' = alertKills + 1 /\ UNCHANGED missed
    BY <1>5 DEF K!A!KillCheck, K!A!alarm
  <2>2. AlarmTyped' BY <1>1, <2>1, AlarmFacts DEF AlertsInv, AlarmTyped
  <2>3. RarelyTold'
    <3>1. ASSUME NEW a \in K!A!Alarms PROVE said[a] <= alertKills + 1
      <4>1. said[a] <= alertKills \/ said[a] <= alertKills + 1 BY DEF AlertsInv, RarelyTold
      <4> QED BY <1>2, <4>1
    <3> QED BY <1>1, <2>1, <3>1 DEF RarelyTold
  <2>4. ASSUME StillTold PROVE StillTold'
    BY <1>1, <2>1, <2>4, AlarmFacts DEF StillTold, QuietFor, Pending, Awaited
  <2> QED BY <1>1, <2>2, <2>3, <2>4, CheckSteps
<1> QED BY <1>3, <1>4, <1>5

\* The next alarm of the list is left alone, or begun, or not begun at all since
\* nobody is to be told.
LEMMA CheckTells ==
  ASSUME AlertsInv, mode = "checks", UNCHANGED mode, NEW o \in K!A!Alarms, K!A!Tell(o)
  PROVE  AlertsInv'
<1>1. /\ Unwritten /\ UNCHANGED <<raised, throttle, quiet, missed, alertKills>>
      /\ check.at = "each" /\ o \in check.todo
      /\ \/ throttle[o] > 0 /\ check' = [check EXCEPT !.todo = check.todo \ {o}] /\ UNCHANGED said
         \/ /\ throttle[o] < 2
            /\ check' = [check EXCEPT !.todo = check.todo \ {o}, !.at = K!A!First(o), !.alarm = o,
                                      !.channel = platform.channel]
            /\ IF K!A!First(o) = "key" THEN UNCHANGED said ELSE said' = [said EXCEPT ![o] = said[o] + 1]
  BY DEF K!A!Tell, K!A!writers, K!A!opWa, Unwritten
<1>2. /\ check \in Checks /\ said \in [K!A!Alarms -> Nat] /\ throttle \in [K!A!Alarms -> 0..2]
      /\ alertKills \in Nat /\ platform \in K!A!Platforms /\ platform.channel \in K!A!OpChannels
  BY DEF AlertsInv, AlarmTyped, RowTyped, K!A!Platforms
<1>3. CASE throttle[o] > 0 /\ check' = [check EXCEPT !.todo = check.todo \ {o}] /\ UNCHANGED said
  <2>1. check' \in Checks /\ check'.at = "each" /\ check'.todo = check.todo \ {o} /\ check'.part = check.part
    BY <1>1, <1>2, <1>3 DEF Checks
  <2>2. AlarmTyped' BY <1>1, <1>3, <2>1 DEF AlertsInv, AlarmTyped
  <2>3. RarelyTold' BY <1>1, <1>3 DEF AlertsInv, RarelyTold, Flying
  <2>4. ASSUME StillTold PROVE StillTold'
    <3>1. ASSUME NEW a \in K!A!Alarms PROVE QuietFor(a)'
      <4>1. QuietFor(a) BY <2>4 DEF StillTold
      <4>2. ASSUME Pending(a) PROVE Awaited(check', a)
        <5>1. a # o /\ Awaited(check, a) BY <1>3, <4>1, <4>2 DEF QuietFor, Pending
        <5> QED BY <1>1, <2>1, <5>1 DEF Awaited, Flying
      <4> QED BY <1>1, <4>1, <4>2 DEF QuietFor, Pending
    <3> QED BY <2>1, <3>1 DEF StillTold
  <2> QED BY <1>1, <2>2, <2>3, <2>4, CheckSteps
<1>4. CASE /\ throttle[o] < 2
           /\ check' = [check EXCEPT !.todo = check.todo \ {o}, !.at = K!A!First(o), !.alarm = o,
                                     !.channel = platform.channel]
           /\ IF K!A!First(o) = "key" THEN UNCHANGED said ELSE said' = [said EXCEPT ![o] = said[o] + 1]
  <2>1. K!A!First(o) \in {"wa", "sms", "key"} BY DEF K!A!First
  <2>2. /\ check' \in Checks /\ check'.at = K!A!First(o) /\ check'.todo = check.todo \ {o}
        /\ check'.part = check.part /\ check'.alarm = o /\ check'.channel = platform.channel
    BY <1>2, <1>4, <2>1 DEF Checks
  <2>3. /\ said' \in [K!A!Alarms -> Nat] /\ said'[o] \in {said[o], said[o] + 1}
        /\ \A b \in K!A!Alarms : b # o => said'[b] = said[b]
    BY <1>2, <1>4
  <2>4. AlarmTyped' BY <1>1, <2>1, <2>2, <2>3 DEF AlertsInv, AlarmTyped
  <2>5. RarelyTold'
    <3>1. said[o] <= alertKills BY <1>1, <1>2, <1>4 DEF AlertsInv, RarelyTold, Flying
    <3>2. ASSUME NEW b \in K!A!Alarms
          PROVE  \/ said'[b] <= alertKills'
                 \/ said'[b] <= alertKills' + 1 /\ (throttle'[b] = 2 \/ Flying(check', b))
      <4>1. CASE b = o
        <5>1. PICK x \in Nat, k \in Nat : x = said[o] /\ k = alertKills BY <1>2
        <5>2. said'[b] <= k + 1 BY <2>3, <3>1, <4>1, <5>1
        <5>3. Flying(check', b) BY <2>1, <2>2, <4>1 DEF Flying
        <5> QED BY <1>1, <5>1, <5>2, <5>3
      <4>2. CASE b # o
        <5>1. said[b] <= alertKills \/ (said[b] <= alertKills + 1 /\ throttle[b] = 2)
          BY <1>1 DEF AlertsInv, RarelyTold, Flying
        <5> QED BY <1>1, <2>3, <4>2, <5>1
      <4> QED BY <4>1, <4>2
    <3> QED BY <3>2 DEF RarelyTold
  <2>6. ASSUME Loud, StillTold PROVE StillTold'
    <3>1. K!A!First(o) \in {"wa", "sms"} /\ (K!A!First(o) = "wa" => platform.channel = "both")
      BY <1>2, <2>6 DEF Loud, K!A!First, K!A!OpChannels
    <3>2. ASSUME NEW a \in K!A!Alarms PROVE QuietFor(a)'
      <4>1. QuietFor(a) BY <2>6 DEF StillTold
      <4>2. ASSUME Pending(a) PROVE Awaited(check', a)
        <5>1. Awaited(check, a) BY <4>1, <4>2 DEF QuietFor
        <5>2. CASE a = o BY <2>2, <3>1, <5>2 DEF Awaited, Flying
        <5>3. CASE a # o BY <1>1, <2>2, <5>1, <5>3 DEF Awaited, Flying
        <5> QED BY <5>2, <5>3
      <4> QED BY <1>1, <4>1, <4>2 DEF QuietFor, Pending
    <3> QED BY <2>2, <3>1, <3>2 DEF StillTold
  <2> QED BY <1>1, <2>4, <2>5, <2>6, CheckSteps
<1> QED BY <1>1, <1>3, <1>4

\* The message is handed over, or fails, or its key is set.
LEMMA CheckSends ==
  ASSUME AlertsInv, mode = "checks", UNCHANGED mode, K!A!ByWa \/ K!A!BySms
  PROVE  AlertsInv'
<1>1. /\ Unwritten /\ UNCHANGED <<raised, throttle, said, missed, alertKills>>
      /\ check.at \in {"wa", "sms"}
      /\ \/ check' = [check EXCEPT !.at = "key"] /\ quiet' = [quiet EXCEPT ![check.alarm] = 0]
         \/ check' = [check EXCEPT !.at = K!A!Fallback] /\ check.at = "wa" /\ UNCHANGED quiet
  BY DEF K!A!ByWa, K!A!BySms, K!A!Spoken, K!A!writers, K!A!opWa, Unwritten
<1>2. check \in Checks /\ quiet \in [K!A!Alarms -> Nat] /\ throttle \in [K!A!Alarms -> 0..2]
  BY DEF AlertsInv, AlarmTyped
<1>3. PICK o \in K!A!Alarms : o = check.alarm BY <1>2 DEF Checks
<1>4. K!A!Fallback \in {"sms", "key"} /\ (check.channel = "both" => K!A!Fallback = "sms") BY DEF K!A!Fallback
<1>5. /\ check' \in Checks /\ check'.at \in {"sms", "key"} /\ check'.todo = check.todo
      /\ check'.part = check.part /\ check'.alarm = o /\ check'.channel = check.channel
  BY <1>1, <1>2, <1>3, <1>4 DEF Checks
<1>6. /\ quiet' \in [K!A!Alarms -> Nat] /\ \A b \in K!A!Alarms : b # o => quiet'[b] = quiet[b]
      /\ \/ quiet'[o] = 0
         \/ quiet'[o] = quiet[o] /\ check'.at = K!A!Fallback /\ check.at = "wa"
  BY <1>1, <1>2, <1>3 DEF Checks
<1>7. AlarmTyped' BY <1>1, <1>5, <1>6 DEF AlertsInv, AlarmTyped
<1>8. RarelyTold' BY <1>1, <1>3, <1>5 DEF AlertsInv, RarelyTold, Flying
<1>9. ASSUME StillTold PROVE StillTold'
  <2>1. quiet'[o] = 0 \/ (quiet'[o] = quiet[o] /\ check'.at = "sms") BY <1>4, <1>6, <1>9 DEF StillTold
  <2>2. ASSUME NEW a \in K!A!Alarms PROVE QuietFor(a)'
    <3>1. QuietFor(a) BY <1>9 DEF StillTold
    <3>2. \A b \in K!A!Alarms : Awaited(check, b) => Awaited(check', b)
      BY <1>1, <1>3, <1>5 DEF Awaited, Flying
    <3>3. CASE quiet'[a] = quiet[a] BY <1>1, <3>1, <3>2, <3>3 DEF QuietFor, Pending
    <3>4. CASE quiet'[a] = 0 BY <1>1, <1>2, <3>4 DEF QuietFor, Pending
    <3> QED BY <1>6, <2>1, <3>3, <3>4
  <2>3. check'.at = "key" => quiet'[check'.alarm] = 0 BY <1>5, <2>1
  <2> QED BY <1>5, <2>2, <2>3 DEF StillTold
<1> QED BY <1>1, <1>7, <1>8, <1>9, CheckSteps

LEMMA CheckKeys ==
  ASSUME AlertsInv, mode = "checks", UNCHANGED mode, K!A!Throttle
  PROVE  AlertsInv'
<1>1. /\ check \in Checks /\ throttle \in [K!A!Alarms -> 0..2] /\ quiet \in [K!A!Alarms -> Nat]
      /\ said \in [K!A!Alarms -> Nat] /\ alertKills \in Nat
  BY DEF AlertsInv, AlarmTyped
<1>2. PICK o \in K!A!Alarms : o = check.alarm BY <1>1 DEF Checks
<1>3. /\ Unwritten /\ UNCHANGED <<raised, said, quiet, missed, alertKills>> /\ check.at = "key"
      /\ throttle' = [throttle EXCEPT ![o] = 2]
      /\ check' = [check EXCEPT !.at = "each", !.alarm = K!A!Spike, !.channel = "sms"]
  BY <1>2 DEF K!A!Throttle, K!A!Held, K!A!writers, K!A!opWa, Unwritten
<1>4. check' \in Checks /\ check'.at = "each" /\ check'.todo = check.todo /\ check'.part = check.part
  BY <1>1, <1>3, AlarmFacts DEF Checks, K!A!OpChannels
<1>5. /\ throttle' \in [K!A!Alarms -> 0..2] /\ throttle'[o] = 2
      /\ \A b \in K!A!Alarms : b # o => throttle'[b] = throttle[b]
  BY <1>1, <1>3
<1>6. AlarmTyped' BY <1>3, <1>4, <1>5 DEF AlertsInv, AlarmTyped
<1>7. RarelyTold'
  <2> SUFFICES ASSUME NEW b \in K!A!Alarms
               PROVE  \/ said[b] <= alertKills
                      \/ said[b] <= alertKills + 1 /\ throttle'[b] = 2
    BY <1>3 DEF RarelyTold
  <2>1. \/ said[b] <= alertKills
        \/ said[b] <= alertKills + 1 /\ (throttle[b] = 2 \/ b = o)
    BY <1>2 DEF AlertsInv, RarelyTold, Flying
  <2> QED BY <1>5, <2>1
<1>8. ASSUME StillTold PROVE StillTold'
  <2>1. quiet[o] = 0 BY <1>2, <1>3, <1>8 DEF StillTold
  <2>2. QuietFor(o)
    BY <1>8 DEF StillTold
  <2>3. QuietFor(o)' BY <1>3, <1>5, <2>1, <2>2 DEF QuietFor, Pending
  <2>4. ASSUME NEW a \in K!A!Alarms, a # o PROVE QuietFor(a)'
    <3>1. QuietFor(a) BY <1>8 DEF StillTold
    <3>2. Awaited(check, a) => Awaited(check', a) BY <1>2, <1>3, <1>4, <2>4 DEF Awaited, Flying
    <3> QED BY <1>3, <1>5, <2>4, <3>1, <3>2 DEF QuietFor, Pending
  <2> QED BY <1>4, <2>3, <2>4 DEF StillTold
<1> QED BY <1>3, <1>6, <1>7, <1>8, CheckSteps

LEMMA AlertMoves ==
  ASSUME AlertsInv, UNCHANGED mode, K!AlertStep
  PROVE  AlertsInv'
<1>1. CASE mode = "checks"
  <2>1. \/ K!A!CheckStep \/ K!A!KillCheck \/ K!A!SessionMoves \/ K!A!Webhook
        \/ \E a \in K!A!Alarms : K!A!AlarmStep(a)
    BY <1>1 DEF K!AlertStep
  <2>2. CASE K!A!Query \/ K!A!Checked \/ K!A!KillCheck BY <1>1, <2>2, CheckTurns
  <2>3. CASE \E a \in K!A!Alarms : K!A!Tell(a) BY <1>1, <2>3, CheckTells
  <2>4. CASE K!A!ByWa \/ K!A!BySms BY <1>1, <2>4, CheckSends
  <2>5. CASE K!A!Throttle BY <1>1, <2>5, CheckKeys
  <2>6. CASE \E a \in K!A!Alarms : K!A!AlarmStep(a) BY <1>1, <2>6, AlarmMoves, AlarmPasses DEF K!A!AlarmStep
  <2>7. CASE K!A!SessionMoves BY <1>1, <2>7, SessionFlip
  <2>8. CASE K!A!Webhook BY <1>1, <2>8, WebhookHeard
  <2> QED BY <2>1, <2>2, <2>3, <2>4, <2>5, <2>6, <2>7, <2>8 DEF K!A!CheckStep
<1>2. CASE mode = "serial"
  <2>1. \/ K!A!FormLoad
        \/ \E on, phones \in BOOLEAN, ch \in K!A!OpChannels : K!A!FormSave(on, phones, ch)
        \/ K!Alone /\ (K!A!SessionMoves \/ K!A!Webhook)
    BY <1>2 DEF K!AlertStep
  <2> QED BY <1>2, <2>1, SessionFlip, WebhookHeard, FormSteps
<1>3. CASE mode = "open"
  <2>1. \/ K!A!SessionMoves \/ K!A!Webhook \/ K!A!EventLost \/ K!A!OpDisconnect
        \/ K!A!Poll \/ K!A!FormLoad \/ K!A!FormSave(TRUE, TRUE, "both")
    BY <1>3 DEF K!AlertStep
  <2>2. K!A!FormSave(TRUE, TRUE, "both")
          => \E on, phones \in BOOLEAN, ch \in K!A!OpChannels : K!A!FormSave(on, phones, ch)
    BY DEF K!A!OpChannels
  <2> QED BY <1>3, <2>1, <2>2, SessionFlip, WebhookHeard, FormSteps, OpenSteps
<1> QED BY <1>1, <1>2, <1>3 DEF K!AlertStep

\* The reminders and the alarms together.
NoticesInv == ReminderInv /\ (mode = "steady" => SteadyInv) /\ AlertsInv

LEMMA NoticesInvStart == ASSUME K!MCInit, MaxStops \in Nat PROVE NoticesInv
BY ReminderStart, SteadyStart, AlertsStart DEF K!MCInit, NoticesInv

LEMMA NoticesInvStep ==
  ASSUME NoticesInv, [K!MCNext]_(K!modal), MaxStops \in Nat, Lives \subseteq Nat \ {0}
  PROVE  NoticesInv'
<1>1. CASE K!ReminderStep /\ K!Reminding /\ UNCHANGED <<K!alerts, mode>>
  <2>1. ReminderInv' BY <1>1, RemindMoves DEF NoticesInv
  <2>2. AlertsInv'
    <3>1. /\ UNCHANGED <<platform, opSession, events, form, answer, raised, throttle, said, quiet, missed, mode>>
          /\ UNCHANGED <<check, alertKills>>
      BY <1>1 DEF K!alerts
    <3>2. RowTyped' /\ AlarmTyped' /\ RarelyTold' BY <3>1 DEF NoticesInv, AlertsInv, RowTyped, AlarmTyped, RarelyTold
    <3>3. mode \notin {"checks", "serial"} BY <1>1 DEF K!Reminding
    <3> QED BY <3>1, <3>2, <3>3 DEF AlertsInv
  <2>3. mode = "steady" => SteadyInv'
    <3> SUFFICES ASSUME mode = "steady" PROVE SteadyInv' OBVIOUS
    <3>1. SteadyInv /\ ReminderInv BY DEF NoticesInv
    <3>2. \/ K!N!RunStep \/ K!N!Elapse
          \/ \E p \in Plans : K!N!Replaced(p) \/ \E n \in Lives : n >= 3 /\ K!N!Buy(p, n)
      BY <1>1 DEF K!ReminderStep, K!Bought
    <3> QED BY <2>1, <3>1, <3>2, SteadyRun, SteadyElapse, SteadyReplaced, SteadyBuy
  <2> QED BY <1>1, <2>1, <2>2, <2>3 DEF NoticesInv
<1>2. CASE K!AlertStep /\ K!Alerting /\ UNCHANGED <<K!notices, mode>>
  <2>1. ReminderInv' BY <1>2, RemindIdle DEF NoticesInv, K!notices
  <2>2. AlertsInv' BY <1>2, AlertMoves DEF NoticesInv
  <2>3. mode' # "steady" BY <1>2 DEF K!Alerting
  <2> QED BY <2>1, <2>2, <2>3 DEF NoticesInv
<1>3. CASE UNCHANGED <<K!notices, K!alerts, mode>>
  <2>1. ReminderInv' BY <1>3, RemindIdle DEF NoticesInv, K!notices
  <2>2. mode = "steady" => (SteadyInv => SteadyInv')
    BY <1>3 DEF K!notices, SteadyInv, NoneSilent, K!N!Silent, SentFirst, InTime, Awaits
  <2>3. AlertsInv'
    <3>1. /\ UNCHANGED <<platform, opSession, events, form, answer, raised, throttle, said, quiet, missed, mode>>
          /\ UNCHANGED <<check, alertKills>>
      BY <1>3 DEF K!alerts
    <3>2. RowTyped' /\ AlarmTyped' /\ RarelyTold' BY <3>1 DEF NoticesInv, AlertsInv, RowTyped, AlarmTyped, RarelyTold
    <3>3. mode = "checks" /\ Loud' => StillTold'
      BY <3>1 DEF NoticesInv, AlertsInv, Loud, StillTold, QuietFor, Pending
    <3>4. mode = "serial" => Follows' BY <3>1 DEF NoticesInv, AlertsInv, Follows
    <3> QED BY <3>1, <3>2, <3>3, <3>4 DEF AlertsInv
  <2> QED BY <1>3, <2>1, <2>2, <2>3 DEF NoticesInv
<1> QED BY <1>1, <1>2, <1>3 DEF K!MCNext, K!modal

LEMMA NoticesInvSuffices == ASSUME NoticesInv PROVE K!RemindersRight /\ K!AlarmsRight
<1>1. ReminderInv /\ AlertsInv BY DEF NoticesInv
<1>2. K!N!NoticesType
  BY <1>1 DEF ReminderInv, RemindTyped, ListTyped, NoticeTyped, PagesTyped, Spots, K!N!NoticesType
<1>3. K!N!RemindersBounded
  <2>1. ASSUME NEW p \in Plans, NEW w \in K!N!Windows PROVE tried[p][w] <= Most(w) + stops
    <3>1. PICK n \in Nat, s \in Nat, m \in Nat : n = tried[p][w] /\ s = stops /\ m = Most(w)
      BY <1>1 DEF ReminderInv, RemindTyped, NoticeTyped, Most
    <3>2. PICK a \in 0..m : a = Room(plans, run, keys, p, w) BY <1>1, <3>1, RoomTyped DEF ReminderInv
    <3>3. n + a <= m + s BY <1>1, <3>1, <3>2 DEF ReminderInv, RoomLeft
    <3> QED BY <3>1, <3>3
  <2>2. "1d" \in K!N!Windows /\ "3d" \in K!N!Windows /\ Most("1d") = 1 /\ Most("3d") = 2
    BY DEF K!N!Windows, Most
  <2> QED BY <1>1, <2>1, <2>2 DEF K!N!RemindersBounded, ReminderInv
<1>4. mode = "steady" => K!N!RemindedInTime BY DEF NoticesInv, SteadyInv, InTime, K!N!RemindedInTime
<1>5. K!A!AlertsType
  <2>1. RowTyped /\ AlarmTyped BY <1>1 DEF AlertsInv
  <2>2. throttle \in [K!A!Alarms -> Nat] BY <2>1 DEF AlarmTyped
  <2> QED BY <2>1, <2>2 DEF RowTyped, AlarmTyped, Checks, K!A!AlertsType
<1>6. K!A!ToldOncePerTick
  <2> SUFFICES ASSUME NEW a \in K!A!Alarms PROVE said[a] <= 1 + alertKills BY DEF K!A!ToldOncePerTick
  <2>1. PICK x \in Nat, k \in Nat : x = said[a] /\ k = alertKills BY <1>1 DEF AlertsInv, AlarmTyped
  <2>2. x <= k \/ x <= k + 1 BY <1>1, <2>1 DEF AlertsInv, RarelyTold
  <2> QED BY <2>1, <2>2
<1>7. mode = "checks" /\ Loud => K!A!KeepsTelling
  <2> SUFFICES ASSUME StillTold, NEW a \in K!A!Alarms PROVE quiet[a] <= 2
    BY <1>1 DEF AlertsInv, K!A!KeepsTelling
  <2>1. PICK q \in Nat, t \in 0..2 : q = quiet[a] /\ t = throttle[a] BY <1>1 DEF AlertsInv, AlarmTyped
  <2>2. q + t <= 2 BY <2>1 DEF StillTold, QuietFor
  <2> QED BY <2>1, <2>2
<1>8. mode = "serial" => K!A!FlagFollows BY <1>1 DEF AlertsInv, Follows, Coming, K!A!FlagFollows
<1> QED BY <1>2, <1>3, <1>4, <1>5, <1>6, <1>7, <1>8 DEF K!RemindersRight, K!AlarmsRight, Loud

\* For any plans, bounds and number of killed runs: nobody is reminded of one
\* end more often than the window allows and runs were killed, and nobody is
\* left out while runs come on time (send_expiry_reminders); an alarm is told
\* once per throttle, kills apart, and an alarm that stays up is told again
\* before three of its periods are over (check_alerts); and once its events are
\* in, the platform's row says of the operator's session what it is, while the
\* row's writers take turns (operator_settings_save, wa_webhook).
THEOREM NoticesStayRight ==
  ASSUME MaxStops \in Nat, Lives \subseteq Nat \ {0}
  PROVE  K!MCSpec => [](K!RemindersRight /\ K!AlarmsRight)
<1>1. K!MCInit => NoticesInv BY NoticesInvStart
<1>2. NoticesInv /\ [K!MCNext]_(K!modal) => NoticesInv' BY NoticesInvStep
<1>3. NoticesInv => K!RemindersRight /\ K!AlarmsRight BY NoticesInvSuffices
<1> QED BY <1>1, <1>2, <1>3, PTL DEF K!MCSpec

-----------------------------------------------------------------------------
(* The service keeps to one loop, and an SMS campaign to its counts        *)

\* Of the session objects only the current one is connected.
OneConnected == K!SidecarType /\ \A g \in K!Objects : g # session => status[g] # "connected"

LEMMA NoLoopType == ASSUME Subscribers # {} PROVE K!NoLoop \in K!Loops /\ K!NoLoop.at = "none"
BY CampaignsAssumption DEF K!NoLoop, K!Loops

LEMMA SidecarStart == ASSUME K!SidecarInit, Subscribers # {} PROVE OneConnected
<1>1. 1 \in K!Objects BY SidecarAssumption DEF K!Objects
<1>2. K!SidecarType
  <2>1. loop \in [K!Objects -> K!Loops] BY NoLoopType DEF K!SidecarInit
  <2>2. sendQueue \in Seq(Messages) BY DEF K!SidecarInit
  <2>3. status \in [K!Objects -> K!Statuses] /\ known \in K!Statuses BY DEF K!SidecarInit, K!Statuses
  <2>4. opening \in BOOLEAN /\ wired \in [Messages -> Nat] BY DEF K!SidecarInit
  <2>5. session = 1 /\ made = 1 /\ 1 \in 0..1 BY DEF K!SidecarInit
  <2> QED BY <1>1, <2>1, <2>2, <2>3, <2>4, <2>5 DEF K!SidecarType
<1>3. \A g \in K!Objects : status[g] # "connected" BY DEF K!SidecarInit
<1> QED BY <1>2, <1>3 DEF OneConnected

\* The queue and the loops alone have changed.
LEMMA LoopsMove ==
  ASSUME OneConnected, UNCHANGED <<session, made, status>>, opening' \in BOOLEAN, UNCHANGED known,
         sendQueue' \in Seq(Messages), loop' \in [K!Objects -> K!Loops], wired' \in [Messages -> Nat]
  PROVE  OneConnected'
BY DEF OneConnected, K!SidecarType

LEMMA DrainedType ==
  ASSUME OneConnected, NEW g \in K!Objects, NEW q \in Seq(Messages), K!Drained(g, q)
  PROVE  sendQueue' \in Seq(Messages) /\ loop' \in [K!Objects -> K!Loops]
<1>1. CASE sendQueue' = q /\ UNCHANGED loop BY <1>1 DEF OneConnected, K!SidecarType
<1>2. CASE /\ q # <<>> /\ sendQueue' = Tail(q)
           /\ loop' = [loop EXCEPT ![g] = [at |-> "sending", with |-> Head(q)]]
  <2>1. Tail(q) \in Seq(Messages) /\ Head(q) \in Messages BY <1>2
  <2>2. [at |-> "sending", with |-> Head(q)] \in K!Loops BY <2>1 DEF K!Loops
  <2>3. loop' \in [K!Objects -> K!Loops] BY <1>2, <2>2 DEF OneConnected, K!SidecarType
  <2> QED BY <1>2, <2>1, <2>3
<1> QED BY <1>1, <1>2 DEF K!Drained

LEMMA SidecarMoves ==
  ASSUME OneConnected, Subscribers # {}, K!SidecarStep
  PROVE  OneConnected'
<1>1. /\ session \in 0..made /\ made \in 1..MaxSessions /\ K!Objects = 1..MaxSessions
      /\ status \in [K!Objects -> K!Statuses] /\ sendQueue \in Seq(Messages)
      /\ loop \in [K!Objects -> K!Loops] /\ opening \in BOOLEAN /\ known \in K!Statuses
      /\ wired \in [Messages -> Nat] /\ MaxSessions \in Nat \ {0}
      /\ \A g \in K!Objects : g # session => status[g] # "connected"
  BY SidecarAssumption DEF OneConnected, K!SidecarType, K!Objects
<1>2. session # 0 => session \in K!Objects BY <1>1
<1>3. CASE K!OpenDrain
  <2>1. opening' \in BOOLEAN /\ UNCHANGED <<session, made, status, known, wired>> BY <1>3 DEF K!OpenDrain
  <2>2. sendQueue' \in Seq(Messages) /\ loop' \in [K!Objects -> K!Loops]
    BY <1>1, <1>2, <1>3, DrainedType DEF K!OpenDrain
  <2> QED BY <1>1, <2>1, <2>2, LoopsMove
<1>4. ASSUME NEW g \in K!Objects, K!Settle(g) PROVE OneConnected'
  <2>1. /\ loop' = [loop EXCEPT ![g] = [K!NoLoop EXCEPT !.at = "waiting"]]
        /\ wired' \in {wired, [wired EXCEPT ![loop[g].with] = @ + 1]}
        /\ UNCHANGED <<session, made, status, sendQueue, opening, known>>
    BY <1>4 DEF K!Settle
  <2>2. [K!NoLoop EXCEPT !.at = "waiting"] \in K!Loops BY NoLoopType DEF K!Loops
  <2>3. loop' \in [K!Objects -> K!Loops] BY <1>1, <2>1, <2>2
  <2>4. wired' \in [Messages -> Nat] BY <1>1, <2>1
  <2> QED BY <1>1, <2>1, <2>3, <2>4, LoopsMove
<1>5. ASSUME NEW g \in K!Objects, K!Wake(g) PROVE OneConnected'
  <2>1. UNCHANGED <<session, made, status, opening, known, wired>> BY <1>5 DEF K!Wake
  <2>2. CASE /\ sendQueue # <<>> /\ sendQueue' = Tail(sendQueue)
             /\ loop' = [loop EXCEPT ![g] = [at |-> "sending", with |-> Head(sendQueue)]]
    <3>1. Tail(sendQueue) \in Seq(Messages) /\ Head(sendQueue) \in Messages BY <1>1, <2>2
    <3>2. [at |-> "sending", with |-> Head(sendQueue)] \in K!Loops BY <3>1 DEF K!Loops
    <3>3. loop' \in [K!Objects -> K!Loops] BY <1>1, <2>2, <3>2
    <3> QED BY <1>1, <2>1, <2>2, <3>1, <3>3, LoopsMove
  <2>3. CASE loop' = [loop EXCEPT ![g] = K!NoLoop] /\ UNCHANGED sendQueue
    <3>1. loop' \in [K!Objects -> K!Loops] BY <1>1, <2>3, NoLoopType
    <3> QED BY <1>1, <2>1, <2>3, <3>1, LoopsMove
  <2> QED BY <1>5, <2>2, <2>3 DEF K!Wake
<1>6. CASE K!Opened
  <2>1. /\ session \in K!Objects /\ status' = [status EXCEPT ![session] = "connected"] /\ opening' = TRUE
        /\ known' \in {known, "connected"} /\ UNCHANGED <<session, made, sendQueue, loop, wired>>
    BY <1>2, <1>6 DEF K!Opened, K!Told
  <2>2. /\ status' \in [K!Objects -> K!Statuses] /\ known' \in K!Statuses
        /\ \A g \in K!Objects : g # session => status'[g] = status[g]
    BY <1>1, <2>1 DEF K!Statuses
  <2> QED BY <1>1, <2>1, <2>2 DEF OneConnected, K!SidecarType
<1>7. CASE K!Closed \/ K!Disconnect
  <2>1. /\ session \in K!Objects /\ \E s \in {"connecting", "disconnected"} : status' = [status EXCEPT ![session] = s]
        /\ known' \in {known, "disconnected"} /\ UNCHANGED <<made, loop, opening, wired>>
        /\ session' \in {session, 0} /\ sendQueue' \in {sendQueue, <<>>}
    BY <1>2, <1>7 DEF K!Closed, K!Disconnect, K!Told, K!Unlinked, K!Online
  <2>2. /\ status' \in [K!Objects -> K!Statuses] /\ known' \in K!Statuses
        /\ \A g \in K!Objects : g # session => status'[g] = status[g]
        /\ status'[session] # "connected"
    BY <1>1, <2>1 DEF K!Statuses
  <2>3. session' \in 0..made' /\ sendQueue' \in Seq(Messages)
    <3>1. <<>> \in Seq(Messages) OBVIOUS
    <3>2. 0 \in 0..made BY <1>1
    <3>3. session' \in 0..made BY <1>1, <2>1, <3>2
    <3> QED BY <1>1, <2>1, <3>1, <3>3
  <2>4. \A g \in K!Objects : g # session' => status'[g] # "connected" BY <1>1, <2>2
  <2> QED BY <1>1, <2>1, <2>2, <2>3, <2>4 DEF OneConnected, K!SidecarType
<1>8. CASE K!StartSession
  <2>1. /\ made < MaxSessions /\ made' = made + 1 /\ session' = made + 1 /\ known' \in {known, "connecting"}
        /\ status' = [status EXCEPT ![made + 1] = "connecting"] /\ UNCHANGED <<sendQueue, loop, opening, wired>>
        /\ session # 0 => status[session] # "connected"
    BY <1>8 DEF K!StartSession, K!Anew, K!Asked, K!Online
  <2>2. made + 1 \in K!Objects /\ session' \in 0..made' /\ made' \in K!Objects BY <1>1, <2>1
  <2>3. status' \in [K!Objects -> K!Statuses] /\ known' \in K!Statuses
    <3>1. "connecting" \in K!Statuses BY DEF K!Statuses
    <3> QED BY <1>1, <2>1, <3>1
  <2>4. \A g \in K!Objects : g # session' => status'[g] # "connected"
    <3> SUFFICES ASSUME NEW g \in K!Objects, g # session' PROVE status'[g] # "connected" OBVIOUS
    <3>1. status'[g] = status[g] BY <1>1, <2>1
    <3>2. status[g] # "connected"
      <4>1. CASE g = session BY <1>1, <2>1, <4>1
      <4>2. CASE g # session BY <1>1, <4>2
      <4> QED BY <4>1, <4>2
    <3> QED BY <3>1, <3>2
  <2> QED BY <1>1, <2>1, <2>2, <2>3, <2>4 DEF OneConnected, K!SidecarType
<1>9. CASE K!Restart
  <2>1. /\ made < MaxSessions /\ made' = made + 1 /\ session' = made + 1 /\ sendQueue' = <<>>
        /\ status' = [g \in K!Objects |-> "connecting"] /\ loop' = [g \in K!Objects |-> K!NoLoop]
        /\ opening' = FALSE /\ UNCHANGED <<known, wired>>
    BY <1>9 DEF K!Restart
  <2>2. session' \in 0..made' /\ made' \in K!Objects BY <1>1, <2>1
  <2>3. status' \in [K!Objects -> K!Statuses] /\ loop' \in [K!Objects -> K!Loops] /\ sendQueue' \in Seq(Messages)
    BY <2>1, NoLoopType DEF K!Statuses
  <2> QED BY <1>1, <2>1, <2>2, <2>3 DEF OneConnected, K!SidecarType
<1>10. CASE K!Poll
  <2>1. known' \in K!Statuses /\ UNCHANGED <<session, made, status, sendQueue, loop, opening, wired>>
    BY <1>1, <1>2, <1>10 DEF K!Poll, K!Statuses
  <2> QED BY <1>1, <2>1 DEF OneConnected, K!SidecarType
<1> QED BY <1>3, <1>4, <1>5, <1>6, <1>7, <1>8, <1>9, <1>10 DEF K!SidecarStep, K!Drains

RowsTyped ==
  /\ campaign \in K!Rows /\ log \subseteq Subscribers \X {"sms", "whatsapp"}
  /\ out \subseteq Subscribers /\ job \in K!Runs /\ texts \in [Subscribers -> Nat]

LEMMA NothingRuns ==
  ASSUME Subscribers # {}
  PROVE  /\ K!NoRow \in K!Rows /\ K!NoRow.status = "none" /\ K!NoRow.channel = "sms"
         /\ K!NoRow.sent = 0 /\ K!NoRow.failed = 0
         /\ K!NoRun \in K!Runs /\ K!NoRun.at = "idle" /\ K!NoRun.sub \in Subscribers
<1>1. /\ K!NoRow \in K!Rows /\ K!NoRow.status = "none" /\ K!NoRow.channel = "sms"
      /\ K!NoRow.sent = 0 /\ K!NoRow.failed = 0
  BY DEF K!NoRow, K!Rows, K!Channels
<1>2. PICK s \in Subscribers : s = CHOOSE x \in Subscribers : TRUE OBVIOUS
<1>3. K!NoRun \in K!Runs /\ K!NoRun.at = "idle" /\ K!NoRun.sub \in Subscribers
  BY <1>1, <1>2 DEF K!NoRun, K!Runs, K!Stages
<1> QED BY <1>1, <1>3

LEMMA CampaignStart == ASSUME K!Init, Subscribers # {} PROVE OneConnected /\ RowsTyped
<1>1. OneConnected BY SidecarStart DEF K!Init
<1>2. texts \in [Subscribers -> Nat] BY DEF K!Init
<1>3. RowsTyped BY <1>2, NothingRuns DEF K!Init, RowsTyped
<1> QED BY <1>1, <1>3

LEMMA SidecarSame == ASSUME OneConnected, UNCHANGED K!sidecar PROVE OneConnected'
BY DEF OneConnected, K!SidecarType, K!sidecar, K!link

LEMMA ManyRecipients == \A X : K!Cardinality(X) = Cardinality(X)
BY DEF K!Cardinality, Cardinality, K!IsFiniteSet, IsFiniteSet

\* What a run does with its record.
LEMMA RunType ==
  ASSUME NEW r \in K!Runs, NEW s \in Subscribers, Subscribers # {}, IsFiniteSet(Subscribers)
  PROVE  /\ [r EXCEPT !.left = r.left \ {s}, !.sub = s] \in K!Runs
         /\ K!Back(r) \in K!Runs /\ K!Back(r).at = "each"
         /\ \A n \in {"wa", "sms", "text"} : [r EXCEPT !.at = n] \in K!Runs
         /\ K!AfterWhatsApp(r) \in K!Runs
<1>1. K!NoRun.sub \in Subscribers BY NothingRuns
<1>2. K!Back(r) \in K!Runs /\ K!Back(r).at = "each" BY <1>1 DEF K!Back, K!Runs, K!Stages
<1>3. \A n \in {"wa", "sms", "text"} : [r EXCEPT !.at = n] \in K!Runs BY DEF K!Runs, K!Stages
<1>4. [r EXCEPT !.left = r.left \ {s}, !.sub = s] \in K!Runs BY DEF K!Runs
<1> QED BY <1>2, <1>3, <1>4 DEF K!AfterWhatsApp

LEMMA PageTyped ==
  ASSUME OneConnected, RowsTyped, IsFiniteSet(Subscribers), Subscribers # {},
         \/ \E ch \in K!Channels : K!Create(ch)
         \/ \E s \in Subscribers : K!Prefer(s)
         \/ K!Cancel
  PROVE  OneConnected' /\ RowsTyped'
<1>1. UNCHANGED <<K!sidecar, log, job, texts>> BY DEF K!Create, K!Prefer, K!Cancel
<1>2. OneConnected' BY <1>1, SidecarSame
<1>3. out' \subseteq Subscribers BY DEF RowsTyped, K!Create, K!Prefer, K!Cancel
<1>4. campaign' \in K!Rows
  <2>1. ASSUME NEW ch \in K!Channels, K!Create(ch) PROVE campaign' \in K!Rows
    <3>1. IsFiniteSet(Subscribers \ out) BY FS_Subset
    <3>2. Cardinality(Subscribers \ out) \in Nat BY <3>1, FS_CardinalityType
    <3>3. PICK n \in Nat : n = Cardinality(Subscribers \ out) BY <3>2
    <3>4. campaign' = [K!NoRow EXCEPT !.status = "queued", !.channel = ch, !.total = n]
      BY <2>1, <3>3, ManyRecipients DEF K!Create
    <3> QED BY <3>4, NothingRuns DEF K!Rows
  <2>2. CASE K!Cancel BY <2>2 DEF K!Cancel, RowsTyped, K!Rows
  <2>3. CASE \E s \in Subscribers : K!Prefer(s) BY <2>3 DEF K!Prefer, RowsTyped
  <2> QED BY <2>1, <2>2, <2>3
<1> QED BY <1>1, <1>2, <1>3, <1>4 DEF RowsTyped

LEMMA RunTyped ==
  ASSUME OneConnected, RowsTyped, IsFiniteSet(Subscribers), Subscribers # {}, K!Load \/ K!Advance \/ K!Crash
  PROVE  OneConnected' /\ RowsTyped'
<1>1. /\ campaign \in K!Rows /\ log \subseteq Subscribers \X {"sms", "whatsapp"}
      /\ out \subseteq Subscribers /\ job \in K!Runs /\ texts \in [Subscribers -> Nat]
      /\ job.copy \in K!Rows /\ job.sub \in Subscribers /\ job.batch \in Nat
  BY DEF RowsTyped, K!Runs
<1>2. CASE K!Load \/ K!Crash
  <2>1. /\ UNCHANGED <<K!sidecar, campaign, log, out, texts>>
        /\ job' = K!NoRun \/ job' = [K!NoRun EXCEPT !.at = "start", !.copy = campaign]
    BY <1>2 DEF K!Load, K!Crash
  <2>2. job' \in K!Runs BY <1>1, <2>1, NothingRuns DEF K!Runs, K!Stages
  <2> QED BY <1>1, <2>1, <2>2, SidecarSame DEF RowsTyped
<1>3. CASE K!Start
  <2>1. /\ campaign' \in {campaign, [campaign EXCEPT !.status = "sending"]} /\ UNCHANGED <<K!sidecar, log, out, texts>>
        /\ job' = [job EXCEPT !.at = "each", !.tried = K!Phones, !.left = Subscribers,
                              !.without = out, !.copy.status = "sending"]
    BY <1>3 DEF K!Start, K!Tried
  <2>2. K!Phones \subseteq Subscribers BY <1>1 DEF K!Phones
  <2>3. campaign' \in K!Rows BY <1>1, <2>1 DEF K!Rows
  <2>4. [job.copy EXCEPT !.status = "sending"] \in K!Rows BY <1>1 DEF K!Rows
  <2>5. job' \in K!Runs BY <1>1, <2>1, <2>2, <2>4 DEF K!Runs, K!Stages
  <2> QED BY <1>1, <2>1, <2>3, <2>5, SidecarSame DEF RowsTyped
<1>4. ASSUME NEW s \in Subscribers, K!Each(s) PROVE OneConnected' /\ RowsTyped'
  <2>1. PICK here : here = [job EXCEPT !.left = job.left \ {s}, !.sub = s] OBVIOUS
  <2>2. /\ UNCHANGED <<K!sidecar, campaign, out, texts>> /\ log' \in {log, log \cup {<<s, "whatsapp">>}}
        /\ \/ job' = K!Back(here) \/ job' = K!Back([here EXCEPT !.copy.sent = @ + 1])
           \/ job' = [here EXCEPT !.at = "wa"] \/ job' = K!AfterWhatsApp(here)
    BY <1>4, <2>1 DEF K!Each
  <2>3. here \in K!Runs BY <1>1, <2>1, RunType
  <2>4. [here EXCEPT !.copy.sent = @ + 1] \in K!Runs
    <3>1. here.copy \in K!Rows BY <2>3 DEF K!Runs
    <3>2. [here.copy EXCEPT !.sent = @ + 1] \in K!Rows BY <3>1 DEF K!Rows
    <3> QED BY <2>3, <3>2 DEF K!Runs
  <2>5. job' \in K!Runs BY <2>2, <2>3, <2>4, RunType
  <2>6. log' \subseteq Subscribers \X {"sms", "whatsapp"} BY <1>1, <2>2
  <2> QED BY <1>1, <2>2, <2>5, <2>6, SidecarSame DEF RowsTyped
<1>5. CASE K!Hand
  <2>1. /\ K!Send(job.sub) /\ job' = K!AfterWhatsApp(job) /\ UNCHANGED <<campaign, log, out, texts>>
    BY <1>5 DEF K!Hand
  <2>2. job' \in K!Runs BY <1>1, <2>1, RunType
  <2>3. OneConnected'
    <3>1. CASE K!Online
      <4>1. /\ K!Drained(session, Append(sendQueue, job.sub))
            /\ UNCHANGED <<session, made, status, opening, known, wired>>
        BY <2>1, <3>1 DEF K!Send
      <4>2. session \in K!Objects
        BY <3>1, SidecarAssumption DEF OneConnected, K!SidecarType, K!Objects, K!Online
      <4>3. Append(sendQueue, job.sub) \in Seq(Messages)
        BY <1>1, CampaignsAssumption DEF OneConnected, K!SidecarType
      <4>4. sendQueue' \in Seq(Messages) /\ loop' \in [K!Objects -> K!Loops] BY <4>1, <4>2, <4>3, DrainedType
      <4>5. opening' \in BOOLEAN /\ wired' \in [Messages -> Nat] BY <4>1 DEF OneConnected, K!SidecarType
      <4> QED BY <4>1, <4>4, <4>5, LoopsMove
    <3>2. CASE ~K!Online BY <2>1, <3>2, SidecarSame DEF K!Send
    <3> QED BY <3>1, <3>2
  <2> QED BY <1>1, <2>1, <2>2, <2>3 DEF RowsTyped
<1>6. CASE K!Note
  <2>1. /\ UNCHANGED <<K!sidecar, campaign, out, texts>> /\ log' = log \cup {<<job.sub, "sms">>}
        /\ job' = [job EXCEPT !.at = "text"]
    BY <1>6 DEF K!Note
  <2>2. job' \in K!Runs BY <1>1, <2>1, RunType
  <2>3. log' \subseteq Subscribers \X {"sms", "whatsapp"} BY <1>1, <2>1
  <2> QED BY <1>1, <2>1, <2>2, <2>3, SidecarSame DEF RowsTyped
<1>7. ASSUME NEW ok \in BOOLEAN, K!Text(ok) PROVE OneConnected' /\ RowsTyped'
  <2>1. PICK row : row = K!Counted(job.copy, ok) OBVIOUS
  <2>2. /\ UNCHANGED <<K!sidecar, campaign, log, out>> /\ texts' \in {texts, [texts EXCEPT ![job.sub] = @ + 1]}
        /\ job' = K!Back([job EXCEPT !.batch = job.batch + 1, !.copy = row])
    BY <1>7, <2>1 DEF K!Text
  <2>3. row \in K!Rows
    <3>1. [job.copy EXCEPT !.sent = @ + 1] \in K!Rows /\ [job.copy EXCEPT !.failed = @ + 1] \in K!Rows
      BY <1>1 DEF K!Rows
    <3>2. CASE ok
      <4>1. row = [job.copy EXCEPT !.sent = @ + 1] BY <2>1, <3>2 DEF K!Counted
      <4> QED BY <3>1, <4>1
    <3>3. CASE ~ok
      <4>1. row = [job.copy EXCEPT !.failed = @ + 1] BY <2>1, <3>3 DEF K!Counted
      <4> QED BY <3>1, <4>1
    <3> QED BY <3>2, <3>3
  <2>4. [job EXCEPT !.batch = job.batch + 1, !.copy = row] \in K!Runs
    <3>1. PICK n \in Nat : n = job.batch + 1 BY <1>1
    <3>2. [job EXCEPT !.batch = n, !.copy = row] \in K!Runs BY <1>1, <2>3 DEF K!Runs
    <3> QED BY <3>1, <3>2
  <2>5. job' \in K!Runs BY <1>1, <2>2, <2>4, RunType
  <2>6. texts' \in [Subscribers -> Nat] BY <1>1, <2>2
  <2> QED BY <1>1, <2>2, <2>5, <2>6, SidecarSame DEF RowsTyped
<1>8. CASE K!Save
  <2>1. /\ UNCHANGED <<K!sidecar, log, out, texts>> /\ job' = K!NoRun
        /\ campaign' = [campaign EXCEPT !.sent = job.copy.sent, !.failed = job.copy.failed,
                                        !.status = K!Ended(job.copy)]
    BY <1>8 DEF K!Save
  <2>2. K!Ended(job.copy) \in {"none", "queued", "sending", "sent", "cancelled"} BY <1>1 DEF K!Ended, K!Rows
  <2>3. campaign' \in K!Rows BY <1>1, <2>1, <2>2 DEF K!Rows
  <2> QED BY <1>1, <2>1, <2>3, NothingRuns, SidecarSame DEF RowsTyped
<1> QED BY <1>2, <1>3, <1>4, <1>5, <1>6, <1>7, <1>8 DEF K!Advance

\* An SMS campaign to all: the counts, of the row or of the run's copy, are the
\* log's, and who is left to try is not in it.
SmsRow ==
  /\ out = {} /\ campaign.channel = "sms" /\ log \subseteq Subscribers \X {"sms"}
  /\ campaign.status # "none" => campaign.total = Cardinality(Subscribers)
  /\ campaign.status = "none" => campaign.sent = 0 /\ campaign.failed = 0
SmsCounts ==
  /\ job.at = "idle" => campaign.sent + campaign.failed = Cardinality(log)
  /\ job.at \in {"start", "each", "sms"} => job.copy.sent + job.copy.failed = Cardinality(log)
  /\ job.at = "text" => job.copy.sent + job.copy.failed + 1 = Cardinality(log)
SmsRun ==
  job.at # "idle" =>
    /\ job.copy.channel = "sms" /\ job.copy.total = campaign.total /\ job.at # "wa"
    /\ campaign.status \in {"queued", "sending"}
    /\ job.at # "start" => /\ job.copy.status = "sending" /\ job.without = {}
                           /\ \A s \in job.left \ job.tried : <<s, "sms">> \notin log
    /\ job.at = "sms" => <<job.sub, "sms">> \notin log /\ job.sub \notin job.left
AllTried == campaign.status = "sent" => Subscribers \subseteq K!Phones
SmsInv == SmsRow /\ SmsCounts /\ SmsRun /\ AllTried

LEMMA LogCounts ==
  ASSUME IsFiniteSet(Subscribers), NEW l \in SUBSET (Subscribers \X {"sms"})
  PROVE  /\ IsFiniteSet(l) /\ Cardinality(l) \in Nat /\ Cardinality(Subscribers) \in Nat
         /\ Cardinality(l) >= Cardinality(Subscribers) => \A s \in Subscribers : <<s, "sms">> \in l
<1> DEFINE all == Subscribers \X {"sms"}
<1>1. IsFiniteSet({"sms"}) /\ Cardinality({"sms"}) = 1 BY FS_Singleton
<1>2. IsFiniteSet(all) /\ Cardinality(all) = Cardinality(Subscribers) * 1 BY <1>1, FS_Product
<1>3. Cardinality(Subscribers) \in Nat /\ Cardinality(all) \in Nat BY <1>2, FS_CardinalityType
<1>4. Cardinality(all) = Cardinality(Subscribers) BY <1>2, <1>3
<1>5. IsFiniteSet(l) /\ Cardinality(l) <= Cardinality(all) /\ (Cardinality(all) = Cardinality(l) => all = l)
  BY <1>2, FS_Subset
<1>6. Cardinality(l) \in Nat BY <1>5, FS_CardinalityType
<1>7. ASSUME Cardinality(l) >= Cardinality(Subscribers) PROVE \A s \in Subscribers : <<s, "sms">> \in l
  <2>1. Cardinality(all) = Cardinality(l) BY <1>3, <1>4, <1>5, <1>6, <1>7
  <2>2. l = all BY <1>5, <2>1
  <2> QED BY <2>2
<1> QED BY <1>3, <1>5, <1>6, <1>7

LEMMA Reached == \A s : <<s, "sms">> \in log => s \in K!Phones
BY DEF K!Phones

LEMMA SmsStart == ASSUME K!Init, out = {}, Subscribers # {} PROVE SmsInv
<1>1. campaign = K!NoRow /\ log = {} /\ job = K!NoRun BY DEF K!Init
<1>2. Cardinality({}) = 0 BY FS_EmptySet
<1> QED BY <1>1, <1>2, NothingRuns DEF SmsInv, SmsRow, SmsCounts, SmsRun, AllTried

\* The pages between two runs.
LEMMA SmsPages ==
  ASSUME RowsTyped, SmsInv, K!Create("sms") \/ (job.at = "idle" /\ K!Cancel), Subscribers # {}
  PROVE  SmsInv'
<1>1. CASE K!Create("sms")
  <2>1. /\ campaign.status = "none" /\ UNCHANGED <<log, out, job>>
        /\ campaign' = [K!NoRow EXCEPT !.status = "queued", !.channel = "sms",
                                       !.total = K!Cardinality(Subscribers \ out)]
    BY <1>1 DEF K!Create
  <2>2. job.at = "idle" BY <2>1 DEF SmsInv, SmsRun
  <2>3. out = {} /\ Subscribers \ out = Subscribers BY DEF SmsInv, SmsRow
  <2>4. K!Cardinality(Subscribers \ out) = Cardinality(Subscribers) BY <2>3, ManyRecipients
  <2>5. PICK n : n = Cardinality(Subscribers) OBVIOUS
  <2>6. campaign' = [K!NoRow EXCEPT !.status = "queued", !.channel = "sms", !.total = n] BY <2>1, <2>4, <2>5
  <2>7. /\ campaign'.status = "queued" /\ campaign'.channel = "sms" /\ campaign'.total = n
        /\ campaign'.sent = 0 /\ campaign'.failed = 0
    BY <2>6, NothingRuns DEF K!Rows
  <2>8. campaign.sent + campaign.failed = Cardinality(log) BY <2>2 DEF SmsInv, SmsCounts
  <2>9. 0 + 0 = Cardinality(log) BY <2>1, <2>8 DEF SmsInv, SmsRow
  <2> QED BY <2>1, <2>2, <2>5, <2>7, <2>9 DEF SmsInv, SmsRow, SmsCounts, SmsRun, AllTried
<1>2. CASE job.at = "idle" /\ K!Cancel
  <2>1. /\ campaign.status = "queued" /\ campaign' = [campaign EXCEPT !.status = "cancelled"]
        /\ UNCHANGED <<log, out, job>>
    BY <1>2 DEF K!Cancel
  <2>2. /\ campaign'.status = "cancelled" /\ campaign'.channel = campaign.channel
        /\ campaign'.total = campaign.total /\ campaign'.sent = campaign.sent
        /\ campaign'.failed = campaign.failed
    BY <2>1 DEF RowsTyped, K!Rows
  <2> QED BY <1>2, <2>1, <2>2 DEF SmsInv, SmsRow, SmsCounts, SmsRun, AllTried
<1> QED BY <1>1, <1>2

\* The steps of a run.
LEMMA SmsLoads ==
  ASSUME RowsTyped, SmsInv, K!Load \/ K!Start, Subscribers # {}
  PROVE  SmsInv'
<1>1. CASE K!Load
  <2>1. /\ job.at = "idle" /\ campaign.status \in {"queued", "sending"} /\ UNCHANGED <<campaign, log, out>>
        /\ job' = [K!NoRun EXCEPT !.at = "start", !.copy = campaign]
    BY <1>1 DEF K!Load, K!Active
  <2>2. job'.at = "start" /\ job'.copy = campaign BY <2>1, NothingRuns DEF K!Runs
  <2> QED BY <2>1, <2>2 DEF SmsInv, SmsRow, SmsCounts, SmsRun, AllTried
<1>2. CASE K!Start
  <2>1. /\ job.at = "start" /\ UNCHANGED <<log, out>> /\ campaign \in K!Rows /\ job \in K!Runs /\ job.copy \in K!Rows
        /\ campaign' \in {campaign, [campaign EXCEPT !.status = "sending"]}
        /\ job' = [job EXCEPT !.at = "each", !.tried = K!Phones, !.left = Subscribers,
                              !.without = out, !.copy.status = "sending"]
    BY <1>2 DEF K!Start, K!Tried, RowsTyped, K!Runs
  <2>2. /\ campaign'.status \in {"queued", "sending"} /\ campaign'.channel = campaign.channel
        /\ campaign'.total = campaign.total
    BY <2>1 DEF K!Rows, SmsInv, SmsRun
  <2>3. /\ job'.at = "each" /\ job'.tried = K!Phones /\ job'.without = out
        /\ job'.copy.status = "sending" /\ job'.copy.channel = job.copy.channel
        /\ job'.copy.total = job.copy.total /\ job'.copy.sent = job.copy.sent
        /\ job'.copy.failed = job.copy.failed
    BY <2>1 DEF K!Runs, K!Rows
  <2>4. \A s \in job'.left \ job'.tried : <<s, "sms">> \notin log BY <2>3, Reached
  <2>5. campaign.status # "none" BY <2>1 DEF SmsInv, SmsRun
  <2> QED BY <2>1, <2>2, <2>3, <2>4, <2>5 DEF SmsInv, SmsRow, SmsCounts, SmsRun, AllTried
<1> QED BY <1>1, <1>2

LEMMA SmsEach ==
  ASSUME RowsTyped, SmsInv, NEW s \in Subscribers, K!Each(s), Subscribers # {}
  PROVE  SmsInv'
<1>1. /\ job.at = "each" /\ s \in job.left /\ UNCHANGED <<campaign, out>> /\ job \in K!Runs
      /\ job.copy.channel = "sms" /\ job.without = {}
  BY DEF K!Each, RowsTyped, SmsInv, SmsRun
<1>2. PICK here : here = [job EXCEPT !.left = job.left \ {s}, !.sub = s] OBVIOUS
<1>3. /\ here \in K!Runs /\ here.copy = job.copy /\ here.tried = job.tried /\ here.without = {}
      /\ here.left = job.left \ {s} /\ here.sub = s
  BY <1>1, <1>2 DEF K!Runs
<1>4. \/ s \in job.tried /\ job' = K!Back(here) /\ UNCHANGED log
      \/ s \notin job.tried /\ job' = [here EXCEPT !.at = "sms"] /\ UNCHANGED log
  BY <1>1, <1>2, <1>3 DEF K!Each, K!ByWhatsApp, K!AfterWhatsApp
<1>5. /\ job'.copy = job.copy /\ job'.tried = job.tried /\ job'.without = {} /\ job'.left = job.left \ {s}
      /\ UNCHANGED log /\ job'.at \in {"each", "sms"}
      /\ job'.at = "sms" => job'.sub = s /\ s \notin job.tried
  BY <1>3, <1>4 DEF K!Runs, K!Back
<1>6. s \notin job.tried => <<s, "sms">> \notin log BY <1>1 DEF SmsInv, SmsRun
<1>7. \A x \in job'.left \ job'.tried : <<x, "sms">> \notin log BY <1>1, <1>5 DEF SmsInv, SmsRun
<1> QED BY <1>1, <1>5, <1>6, <1>7 DEF SmsInv, SmsRow, SmsCounts, SmsRun, AllTried

LEMMA SmsNote ==
  ASSUME RowsTyped, SmsInv, K!Note, IsFiniteSet(Subscribers)
  PROVE  SmsInv'
<1>1. /\ job.at = "sms" /\ UNCHANGED <<campaign, out>> /\ job \in K!Runs /\ job.sub \in Subscribers
      /\ log' = log \cup {<<job.sub, "sms">>} /\ job' = [job EXCEPT !.at = "text"]
  BY DEF K!Note, RowsTyped, K!Runs
<1>2. <<job.sub, "sms">> \notin log /\ log \in SUBSET (Subscribers \X {"sms"}) BY <1>1 DEF SmsInv, SmsRun, SmsRow
<1>3. IsFiniteSet(log) /\ Cardinality(log) \in Nat BY <1>2, LogCounts
<1>4. Cardinality(log') = Cardinality(log) + 1 BY <1>1, <1>2, <1>3, FS_AddElement
<1>5. /\ job'.at = "text" /\ job'.copy = job.copy /\ job'.tried = job.tried
      /\ job'.left = job.left /\ job'.without = job.without
  BY <1>1 DEF K!Runs
<1>6. \A x \in job.left \ job.tried : <<x, "sms">> \notin log' BY <1>1 DEF SmsInv, SmsRun
<1> QED BY <1>1, <1>2, <1>4, <1>5, <1>6 DEF SmsInv, SmsRow, SmsCounts, SmsRun, AllTried

LEMMA SmsText ==
  ASSUME RowsTyped, SmsInv, NEW ok \in BOOLEAN, K!Text(ok)
  PROVE  SmsInv'
<1>1. PICK row : row = K!Counted(job.copy, ok) OBVIOUS
<1>2. /\ job.at = "text" /\ UNCHANGED <<campaign, log, out>> /\ job \in K!Runs /\ job.copy \in K!Rows
      /\ job' = K!Back([job EXCEPT !.batch = job.batch + 1, !.copy = row])
  BY <1>1 DEF K!Text, RowsTyped, K!Runs
<1>3. /\ row.channel = job.copy.channel /\ row.total = job.copy.total /\ row.status = job.copy.status
      /\ row.sent + row.failed = job.copy.sent + job.copy.failed + 1
  <2>1. CASE ok
    <3>1. row = [job.copy EXCEPT !.sent = @ + 1] BY <1>1, <2>1 DEF K!Counted
    <3> QED BY <1>2, <3>1 DEF K!Rows
  <2>2. CASE ~ok
    <3>1. row = [job.copy EXCEPT !.failed = @ + 1] BY <1>1, <2>2 DEF K!Counted
    <3> QED BY <1>2, <3>1 DEF K!Rows
  <2> QED BY <2>1, <2>2
<1>4. /\ job'.at = "each" /\ job'.copy = row /\ job'.tried = job.tried /\ job'.left = job.left
      /\ job'.without = job.without
  BY <1>2 DEF K!Back, K!Runs
<1>5. row.sent + row.failed = Cardinality(log) BY <1>2, <1>3 DEF SmsInv, SmsCounts
<1> QED BY <1>2, <1>3, <1>4, <1>5 DEF SmsInv, SmsRow, SmsCounts, SmsRun, AllTried

LEMMA SmsSave ==
  ASSUME RowsTyped, SmsInv, K!Save, IsFiniteSet(Subscribers), Subscribers # {}
  PROVE  SmsInv'
<1>1. PICK row \in K!Rows : row = job.copy BY DEF RowsTyped, K!Runs
<1>2. /\ job.at = "each" /\ UNCHANGED <<log, out>> /\ job' = K!NoRun /\ campaign \in K!Rows
      /\ campaign' = [campaign EXCEPT !.sent = row.sent, !.failed = row.failed, !.status = K!Ended(row)]
  BY <1>1 DEF K!Save, RowsTyped
<1>3. /\ row.status = "sending" /\ row.total = campaign.total /\ campaign.total = Cardinality(Subscribers)
      /\ row.sent + row.failed = Cardinality(log) /\ campaign.channel = "sms"
      /\ log \in SUBSET (Subscribers \X {"sms"})
  BY <1>1, <1>2 DEF SmsInv, SmsRow, SmsRun, SmsCounts
<1>4. /\ campaign'.sent = row.sent /\ campaign'.failed = row.failed /\ campaign'.status = K!Ended(row)
      /\ campaign'.channel = "sms" /\ campaign'.total = campaign.total
  BY <1>2, <1>3 DEF K!Rows
<1>5. K!Ended(row) \in {"sent", "sending"} /\ (K!Ended(row) = "sent" => row.sent + row.failed >= row.total)
  BY <1>3 DEF K!Ended, K!Complete
<1>6. K!Ended(row) = "sent" => Subscribers \subseteq K!Phones
  <2> SUFFICES ASSUME K!Ended(row) = "sent" PROVE Subscribers \subseteq K!Phones OBVIOUS
  <2>1. Cardinality(log) >= Cardinality(Subscribers) BY <1>3, <1>5
  <2>2. \A s \in Subscribers : <<s, "sms">> \in log BY <1>3, <2>1, LogCounts
  <2> QED BY <2>2, Reached
<1>7. K!Phones' = K!Phones BY <1>2 DEF K!Phones
<1> QED BY <1>2, <1>3, <1>4, <1>5, <1>6, <1>7, NothingRuns DEF SmsInv, SmsRow, SmsCounts, SmsRun, AllTried

LEMMA SmsMoves ==
  ASSUME RowsTyped, SmsInv, mode = "sms", K!CampaignStep, IsFiniteSet(Subscribers), Subscribers # {}
  PROVE  SmsInv' /\ K!CancelHolds
<1>1. CASE \E ch \in K!Channels : K!Channel(ch) /\ K!Create(ch)
  <2>1. K!Create("sms") BY <1>1 DEF K!Channel, K!Any
  <2> QED BY <2>1, SmsPages DEF K!CancelHolds, K!Create
<1>2. CASE K!Free /\ K!Cancel
  <2>1. job.at = "idle" /\ K!Cancel BY <1>2 DEF K!Free, K!Any
  <2> QED BY <2>1, SmsPages DEF K!CancelHolds, K!Cancel
<1>3. CASE K!Load BY <1>3, SmsLoads DEF K!CancelHolds, K!Load
<1>4. CASE K!Advance
  <2>1. job.at # "idle" /\ job.at # "wa" /\ campaign.status # "cancelled"
    BY <1>4 DEF K!Advance, K!Start, K!Each, K!Hand, K!Note, K!Text, K!Save, SmsInv, SmsRun
  <2>2. ~K!Hand BY <2>1 DEF K!Hand
  <2>3. SmsInv' BY <1>4, <2>2, SmsLoads, SmsEach, SmsNote, SmsText, SmsSave DEF K!Advance
  <2> QED BY <2>1, <2>3 DEF K!CancelHolds
<1> QED BY <1>1, <1>2, <1>3, <1>4 DEF K!CampaignStep, K!Any

\* The campaign and the service together.
CampaignInv == OneConnected /\ RowsTyped /\ (mode = "sms" => SmsInv)

LEMMA CampaignInvStart ==
  ASSUME K!MCInit, IsFiniteSet(Subscribers), Subscribers # {} PROVE CampaignInv
BY CampaignStart, SmsStart DEF K!MCInit, CampaignInv

LEMMA CampaignInvStep ==
  ASSUME CampaignInv, [K!MCNext]_(K!modal), IsFiniteSet(Subscribers), Subscribers # {}
  PROVE  CampaignInv' /\ (mode = "sms" => K!CancelHolds)
<1>1. CASE K!CampaignStep /\ UNCHANGED mode
  <2>1. OneConnected' /\ RowsTyped'
    <3>1. CASE K!Linked
      <4>1. K!SidecarStep /\ UNCHANGED <<campaign, log, out, job, texts>> BY <3>1 DEF K!Linked, K!broadcast
      <4> QED BY <4>1, SidecarMoves DEF CampaignInv, RowsTyped
    <3>2. CASE K!Load \/ K!Advance \/ K!Crash BY <3>2, RunTyped DEF CampaignInv
    <3>3. CASE \/ \E ch \in K!Channels : K!Create(ch)
               \/ \E s \in Subscribers : K!Prefer(s)
               \/ K!Cancel
      BY <3>3, PageTyped DEF CampaignInv
    <3> QED BY <1>1, <3>1, <3>2, <3>3 DEF K!CampaignStep
  <2>2. mode = "sms" => SmsInv' /\ K!CancelHolds BY <1>1, SmsMoves DEF CampaignInv
  <2> QED BY <1>1, <2>1, <2>2 DEF CampaignInv
<1>2. CASE UNCHANGED <<K!vars, mode>>
  <2>1. UNCHANGED <<K!sidecar, campaign, log, out, job, texts>> BY <1>2 DEF K!vars, K!broadcast
  <2>2. OneConnected' BY <2>1, SidecarSame DEF CampaignInv
  <2>3. RowsTyped' BY <2>1 DEF CampaignInv, RowsTyped
  <2>4. SmsInv => SmsInv' BY <2>1 DEF SmsInv, SmsRow, SmsCounts, SmsRun, AllTried, K!Phones
  <2> QED BY <1>2, <2>1, <2>2, <2>3, <2>4 DEF CampaignInv, K!CancelHolds
<1> QED BY <1>1, <1>2 DEF K!MCNext, K!modal

LEMMA CampaignInvSuffices ==
  ASSUME CampaignInv PROVE K!TypeOK /\ K!OneLoopTakes /\ (mode = "sms" => K!CountsAreTries /\ K!SentMeansTried)
<1>1. K!TypeOK BY DEF CampaignInv, OneConnected, RowsTyped, K!TypeOK
<1>2. K!OneLoopTakes BY DEF CampaignInv, OneConnected, K!OneLoopTakes
<1>3. ASSUME SmsInv PROVE K!CountsAreTries /\ K!SentMeansTried
  BY <1>3, ManyRecipients DEF SmsInv, SmsRow, SmsCounts, AllTried, K!CountsAreTries, K!SentMeansTried
<1> QED BY <1>1, <1>2, <1>3 DEF CampaignInv

\* For any subscribers and batch: between runs an SMS campaign's counts are the
\* tries its log holds, and "sent" means that each recipient was tried, while no
\* run is killed (process_broadcasts); a campaign cancelled between runs stays as
\* it is (broadcast_cancel); and, in every scene, of the service's session
\* objects only the connected one's loop can take from the queue, however often
\* the session reconnects and whatever is killed (drainQueue).
THEOREM SmsCampaignIsRight ==
  ASSUME IsFiniteSet(Subscribers), Subscribers # {}
  PROVE  K!MCSpec => /\ [](K!TypeOK /\ (mode = "sms" => K!CountsAreTries /\ K!SentMeansTried))
                     /\ [][mode = "sms" => K!CancelHolds]_(K!modal)
                     /\ [](K!SidecarType /\ K!OneLoopTakes)
<1>1. K!MCInit => CampaignInv BY CampaignInvStart
<1>2. CampaignInv /\ [K!MCNext]_(K!modal) => CampaignInv' BY CampaignInvStep
<1>3. CampaignInv /\ [K!MCNext]_(K!modal) => [mode = "sms" => K!CancelHolds]_(K!modal) BY CampaignInvStep
<1>4. CampaignInv => /\ K!TypeOK /\ (mode = "sms" => K!CountsAreTries /\ K!SentMeansTried)
                     /\ K!SidecarType /\ K!OneLoopTakes
  BY CampaignInvSuffices DEF CampaignInv, OneConnected
<1> QED BY <1>1, <1>2, <1>3, <1>4, PTL DEF K!MCSpec
=============================================================================
