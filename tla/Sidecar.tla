------------------------------ MODULE Sidecar ------------------------------
(***************************************************************************)
(* The WhatsApp service (ops/wa-sidecar/index.js): one reseller's session, *)
(* the queue of messages accepted for it, and the loop that sends them one *)
(* at a time with a pause after each.  JavaScript runs a handler to its    *)
(* next await without interruption: an action is such a stretch.           *)
(*                                                                         *)
(* startSession replaces the session object and hands the queue on; a loop *)
(* goes on with the object it began with.  Objects are numbered.           *)
(***************************************************************************)
EXTENDS Integers, Sequences, FiniteSets

CONSTANTS Messages,     \* what /send is asked to send
          MaxSessions   \* bound: session objects of one process

ASSUME SidecarAssumption == MaxSessions \in Nat \ {0}

VARIABLES session,   \* number of the current object; 0 when there is none
          made,      \* objects made by this process
          status,    \* the status of each object
          sendQueue, \* messages accepted and not yet taken by a loop
          loop,      \* the drainQueue loop of each object: what it holds
          opening,   \* the 'open' handler has yet to call drainQueue
          known,     \* WhatsappSession.status, what Django believes
          wired      \* how often each message went out

link == <<session, made, status, loop, opening, known>>
sidecar == <<link, sendQueue, wired>>

Objects == 1..MaxSessions
Statuses == {"connecting", "connected", "disconnected"}
Loops == [at : {"none", "sending", "waiting"}, with : Messages]
NoLoop == [at |-> "none", with |-> CHOOSE m \in Messages : TRUE]
Online == session # 0 /\ status[session] = "connected"

SidecarInit ==
  /\ session = 1 /\ made = 1 /\ status = [g \in Objects |-> "connecting"]
  /\ sendQueue = <<>> /\ loop = [g \in Objects |-> NoLoop] /\ opening = FALSE
  /\ known = "connecting" /\ wired = [m \in Messages |-> 0]

\* drainQueue(slug): nothing while the object's loop is busy, else the first
\* message of q is taken and sent.
Drained(g, q) ==
  IF loop[g].at # "none" \/ q = <<>> \/ status[g] # "connected"
  THEN sendQueue' = q /\ UNCHANGED loop
  ELSE /\ sendQueue' = Tail(q)
       /\ loop' = [loop EXCEPT ![g] = [at |-> "sending", with |-> Head(q)]]

\* POST /send: 503 unless the session is connected.
Send(m) ==
  IF Online
  THEN Drained(session, Append(sendQueue, m)) /\ UNCHANGED <<session, made, status, opening, known, wired>>
  ELSE UNCHANGED sidecar

\* The promise of sendMessage settles; a message that failed is not kept.
Settle(g) ==
  /\ loop[g].at = "sending"
  /\ loop' = [loop EXCEPT ![g] = [NoLoop EXCEPT !.at = "waiting"]]
  /\ wired' \in {wired, [wired EXCEPT ![loop[g].with] = @ + 1]}
  /\ UNCHANGED <<session, made, status, sendQueue, opening, known>>

\* After the pause: the next message, or the end of the loop.
Wake(g) ==
  /\ loop[g].at = "waiting"
  /\ IF sendQueue # <<>> /\ status[g] = "connected"
     THEN /\ sendQueue' = Tail(sendQueue)
          /\ loop' = [loop EXCEPT ![g] = [at |-> "sending", with |-> Head(sendQueue)]]
     ELSE loop' = [loop EXCEPT ![g] = NoLoop] /\ UNCHANGED sendQueue
  /\ UNCHANGED <<session, made, status, opening, known, wired>>

\* wa_webhook: what the service reports, if it arrives.
Told(s) == known' \in {known, s}
\* wa_connect and wa_disconnect write what they asked for.
Asked == known' \in {known, "connecting"}
Unlinked == known' = "disconnected"

\* 'connection.update' with open: Django is told, then the queue is drained.
Opened ==
  /\ session # 0 /\ status[session] = "connecting"
  /\ status' = [status EXCEPT ![session] = "connected"]
  /\ Told("connected") /\ opening' = TRUE
  /\ UNCHANGED <<session, made, sendQueue, loop, wired>>


OpenDrain ==
  /\ opening /\ opening' = FALSE
  /\ IF session = 0 THEN UNCHANGED <<sendQueue, loop>> ELSE Drained(session, sendQueue)
  /\ UNCHANGED <<session, made, status, known, wired>>

\* 'connection.update' with close.  Django hears of a logout only.
Closed ==
  /\ Online
  /\ \/ status' = [status EXCEPT ![session] = "connecting"] /\ UNCHANGED known
     \/ /\ status' = [status EXCEPT ![session] = "disconnected"]
        /\ Told("disconnected")
  /\ UNCHANGED <<session, made, sendQueue, loop, opening, wired>>

\* startSession makes a new object, which takes the queue over.
Anew ==
  /\ made < MaxSessions /\ made' = made + 1 /\ session' = made + 1
  /\ status' = [status EXCEPT ![made + 1] = "connecting"]
  /\ Asked /\ UNCHANGED <<sendQueue, loop, opening, wired>>

\* Fault for mutation: a session that is connected is started anew too.
StartSession_Connected == Anew

\* Five seconds after a transient close, or on the reseller's request.
StartSession == ~Online /\ Anew

\* disconnectSession: the object goes, and its queue.
Disconnect ==
  /\ session # 0 /\ session' = 0
  /\ status' = [status EXCEPT ![session] = "disconnected"]
  /\ sendQueue' = <<>> /\ Unlinked
  /\ UNCHANGED <<made, loop, opening, wired>>

\* The process is restarted; restorePersistedSessions starts the session anew.
Restart ==
  /\ made < MaxSessions /\ made' = made + 1 /\ session' = made + 1
  /\ status' = [g \in Objects |-> "connecting"]
  /\ sendQueue' = <<>> /\ loop' = [g \in Objects |-> NoLoop] /\ opening' = FALSE
  /\ UNCHANGED <<known, wired>>

\* wa_status: Django takes over what the service says.
Poll ==
  /\ known # (IF session = 0 THEN "disconnected" ELSE status[session])
  /\ known' = IF session = 0 THEN "disconnected" ELSE status[session]
  /\ UNCHANGED <<session, made, status, sendQueue, loop, opening, wired>>

Drains == OpenDrain \/ \E g \in Objects : Settle(g) \/ Wake(g)
SidecarStep == Drains \/ Opened \/ Closed \/ StartSession \/ Disconnect \/ Restart \/ Poll

SidecarType ==
  /\ session \in 0..made /\ made \in Objects /\ status \in [Objects -> Statuses]
  /\ sendQueue \in Seq(Messages) /\ loop \in [Objects -> Loops]
  /\ opening \in BOOLEAN /\ known \in Statuses /\ wired \in [Messages -> Nat]

\* One loop at a time can take a message: the pause between two of them, which
\* keeps the number from being banned, holds through reconnections.
OneLoopTakes ==
  \A g \in Objects : loop[g].at # "none" /\ g # session => status[g] # "connected"

\* While the session is connected its queue comes to be empty.
QueueMoves == []<>(~Online \/ sendQueue = <<>>)
=============================================================================
