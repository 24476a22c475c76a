-------------------------- MODULE SupportProofs ---------------------------
(***************************************************************************)
(* Theorems about Support for any tickets, staff, conversations and        *)
(* workers: types, the time stamps of finished tickets under callers that  *)
(* write back stale copies, the audit trail of a ticket whose callers take *)
(* turns.  And one about Team, the other instance of MCSupport: who was    *)
(* refused a login stays out.                                              *)
(***************************************************************************)
EXTENDS MCSupport, TLAPS, SequenceTheorems, WellFoundedInduction

Calling == {"loaded", "writing"}

\* What a process loaded fits the place it is at.
WellFormed(l, r) ==
  \/ l = "idle" /\ r = NoRequest
  \/ /\ l \in Calling /\ r \in CallsMade
     /\ r.op = "status" => r.to \in Statuses
     /\ r.op = "assign" => r.to \in Staff
     /\ r.op = "create" => r.to \in Staff \cup {NoOne}
  \/ l = "stamp" /\ r \in Pings
  \/ l = "asked" /\ r \in Answers
  \/ l = "clear" /\ r \in CallsMade \cup Answers /\ r.conv \in Conversations

HasRequest == \A p \in Processes : WellFormed(pc[p], req[p])

Labels == {"idle", "loaded", "writing", "stamp", "asked", "clear"}
Locals == {NoRequest} \cup CallsMade \cup Pings \cup Answers
ProcessesTyped == HasRequest /\ pc \in [Processes -> Labels] /\ req \in [Processes -> Locals]

\* The stamps of row vouch for the status of copy.
Vouches(row, copy) == /\ copy.status \in Terminal => row.resolved
                      /\ copy.status = "closed" => row.closed

\* A copy that shows a finished ticket was taken from a stamped row, and no
\* stamp is ever taken back.
CopiesAreStamped ==
  \A p \in Processes : pc[p] \in Calling => Vouches(ticket[req[p].t], req[p].copy)

Typed == TypeOK /\ HasRequest
IInv == Typed /\ TerminalIsStamped /\ CopiesAreStamped

-----------------------------------------------------------------------------
(* Lemmas                                                                  *)

\* A step of one process keeps the requests of all processes well formed.
LEMMA OneProcess ==
  ASSUME ProcessesTyped, NEW p \in Processes, NEW l \in Labels, NEW r \in Locals,
         WellFormed(l, r), pc' = [pc EXCEPT ![p] = l], req' = [req EXCEPT ![p] = r]
  PROVE  ProcessesTyped'
<1>1. ASSUME NEW q \in Processes PROVE WellFormed(pc'[q], req'[q])
  <2>1. pc'[q] = IF q = p THEN l ELSE pc[q] BY DEF ProcessesTyped
  <2>2. req'[q] = IF q = p THEN r ELSE req[q] BY DEF ProcessesTyped
  <2>3. CASE q = p BY <2>1, <2>2, <2>3
  <2>4. CASE q # p BY <2>1, <2>2, <2>4 DEF ProcessesTyped, HasRequest
  <2> QED BY <2>3, <2>4
<1>2. HasRequest' BY <1>1 DEF HasRequest
<1> QED BY <1>2 DEF ProcessesTyped

LEMMA TypedSplit == Typed => ProcessesTyped
BY DEF Typed, TypeOK, ProcessesTyped, Labels, Locals

\* _bump_staff_load stays a natural number.
LEMMA BumpedType ==
  ASSUME NEW read \in Nat, NEW delta \in {-1, 1} PROVE Bumped(read, delta) \in Nat
BY DEF Bumped

\* A row with another status and another assignee.
LEMMA RowType ==
  ASSUME NEW row \in Rows, NEW status \in Statuses \cup {"none"}, NEW person \in Staff \cup {NoOne}
  PROVE  [row EXCEPT !.status = status, !.staff = person] \in Rows
BY DEF Rows

\* An event more is still a trail.
LEMMA TrailType ==
  ASSUME trail \in [Tickets -> Seq(Events)], NEW t \in Tickets, NEW es \in Seq(Events), Log(t, es)
  PROVE  trail' \in [Tickets -> Seq(Events)]
<1>1. trail[t] \o es \in Seq(Events) BY ConcatProperties
<1> QED BY <1>1 DEF Log

-----------------------------------------------------------------------------
(* Types                                                                   *)

LEMMA TypedInit == Init => Typed
<1> SUFFICES ASSUME Init PROVE Typed OBVIOUS
<1>1. <<>> \in Seq(Events) BY EmptySeq
<1>2. NoRow \in Rows BY DEF NoRow, Rows
<1>3. TypeOK BY <1>1, <1>2, BoundAssumption DEF Init, TypeOK
<1>4. HasRequest BY DEF Init, HasRequest, WellFormed
<1> QED BY <1>3, <1>4 DEF Typed

\* Loading a row for a call.
LEMMA LoadTyped ==
  ASSUME Typed, NEW p \in Processes, NEW op \in {"create", "assign", "status"}, NEW t \in Tickets,
         NEW to \in Statuses \cup Staff \cup {NoOne}, NEW c \in Conversations \cup {NoOne},
         op = "status" => to \in Statuses, op = "assign" => to \in Staff,
         op = "create" => to \in Staff \cup {NoOne},
         LoadRow(p, op, t, to, c), calls' \in 0..MaxCalls
  PROVE  Typed'
<1> DEFINE r == [op |-> op, t |-> t, to |-> to, conv |-> c, copy |-> ticket[t], loads |-> load]
<1>1. r \in CallsMade BY DEF Typed, TypeOK, CallsMade
<1>2. WellFormed("loaded", r) BY <1>1 DEF WellFormed, Calling
<1>3. pc' = [pc EXCEPT ![p] = "loaded"] /\ req' = [req EXCEPT ![p] = r] BY DEF LoadRow, Goto
<1> HIDE DEF r
<1>4. ProcessesTyped'
  BY <1>1, <1>2, <1>3, TypedSplit, OneProcess DEF Labels, Locals
<1> QED BY <1>4 DEF Typed, TypeOK, LoadRow, ProcessesTyped, Labels, Locals

LEMMA CallTyped == ASSUME Typed, Call PROVE calls' \in 0..MaxCalls
BY BoundAssumption DEF Typed, TypeOK, Call

\* Returning to idle.
LEMMA ReturnTyped ==
  ASSUME Typed, NEW p \in Processes, Return(p)
  PROVE  ProcessesTyped'
<1>1. WellFormed("idle", NoRequest) BY DEF WellFormed
<1>2. pc' = [pc EXCEPT ![p] = "idle"] /\ req' = [req EXCEPT ![p] = NoRequest]
  BY DEF Return, Goto
<1> QED BY <1>1, <1>2, TypedSplit, OneProcess DEF Labels, Locals

LEMMA BeginTyped == ASSUME Typed, NEW p \in Processes, Begin(p) PROVE Typed'
<1> DEFINE r == req[p]
           read == IF r.op = "status" \/ r.to = NoOne THEN load
                   ELSE [load EXCEPT ![r.to] = r.loads[r.to]]
           r2 == [r EXCEPT !.loads = read]
<1>1. /\ r \in CallsMade
      /\ r.op = "status" => r.to \in Statuses
      /\ r.op = "assign" => r.to \in Staff
      /\ r.op = "create" => r.to \in Staff \cup {NoOne}
  BY DEF Typed, HasRequest, WellFormed, Begin, Calling
<1>2. read \in [Staff -> Nat] BY <1>1 DEF CallsMade, Typed, TypeOK
<1>3. r2 \in CallsMade /\ r2.op = r.op /\ r2.to = r.to BY <1>1, <1>2 DEF CallsMade
<1>4. WellFormed("writing", r2) BY <1>1, <1>3 DEF WellFormed, Calling
<1>5. pc' = [pc EXCEPT ![p] = "writing"] /\ req' = [req EXCEPT ![p] = r2]
  BY DEF Begin, Goto, Typed, TypeOK
<1> HIDE DEF r2
<1>6. ProcessesTyped'
  BY <1>3, <1>4, <1>5, TypedSplit, OneProcess DEF Labels, Locals
<1> QED BY <1>6 DEF Begin, Typed, TypeOK, ProcessesTyped, Labels, Locals

LEMMA CreateTyped == ASSUME Typed, NEW p \in Processes, CommitCreate(p) PROVE Typed'
<1> DEFINE r == req[p]
           status == IF r.to = NoOne THEN "open" ELSE "assigned"
           es == <<Event("created", "none", status)>>
                 \o IF r.to = NoOne THEN <<>> ELSE <<Assigned>>
<1>1. r \in CallsMade /\ r.to \in Staff \cup {NoOne}
  BY DEF Typed, HasRequest, WellFormed, CommitCreate, Calling
<1>2. r.t \in Tickets /\ r.loads \in [Staff -> Nat] BY <1>1 DEF CallsMade
<1>3. ticket' \in [Tickets -> Rows]
  <2>1. status \in Statuses BY DEF Statuses
  <2>2. [ticket[r.t] EXCEPT !.status = status, !.staff = r.to] \in Rows
    BY <1>1, <1>2, <2>1, RowType DEF Typed, TypeOK
  <2> QED BY <1>2, <2>2 DEF CommitCreate, Typed, TypeOK
<1>4. r.to # NoOne => Bumped(r.loads[r.to], 1) \in Nat BY <1>1, <1>2, BumpedType
<1>5. load' \in [Staff -> Nat] BY <1>1, <1>4 DEF CommitCreate, Typed, TypeOK
<1>6. es \in Seq(Events)
  <2>1. Event("created", "none", status) \in Events /\ Assigned \in Events
    BY DEF Event, Assigned, Events, Kinds, Statuses
  <2>2. <<Event("created", "none", status)>> \in Seq(Events) /\ <<Assigned>> \in Seq(Events)
        /\ <<>> \in Seq(Events)
    BY <2>1
  <2> QED BY <2>2, ConcatProperties
<1>7. Log(r.t, es) BY DEF CommitCreate
<1> HIDE DEF es
<1>8. trail' \in [Tickets -> Seq(Events)] BY <1>2, <1>6, <1>7, TrailType DEF Typed, TypeOK
<1>9. Return(p) BY DEF CommitCreate
<1> QED BY <1>3, <1>5, <1>8, <1>9, ReturnTyped DEF CommitCreate, Typed, TypeOK, ProcessesTyped, Labels, Locals

LEMMA AssignTyped == ASSUME Typed, NEW p \in Processes, CommitAssign(p) PROVE Typed'
<1> DEFINE r == req[p]
           before == r.copy.staff
           freed == IF before = NoOne THEN load
                    ELSE [load EXCEPT ![before] = Bumped(r.loads[before], -1)]
<1>1. r \in CallsMade /\ r.to \in Staff
  BY DEF Typed, HasRequest, WellFormed, CommitAssign, Calling
<1>2. r.t \in Tickets /\ r.loads \in [Staff -> Nat] /\ r.copy \in Rows
  BY <1>1 DEF CallsMade
<1>3. before \in Staff \cup {NoOne} /\ r.copy.status \in Statuses \cup {"none"}
  BY <1>2 DEF Rows
<1>4. ticket' \in [Tickets -> Rows]
  <2> DEFINE status == IF r.copy.status = "open" THEN "assigned" ELSE r.copy.status
  <2>1. status \in Statuses \cup {"none"} BY <1>3 DEF Statuses
  <2>2. ticket \in [Tickets -> Rows] /\ ticket[r.t] \in Rows BY <1>2 DEF Typed, TypeOK
  <2>3. [ticket[r.t] EXCEPT !.status = status, !.staff = r.to] \in Rows
    BY <1>1, <2>1, <2>2, RowType
  <2>4. ticket' = [ticket EXCEPT ![r.t] = [ticket[r.t] EXCEPT !.status = status, !.staff = r.to]]
    BY <1>2, <2>2 DEF CommitAssign, Rows
  <2> QED BY <1>2, <2>2, <2>3, <2>4
<1>5. before # NoOne => Bumped(r.loads[before], -1) \in Nat BY <1>2, <1>3, BumpedType
<1>6. freed \in [Staff -> Nat] BY <1>3, <1>5 DEF Typed, TypeOK
<1>7. Bumped(r.loads[r.to], 1) \in Nat BY <1>1, <1>2, BumpedType
<1>8. load' \in [Staff -> Nat] BY <1>1, <1>6, <1>7 DEF CommitAssign
<1>9. <<Assigned>> \in Seq(Events)
  BY DEF Event, Assigned, Events, Kinds
<1>10. Log(r.t, <<Assigned>>) /\ Return(p) BY DEF CommitAssign
<1>11. trail' \in [Tickets -> Seq(Events)] BY <1>2, <1>9, <1>10, TrailType DEF Typed, TypeOK
<1> QED BY <1>4, <1>8, <1>10, <1>11, ReturnTyped DEF CommitAssign, Typed, TypeOK, ProcessesTyped, Labels, Locals

LEMMA StatusTyped == ASSUME Typed, NEW p \in Processes, CommitStatus(p) PROVE Typed'
<1> DEFINE r == req[p]
           agent == r.copy.staff
           e == Event(StatusKind(r.copy.status, r.to), r.copy.status, r.to)
<1>1. r \in CallsMade /\ r.to \in Statuses
  BY DEF Typed, HasRequest, WellFormed, CommitStatus, Calling
<1>2. /\ r.t \in Tickets /\ r.loads \in [Staff -> Nat] /\ r.copy \in Rows
      /\ r.conv \in Conversations \cup {NoOne}
  BY <1>1 DEF CallsMade
<1>3. agent \in Staff \cup {NoOne} /\ r.copy.status \in Statuses \cup {"none"}
  BY <1>2 DEF Rows
<1>4. ticket' \in [Tickets -> Rows]
  <2>1. [ticket[r.t] EXCEPT !.status = r.to, !.resolved = @ \/ r.to \in Terminal,
                            !.closed = @ \/ (r.to = "closed")] \in Rows
    BY <1>1, <1>2 DEF Typed, TypeOK, Rows
  <2> QED BY <1>2, <2>1 DEF CommitStatus, Typed, TypeOK
<1>5. agent # NoOne => Bumped(r.loads[agent], -1) \in Nat BY <1>2, <1>3, BumpedType
<1>6. load' \in [Staff -> Nat] BY <1>3, <1>5 DEF CommitStatus, Typed, TypeOK
<1>7. e \in Events
  <2>1. StatusKind(r.copy.status, r.to) \in Kinds BY <1>1 DEF StatusKind, Kinds, Terminal
  <2> QED BY <1>1, <1>3, <2>1 DEF Event, Events
<1>8. <<e>> \in Seq(Events) BY <1>7
<1>9. Log(r.t, <<e>>) BY DEF CommitStatus
<1> HIDE DEF e
<1>10. trail' \in [Tickets -> Seq(Events)] BY <1>2, <1>8, <1>9, TrailType DEF Typed, TypeOK
<1>11. jobs' \in [Tickets -> Nat] BY <1>2 DEF CommitStatus, Typed, TypeOK
<1>12. ProcessesTyped'
  <2>1. CASE r.conv = NoOne
    <3>1. Return(p) BY <2>1 DEF CommitStatus, Done
    <3> QED BY <3>1, ReturnTyped
  <2>2. CASE r.conv # NoOne
    <3>1. pc' = [pc EXCEPT ![p] = "clear"] /\ req' = [req EXCEPT ![p] = r]
      BY <2>2 DEF CommitStatus, Done, Goto, Typed, TypeOK
    <3>2. WellFormed("clear", r) BY <1>1, <1>2, <2>2 DEF WellFormed
    <3> QED BY <1>1, <3>1, <3>2, TypedSplit, OneProcess DEF Labels, Locals
  <2> QED BY <2>1, <2>2
<1> QED BY <1>4, <1>6, <1>10, <1>11, <1>12
  DEF CommitStatus, Typed, TypeOK, ProcessesTyped, Labels, Locals

LEMMA StampTyped == ASSUME Typed, NEW p \in Processes, StampAwaiting(p) PROVE Typed'
<1>1. req[p] \in Pings BY DEF Typed, HasRequest, WellFormed, StampAwaiting, Calling
<1>2. req[p].t \in Tickets /\ req[p].conv \in Conversations BY <1>1 DEF Pings
<1>3. awaiting' \in [Conversations -> Tickets \cup {NoOne}]
  BY <1>2 DEF StampAwaiting, Typed, TypeOK
<1>4. Return(p) BY DEF StampAwaiting
<1> QED BY <1>3, <1>4, ReturnTyped DEF StampAwaiting, Typed, TypeOK, ProcessesTyped, Labels, Locals

LEMMA ClearTyped == ASSUME Typed, NEW p \in Processes, ClearAwaiting(p) PROVE Typed'
<1>1. req[p].conv \in Conversations BY DEF Typed, HasRequest, WellFormed, ClearAwaiting, Calling
<1>2. awaiting' \in [Conversations -> Tickets \cup {NoOne}]
  BY <1>1 DEF ClearAwaiting, Typed, TypeOK
<1>3. Return(p) BY DEF ClearAwaiting
<1> QED BY <1>2, <1>3, ReturnTyped DEF ClearAwaiting, Typed, TypeOK, ProcessesTyped, Labels, Locals

\* A verdict names a status, unless it leaves the ticket's own.
LEMMA JudgedStatus ==
  ASSUME NEW verdict, NEW status, Judged(verdict, status) # status
  PROVE  Judged(verdict, status) \in Statuses
BY DEF Judged, Statuses, Terminal

LEMMA JudgeTyped == ASSUME Typed, NEW p \in Processes, Judge(p) PROVE Typed'
<1> DEFINE r == req[p]
           old == ticket[r.t].status
           status == Judged(r.verdict, old)
<1>1. r \in Answers BY DEF Typed, HasRequest, WellFormed, Judge, Calling
<1>2. r.t \in Tickets /\ r.conv \in Conversations BY <1>1 DEF Answers
<1>3. calls' \in 0..MaxCalls BY DEF Judge, Typed, TypeOK
<1>4. CASE status = old
  <2>1. pc' = [pc EXCEPT ![p] = "clear"] /\ req' = [req EXCEPT ![p] = r]
    BY <1>4 DEF Judge, Goto, Typed, TypeOK
  <2>2. WellFormed("clear", r) BY <1>1, <1>2 DEF WellFormed
  <2>3. ProcessesTyped' BY <1>1, <2>1, <2>2, TypedSplit, OneProcess DEF Labels, Locals
  <2> QED BY <1>3, <1>4, <2>3 DEF Judge, Typed, TypeOK, ProcessesTyped, Labels, Locals
<1>5. CASE status # old
  <2>1. status \in Statuses BY <1>5, JudgedStatus
  <2>2. LoadRow(p, "status", r.t, status, r.conv) BY <1>5 DEF Judge
  <2> HIDE DEF status
  <2> QED BY <1>2, <1>3, <2>1, <2>2, LoadTyped
<1> QED BY <1>4, <1>5

LEMMA ReadPointerTyped ==
  ASSUME Typed, NEW p \in Processes, NEW c \in Conversations,
         NEW v \in {"yes", "no", "ambiguous", "timeout"}, ReadPointer(p, c, v)
  PROVE  Typed'
<1> DEFINE r == [t |-> awaiting[c], conv |-> c, verdict |-> v]
<1>1. r \in Answers BY DEF ReadPointer, Typed, TypeOK, Answers
<1>2. WellFormed("asked", r) BY <1>1 DEF WellFormed
<1>3. pc' = [pc EXCEPT ![p] = "asked"] /\ req' = [req EXCEPT ![p] = r] BY DEF ReadPointer, Goto
<1> HIDE DEF r
<1>4. ProcessesTyped' BY <1>1, <1>2, <1>3, TypedSplit, OneProcess DEF Labels, Locals
<1> QED BY <1>4 DEF ReadPointer, Typed, TypeOK, ProcessesTyped, Labels, Locals

LEMMA SendPingTyped ==
  ASSUME Typed, NEW w \in Processes, NEW t \in Tickets, SendPing(w, t)
  PROVE  Typed'
<1>1. jobs' \in [Tickets -> Nat] BY DEF SendPing, Typed, TypeOK
<1>2. ProcessesTyped'
  <2> DEFINE r == [t |-> t, conv |-> Conversation[t]]
  <2>1. CASE ticket[t].status = "resolved" /\ Conversation[t] # NoOne
    <3>1. r \in Pings BY <2>1, ConversationAssumption DEF Pings
    <3>2. WellFormed("stamp", r) BY <3>1 DEF WellFormed
    <3>3. pc' = [pc EXCEPT ![w] = "stamp"] /\ req' = [req EXCEPT ![w] = r]
      BY <2>1 DEF SendPing, Goto
    <3> HIDE DEF r
    <3> QED BY <3>1, <3>2, <3>3, TypedSplit, OneProcess DEF Labels, Locals
  <2>2. CASE ~(ticket[t].status = "resolved" /\ Conversation[t] # NoOne)
    <3>1. pc' = pc /\ req' = req BY <2>2 DEF SendPing
    <3> QED BY <3>1, TypedSplit DEF ProcessesTyped, HasRequest
  <2> QED BY <2>1, <2>2
<1> QED BY <1>1, <1>2 DEF SendPing, Typed, TypeOK, ProcessesTyped, Labels, Locals

LEMMA OtherTyped ==
  ASSUME Typed,
         \/ \E t \in Tickets : SchedulePing(t)
         \/ \E c \in Conversations, t \in Tickets \cup {NoOne} : AgentState(c, t)
         \/ UNCHANGED vars
  PROVE  Typed'
<1>1. CASE \E t \in Tickets : SchedulePing(t)
  <2>1. HasRequest' BY <1>1 DEF SchedulePing, Typed, HasRequest
  <2>2. calls' \in 0..MaxCalls BY <1>1, CallTyped DEF SchedulePing
  <2> QED BY <1>1, <2>1, <2>2 DEF SchedulePing, Typed, TypeOK
<1>2. CASE \E c \in Conversations, t \in Tickets \cup {NoOne} : AgentState(c, t)
  <2>1. HasRequest' BY <1>2 DEF AgentState, Typed, HasRequest
  <2>2. calls' \in 0..MaxCalls BY <1>2, CallTyped DEF AgentState
  <2> QED BY <1>2, <2>1, <2>2 DEF AgentState, Typed, TypeOK
<1>3. CASE UNCHANGED vars
  <2>1. HasRequest' BY <1>3 DEF vars, Typed, HasRequest
  <2> QED BY <1>3, <2>1 DEF vars, Typed, TypeOK
<1> QED BY <1>1, <1>2, <1>3

LEMMA CallsTyped == ASSUME Typed, NEW w \in Processes, Calls(w) PROVE Typed'
<1>1. PICK t \in Tickets :
        \/ \E s \in Staff \cup {NoOne} : LoadCreate(w, t, s)
        \/ \E s \in Staff : LoadAssign(w, t, s)
        \/ \E status \in Moves : LoadStatus(w, t, status)
  BY DEF Calls
<1>2. CASE \E s \in Staff \cup {NoOne} : LoadCreate(w, t, s)
  BY <1>2, CallTyped, LoadTyped DEF LoadCreate
<1>3. CASE \E s \in Staff : LoadAssign(w, t, s)
  BY <1>3, CallTyped, LoadTyped DEF LoadAssign
<1>4. CASE \E status \in Moves : LoadStatus(w, t, status)
  BY <1>4, CallTyped, LoadTyped, BoundAssumption DEF LoadStatus
<1> QED BY <1>1, <1>2, <1>3, <1>4

\* Every step keeps the types.
LEMMA TypedStep == Typed /\ [Next]_vars => Typed'
<1> SUFFICES ASSUME Typed, [Next]_vars PROVE Typed' OBVIOUS
<1>1. CASE \E p \in Processes : Continue(p)
  BY <1>1, BeginTyped, CreateTyped, AssignTyped, StatusTyped, StampTyped, JudgeTyped, ClearTyped
  DEF Continue
<1>2. CASE \E w \in Workers : Calls(w) BY <1>2, CallsTyped DEF Processes
<1>3. CASE Questions
  BY <1>3, OtherTyped, SendPingTyped, ReadPointerTyped DEF Questions, Processes
<1>4. CASE UNCHANGED vars BY <1>4, OtherTyped
<1> QED BY <1>1, <1>2, <1>3, <1>4 DEF Next

\* The state of tickets, staff, pings and processes keeps its types in every
\* behaviour; in particular no staff load is ever negative.
THEOREM SupportTypeCorrect == Spec => []TypeOK
<1>1. Typed => TypeOK BY DEF Typed
<1> QED BY <1>1, TypedInit, TypedStep, PTL DEF Spec

-----------------------------------------------------------------------------
(* Time stamps                                                             *)

Stamps == TerminalIsStamped /\ CopiesAreStamped

\* The tickets a step leaves alone, or writes with their stamps kept.
Keeps(t) == /\ ticket[t].resolved => ticket'[t].resolved
            /\ ticket[t].closed => ticket'[t].closed

\* A step that keeps all stamps keeps what they vouch for; the process p that
\* moves holds no copy afterwards, the same copy, or one of the row as it is.
LEMMA CopiesKept ==
  ASSUME Typed, CopiesAreStamped, NEW p \in Processes,
         \A t \in Tickets : Keeps(t),
         \A q \in Processes \ {p} : pc'[q] = pc[q] /\ req'[q] = req[q],
         pc'[p] \in Calling => Vouches(ticket'[req'[p].t], req'[p].copy)
  PROVE  CopiesAreStamped'
<1> SUFFICES ASSUME NEW q \in Processes, pc'[q] \in Calling
             PROVE  Vouches(ticket'[req'[q].t], req'[q].copy)
  BY DEF CopiesAreStamped, Vouches
<1>1. CASE q = p BY <1>1
<1>2. CASE q # p
  <2>1. pc[q] \in Calling /\ req'[q] = req[q] BY <1>2
  <2>2. req[q].t \in Tickets
    BY <2>1 DEF Typed, HasRequest, WellFormed, Calling, CallsMade
  <2>3. Vouches(ticket[req[q].t], req[q].copy) BY <2>1 DEF CopiesAreStamped
  <2> QED BY <2>1, <2>2, <2>3 DEF Keeps, Vouches
<1> QED BY <1>1, <1>2

\* A step that leaves the tickets alone.
LEMMA TicketsAlone ==
  ASSUME TerminalIsStamped, UNCHANGED ticket
  PROVE  TerminalIsStamped' /\ \A t \in Tickets : Keeps(t)
BY DEF TerminalIsStamped, Keeps

\* A step that writes the row of one ticket.
LEMMA TicketWritten ==
  ASSUME Typed, TerminalIsStamped, NEW t \in Tickets, NEW row \in Rows,
         ticket' = [ticket EXCEPT ![t] = row],
         Vouches(row, row),
         ticket[t].resolved => row.resolved, ticket[t].closed => row.closed
  PROVE  TerminalIsStamped' /\ \A u \in Tickets : Keeps(u)
<1>1. \A u \in Tickets : ticket'[u] = IF u = t THEN row ELSE ticket[u]
  BY DEF Typed, TypeOK
<1>2. ASSUME NEW u \in Tickets PROVE Vouches(ticket'[u], ticket'[u]) /\ Keeps(u)
  <2>1. CASE u = t BY <1>1, <2>1 DEF Keeps
  <2>2. CASE u # t BY <1>1, <2>2 DEF Keeps, Vouches, TerminalIsStamped
  <2> QED BY <2>1, <2>2
<1> QED BY <1>2 DEF TerminalIsStamped, Vouches

\* After Return or a step to a place without a copy, the others are as before.
LEMMA OthersAlone ==
  ASSUME Typed, NEW p \in Processes, NEW l, NEW r,
         pc' = [pc EXCEPT ![p] = l], req' = [req EXCEPT ![p] = r]
  PROVE  /\ \A q \in Processes \ {p} : pc'[q] = pc[q] /\ req'[q] = req[q]
         /\ pc'[p] = l /\ req'[p] = r
BY DEF Typed, TypeOK

\* A row loaded is vouched for by its own stamps.
LEMMA LoadStamps ==
  ASSUME Typed, Stamps, NEW p \in Processes, NEW op, NEW t \in Tickets, NEW to, NEW c,
         LoadRow(p, op, t, to, c)
  PROVE  Stamps'
<1> DEFINE r == [op |-> op, t |-> t, to |-> to, conv |-> c, copy |-> ticket[t], loads |-> load]
<1>1. pc' = [pc EXCEPT ![p] = "loaded"] /\ req' = [req EXCEPT ![p] = r]
  BY DEF LoadRow, Goto
<1>2. ticket' = ticket BY DEF LoadRow
<1>3. TerminalIsStamped' /\ \A u \in Tickets : Keeps(u) BY <1>2, TicketsAlone DEF Stamps
<1>4. Vouches(ticket'[r.t], r.copy) BY <1>2 DEF Vouches, Stamps, TerminalIsStamped
<1> HIDE DEF r
<1>5. CopiesAreStamped' BY <1>1, <1>3, <1>4, OthersAlone, CopiesKept DEF Stamps
<1> QED BY <1>3, <1>5 DEF Stamps

\* Beginning the transaction keeps the copy.
LEMMA BeginStamps == ASSUME Typed, Stamps, NEW p \in Processes, Begin(p) PROVE Stamps'
<1> DEFINE r == req[p]
           read == IF r.op = "status" \/ r.to = NoOne THEN load
                   ELSE [load EXCEPT ![r.to] = r.loads[r.to]]
           r2 == [r EXCEPT !.loads = read]
<1>1. pc' = [pc EXCEPT ![p] = "writing"] /\ req' = [req EXCEPT ![p] = r2]
  BY DEF Begin, Goto, Typed, TypeOK
<1>2. ticket' = ticket BY DEF Begin
<1>3. TerminalIsStamped' /\ \A u \in Tickets : Keeps(u) BY <1>2, TicketsAlone DEF Stamps
<1>4. r \in CallsMade BY DEF Typed, HasRequest, WellFormed, Begin, Calling
<1>5. r2.t = r.t /\ r2.copy = r.copy BY <1>4 DEF CallsMade
<1>6. Vouches(ticket'[r2.t], r2.copy)
  BY <1>2, <1>5 DEF Stamps, CopiesAreStamped, Begin, Calling
<1> HIDE DEF r2
<1>7. CopiesAreStamped' BY <1>1, <1>3, <1>6, OthersAlone, CopiesKept DEF Stamps
<1> QED BY <1>3, <1>7 DEF Stamps

\* A step of p to a place without a copy keeps the copies.
LEMMA LeaveStamps ==
  ASSUME Typed, Stamps, NEW p \in Processes, NEW l, NEW r, l \notin Calling,
         pc' = [pc EXCEPT ![p] = l], req' = [req EXCEPT ![p] = r],
         TerminalIsStamped', \A t \in Tickets : Keeps(t)
  PROVE  Stamps'
<1>1. CopiesAreStamped' BY OthersAlone, CopiesKept DEF Stamps
<1> QED BY <1>1 DEF Stamps

LEMMA CreateStamps == ASSUME Typed, Stamps, NEW p \in Processes, CommitCreate(p) PROVE Stamps'
<1> DEFINE r == req[p]
           status == IF r.to = NoOne THEN "open" ELSE "assigned"
           row == [ticket[r.t] EXCEPT !.status = status, !.staff = r.to]
<1>1. r \in CallsMade /\ r.to \in Staff \cup {NoOne}
  BY DEF Typed, HasRequest, WellFormed, CommitCreate, Calling
<1>2. r.t \in Tickets BY <1>1 DEF CallsMade
<1>3. ticket[r.t] \in Rows /\ status \in Statuses BY <1>2 DEF Typed, TypeOK, Statuses
<1>4. row \in Rows BY <1>1, <1>3, RowType
<1>5. /\ row.status = status
      /\ row.resolved = ticket[r.t].resolved /\ row.closed = ticket[r.t].closed
  BY <1>3 DEF Rows
<1>6. Vouches(row, row) BY <1>5 DEF Vouches, Terminal
<1>7. ticket' = [ticket EXCEPT ![r.t] = row] BY <1>2 DEF CommitCreate, Typed, TypeOK
<1> HIDE DEF row
<1>8. TerminalIsStamped' /\ \A t \in Tickets : Keeps(t)
  BY <1>2, <1>4, <1>5, <1>6, <1>7, TicketWritten DEF Stamps
<1>9. pc' = [pc EXCEPT ![p] = "idle"] /\ req' = [req EXCEPT ![p] = NoRequest]
  BY DEF CommitCreate, Return, Goto
<1> QED BY <1>8, <1>9, LeaveStamps DEF Calling

\* An assignment writes the status of its copy: the row's stamps vouch for it.
LEMMA AssignStamps == ASSUME Typed, Stamps, NEW p \in Processes, CommitAssign(p) PROVE Stamps'
<1> DEFINE r == req[p]
           status == IF r.copy.status = "open" THEN "assigned" ELSE r.copy.status
           row == [ticket[r.t] EXCEPT !.status = status, !.staff = r.to]
<1>1. r \in CallsMade /\ r.to \in Staff
  BY DEF Typed, HasRequest, WellFormed, CommitAssign, Calling
<1>2. r.t \in Tickets /\ r.copy \in Rows BY <1>1 DEF CallsMade
<1>3. ticket[r.t] \in Rows BY <1>2 DEF Typed, TypeOK
<1>4. status \in Statuses \cup {"none"} BY <1>2 DEF Rows, Statuses
<1>5. row \in Rows BY <1>1, <1>3, <1>4, RowType
<1>6. /\ row.status = status
      /\ row.resolved = ticket[r.t].resolved /\ row.closed = ticket[r.t].closed
  BY <1>3 DEF Rows
<1>7. Vouches(ticket[r.t], r.copy)
  BY DEF Stamps, CopiesAreStamped, CommitAssign, Calling
<1>8. Vouches(row, row) BY <1>6, <1>7 DEF Vouches, Terminal
<1>9. ticket' = [ticket EXCEPT ![r.t] = row] BY <1>2, <1>3 DEF CommitAssign, Typed, TypeOK
<1> HIDE DEF row
<1>10. TerminalIsStamped' /\ \A t \in Tickets : Keeps(t)
  BY <1>2, <1>5, <1>6, <1>8, <1>9, TicketWritten DEF Stamps
<1>11. pc' = [pc EXCEPT ![p] = "idle"] /\ req' = [req EXCEPT ![p] = NoRequest]
  BY DEF CommitAssign, Return, Goto
<1> QED BY <1>10, <1>11, LeaveStamps DEF Calling

\* A status change stamps what it finishes.
LEMMA StatusStamps == ASSUME Typed, Stamps, NEW p \in Processes, CommitStatus(p) PROVE Stamps'
<1> DEFINE r == req[p]
           row == [ticket[r.t] EXCEPT !.status = r.to, !.resolved = @ \/ r.to \in Terminal,
                                      !.closed = @ \/ (r.to = "closed")]
<1>1. r \in CallsMade /\ r.to \in Statuses
  BY DEF Typed, HasRequest, WellFormed, CommitStatus, Calling
<1>2. r.t \in Tickets BY <1>1 DEF CallsMade
<1>3. ticket[r.t] \in Rows BY <1>2 DEF Typed, TypeOK
<1>4. row \in Rows BY <1>1, <1>3 DEF Rows
<1>5. /\ row.status = r.to
      /\ row.resolved = (ticket[r.t].resolved \/ r.to \in Terminal)
      /\ row.closed = (ticket[r.t].closed \/ r.to = "closed")
  BY <1>3 DEF Rows
<1>6. Vouches(row, row) BY <1>5 DEF Vouches
<1>7. ticket' = [ticket EXCEPT ![r.t] = row] BY <1>2, <1>3 DEF CommitStatus, Typed, TypeOK
<1> HIDE DEF row
<1>8. TerminalIsStamped' /\ \A t \in Tickets : Keeps(t)
  BY <1>2, <1>4, <1>5, <1>6, <1>7, TicketWritten DEF Stamps
<1>9. PICK l \in {"idle", "clear"} : pc' = [pc EXCEPT ![p] = l]
  BY DEF CommitStatus, Done, Return, Goto
<1>10. PICK q : req' = [req EXCEPT ![p] = q]
  BY DEF CommitStatus, Done, Return, Typed, TypeOK
<1> QED BY <1>8, <1>9, <1>10, LeaveStamps DEF Calling

\* A step that leaves tickets alone and takes no copy.
LEMMA IdleStamps ==
  ASSUME Typed, Stamps, NEW p \in Processes, NEW l, NEW r, l \notin Calling,
         pc' = [pc EXCEPT ![p] = l], req' = [req EXCEPT ![p] = r], ticket' = ticket
  PROVE  Stamps'
<1>1. TerminalIsStamped' /\ \A t \in Tickets : Keeps(t) BY TicketsAlone DEF Stamps
<1> QED BY <1>1, LeaveStamps

LEMMA StutterStamps ==
  ASSUME Stamps, UNCHANGED <<ticket, pc, req>> PROVE Stamps'
BY DEF Stamps, TerminalIsStamped, CopiesAreStamped, Vouches

LEMMA ReturnStamps ==
  ASSUME Typed, Stamps, NEW p \in Processes, Return(p), ticket' = ticket PROVE Stamps'
<1>1. pc' = [pc EXCEPT ![p] = "idle"] /\ req' = [req EXCEPT ![p] = NoRequest]
  BY DEF Return, Goto
<1> QED BY <1>1, IdleStamps DEF Calling

LEMMA JudgeStamps == ASSUME Typed, Stamps, NEW p \in Processes, Judge(p) PROVE Stamps'
<1> DEFINE r == req[p]
           status == Judged(r.verdict, ticket[r.t].status)
<1>1. r.t \in Tickets BY DEF Typed, HasRequest, WellFormed, Judge, Answers, Calling
<1>2. CASE status = ticket[r.t].status
  <2>1. /\ pc' = [pc EXCEPT ![p] = "clear"] /\ req' = [req EXCEPT ![p] = r]
        /\ ticket' = ticket
    BY <1>2 DEF Judge, Goto, Typed, TypeOK
  <2> QED BY <2>1, IdleStamps DEF Calling
<1>3. CASE status # ticket[r.t].status
  <2>1. LoadRow(p, "status", r.t, status, r.conv) BY <1>3 DEF Judge
  <2> HIDE DEF status
  <2> QED BY <1>1, <2>1, LoadStamps
<1> QED BY <1>2, <1>3

LEMMA QuestionStamps == ASSUME Typed, Stamps, Questions PROVE Stamps'
<1>1. CASE \E t \in Tickets : SchedulePing(t) BY <1>1, StutterStamps DEF SchedulePing
<1>2. ASSUME NEW t \in Tickets, NEW w \in Workers, SendPing(w, t) PROVE Stamps'
  <2>1. CASE ticket[t].status = "resolved" /\ Conversation[t] # NoOne
    <3>1. /\ pc' = [pc EXCEPT ![w] = "stamp"]
          /\ req' = [req EXCEPT ![w] = [t |-> t, conv |-> Conversation[t]]]
          /\ ticket' = ticket
      BY <1>2, <2>1 DEF SendPing, Goto
    <3> QED BY <3>1, IdleStamps DEF Calling, Processes
  <2>2. CASE ~(ticket[t].status = "resolved" /\ Conversation[t] # NoOne)
    BY <1>2, <2>2, StutterStamps DEF SendPing
  <2> QED BY <2>1, <2>2
<1>3. CASE \E c \in Conversations, t \in Tickets \cup {NoOne} : AgentState(c, t)
  BY <1>3, StutterStamps DEF AgentState
<1>4. ASSUME NEW p \in Processes, NEW c \in Conversations, NEW v, ReadPointer(p, c, v)
      PROVE  Stamps'
  <2>1. /\ pc' = [pc EXCEPT ![p] = "asked"]
        /\ req' = [req EXCEPT ![p] = [t |-> awaiting[c], conv |-> c, verdict |-> v]]
        /\ ticket' = ticket
    BY <1>4 DEF ReadPointer, Goto
  <2> QED BY <2>1, IdleStamps DEF Calling
<1> QED BY <1>1, <1>2, <1>3, <1>4 DEF Questions, Processes

LEMMA CallsStamps == ASSUME Typed, Stamps, NEW w \in Processes, Calls(w) PROVE Stamps'
BY LoadStamps DEF Calls, LoadCreate, LoadAssign, LoadStatus

LEMMA StampsStep == ASSUME Typed, Stamps, [Next]_vars PROVE Stamps'
<1>1. CASE \E p \in Processes : Continue(p)
  <2> SUFFICES ASSUME NEW p \in Processes, Continue(p) PROVE Stamps' BY <1>1
  <2>1. CASE StampAwaiting(p) BY <2>1, ReturnStamps DEF StampAwaiting
  <2>2. CASE ClearAwaiting(p) BY <2>2, ReturnStamps DEF ClearAwaiting
  <2> QED BY <2>1, <2>2, BeginStamps, CreateStamps, AssignStamps, StatusStamps, JudgeStamps
      DEF Continue
<1>2. CASE \E w \in Workers : Calls(w) BY <1>2, CallsStamps DEF Processes
<1>3. CASE Questions BY <1>3, QuestionStamps
<1>4. CASE UNCHANGED vars BY <1>4, StutterStamps DEF vars
<1> QED BY <1>1, <1>2, <1>3, <1>4 DEF Next

\* However many callers write back stale copies of however many tickets, a
\* finished ticket has the time it was resolved and a closed one the time it
\* was closed: copies are taken from stamped rows and stamps are never cleared.
THEOREM FinishedTicketsAreStamped == Spec => []TerminalIsStamped
<1>1. Init => IInv
  <2> SUFFICES ASSUME Init PROVE IInv OBVIOUS
  <2>1. TerminalIsStamped BY DEF Init, NoRow, TerminalIsStamped, Terminal
  <2>2. CopiesAreStamped BY DEF Init, CopiesAreStamped, Calling
  <2> QED BY <2>1, <2>2, TypedInit DEF IInv
<1>2. IInv /\ [Next]_vars => IInv'
  BY TypedStep, StampsStep DEF IInv, Stamps
<1>3. IInv => TerminalIsStamped BY DEF IInv
<1> QED BY <1>1, <1>2, <1>3, PTL DEF Spec

-----------------------------------------------------------------------------
(* Trails                                                                  *)

\* Course-of-values induction: what fails somewhere fails at a least place.
Below == {p \in Nat \X Nat : p[1] < p[2]}

LEMMA LeastIndex ==
  ASSUME NEW S, S \subseteq Nat, S # {}
  PROVE  \E m \in S : \A k \in S : m <= k
<1>1. IsWellFoundedOn(Below, Nat) BY NatLessThanWellFounded DEF OpToRel, Below
<1>2. PICK m \in S : \A k \in S : <<k, m>> \notin Below BY <1>1, WFMin, Zenon
<1>3. \A k \in S : ~(k < m) BY <1>2 DEF Below
<1> QED BY <1>2, <1>3

States == Statuses \cup {"none"}

\* h is the status after each prefix of a trail, and the events tell the truth.
Runs(h, events) ==
  /\ h \in [0..Len(events) -> States] /\ h[0] = "none"
  /\ \A i \in 1..Len(events) :
       h[i] = Replayed(h[i - 1], events[i]) /\ Tells(events[i], h[i - 1])
Replays(events, status) == \E h : Runs(h, events) /\ h[Len(events)] = status

LEMMA ReplayedType ==
  ASSUME NEW status \in States, NEW e \in Events PROVE Replayed(status, e) \in States
BY DEF Replayed, States, Statuses, Events

\* One truthful event more.
LEMMA OneMore ==
  ASSUME NEW events \in Seq(Events), NEW e \in Events, NEW status,
         Replays(events, status), Tells(e, status)
  PROVE  events \o <<e>> \in Seq(Events) /\ Replays(events \o <<e>>, Replayed(status, e))
<1> DEFINE n == Len(events)
           more == events \o <<e>>
<1>1. PICK h : Runs(h, events) /\ h[n] = status BY DEF Replays
<1>2. n \in Nat /\ Len(more) = n + 1 /\ more \in Seq(Events)
      /\ more[n + 1] = e /\ \A i \in 1..n : more[i] = events[i]
  BY ConcatProperties
<1> HIDE DEF n, more
<1> DEFINE g == [i \in 0..Len(more) |-> IF i = n + 1 THEN Replayed(status, e) ELSE h[i]]
<1>3. h[0] = "none" /\ \A i \in 0..n : h[i] \in States BY <1>1 DEF Runs, n
<1>4. n \in 0..n /\ status \in States BY <1>1, <1>2, <1>3
<1>5. /\ g \in [0..(n + 1) -> States] /\ g[0] = "none"
      /\ g[n + 1] = Replayed(status, e) /\ \A i \in 0..n : g[i] = h[i]
  BY <1>2, <1>3, <1>4, ReplayedType
<1>6. g \in [0..Len(more) -> States] BY <1>2, <1>5
<1> HIDE DEF g
<1>7. ASSUME NEW i \in 1..Len(more)
      PROVE  g[i] = Replayed(g[i - 1], more[i]) /\ Tells(more[i], g[i - 1])
  <2>1. CASE i = n + 1 BY <1>1, <1>2, <1>4, <1>5, <2>1
  <2>2. CASE i # n + 1
    <3>1. i \in 1..n /\ i - 1 \in 0..n /\ i \in 0..n BY <1>2, <2>2
    <3> QED BY <1>1, <1>2, <1>5, <3>1 DEF Runs, n
  <2> QED BY <2>1, <2>2
<1>8. Runs(g, more) BY <1>5, <1>6, <1>7 DEF Runs
<1> QED BY <1>2, <1>5, <1>8 DEF Replays, more

\* Past is the only function that runs through a trail.
LEMMA PastRuns ==
  ASSUME NEW events \in Seq(Events), NEW h, Runs(h, events)
  PROVE  Past(events) = h
<1> DEFINE n == Len(events)
           Step(f) == [i \in 0..n |-> IF i = 0 THEN "none" ELSE Replayed(f[i - 1], events[i])]
<1>1. n \in Nat OBVIOUS
<1>2. h = Step(h)
  <2>1. \A i \in 0..n : h[i] = Step(h)[i]
    <3>1. \A i \in 0..n : i = 0 \/ i \in 1..n BY <1>1
    <3> QED BY <3>1 DEF Runs
  <2> QED BY <2>1 DEF Runs
<1>3. Past(events) = CHOOSE f : f = Step(f) BY DEF Past
<1>4. Past(events) = Step(Past(events)) BY <1>2, <1>3
<1> DEFINE p == Past(events)
           Wrong == {i \in 0..n : p[i] # h[i]}
<1> HIDE DEF p
<1>5. \A i \in 0..n : p[i] = IF i = 0 THEN "none" ELSE Replayed(p[i - 1], events[i])
  BY <1>4 DEF p
<1>6. Wrong = {}
  <2>0. Wrong \subseteq Nat /\ \A i : i \in Wrong <=> i \in 0..n /\ p[i] # h[i] OBVIOUS
  <2> HIDE DEF Wrong
  <2> SUFFICES ASSUME Wrong # {} PROVE FALSE OBVIOUS
  <2>1. PICK m \in Wrong : \A k \in Wrong : m <= k BY <2>0, LeastIndex
  <2>2. m \in 0..n /\ p[m] # h[m] BY <2>0, <2>1
  <2>3. m # 0 BY <1>5, <2>2 DEF Runs
  <2>4. m \in 1..n /\ m - 1 \in 0..n BY <1>1, <2>2, <2>3
  <2>5. p[m - 1] = h[m - 1] BY <1>1, <2>0, <2>1, <2>2, <2>4
  <2> QED BY <1>5, <2>2, <2>4, <2>5 DEF Runs
<1>7. p = [i \in 0..n |-> p[i]] BY <1>4 DEF p
<1>8. h = [i \in 0..n |-> h[i]] BY DEF Runs
<1> QED BY <1>6, <1>7, <1>8 DEF p

\* The copy in hand of a ticket whose callers take turns shows its status, and
\* who creates a ticket found none.
Current(p, t) == /\ req[p].copy.status = ticket[t].status
                 /\ req[p].op = "create" => ticket[t].status = "none"

\* One caller at a time holds a ticket of Solo, with a current copy, and its
\* trail replays up to its row.
Turns(t) == /\ \A p, q \in Processes : Holds(p, t) /\ Holds(q, t) => p = q
            /\ \A p \in Processes : Holds(p, t) => Current(p, t)
TrailInv == \A t \in Solo : Replays(trail[t], ticket[t].status) /\ Turns(t)

\* A step of p that holds a ticket or takes a free one with a current copy, and
\* extends at most the trail of the ticket it held, keeps the invariant.
LEMMA TurnKept ==
  ASSUME TrailInv, NEW p \in Processes,
         \A q \in Processes \ {p} : pc'[q] = pc[q] /\ req'[q] = req[q],
         \A t \in Solo : \/ trail'[t] = trail[t] /\ ticket'[t] = ticket[t]
                         \/ Holds(p, t) /\ Replays(trail'[t], ticket'[t].status),
         \A t \in Solo : Holds(p, t)' =>
           Current(p, t)' /\ \A q \in Processes \ {p} : ~Holds(q, t)
  PROVE  TrailInv'
<1> SUFFICES ASSUME NEW t \in Solo PROVE Replays(trail'[t], ticket'[t].status) /\ Turns(t)'
  BY DEF TrailInv
<1>1. Replays(trail[t], ticket[t].status) /\ Turns(t) BY DEF TrailInv
<1>2. Replays(trail'[t], ticket'[t].status) BY <1>1
<1>3. \A q \in Processes \ {p} : Holds(q, t)' <=> Holds(q, t) BY DEF Holds
<1>4. ASSUME NEW q \in Processes, NEW r \in Processes, Holds(q, t)', Holds(r, t)'
      PROVE  q = r
  BY <1>1, <1>3, <1>4 DEF Turns
<1>5. ASSUME NEW q \in Processes, Holds(q, t)' PROVE Current(q, t)'
  <2>1. CASE q = p BY <1>5, <2>1
  <2>2. CASE q # p
    <3>1. Holds(q, t) /\ Current(q, t) BY <1>1, <1>3, <1>5, <2>2 DEF Turns
    <3>2. ~Holds(p, t) BY <1>1, <2>2, <3>1 DEF Turns
    <3> QED BY <2>2, <3>1, <3>2 DEF Current
  <2> QED BY <2>1, <2>2
<1> QED BY <1>2, <1>4, <1>5 DEF Turns

LEMMA TurnsAlone == ASSUME TrailInv, UNCHANGED <<ticket, trail, pc, req>> PROVE TrailInv'
BY DEF TrailInv, Turns, Holds, Current

\* A step of p to a place without a copy that leaves the rows alone.
LEMMA LeaveTurn ==
  ASSUME Typed, TrailInv, NEW p \in Processes, NEW l, NEW r, l \notin Calling,
         pc' = [pc EXCEPT ![p] = l], req' = [req EXCEPT ![p] = r], UNCHANGED <<ticket, trail>>
  PROVE  TrailInv'
<1>1. pc'[p] = l /\ \A q \in Processes \ {p} : pc'[q] = pc[q] /\ req'[q] = req[q]
  BY OthersAlone
<1>2. \A t \in Solo : ~Holds(p, t)' BY <1>1 DEF Holds, Calling
<1> QED BY <1>1, <1>2, TurnKept

\* A row is loaded when nobody else holds its ticket.
LEMMA LoadTurn ==
  ASSUME Typed, TrailInv, NEW p \in Processes, NEW op, NEW t \in Tickets, NEW to, NEW c,
         LoadRow(p, op, t, to, c), op = "create" => ~Exists(t)
  PROVE  TrailInv'
<1> DEFINE r == [op |-> op, t |-> t, to |-> to, conv |-> c, copy |-> ticket[t], loads |-> load]
<1>1. pc' = [pc EXCEPT ![p] = "loaded"] /\ req' = [req EXCEPT ![p] = r]
  BY DEF LoadRow, Goto
<1>2. ticket' = ticket /\ trail' = trail BY DEF LoadRow
<1>3. r.t = t /\ r.op = op /\ r.copy = ticket[t] OBVIOUS
<1> HIDE DEF r
<1>4. req'[p] = r /\ \A q \in Processes \ {p} : pc'[q] = pc[q] /\ req'[q] = req[q]
  BY <1>1, OthersAlone, ZenonT(40)
<1>5. ASSUME NEW u \in Solo, Holds(p, u)'
      PROVE  Current(p, u)' /\ \A q \in Processes \ {p} : ~Holds(q, u)
  <2>1. u = t BY <1>3, <1>4, <1>5 DEF Holds
  <2>2. \A q \in Processes : ~Holds(q, t) BY <2>1 DEF LoadRow
  <2> QED BY <1>2, <1>3, <1>4, <2>1, <2>2 DEF Current, Exists
<1> QED BY <1>2, <1>4, <1>5, TurnKept

LEMMA BeginTurn == ASSUME Typed, TrailInv, NEW p \in Processes, Begin(p) PROVE TrailInv'
<1> DEFINE r == req[p]
           read == IF r.op = "status" \/ r.to = NoOne THEN load
                   ELSE [load EXCEPT ![r.to] = r.loads[r.to]]
           r2 == [r EXCEPT !.loads = read]
<1>1. pc' = [pc EXCEPT ![p] = "writing"] /\ req' = [req EXCEPT ![p] = r2]
  BY DEF Begin, Goto, Typed, TypeOK
<1>2. ticket' = ticket /\ trail' = trail BY DEF Begin
<1>3. r \in CallsMade BY DEF Typed, HasRequest, WellFormed, Begin, Calling
<1>4. r2.t = r.t /\ r2.copy = r.copy /\ r2.op = r.op BY <1>3 DEF CallsMade
<1> HIDE DEF r2
<1>5. req'[p] = r2 /\ \A q \in Processes \ {p} : pc'[q] = pc[q] /\ req'[q] = req[q]
  BY <1>1, OthersAlone
<1>6. ASSUME NEW u \in Solo, Holds(p, u)'
      PROVE  Current(p, u)' /\ \A q \in Processes \ {p} : ~Holds(q, u)
  <2>1. Holds(p, u) BY <1>4, <1>5, <1>6 DEF Holds, Begin
  <2>2. Turns(u) BY DEF TrailInv
  <2> QED BY <1>2, <1>4, <1>5, <2>1, <2>2 DEF Turns, Current
<1> QED BY <1>2, <1>5, <1>6, TurnKept

\* A commit that writes one row and logs events that lead to its new status.
LEMMA CommitTurn ==
  ASSUME Typed, TrailInv, NEW p \in Processes, pc[p] = "writing", NEW l, NEW r, l \notin Calling,
         pc' = [pc EXCEPT ![p] = l], req' = [req EXCEPT ![p] = r],
         NEW t \in Tickets, t = req[p].t, NEW row, NEW es,
         ticket' = [ticket EXCEPT ![t] = row], Log(t, es),
         t \in Solo => Replays(trail[t] \o es, row.status)
  PROVE  TrailInv'
<1>1. pc'[p] = l /\ \A q \in Processes \ {p} : pc'[q] = pc[q] /\ req'[q] = req[q]
  BY OthersAlone
<1>2. \A u \in Solo : ~Holds(p, u)' BY <1>1 DEF Holds, Calling
<1>3. Holds(p, t) BY DEF Holds
<1>4. \A u \in Tickets : u # t => ticket'[u] = ticket[u] /\ trail'[u] = trail[u]
  BY DEF Typed, TypeOK, Log
<1>5. ticket'[t] = row /\ trail'[t] = trail[t] \o es BY DEF Typed, TypeOK, Log
<1>6. ASSUME NEW u \in Solo
      PROVE \/ trail'[u] = trail[u] /\ ticket'[u] = ticket[u]
            \/ Holds(p, u) /\ Replays(trail'[u], ticket'[u].status)
  <2>1. CASE u = t BY <1>3, <1>5, <2>1
  <2>2. CASE u # t BY <1>4, <2>2, SoloAssumption
  <2> QED BY <2>1, <2>2
<1> QED BY <1>1, <1>2, <1>6, TurnKept

LEMMA HolderCurrent ==
  ASSUME TrailInv, NEW p \in Processes, NEW t \in Solo, Holds(p, t)
  PROVE  Replays(trail[t], ticket[t].status) /\ Current(p, t)
BY DEF TrailInv, Turns

LEMMA CreateTurn == ASSUME Typed, TrailInv, NEW p \in Processes, CommitCreate(p) PROVE TrailInv'
<1> DEFINE r == req[p]
           t == r.t
           status == IF r.to = NoOne THEN "open" ELSE "assigned"
           row == [ticket[t] EXCEPT !.status = status, !.staff = r.to]
           e == Event("created", "none", status)
           es == <<e>> \o IF r.to = NoOne THEN <<>> ELSE <<Assigned>>
<1>1. r \in CallsMade /\ r.op = "create"
  BY DEF Typed, HasRequest, WellFormed, CommitCreate, Calling
<1>2. t \in Tickets BY <1>1 DEF CallsMade
<1>3. ticket[t] \in Rows /\ trail[t] \in Seq(Events) BY <1>2 DEF Typed, TypeOK
<1>4. row.status = status BY <1>3 DEF Rows
<1>5. ticket' = [ticket EXCEPT ![t] = row] BY <1>2 DEF CommitCreate, Typed, TypeOK
<1>6. Log(t, es) BY DEF CommitCreate
<1>7. ASSUME t \in Solo PROVE Replays(trail[t] \o es, status)
  <2>1. Holds(p, t) BY DEF CommitCreate, Holds
  <2>2. Replays(trail[t], "none") BY <1>1, <1>7, <2>1, HolderCurrent DEF Current
  <2>3. e \in Events /\ Assigned \in Events BY DEF Event, Assigned, Events, Kinds, Statuses
  <2>4. Tells(e, "none") /\ Replayed("none", e) = status
    BY DEF Tells, Replayed, Event, Terminal
  <2>5. Tells(Assigned, status) /\ Replayed(status, Assigned) = IF status = "open" THEN "assigned" ELSE status
    BY DEF Tells, Replayed, Event, Assigned
  <2> HIDE DEF e
  <2>6. trail[t] \o <<e>> \in Seq(Events) /\ Replays(trail[t] \o <<e>>, status)
    BY <1>3, <2>2, <2>3, <2>4, OneMore
  <2>7. CASE r.to = NoOne
    <3>1. es = <<e>> BY <2>7
    <3> QED BY <2>6, <3>1
  <2>8. CASE r.to # NoOne
    <3>1. es = <<e>> \o <<Assigned>> BY <2>8
    <3>2. trail[t] \o es = (trail[t] \o <<e>>) \o <<Assigned>>
      <4>1. <<e>> \in Seq(Events) /\ <<Assigned>> \in Seq(Events) BY <2>3
      <4> HIDE DEF es
      <4> QED BY <1>3, <3>1, <4>1, ConcatAssociative, SMTT(30)
    <3>3. Replayed(status, Assigned) = status BY <2>5, <2>8
    <3> HIDE DEF status, es
    <3>4. Replays((trail[t] \o <<e>>) \o <<Assigned>>, status)
      BY <2>3, <2>5, <2>6, <3>3, OneMore
    <3> QED BY <3>2, <3>4
  <2> QED BY <2>7, <2>8
<1>8. /\ pc[p] = "writing"
      /\ pc' = [pc EXCEPT ![p] = "idle"] /\ req' = [req EXCEPT ![p] = NoRequest]
  BY DEF CommitCreate, Return, Goto
<1> HIDE DEF row, es
<1> QED BY <1>2, <1>4, <1>5, <1>6, <1>7, <1>8, CommitTurn DEF Calling

LEMMA AssignTurn == ASSUME Typed, TrailInv, NEW p \in Processes, CommitAssign(p) PROVE TrailInv'
<1> DEFINE r == req[p]
           t == r.t
           status == IF r.copy.status = "open" THEN "assigned" ELSE r.copy.status
           row == [ticket[t] EXCEPT !.status = status, !.staff = r.to]
<1>1. r \in CallsMade BY DEF Typed, HasRequest, WellFormed, CommitAssign, Calling
<1>2. t \in Tickets BY <1>1 DEF CallsMade
<1>3. ticket[t] \in Rows /\ trail[t] \in Seq(Events) BY <1>2 DEF Typed, TypeOK
<1>4. row.status = status BY <1>3 DEF Rows
<1>5. ticket' = [ticket EXCEPT ![t] = row] BY <1>2, <1>3 DEF CommitAssign, Typed, TypeOK
<1>6. Log(t, <<Assigned>>) BY DEF CommitAssign
<1>7. ASSUME t \in Solo PROVE Replays(trail[t] \o <<Assigned>>, status)
  <2>1. Holds(p, t) BY DEF CommitAssign, Holds
  <2>2. Replays(trail[t], r.copy.status) BY <1>7, <2>1, HolderCurrent DEF Current
  <2>3. Assigned \in Events BY DEF Event, Assigned, Events, Kinds
  <2>4. Tells(Assigned, r.copy.status) /\ Replayed(r.copy.status, Assigned) = status
    BY DEF Tells, Replayed, Event, Assigned
  <2> QED BY <1>3, <2>2, <2>3, <2>4, OneMore
<1>8. /\ pc[p] = "writing"
      /\ pc' = [pc EXCEPT ![p] = "idle"] /\ req' = [req EXCEPT ![p] = NoRequest]
  BY DEF CommitAssign, Return, Goto
<1> HIDE DEF row
<1> QED BY <1>2, <1>4, <1>5, <1>6, <1>7, <1>8, CommitTurn DEF Calling

LEMMA StatusTurn == ASSUME Typed, TrailInv, NEW p \in Processes, CommitStatus(p) PROVE TrailInv'
<1> DEFINE r == req[p]
           t == r.t
           row == [ticket[t] EXCEPT !.status = r.to, !.resolved = @ \/ r.to \in Terminal,
                                    !.closed = @ \/ (r.to = "closed")]
           e == Event(StatusKind(r.copy.status, r.to), r.copy.status, r.to)
<1>1. r \in CallsMade /\ r.to \in Statuses
  BY DEF Typed, HasRequest, WellFormed, CommitStatus, Calling
<1>2. t \in Tickets /\ r.copy.status \in States BY <1>1 DEF CallsMade, Rows, States
<1>3. ticket[t] \in Rows /\ trail[t] \in Seq(Events) BY <1>2 DEF Typed, TypeOK
<1>4. row.status = r.to BY <1>3 DEF Rows
<1>5. ticket' = [ticket EXCEPT ![t] = row] BY <1>2, <1>3 DEF CommitStatus, Typed, TypeOK
<1>6. Log(t, <<e>>) BY DEF CommitStatus
<1>7. ASSUME t \in Solo PROVE Replays(trail[t] \o <<e>>, r.to)
  <2>1. Holds(p, t) BY DEF CommitStatus, Holds
  <2>2. Replays(trail[t], r.copy.status) BY <1>7, <2>1, HolderCurrent DEF Current
  <2>3. e \in Events BY <1>1, <1>2 DEF Event, Events, Kinds, StatusKind, Terminal, States
  <2>4. Tells(e, r.copy.status) /\ Replayed(r.copy.status, e) = r.to
    BY <1>1 DEF Tells, Replayed, Event, StatusKind, Terminal
  <2> HIDE DEF e
  <2> QED BY <1>3, <2>2, <2>3, <2>4, OneMore
<1>8. PICK l \in {"idle", "clear"} : pc' = [pc EXCEPT ![p] = l]
  BY DEF CommitStatus, Done, Return, Goto
<1>9. PICK q : req' = [req EXCEPT ![p] = q]
  BY DEF CommitStatus, Done, Return, Typed, TypeOK
<1>10. pc[p] = "writing" BY DEF CommitStatus
<1> HIDE DEF row, e
<1> QED BY <1>2, <1>4, <1>5, <1>6, <1>7, <1>8, <1>9, <1>10, CommitTurn DEF Calling

LEMMA ReturnTurn ==
  ASSUME Typed, TrailInv, NEW p \in Processes, Return(p), UNCHANGED <<ticket, trail>>
  PROVE  TrailInv'
<1>1. pc' = [pc EXCEPT ![p] = "idle"] /\ req' = [req EXCEPT ![p] = NoRequest]
  BY DEF Return, Goto
<1> QED BY <1>1, LeaveTurn DEF Calling

LEMMA JudgeTurn == ASSUME Typed, TrailInv, NEW p \in Processes, Judge(p) PROVE TrailInv'
<1> DEFINE r == req[p]
           status == Judged(r.verdict, ticket[r.t].status)
<1>1. r.t \in Tickets BY DEF Typed, HasRequest, WellFormed, Judge, Answers, Calling
<1>2. CASE status = ticket[r.t].status
  <2>1. /\ pc' = [pc EXCEPT ![p] = "clear"] /\ req' = [req EXCEPT ![p] = r]
        /\ UNCHANGED <<ticket, trail>>
    BY <1>2 DEF Judge, Goto, Typed, TypeOK
  <2> QED BY <2>1, LeaveTurn DEF Calling
<1>3. CASE status # ticket[r.t].status
  <2>1. LoadRow(p, "status", r.t, status, r.conv) BY <1>3 DEF Judge
  <2> HIDE DEF status
  <2> QED BY <1>1, <2>1, LoadTurn
<1> QED BY <1>2, <1>3

LEMMA QuestionTurn == ASSUME Typed, TrailInv, Questions PROVE TrailInv'
<1>1. CASE \E t \in Tickets : SchedulePing(t) BY <1>1, TurnsAlone DEF SchedulePing
<1>2. ASSUME NEW t \in Tickets, NEW w \in Workers, SendPing(w, t) PROVE TrailInv'
  <2>1. CASE ticket[t].status = "resolved" /\ Conversation[t] # NoOne
    <3>1. /\ pc' = [pc EXCEPT ![w] = "stamp"]
          /\ req' = [req EXCEPT ![w] = [t |-> t, conv |-> Conversation[t]]]
          /\ UNCHANGED <<ticket, trail>>
      BY <1>2, <2>1 DEF SendPing, Goto
    <3> QED BY <3>1, LeaveTurn DEF Calling, Processes
  <2>2. CASE ~(ticket[t].status = "resolved" /\ Conversation[t] # NoOne)
    BY <1>2, <2>2, TurnsAlone DEF SendPing
  <2> QED BY <2>1, <2>2
<1>3. CASE \E c \in Conversations, t \in Tickets \cup {NoOne} : AgentState(c, t)
  BY <1>3, TurnsAlone DEF AgentState
<1>4. ASSUME NEW p \in Processes, NEW c \in Conversations, NEW v, ReadPointer(p, c, v)
      PROVE  TrailInv'
  <2>1. /\ pc' = [pc EXCEPT ![p] = "asked"]
        /\ req' = [req EXCEPT ![p] = [t |-> awaiting[c], conv |-> c, verdict |-> v]]
        /\ UNCHANGED <<ticket, trail>>
    BY <1>4 DEF ReadPointer, Goto
  <2> QED BY <2>1, LeaveTurn DEF Calling
<1> QED BY <1>1, <1>2, <1>3, <1>4 DEF Questions, Processes

LEMMA CallsTurn == ASSUME Typed, TrailInv, NEW w \in Processes, Calls(w) PROVE TrailInv'
BY LoadTurn DEF Calls, LoadCreate, LoadAssign, LoadStatus

LEMMA TrailStep == ASSUME Typed, TrailInv, [Next]_vars PROVE TrailInv'
<1>1. CASE \E p \in Processes : Continue(p)
  <2> SUFFICES ASSUME NEW p \in Processes, Continue(p) PROVE TrailInv' BY <1>1
  <2>1. CASE StampAwaiting(p) BY <2>1, ReturnTurn DEF StampAwaiting
  <2>2. CASE ClearAwaiting(p) BY <2>2, ReturnTurn DEF ClearAwaiting
  <2> QED BY <2>1, <2>2, BeginTurn, CreateTurn, AssignTurn, StatusTurn, JudgeTurn DEF Continue
<1>2. CASE \E w \in Workers : Calls(w) BY <1>2, CallsTurn DEF Processes
<1>3. CASE Questions BY <1>3, QuestionTurn
<1>4. CASE UNCHANGED vars BY <1>4, TurnsAlone DEF vars
<1> QED BY <1>1, <1>2, <1>3, <1>4 DEF Next

LEMMA TrailInit == Init => TrailInv
<1> SUFFICES ASSUME Init, NEW t \in Solo PROVE Replays(<<>>, "none") /\ Turns(t)
  BY SoloAssumption DEF Init, TrailInv, NoRow
<1>1. Turns(t) BY DEF Init, Turns, Holds
<1> DEFINE h == [i \in 0..0 |-> "none"]
<1>2. h \in [0..0 -> States] BY DEF States
<1>3. Len(<<>>) = 0 OBVIOUS
<1>4. Runs(h, <<>>) /\ h[Len(<<>>)] = "none" BY <1>2, <1>3 DEF Runs
<1> HIDE DEF h
<1> QED BY <1>1, <1>4 DEF Replays

\* The trail of a ticket whose callers take turns, however many, is exact: each
\* event names the status the events before it led to, a reopening is logged as
\* one, and together they lead to the status of the row.
THEOREM AuditTrailReplays == Spec => []TrailReplays
<1>1. Init => Typed /\ TrailInv BY TypedInit, TrailInit
<1>2. Typed /\ TrailInv /\ [Next]_vars => Typed' /\ TrailInv' BY TypedStep, TrailStep
<1>3. Typed /\ TrailInv => TrailReplays
  <2> SUFFICES ASSUME Typed, TrailInv, NEW t \in Solo
               PROVE  /\ Past(trail[t])[Len(trail[t])] = ticket[t].status
                      /\ \A i \in DOMAIN trail[t] : Tells(trail[t][i], Past(trail[t])[i - 1])
    BY DEF TrailReplays
  <2>1. trail[t] \in Seq(Events) BY SoloAssumption DEF Typed, TypeOK
  <2>2. PICK h : Runs(h, trail[t]) /\ h[Len(trail[t])] = ticket[t].status
    BY DEF TrailInv, Replays
  <2>3. Past(trail[t]) = h BY <2>1, <2>2, PastRuns
  <2>4. DOMAIN trail[t] = 1..Len(trail[t]) BY <2>1
  <2> QED BY <2>2, <2>3, <2>4 DEF Runs
<1> QED BY <1>1, <1>2, <1>3, PTL DEF Spec

-----------------------------------------------------------------------------
(* The staff and their logins                                              *)

Users == [name : Emails, active : BOOLEAN, password : BOOLEAN]
DeskRows == {T!Free} \cup
  [op : {"update", "delete", "drop"}, of : Members, copy : T!Records, body : T!Bodies]
Busy(d) == desk[d] # T!Free

TeamTyped ==
  /\ staff \in [Members -> T!Records]
  /\ users \in Seq(Users)
  /\ desk \in [Desks -> DeskRows]
  /\ word \in [Members -> T!Words]
  /\ \A s \in Members : /\ staff[s].user <= Len(users)
                        /\ ~staff[s].exists => staff[s].user = 0
  /\ \A d \in Desks : Busy(d) => desk[d].copy.exists /\ desk[d].copy.user <= Len(users)

\* Nobody gets in with user u: 0 is no user.
ShutIn(us, u) == u # 0 => ~(us[u].active /\ us[u].password)
Shut(u) == ShutIn(users, u)

\* No two records have one user.
UsersApart ==
  \A s, t \in Members :
    s # t /\ staff[s].exists /\ staff[t].exists /\ staff[s].user # 0 => staff[s].user # staff[t].user
\* The copies of a record name one user, that of the record while it exists.
CopiesAgree ==
  /\ \A d \in Desks : Busy(d) /\ staff[desk[d].of].exists => desk[d].copy.user = staff[desk[d].of].user
  /\ \A d, e \in Desks : Busy(d) /\ Busy(e) /\ desk[d].of = desk[e].of => desk[d].copy.user = desk[e].copy.user
LettingAlone == \A d, e \in Desks : LetsIn(desk[d]) /\ Busy(e) => d = e
\* The user of who is out is shut, and so is the user of every copy that could
\* be saved over the record, and of a record about to be deleted.
OutIsShut ==
  /\ \A s \in Members : word[s] = "out" => Shut(staff[s].user)
  /\ \A d \in Desks : Busy(d) /\ (word[desk[d].of] = "out" \/ desk[d].op = "drop") => Shut(desk[d].copy.user)
\* In scene team a request is alone, and its copy is the record.
OneByOne ==
  scene = "team" =>
    /\ \A d, e \in Desks : Busy(d) /\ Busy(e) => d = e
    /\ \A d \in Desks : Busy(d) => staff[desk[d].of].exists /\ desk[d].copy = staff[desk[d].of]
    /\ \A s \in Members : word[s] = "in" =>
         /\ staff[s].exists /\ staff[s].can /\ staff[s].user # 0
         /\ users[staff[s].user].active /\ users[staff[s].user].password
TeamInv == TeamTyped /\ UsersApart /\ CopiesAgree /\ LettingAlone /\ OutIsShut /\ OneByOne

\* A body that may let somebody in; one that is about the login.
Letting(body) == body.can = "yes" \/ body.password

\* What a save makes of the record and of the users: only the user of the
\* record changes, and only a letting body makes or opens one.
LEMMA WrittenFacts ==
  ASSUME users \in Seq(Users), NEW r \in T!Records, r.user <= Len(users),
         NEW body \in T!Bodies, body.can = "no" => ~r.can,
         NEW w, w = T!Written(r, body)
  PROVE  /\ w.record \in T!Records
         /\ w.record.exists = r.exists /\ w.record.can = r.can
         /\ w.users \in Seq(Users) /\ Len(users) <= Len(w.users) /\ w.record.user <= Len(w.users)
         /\ r.user # 0 => w.record.user = r.user
         /\ \A v \in 1..Len(users) : v # w.record.user => w.users[v] = users[v]
         /\ ~Letting(body) =>
              /\ w.record.user = r.user
              /\ \A v \in 1..Len(users) : /\ w.users[v].active => users[v].active
                                          /\ w.users[v].password = users[v].password
         /\ ~T!Syncs(body) => w.users = users
         /\ T!Syncs(body) /\ ~r.can /\ w.record.user # 0 => ~w.users[w.record.user].active
         /\ r.can /\ r.user # 0 /\ users[r.user].active /\ users[r.user].password
              => w.users[r.user].active /\ w.users[r.user].password
<1>1. /\ r.user \in Nat /\ r.email \in Emails \cup {Blank} /\ r.can \in BOOLEAN
      /\ body.password \in BOOLEAN /\ body.can \in {"keep", "yes", "no"}
  BY DEF T!Records, T!Bodies
<1>2. CASE w.record = r /\ w.users = users /\ (T!Syncs(body) => r.can)
  BY <1>1, <1>2 DEF Users
<1>3. CASE T!Syncs(body) /\ ~r.can
  <2>1. w = T!KeptOut(r) BY <1>3 DEF T!Written, T!Synced
  <2>2. CASE r.user = 0 BY <1>1, <1>3, <2>1, <2>2 DEF T!KeptOut, Letting
  <2>3. CASE r.user # 0
    <3> DEFINE off == [users[r.user] EXCEPT !.active = FALSE]
    <3>1. w.record = r /\ w.users = [users EXCEPT ![r.user] = off]
      BY <2>1, <2>3 DEF T!KeptOut
    <3>2. r.user \in 1..Len(users) /\ users[r.user] \in Users BY <1>1, <2>3
    <3>3. off \in Users /\ ~off.active /\ off.password = users[r.user].password BY <3>2 DEF Users
    <3> HIDE DEF off
    <3>4. /\ w.users \in Seq(Users) /\ Len(w.users) = Len(users)
          /\ \A v \in 1..Len(users) : w.users[v] = IF v = r.user THEN off ELSE users[v]
      BY <3>1, <3>2, <3>3
    <3>5. \A v \in 1..Len(users) : users[v] \in Users OBVIOUS
    <3>6. \A v \in 1..Len(users) : /\ w.users[v].active => users[v].active
                                   /\ w.users[v].password = users[v].password
      BY <3>3, <3>4, <3>5
    <3>7. ~w.users[r.user].active BY <3>2, <3>3, <3>4
    <3> QED BY <1>1, <1>3, <3>1, <3>2, <3>4, <3>6, <3>7 DEF Letting
  <2> QED BY <2>2, <2>3
<1>4. CASE T!Syncs(body) /\ r.can /\ r.email # Blank
  <2> DEFINE u == T!Person(r)
             had == u \in DOMAIN users /\ users[u].password
             now == [name |-> r.email, active |-> TRUE, password |-> had \/ body.password]
  <2>1. w = T!LetIn(r, body.password) BY <1>4 DEF T!Written, T!Synced
  <2>2. w.record = [r EXCEPT !.user = u]
        /\ w.users = IF u \in DOMAIN users THEN [users EXCEPT ![u] = now] ELSE Append(users, now)
    BY <2>1 DEF T!LetIn
  <2>3. DOMAIN users = 1..Len(users) /\ Len(users) \in Nat OBVIOUS
  <2>4. u \in 1..(Len(users) + 1) /\ (r.user # 0 => u = r.user)
    <3>1. CASE r.user # 0 BY <1>1, <2>3, <3>1 DEF T!Person
    <3>2. CASE r.user = 0 /\ T!Named(users, r.email) # {}
      <4>1. u = CHOOSE v \in T!Named(users, r.email) : TRUE BY <3>2 DEF T!Person
      <4>2. u \in T!Named(users, r.email) BY <3>2, <4>1
      <4> QED BY <2>3, <3>2, <4>2 DEF T!Named
    <3>3. CASE r.user = 0 /\ T!Named(users, r.email) = {}
      BY <2>3, <3>3 DEF T!Person
    <3> QED BY <3>1, <3>2, <3>3
  <2>5. had \in BOOLEAN OBVIOUS
  <2>6. now \in Users /\ now.active /\ now.password = (had \/ body.password)
    <3> HIDE DEF had
    <3> QED BY <1>1, <1>4, <2>5 DEF Users
  <2>7. Letting(body) BY <1>1, <1>4 DEF T!Syncs, Letting
  <2>8. w.record \in T!Records /\ w.record.user = u
        /\ w.record.exists = r.exists /\ w.record.can = r.can
    <3> HIDE DEF u
    <3> QED BY <2>2, <2>4 DEF T!Records
  <2>9. CASE u \in DOMAIN users
    <3>1. w.users = [users EXCEPT ![u] = now] BY <2>2, <2>9
    <3>2. r.user # 0 /\ users[r.user].password => now.password BY <2>4, <2>6, <2>9
    <3> HIDE DEF now, u
    <3>3. /\ w.users \in Seq(Users) /\ Len(w.users) = Len(users)
          /\ \A v \in 1..Len(users) : w.users[v] = IF v = u THEN now ELSE users[v]
      BY <2>3, <2>6, <2>9, <3>1
    <3> QED BY <1>4, <2>3, <2>4, <2>6, <2>7, <2>8, <2>9, <3>2, <3>3
  <2>10. CASE u \notin DOMAIN users
    <3>1. w.users = Append(users, now) BY <2>2, <2>10
    <3>2. r.user = 0 BY <1>1, <2>3, <2>4, <2>10
    <3> HIDE DEF now, u
    <3>3. /\ w.users \in Seq(Users) /\ Len(w.users) = Len(users) + 1
          /\ \A v \in 1..Len(users) : w.users[v] = users[v]
      BY <2>3, <2>6, <3>1
    <3> QED BY <1>4, <2>3, <2>4, <2>7, <2>8, <3>2, <3>3
  <2> QED BY <2>9, <2>10
<1>5. ~T!Syncs(body) \/ (T!Syncs(body) /\ r.can /\ r.email = Blank)
      => w.record = r /\ w.users = users
  BY DEF T!Written, T!Synced
<1> QED BY <1>1, <1>2, <1>3, <1>4, <1>5

LEMMA TeamTypes ==
  ASSUME TeamTyped
  PROVE  /\ users \in Seq(Users) /\ Len(users) \in Nat
         /\ \A t \in Members : /\ staff[t] \in T!Records /\ staff[t].user \in Nat
                               /\ staff[t].user <= Len(users)
                               /\ ~staff[t].exists => staff[t].user = 0
         /\ \A e \in Desks : Busy(e) =>
              /\ desk[e].of \in Members /\ desk[e].copy \in T!Records /\ desk[e].body \in T!Bodies
              /\ desk[e].copy.exists /\ desk[e].copy.user \in Nat /\ desk[e].copy.user <= Len(users)
<1>1. \A r \in T!Records : r.user \in Nat BY DEF T!Records
<1>2. \A t \in Members : staff[t] \in T!Records BY DEF TeamTyped
<1>3. \A e \in Desks : Busy(e) => desk[e].of \in Members /\ desk[e].copy \in T!Records /\ desk[e].body \in T!Bodies
  BY DEF TeamTyped, DeskRows, Busy
<1> QED BY <1>1, <1>2, <1>3 DEF TeamTyped

LEMMA WrittenRecord ==
  ASSUME users \in Seq(Users), NEW r \in T!Records, r.user <= Len(users),
         NEW body \in T!Bodies, body.can = "no" => ~r.can,
         NEW w, w = T!Written(r, body)
  PROVE  /\ w.record \in T!Records /\ w.record.user \in Nat /\ r.user \in Nat
         /\ w.record.exists = r.exists /\ w.record.can = r.can
         /\ w.users \in Seq(Users) /\ Len(users) <= Len(w.users) /\ w.record.user <= Len(w.users)
         /\ r.user # 0 => w.record.user = r.user
<1>1. w.record \in T!Records BY WrittenFacts
<1>2. w.record.user \in Nat /\ r.user \in Nat BY <1>1 DEF T!Records
<1> QED BY <1>1, <1>2, WrittenFacts

\* A record saved with its users: what the others hold is a copy of the same
\* user, and they hold one only when nobody may be let in.
LEMMA SaveKeeps ==
  ASSUME TeamInv, NEW s \in Members, NEW r \in T!Records, r.exists, r.user <= Len(users),
         NEW body \in T!Bodies, body.can = "no" => ~r.can,
         NEW w, w = T!Written(r, body), ~T!Clash(s, w),
         staff' = [staff EXCEPT ![s] = w.record], users' = w.users,
         word' = [word EXCEPT ![s] = T!Decided(s, w, body)],
         desk' \in [Desks -> DeskRows], scene' = scene,
         \A e \in Desks : Busy(e)' => /\ Busy(e) /\ desk'[e] = desk[e] /\ ~Letting(body)
                                      /\ desk[e].of = s => desk[e].copy.user = r.user,
         word[s] = "out" => Shut(r.user),
         scene = "team" =>
           /\ \A e \in Desks : ~Busy(e)'
           /\ word[s] = "in" => /\ r.user # 0 /\ users[r.user].active /\ users[r.user].password
                                /\ T!Syncs(body) \/ r.can
  PROVE  TeamInv'
<1> DEFINE u == w.record.user
<1>0. TeamTyped /\ UsersApart /\ CopiesAgree /\ LettingAlone /\ OutIsShut /\ OneByOne BY DEF TeamInv
<1>1. users \in Seq(Users) /\ Len(users) \in Nat BY <1>0, TeamTypes
<1>2. /\ w.record \in T!Records
      /\ w.record.exists = r.exists /\ w.record.can = r.can
      /\ w.users \in Seq(Users) /\ Len(users) <= Len(w.users) /\ u <= Len(w.users)
      /\ u \in Nat /\ r.user \in Nat /\ (r.user # 0 => u = r.user)
  <2>1. w.record \in T!Records /\ w.users \in Seq(Users) BY <1>1, WrittenRecord
  <2>2. w.record.exists = r.exists /\ w.record.can = r.can BY <1>1, WrittenRecord, ZenonT(40)
  <2>3. Len(users) <= Len(w.users) /\ u <= Len(w.users) BY <1>1, WrittenRecord
  <2>4. u \in Nat /\ r.user \in Nat /\ (r.user # 0 => u = r.user) BY <1>1, WrittenRecord
  <2> QED BY <2>1, <2>2, <2>3, <2>4
<1>3. \A v \in 1..Len(users) : v # u => users'[v] = users[v] BY <1>1, WrittenFacts
<1>4. ~Letting(body) =>
        /\ u = r.user
        /\ \A v \in 1..Len(users) : /\ users'[v].active => users[v].active
                                    /\ users'[v].password = users[v].password
  BY <1>1, WrittenFacts
<1>5. /\ ~T!Syncs(body) => users' = users
      /\ T!Syncs(body) /\ ~r.can /\ u # 0 => ~users'[u].active
      /\ r.can /\ r.user # 0 /\ users[r.user].active /\ users[r.user].password
            => users'[r.user].active /\ users'[r.user].password
  BY <1>1, WrittenFacts
<1>6. /\ staff' \in [Members -> T!Records] /\ staff'[s] = w.record
      /\ \A t \in Members : t # s => staff'[t] = staff[t]
  BY <1>0, <1>2 DEF TeamTyped
<1>7. \A t \in Members : staff[t].user \in Nat /\ staff[t].user <= Len(users)
  BY <1>0, TeamTypes
<1>8. \A t \in Members \ {s} : staff[t].exists /\ u # 0 => staff[t].user # u BY DEF T!Clash
<1>9. \A e \in Desks : Busy(e) => desk[e].of \in Members /\ desk[e].copy.exists
                                  /\ desk[e].copy.user \in Nat /\ desk[e].copy.user <= Len(users)
  BY <1>0, TeamTypes
<1>10. /\ word \in [Members -> T!Words] /\ word'[s] = T!Decided(s, w, body)
       /\ \A t \in Members : t # s => word'[t] = word[t]
  BY <1>0 DEF TeamTyped
<1>11. word'[s] = "out" => Shut(u)'
  <2>1. CASE ~T!Syncs(body)
    <3>1. word'[s] = word[s] BY <1>10, <2>1 DEF T!Decided, T!Syncs
    <3>2. body.password \in BOOLEAN /\ body.can \in {"keep", "yes", "no"} BY DEF T!Bodies
    <3>3. ~Letting(body) BY <2>1, <3>2 DEF T!Syncs, Letting
    <3> QED BY <1>4, <1>5, <2>1, <3>1, <3>3 DEF Shut, ShutIn
  <2>2. CASE T!Syncs(body) /\ ~r.can BY <1>5, <2>2 DEF Shut, ShutIn
  <2>3. CASE T!Syncs(body) /\ r.can
    BY <1>2, <1>10, <2>3 DEF T!Decided, T!Syncs, Shut, ShutIn
  <2> QED BY <2>1, <2>2, <2>3
<1>12. \A t \in Members : ~staff[t].exists => staff[t].user = 0 BY <1>0, TeamTypes
<1>13. TeamTyped'
  <2>1. word' \in [Members -> T!Words]
    <3>1. T!Decided(s, w, body) \in T!Words BY <1>0 DEF T!Decided, T!Words, TeamTyped
    <3> QED BY <1>0, <3>1 DEF TeamTyped
  <2>2. \A t \in Members : staff'[t].user <= Len(users') /\ (~staff'[t].exists => staff'[t].user = 0)
    <3>1. SUFFICES ASSUME NEW t \in Members
                   PROVE  staff'[t].user <= Len(users') /\ (~staff'[t].exists => staff'[t].user = 0)
      OBVIOUS
    <3>2. CASE t = s BY <1>2, <1>6, <3>2
    <3>3. CASE t # s
      <4>1. staff[t].user <= Len(users) /\ staff[t].user \in Nat BY <1>7
      <4>2. Len(users) <= Len(users') /\ Len(users') \in Nat BY <1>2
      <4>3. ~staff[t].exists => staff[t].user = 0 BY <1>12
      <4> QED BY <1>1, <1>6, <3>3, <4>1, <4>2, <4>3
    <3> QED BY <3>2, <3>3
  <2>3. \A e \in Desks : Busy(e)' => desk'[e].copy.exists /\ desk'[e].copy.user <= Len(users')
    <3>1. SUFFICES ASSUME NEW e \in Desks, Busy(e)'
                   PROVE  desk'[e].copy.exists /\ desk'[e].copy.user <= Len(users')
      OBVIOUS
    <3>2. Busy(e) /\ desk'[e] = desk[e] BY <3>1
    <3>3. desk[e].copy.exists /\ desk[e].copy.user \in Nat /\ desk[e].copy.user <= Len(users) BY <1>9, <3>2
    <3>4. Len(users) <= Len(users') /\ Len(users') \in Nat BY <1>2
    <3> QED BY <1>1, <3>2, <3>3, <3>4
  <2> QED BY <1>2, <1>6, <2>1, <2>2, <2>3 DEF TeamTyped
<1>14. UsersApart'
  BY <1>0, <1>6, <1>8 DEF UsersApart
<1>15. CopiesAgree'
  BY <1>0, <1>4, <1>6 DEF CopiesAgree
<1>16. LettingAlone'
  <2>1. \A d \in Desks : LetsIn(desk'[d]) => Busy(d)' BY DEF LetsIn, Busy
  <2>2. \A d \in Desks : LetsIn(desk'[d]) => LetsIn(desk[d]) BY <2>1
  <2> QED BY <1>0, <2>2 DEF LettingAlone
<1>17. OutIsShut'
  <2>1. ASSUME NEW t \in Members, word'[t] = "out" PROVE Shut(staff[t].user)'
    <3>1. CASE t = s BY <1>6, <1>11, <2>1, <3>1 DEF Shut, ShutIn
    <3>2. CASE t # s
      <4>1. word[t] = "out" /\ staff'[t] = staff[t] BY <1>6, <1>10, <2>1, <3>2
      <4>2. Shut(staff[t].user) BY <1>0, <4>1 DEF OutIsShut
      <4>3. CASE staff[t].user = 0 BY <4>1, <4>3 DEF Shut, ShutIn
      <4>4. CASE staff[t].user # 0
        <5>1. staff[t].exists BY <1>12, <4>4
        <5>2. staff[t].user # u BY <1>8, <3>2, <4>4, <5>1
        <5>3. users'[staff[t].user] = users[staff[t].user] BY <1>3, <1>7, <4>4, <5>2
        <5> QED BY <4>1, <4>2, <5>3 DEF Shut, ShutIn
      <4> QED BY <4>3, <4>4
    <3> QED BY <3>1, <3>2
  <2>2. ASSUME NEW e \in Desks, Busy(e)', word'[desk'[e].of] = "out" \/ desk'[e].op = "drop"
        PROVE  Shut(desk[e].copy.user)'
    <3>1. Busy(e) /\ desk'[e] = desk[e] /\ ~Letting(body) BY <2>2
    <3>2. desk[e].of \in Members /\ desk[e].copy.user \in Nat /\ desk[e].copy.user <= Len(users)
      BY <1>9, <3>1
    <3>3. CASE word[desk[e].of] = "out" \/ desk[e].op = "drop"
      <4>1. Shut(desk[e].copy.user) BY <1>0, <3>1, <3>3 DEF OutIsShut
      <4> DEFINE v == desk[e].copy.user
      <4> HIDE DEF v
      <4>2. v \in Nat /\ v <= Len(users) /\ Shut(v) BY <3>2, <4>1 DEF v
      <4>3. users'[v] = users'[v] /\ (v # 0 => ~(users'[v].active /\ users'[v].password))
        BY <1>1, <1>4, <3>1, <4>2 DEF Shut, ShutIn
      <4>4. desk'[e].copy.user = v BY <3>1 DEF v
      <4> QED BY <4>3, <4>4 DEF Shut, ShutIn
    <3>4. CASE ~(word[desk[e].of] = "out" \/ desk[e].op = "drop")
      <4>1. desk[e].of = s /\ word'[s] = "out" BY <1>10, <2>2, <3>1, <3>2, <3>4
      <4>2. desk[e].copy.user = u BY <1>4, <2>2, <3>1, <4>1
      <4> QED BY <1>11, <3>1, <4>1, <4>2 DEF Shut, ShutIn
    <3> QED BY <3>3, <3>4
  <2> QED BY <2>1, <2>2 DEF OutIsShut, Shut, ShutIn
<1>18. OneByOne'
  <2> SUFFICES ASSUME scene = "team", NEW t \in Members, word'[t] = "in"
               PROVE  /\ staff'[t].exists /\ staff'[t].can /\ staff'[t].user # 0
                      /\ users'[staff'[t].user].active /\ users'[staff'[t].user].password
    BY DEF OneByOne
  <2>1. CASE t = s
    <3>1. CASE ~T!Syncs(body)
      <4>1. word[s] = "in" BY <1>10, <2>1, <3>1 DEF T!Decided, T!Syncs
      <4> QED BY <1>2, <1>5, <1>6, <2>1, <3>1, <4>1
    <3>2. CASE T!Syncs(body)
      <4>1. r.can BY <1>2, <1>10, <2>1, <3>2 DEF T!Decided, T!Syncs
      <4>2. CASE word[s] = "in" BY <1>2, <1>5, <1>6, <2>1, <4>1, <4>2
      <4>3. CASE word[s] # "in"
        <5>1. u # 0 /\ w.users[u].active /\ w.users[u].password
          BY <1>2, <1>10, <2>1, <3>2, <4>1, <4>3 DEF T!Decided, T!Syncs
        <5> QED BY <1>2, <1>6, <2>1, <4>1, <5>1
      <4> QED BY <4>2, <4>3
    <3> QED BY <3>1, <3>2
  <2>2. CASE t # s
    <3>1. /\ staff[t].exists /\ staff[t].can /\ staff[t].user # 0
          /\ users[staff[t].user].active /\ users[staff[t].user].password
      BY <1>0, <1>10, <2>2 DEF OneByOne
    <3>2. staff[t].user # u BY <1>8, <2>2, <3>1
    <3>3. users'[staff[t].user] = users[staff[t].user] BY <1>3, <1>7, <3>1, <3>2
    <3> QED BY <1>6, <2>2, <3>1, <3>3
  <2> QED BY <2>1, <2>2
<1> QED BY <1>13, <1>14, <1>15, <1>16, <1>17, <1>18 DEF TeamInv

\* A request that ends, or dies, and writes nothing.
LEMMA DeskFreed ==
  ASSUME TeamInv, NEW d \in Desks, desk' = [desk EXCEPT ![d] = T!Free],
         UNCHANGED <<staff, users, word, scene>>
  PROVE  TeamInv'
<1>0. TeamTyped /\ UsersApart /\ CopiesAgree /\ LettingAlone /\ OutIsShut /\ OneByOne BY DEF TeamInv
<1>1. /\ desk' \in [Desks -> DeskRows]
      /\ \A e \in Desks : desk'[e] = IF e = d THEN T!Free ELSE desk[e]
  BY <1>0 DEF TeamTyped, DeskRows
<1>2. \A e \in Desks : Busy(e)' => Busy(e) /\ desk'[e] = desk[e] BY <1>1 DEF Busy
<1>3. TeamTyped' BY <1>0, <1>1, <1>2 DEF TeamTyped
<1>4. CopiesAgree' BY <1>0, <1>2 DEF CopiesAgree
<1>5. LettingAlone'
  <2>1. ~LetsIn(T!Free) BY DEF LetsIn
  <2> QED BY <1>0, <1>1, <1>2, <2>1 DEF LettingAlone
<1>6. OutIsShut' BY <1>0, <1>2 DEF OutIsShut, Shut, ShutIn
<1>7. UsersApart' BY <1>0 DEF UsersApart
<1>8. OneByOne' BY <1>0, <1>2 DEF OneByOne
<1> QED BY <1>3, <1>4, <1>5, <1>6, <1>7, <1>8 DEF TeamInv

LEMMA AppliedFacts ==
  ASSUME NEW r \in T!Records, NEW body \in T!Bodies
  PROVE  /\ T!Applied(r, body) \in T!Records
         /\ T!Applied(r, body).exists = r.exists /\ T!Applied(r, body).user = r.user
         /\ body.can = "no" => ~T!Applied(r, body).can
         /\ ~T!Syncs(body) => T!Applied(r, body).can = r.can
BY DEF T!Applied, T!Records, T!Bodies, T!Syncs

LEMMA LettingBusy ==
  ASSUME TeamInv, NEW d \in Desks, Busy(d), NEW e \in Desks, Busy(e), e # d
  PROVE  ~Letting(desk[d].body)
BY DEF TeamInv, LettingAlone, LetsIn, Letting, Busy

LEMMA UpdateKeeps ==
  ASSUME TeamInv, NEW d \in Desks, T!StaffUpdate(d), UNCHANGED scene
  PROVE  TeamInv'
<1> DEFINE s == desk[d].of
           body == desk[d].body
           r == T!Applied(desk[d].copy, body)
           w == T!Written(r, body)
<1>0. TeamTyped /\ UsersApart /\ CopiesAgree /\ LettingAlone /\ OutIsShut /\ OneByOne BY DEF TeamInv
<1>1. Busy(d) BY DEF T!StaffUpdate, T!Free, Busy
<1>2. /\ s \in Members /\ desk[d].copy \in T!Records /\ body \in T!Bodies
      /\ desk[d].copy.exists /\ desk[d].copy.user <= Len(users)
  BY <1>0, <1>1, TeamTypes
<1>3. desk' = [desk EXCEPT ![d] = T!Free] /\ T!Store(s, w, body)
  BY DEF T!StaffUpdate, T!Close
<1>4. CASE T!Clash(s, w) BY <1>3, <1>4, DeskFreed DEF T!Store
<1>5. CASE ~T!Clash(s, w)
  <2>1. /\ r \in T!Records /\ r.exists /\ r.user = desk[d].copy.user
        /\ body.can = "no" => ~r.can
        /\ ~T!Syncs(body) => r.can = desk[d].copy.can
    BY <1>2, AppliedFacts
  <2>2. /\ staff' = [staff EXCEPT ![s] = w.record] /\ users' = w.users
        /\ word' = [word EXCEPT ![s] = T!Decided(s, w, body)]
    BY <1>3, <1>5 DEF T!Store
  <2>3. /\ desk' \in [Desks -> DeskRows]
        /\ \A e \in Desks : Busy(e)' => e # d /\ Busy(e) /\ desk'[e] = desk[e]
    BY <1>0, <1>3 DEF TeamTyped, DeskRows, Busy
  <2>4. \A e \in Desks : Busy(e)' => /\ Busy(e) /\ desk'[e] = desk[e] /\ ~Letting(body)
                                     /\ desk[e].of = s => desk[e].copy.user = r.user
    BY <1>0, <1>1, <2>1, <2>3, LettingBusy DEF CopiesAgree
  <2>5. word[s] = "out" => Shut(r.user) BY <1>0, <1>1, <2>1 DEF OutIsShut
  <2>6. scene = "team" =>
          /\ \A e \in Desks : ~Busy(e)'
          /\ word[s] = "in" => /\ r.user # 0 /\ users[r.user].active /\ users[r.user].password
                               /\ T!Syncs(body) \/ r.can
    BY <1>0, <1>1, <1>2, <2>1, <2>3 DEF OneByOne
  <2>7. r.user <= Len(users) BY <1>2, <2>1
  <2> HIDE DEF s, body, r
  <2>8. w = T!Written(r, body) OBVIOUS
  <2> HIDE DEF w
  <2> QED BY <1>2, <1>5, <2>1, <2>2, <2>3, <2>4, <2>5, <2>6, <2>7, <2>8, SaveKeeps
<1> QED BY <1>4, <1>5

LEMMA CreateKeeps ==
  ASSUME TeamInv, NEW d \in Desks, NEW s \in Members, NEW e \in Emails \cup {Blank},
         NEW can \in BOOLEAN, T!StaffCreate(d, s, e, can), ~T!Serving, UNCHANGED scene
  PROVE  TeamInv'
<1> DEFINE body == [email |-> e, active |-> "keep", can |-> IF can THEN "yes" ELSE "no",
                    password |-> can]
           row == [T!NoRecord EXCEPT !.exists = TRUE, !.active = TRUE]
           r == T!Applied(row, body)
           w == T!Written(r, body)
<1>0. TeamTyped /\ UsersApart /\ CopiesAgree /\ LettingAlone /\ OutIsShut /\ OneByOne BY DEF TeamInv
<1>1. row \in T!Records /\ row.exists /\ row.user = 0 BY DEF T!NoRecord, T!Records
<1>2. body \in T!Bodies BY DEF T!Bodies
<1>3. /\ desk' = desk /\ ~staff[s].exists /\ word[s] = "none"
      /\ T!Store(s, w, body)
  BY DEF T!StaffCreate
<1>4. \A c \in Desks : ~Busy(c)' BY <1>3 DEF T!Serving, Busy
<1>5. CASE T!Clash(s, w)
  <2>1. UNCHANGED <<staff, users, word, desk, scene>> BY <1>3, <1>5 DEF T!Store
  <2> QED BY <2>1 DEF TeamInv, TeamTyped, UsersApart, CopiesAgree, LettingAlone, OutIsShut,
                      OneByOne, Busy, Shut, ShutIn
<1>6. CASE ~T!Clash(s, w)
  <2>1. r \in T!Records /\ r.exists /\ r.user = 0 /\ (body.can = "no" => ~r.can)
    BY <1>1, <1>2, AppliedFacts
  <2>2. /\ staff' = [staff EXCEPT ![s] = w.record] /\ users' = w.users
        /\ word' = [word EXCEPT ![s] = T!Decided(s, w, body)]
    BY <1>3, <1>6 DEF T!Store
  <2>3. desk' \in [Desks -> DeskRows] BY <1>0, <1>3 DEF TeamTyped
  <2>4. r.user <= Len(users) BY <1>0, <2>1, TeamTypes
  <2> HIDE DEF body, r
  <2>5. w = T!Written(r, body) OBVIOUS
  <2> HIDE DEF w
  <2> QED BY <1>2, <1>3, <1>4, <1>6, <2>1, <2>2, <2>3, <2>4, <2>5, SaveKeeps DEF Shut, ShutIn
<1> QED BY <1>5, <1>6

\* A record is loaded when its desk is free, and in scene team when all are.
LEMMA LoadKeeps ==
  ASSUME TeamInv, NEW d \in Desks, NEW s \in Members, NEW op \in {"update", "delete"},
         NEW body \in T!Bodies, T!Load(d, s, op, body), LettingAlone', UNCHANGED scene,
         scene = "team" => \A e \in Desks : ~Busy(e)
  PROVE  TeamInv'
<1> DEFINE q == [op |-> op, of |-> s, copy |-> staff[s], body |-> body]
<1>0. TeamTyped /\ UsersApart /\ CopiesAgree /\ LettingAlone /\ OutIsShut /\ OneByOne BY DEF TeamInv
<1>1. /\ staff[s] \in T!Records /\ staff[s].exists /\ staff[s].user <= Len(users)
      /\ UNCHANGED <<staff, users, word>>
  BY <1>0, TeamTypes DEF T!Load
<1>2. /\ q \in DeskRows /\ q.of = s /\ q.copy = staff[s] /\ q.op # "drop" BY <1>1 DEF DeskRows
<1>3. desk' = [desk EXCEPT ![d] = q] BY DEF T!Load
<1> HIDE DEF q
<1>4. /\ desk' \in [Desks -> DeskRows] /\ desk'[d] = q
      /\ \A e \in Desks : e # d => desk'[e] = desk[e] /\ (Busy(e)' <=> Busy(e))
  BY <1>0, <1>2, <1>3 DEF TeamTyped, Busy
<1>5. TeamTyped'
  <2>1. \A e \in Desks : Busy(e)' => desk'[e].copy.exists /\ desk'[e].copy.user <= Len(users)
    BY <1>0, <1>1, <1>2, <1>4 DEF TeamTyped
  <2> QED BY <1>0, <1>1, <1>4, <2>1 DEF TeamTyped
<1>6. CopiesAgree' BY <1>0, <1>1, <1>2, <1>4 DEF CopiesAgree
<1>7. OutIsShut' BY <1>0, <1>1, <1>2, <1>4 DEF OutIsShut, Shut, ShutIn
<1>8. UsersApart' BY <1>0, <1>1 DEF UsersApart
<1>9. OneByOne' BY <1>0, <1>1, <1>2, <1>4 DEF OneByOne
<1> QED BY <1>5, <1>6, <1>7, <1>8, <1>9 DEF TeamInv

\* Deactivating shuts the user of the copy, which is the record's.
LEMMA DeactivateKeeps ==
  ASSUME TeamInv, NEW d \in Desks, T!Deactivate(d), UNCHANGED scene
  PROVE  TeamInv'
<1> DEFINE s == desk[d].of
           copy == desk[d].copy
           u == copy.user
           q == [desk[d] EXCEPT !.op = "drop"]
<1>0. TeamTyped /\ UsersApart /\ CopiesAgree /\ LettingAlone /\ OutIsShut /\ OneByOne BY DEF TeamInv
<1>1. Busy(d) BY DEF T!Deactivate, T!Free, Busy
<1>2. s \in Members /\ copy \in T!Records /\ u \in Nat /\ u <= Len(users) BY <1>0, <1>1, TeamTypes
<1>3. users \in Seq(Users) /\ Len(users) \in Nat BY <1>0, TeamTypes
<1>4. /\ users' \in Seq(Users) /\ Len(users') = Len(users)
      /\ \A v \in 1..Len(users) : /\ users'[v].active <=> (users[v].active /\ v # u)
                                  /\ users'[v].password = users[v].password
  <2>1. users' = T!KeptOut(copy).users BY DEF T!Deactivate
  <2>2. CASE u = 0 BY <1>3, <2>1, <2>2 DEF T!KeptOut
  <2>3. CASE u # 0
    <3> DEFINE off == [users[u] EXCEPT !.active = FALSE]
    <3>1. users' = [users EXCEPT ![u] = off] BY <2>1, <2>3 DEF T!KeptOut
    <3>2. u \in 1..Len(users) /\ users[u] \in Users BY <1>2, <1>3, <2>3
    <3>3. off \in Users /\ ~off.active /\ off.password = users[u].password BY <3>2 DEF Users
    <3> HIDE DEF off, u
    <3> QED BY <1>3, <3>1, <3>2, <3>3
  <2> QED BY <2>2, <2>3
<1>5. /\ staff' = staff /\ desk' = [desk EXCEPT ![d] = q]
      /\ word' = IF u = 0 THEN word ELSE [word EXCEPT ![s] = "out"]
  <2>1. desk' = [desk EXCEPT ![d].op = "drop"] BY DEF T!Deactivate
  <2> QED BY <1>0, <2>1 DEF T!Deactivate, TeamTyped
<1>6. q \in DeskRows /\ q.of = s /\ q.copy = copy /\ q.body = desk[d].body /\ q.op = "drop"
  BY <1>0, <1>1 DEF TeamTyped, DeskRows, Busy
<1>7. \A t \in Members : staff[t] \in T!Records /\ staff[t].user \in Nat /\ staff[t].user <= Len(users)
                         /\ (~staff[t].exists => staff[t].user = 0)
  BY <1>0, TeamTypes
<1>8. \A e \in Desks : Busy(e) => desk[e].of \in Members
                                  /\ desk[e].copy.user \in Nat /\ desk[e].copy.user <= Len(users)
  BY <1>0, TeamTypes
<1>9. ShutIn(users', u) /\ \A v \in Nat : v <= Len(users) /\ Shut(v) => ShutIn(users', v)
  BY <1>2, <1>3, <1>4 DEF Shut, ShutIn
<1> HIDE DEF q, u, copy, s
<1>10. /\ desk' \in [Desks -> DeskRows] /\ desk'[d] = q /\ Busy(d)'
       /\ \A e \in Desks : e # d => desk'[e] = desk[e] /\ (Busy(e)' <=> Busy(e))
  BY <1>0, <1>5, <1>6 DEF TeamTyped, Busy, T!Free
<1>11. /\ word' \in [Members -> T!Words]
       /\ \A t \in Members : /\ t # s \/ u = 0 => word'[t] = word[t]
                             /\ t = s /\ u # 0 => word'[t] = "out"
  BY <1>0, <1>2, <1>5 DEF TeamTyped, T!Words
<1>12. \A e \in Desks : Busy(e)' => Busy(e) /\ desk'[e].copy = desk[e].copy /\ desk'[e].of = desk[e].of
                                    /\ desk'[e].body = desk[e].body
  BY <1>1, <1>6, <1>10 DEF s, copy
<1>13. TeamTyped'
  BY <1>0, <1>4, <1>5, <1>10, <1>11, <1>12 DEF TeamTyped
<1>14. CopiesAgree' BY <1>0, <1>5, <1>12 DEF CopiesAgree
<1>15. LettingAlone'
  <2>1. \A e \in Desks : LetsIn(desk'[e]) => LetsIn(desk[e])
    BY <1>1, <1>6, <1>10 DEF LetsIn, Busy
  <2> QED BY <1>0, <1>12, <2>1 DEF LettingAlone
<1>16. UsersApart' BY <1>0, <1>5 DEF UsersApart
<1>17. OutIsShut'
  <2>1. ASSUME NEW t \in Members, word'[t] = "out" PROVE ShutIn(users', staff[t].user)
    <3>1. CASE word[t] = "out" BY <1>0, <1>7, <1>9, <3>1 DEF OutIsShut
    <3>2. CASE word[t] # "out"
      <4>1. t = s BY <1>11, <2>1, <3>2
      <4>2. staff[s].user = 0 \/ staff[s].user = u
        BY <1>0, <1>1, <1>2, <1>7 DEF CopiesAgree, s, u, copy
      <4> QED BY <1>5, <1>9, <4>1, <4>2 DEF Shut, ShutIn
    <3> QED BY <3>1, <3>2
  <2>2. ASSUME NEW e \in Desks, Busy(e), word'[desk[e].of] = "out" \/ desk'[e].op = "drop"
        PROVE  ShutIn(users', desk[e].copy.user)
    <3>1. CASE e = d BY <1>9, <1>10, <3>1 DEF Shut, ShutIn, u, copy
    <3>2. CASE e # d /\ (word[desk[e].of] = "out" \/ desk[e].op = "drop")
      <4>1. Shut(desk[e].copy.user) BY <1>0, <2>2, <3>2 DEF OutIsShut
      <4> QED BY <1>8, <1>9, <1>10, <2>2, <3>2, <4>1 DEF Shut, ShutIn
    <3>3. CASE e # d /\ ~(word[desk[e].of] = "out" \/ desk[e].op = "drop")
      <4>1. desk[e].of = s BY <1>8, <1>10, <1>11, <2>2, <3>3
      <4>2. desk[e].copy.user = u BY <1>0, <1>1, <2>2, <4>1 DEF CopiesAgree, s, u, copy
      <4> QED BY <1>9, <1>10, <3>3, <4>2 DEF Shut, ShutIn
    <3> QED BY <3>1, <3>2, <3>3
  <2> QED BY <1>5, <1>12, <2>1, <2>2 DEF OutIsShut, Shut, ShutIn
<1>18. OneByOne'
  <2> SUFFICES ASSUME scene = "team"
               PROVE  /\ \A e, f \in Desks : Busy(e)' /\ Busy(f)' => e = f
                      /\ \A e \in Desks : Busy(e)' => staff[desk'[e].of].exists /\ desk'[e].copy = staff[desk'[e].of]
                      /\ \A t \in Members : word'[t] = "in" =>
                           /\ staff[t].exists /\ staff[t].can /\ staff[t].user # 0
                           /\ users'[staff[t].user].active /\ users'[staff[t].user].password
    BY <1>5 DEF OneByOne
  <2>1. ASSUME NEW t \in Members, word'[t] = "in"
        PROVE  /\ staff[t].exists /\ staff[t].can /\ staff[t].user # 0
               /\ users'[staff[t].user].active /\ users'[staff[t].user].password
    <3>1. word[t] = "in" /\ (t # s \/ u = 0) BY <1>11, <2>1
    <3>2. /\ staff[t].exists /\ staff[t].can /\ staff[t].user # 0
          /\ users[staff[t].user].active /\ users[staff[t].user].password
      BY <1>0, <3>1 DEF OneByOne
    <3>3. copy = staff[s] /\ staff[s].exists BY <1>0, <1>1 DEF OneByOne, s, copy
    <3>4. u = staff[s].user BY <3>3 DEF u
    <3>5. staff[t].user # u
      <4>1. CASE t = s BY <3>1, <3>2, <3>4, <4>1
      <4>2. CASE t # s BY <1>0, <1>2, <3>2, <3>3, <3>4, <4>2 DEF UsersApart
      <4> QED BY <4>1, <4>2
    <3>6. staff[t].user \in 1..Len(users) BY <1>3, <1>7, <3>2
    <3> QED BY <1>4, <3>2, <3>5, <3>6
  <2> QED BY <1>0, <1>5, <1>12, <2>1 DEF OneByOne
<1> QED BY <1>13, <1>14, <1>15, <1>16, <1>17, <1>18 DEF TeamInv

LEMMA DeleteKeeps ==
  ASSUME TeamInv, NEW d \in Desks, T!StaffDelete(d), UNCHANGED scene
  PROVE  TeamInv'
<1> DEFINE s == desk[d].of
<1>0. TeamTyped /\ UsersApart /\ CopiesAgree /\ LettingAlone /\ OutIsShut /\ OneByOne BY DEF TeamInv
<1>1. Busy(d) /\ desk[d].op = "drop" BY DEF T!StaffDelete, T!Free, Busy
<1>2. s \in Members BY <1>0, <1>1, TeamTypes
<1>3. /\ desk' = [desk EXCEPT ![d] = T!Free] /\ users' = users
      /\ staff' = [staff EXCEPT ![s] = T!NoRecord] /\ word' = [word EXCEPT ![s] = "out"]
  BY DEF T!StaffDelete, T!Close
<1>4. T!NoRecord \in T!Records /\ T!NoRecord.user = 0 /\ ~T!NoRecord.exists
  BY DEF T!NoRecord, T!Records
<1>5. /\ staff' \in [Members -> T!Records] /\ staff'[s] = T!NoRecord
      /\ \A t \in Members : t # s => staff'[t] = staff[t] /\ word'[t] = word[t]
      /\ word' \in [Members -> T!Words] /\ word'[s] = "out"
  BY <1>0, <1>2, <1>3, <1>4 DEF TeamTyped, T!Words
<1>6. /\ desk' \in [Desks -> DeskRows]
      /\ \A e \in Desks : Busy(e)' => e # d /\ Busy(e) /\ desk'[e] = desk[e]
  BY <1>0, <1>3 DEF TeamTyped, DeskRows, Busy
<1>7. users \in Seq(Users) /\ Len(users) \in Nat BY <1>0, TeamTypes
<1>8. \A e \in Desks : Busy(e) => desk[e].of \in Members BY <1>0, TeamTypes
<1> HIDE DEF s
<1>9. TeamTyped'
  <2>1. \A t \in Members : staff'[t].user <= Len(users) /\ (~staff'[t].exists => staff'[t].user = 0)
    BY <1>0, <1>4, <1>5, <1>7 DEF TeamTyped
  <2> QED BY <1>0, <1>3, <1>5, <1>6, <2>1 DEF TeamTyped
<1>10. UsersApart' BY <1>0, <1>4, <1>5 DEF UsersApart
<1>11. CopiesAgree' BY <1>0, <1>4, <1>5, <1>6, <1>8 DEF CopiesAgree
<1>12. LettingAlone'
  <2>1. \A e \in Desks : LetsIn(desk'[e]) => LetsIn(desk[e]) BY <1>6 DEF LetsIn, Busy
  <2> QED BY <1>0, <1>6, <2>1 DEF LettingAlone
<1>13. OutIsShut'
  <2>1. \A t \in Members : word'[t] = "out" => Shut(staff'[t].user)
    BY <1>0, <1>4, <1>5 DEF OutIsShut, Shut, ShutIn
  <2>2. \A e \in Desks : Busy(e)' /\ (word'[desk'[e].of] = "out" \/ desk'[e].op = "drop")
                           => Shut(desk[e].copy.user)
    <3>1. Shut(desk[d].copy.user) BY <1>0, <1>1 DEF OutIsShut
    <3> QED BY <1>0, <1>1, <1>5, <1>6, <1>8, <3>1 DEF OutIsShut, CopiesAgree, s
  <2> QED BY <1>3, <1>6, <2>1, <2>2 DEF OutIsShut, Shut, ShutIn
<1>14. OneByOne' BY <1>0, <1>1, <1>3, <1>5, <1>6 DEF OneByOne
<1> QED BY <1>9, <1>10, <1>11, <1>12, <1>13, <1>14 DEF TeamInv

LEMMA PeopleAlone ==
  ASSUME TeamInv, UNCHANGED people, UNCHANGED scene PROVE TeamInv'
BY DEF people, TeamInv, TeamTyped, UsersApart, CopiesAgree, LettingAlone, OutIsShut,
       OneByOne, Busy, Shut, ShutIn

\* A request changes at most its own desk.
LEMMA OneDesk ==
  ASSUME TeamTyped, T!TeamStep
  PROVE  \E d \in Desks : \A e \in Desks \ {d} : desk'[e] = desk[e]
<1>1. PICK d \in Desks :
        \/ T!StaffUpdate(d) \/ T!Deactivate(d) \/ T!StaffDelete(d)
        \/ \E s \in Members :
             \/ \E e \in Emails \cup {Blank}, can \in BOOLEAN : T!StaffCreate(d, s, e, can)
             \/ \E body \in Forms : T!Load(d, s, "update", body)
             \/ T!Load(d, s, "delete", T!NoBody)
  BY DEF T!TeamStep
<1>2. \/ desk' = desk \/ desk' = [desk EXCEPT ![d] = T!Free] \/ desk' = [desk EXCEPT ![d].op = "drop"]
      \/ \E q : desk' = [desk EXCEPT ![d] = q]
  BY <1>1 DEF T!StaffUpdate, T!Deactivate, T!StaffDelete, T!StaffCreate, T!Load, T!Close
<1>3. desk \in [Desks -> DeskRows] BY DEF TeamTyped
<1>4. \A e \in Desks \ {d} : desk'[e] = desk[e] BY <1>2, <1>3
<1> QED BY <1>4

\* One request at a time, as in scene team, is more than the office for oneself.
LEMMA SerialIsAlone ==
  ASSUME TeamTyped, T!TeamStep, Serial PROVE Alone
<1>1. \A e \in Desks : Busy(e) => desk'[e] # desk[e] BY DEF Serial, Busy
<1>2. PICK d \in Desks : \A e \in Desks \ {d} : desk'[e] = desk[e] BY OneDesk
<1>3. desk' = desk => ~T!Serving BY <1>1 DEF T!Serving, Busy
<1>4. \A e \in Desks : desk'[e] # T!Free => e = d BY <1>1, <1>2 DEF Busy
<1>5. \A e \in Desks : LetsIn(desk'[e]) => desk'[e] # T!Free BY DEF LetsIn
<1> QED BY <1>3, <1>4, <1>5 DEF Alone

LEMMA FormsType == Forms \subseteq T!Bodies /\ T!NoBody \in T!Bodies
<1>1. NoBody \in T!Bodies /\ T!NoBody \in T!Bodies BY DEF NoBody, T!NoBody, T!Bodies
<1>2. Grants \subseteq T!Bodies BY DEF Grants, T!Bodies
<1>3. Renames \subseteq T!Bodies BY <1>1 DEF Renames, T!Bodies
<1>4. Refusal \in T!Bodies /\ Password \in T!Bodies BY <1>1 DEF Refusal, Password, T!Bodies
<1>5. {[NoBody EXCEPT !.active = a] : a \in {"yes", "no"}} \subseteq T!Bodies BY <1>1 DEF T!Bodies
<1> QED BY <1>1, <1>2, <1>3, <1>4, <1>5 DEF Forms

LEMMA AloneLets == ASSUME Alone PROVE LettingAlone'
BY DEF Alone, LettingAlone, Busy

LEMMA TeamKeeps == ASSUME TeamInv, TeamNext, UNCHANGED scene PROVE TeamInv'
<1>0. TeamTyped BY DEF TeamInv
<1>1. CASE \E d \in Desks : T!DeskDies(d)
  BY <1>1, DeskFreed DEF T!DeskDies, T!Close
<1>2. CASE T!TeamStep /\ IF scene = "team" THEN Serial ELSE Alone
  <2>1. Alone BY <1>0, <1>2, SerialIsAlone
  <2>2. LettingAlone' BY <2>1, AloneLets
  <2>3. PICK d \in Desks :
        \/ T!StaffUpdate(d) \/ T!Deactivate(d) \/ T!StaffDelete(d)
        \/ \E s \in Members :
             \/ \E e \in Emails \cup {Blank}, can \in BOOLEAN : T!StaffCreate(d, s, e, can)
             \/ \E body \in Forms : T!Load(d, s, "update", body)
             \/ T!Load(d, s, "delete", T!NoBody)
    BY <1>2 DEF T!TeamStep
  <2>4. CASE T!StaffUpdate(d) BY <2>4, UpdateKeeps
  <2>5. CASE T!Deactivate(d) BY <2>5, DeactivateKeeps
  <2>6. CASE T!StaffDelete(d) BY <2>6, DeleteKeeps
  <2>7. ASSUME NEW s \in Members, NEW e \in Emails \cup {Blank}, NEW can \in BOOLEAN,
               T!StaffCreate(d, s, e, can)
        PROVE  TeamInv'
    <3>1. ~T!Serving BY <2>1, <2>7 DEF Alone, T!StaffCreate
    <3> QED BY <2>7, <3>1, CreateKeeps
  <2>8. ASSUME NEW s \in Members, NEW op \in {"update", "delete"}, NEW body \in T!Bodies,
               T!Load(d, s, op, body)
        PROVE  TeamInv'
    <3>1. ASSUME scene = "team", NEW e \in Desks, Busy(e) PROVE FALSE
      <4>1. desk'[e] # desk[e] BY <1>2, <3>1 DEF Serial, Busy
      <4>2. desk[d] = T!Free BY <2>8 DEF T!Load, T!Open
      <4>3. e # d BY <3>1, <4>2 DEF Busy
      <4> QED BY <1>0, <2>8, <4>1, <4>3 DEF T!Load, TeamTyped
    <3> QED BY <2>2, <2>8, <3>1, LoadKeeps
  <2> QED BY <2>3, <2>4, <2>5, <2>6, <2>7, <2>8, FormsType
<1> QED BY <1>1, <1>2 DEF TeamNext

LEMMA TeamStart == T!TeamInit => TeamInv
<1> SUFFICES ASSUME T!TeamInit PROVE TeamInv OBVIOUS
<1>1. T!NoRecord \in T!Records /\ T!NoRecord.user = 0 /\ ~T!NoRecord.exists
  BY DEF T!NoRecord, T!Records
<1>2. users \in Seq(Users) /\ Len(users) = 0 BY DEF T!TeamInit
<1>3. \A d \in Desks : ~Busy(d) BY DEF T!TeamInit, Busy
<1>4. TeamTyped BY <1>1, <1>2, <1>3 DEF T!TeamInit, TeamTyped, DeskRows, T!Words
<1>5. ~LetsIn(T!Free) BY DEF LetsIn
<1>6. UsersApart /\ CopiesAgree /\ LettingAlone
  BY <1>1, <1>3, <1>5 DEF T!TeamInit, UsersApart, CopiesAgree, LettingAlone
<1>7. OutIsShut /\ OneByOne BY <1>3 DEF T!TeamInit, OutIsShut, OneByOne
<1> QED BY <1>4, <1>6, <1>7 DEF TeamInv

\* For any number of members, addresses and desks: who was refused a login, or
\* whose record was deleted, stays out although updates save the copies they
\* loaded before; and one request at a time, who was let in gets in while his
\* record is active.
THEOREM WhoIsOutStaysOut == MCSpec => []LoginsHold
<1>1. MCInit => TeamInv BY TeamStart DEF MCInit
<1>2. TeamInv /\ [MCNext]_all => TeamInv'
  <2> SUFFICES ASSUME TeamInv, [MCNext]_all PROVE TeamInv' OBVIOUS
  <2>1. CASE UNCHANGED all BY <2>1, PeopleAlone DEF all
  <2>2. CASE MCNext BY <2>2, PeopleAlone, TeamKeeps DEF MCNext
  <2> QED BY <2>1, <2>2
<1>3. TeamInv => LoginsHold
  <2> SUFFICES ASSUME TeamInv PROVE LoginsHold OBVIOUS
  <2>0. TeamTyped /\ OutIsShut /\ OneByOne BY DEF TeamInv
  <2>1. T!TeamType
    <3>1. \A u \in DOMAIN users : users[u] \in Users BY <2>0, TeamTypes
    <3> QED BY <2>0, <3>1, TeamTypes DEF T!TeamType, TeamTyped, Users, Busy
  <2>2. T!OutStaysOut BY <2>0 DEF OutIsShut, Shut, ShutIn, T!OutStaysOut, T!GetsIn
  <2>3. ASSUME scene = "team", NEW s \in Members, word[s] = "in"
        PROVE  T!GetsIn(s) <=> staff[s].active
    BY <2>0, <2>3 DEF OneByOne, T!GetsIn, T!HasRole
  <2> QED BY <2>1, <2>2, <2>3 DEF LoginsHold, T!InGetsIn
<1> QED BY <1>1, <1>2, <1>3, PTL DEF MCSpec
=============================================================================
