---------------------------- MODULE FieldProofs ----------------------------
(***************************************************************************)
(* Theorems about Field, Leads, Voice and Shop for any tickets, requests,  *)
(* goods, limits and bounds. A technician is asked no more often than the  *)
(* ticket allows and a breach is escalated once; a lead becomes one order, *)
(* and an order one activation; the record of a call is the one of its     *)
(* turns; and a paid order's units leave the stock once.                   *)
(***************************************************************************)
EXTENDS MCOffice, TLAPS, FiniteSetTheorems, SequenceTheorems, WellFoundedInduction

Places == {"idle", "pings", "stamp", "breaches"}

RowsTyped == ticket \in [Tickets -> Row] /\ tally \in [Tickets -> Counts] /\ kills \in Nat

\* Between its load and its last stamp the sweep alone counts pings: the rows
\* it holds have the count of the tickets it has not passed yet.
SweepTyped ==
  /\ sweep = [place |-> sweep.place, rows |-> sweep.rows, rest |-> sweep.rest, t |-> sweep.t]
  /\ sweep.place \in Places /\ sweep.rest \subseteq Tickets
  /\ sweep.place \in {"pings", "stamp"} =>
       /\ sweep.rows \in [Tickets -> Row]
       /\ \A t \in sweep.rest : sweep.rows[t].pings = ticket[t].pings
  /\ sweep.place = "stamp" => sweep.t \in sweep.rest /\ sweep.rows[sweep.t].pings < MaxPings

AgentTyped ==
  /\ briefs \in Seq(Tickets) /\ agent.place \in {"idle", "stamp", "reply"}
  /\ agent.place = "stamp" => agent.t \in Tickets

\* A message that is sent is counted, about to be, or was lost in a kill.
Stamping(t) == IF sweep.place = "stamp" /\ sweep.t = t THEN 1 ELSE 0
PingsCounted == \A t \in Tickets : tally[t].pinged <= ticket[t].pings + Stamping(t) + kills

\* Who is escalated for a breach has a reason, and a sweep's list is of others.
BreachHasReason ==
  /\ \A t \in Tickets : tally[t].breach <= IF ticket[t].reason THEN 1 ELSE 0
  /\ sweep.place = "breaches" => \A t \in sweep.rest : tally[t].breach = 0

IInv == RowsTyped /\ SweepTyped /\ AgentTyped /\ PingsCounted /\ BreachHasReason

-----------------------------------------------------------------------------
(* The rows keep their type                                                *)

\* A ticket and its tally may be written.
LEMMA RowsWritten ==
  ASSUME RowsTyped, kills' = kills, NEW t \in Tickets,
         ticket' = ticket \/ \E row \in Row : ticket' = [ticket EXCEPT ![t] = row],
         tally' = tally \/ \E c \in Counts : tally' = [tally EXCEPT ![t] = c]
  PROVE  RowsTyped'
BY DEF RowsTyped

LEMMA InitInv == ASSUME MaxPings \in Nat, MaxSilent \in Nat PROVE FieldInit => IInv
BY DEF FieldInit, IInv, RowsTyped, SweepTyped, AgentTyped, PingsCounted, BreachHasReason,
       Stamping, NewRow, NoCounts, Asleep, Waiting, Row, Counts,
       Places, Statuses

LEMMA AssignRows ==
  ASSUME MaxPings \in Nat, MaxSilent \in Nat, IInv, NEW t \in Tickets, Assign(t)
  PROVE  RowsTyped'
<1>1. t \in Tickets BY DEF Assign, IInv, AgentTyped, SweepTyped
<1>2. RowsTyped /\ ticket[t] \in Row /\ tally[t] \in Counts BY <1>1 DEF IInv, RowsTyped
<1>3. \E row \in Row : ticket' = [ticket EXCEPT ![t] = row]
  BY <1>1, <1>2 DEF Assign, Row, Statuses
<1>4. \E c \in Counts : tally' = [tally EXCEPT ![t] = c]
  <2> DEFINE c == [silent |-> tally[t].silent, breach |-> tally[t].breach, pinged |-> tally[t].pinged,
                   briefed |-> tally'[t].briefed]
  <2>1. c \in Counts BY <1>1, <1>2 DEF Assign, RowsTyped, Counts
  <2>2. tally'[t] = c BY <1>1, <1>2 DEF Assign, RowsTyped, Counts
  <2>3. tally' = [tally EXCEPT ![t] = c] BY <1>1, <1>2, <2>2 DEF Assign, RowsTyped
  <2> QED BY <2>1, <2>3
<1> QED BY <1>1, <1>2, <1>3, <1>4, RowsWritten DEF Assign

LEMMA SetStatusRows ==
  ASSUME MaxPings \in Nat, MaxSilent \in Nat, IInv,
         NEW t \in Tickets, NEW s \in Statuses, SetStatus(t, s)
  PROVE  RowsTyped'
<1>1. t \in Tickets BY DEF SetStatus, IInv, AgentTyped, SweepTyped
<1>2. RowsTyped /\ ticket[t] \in Row /\ tally[t] \in Counts BY <1>1 DEF IInv, RowsTyped
<1>3. \E row \in Row : ticket' = [ticket EXCEPT ![t] = row]
  BY <1>1, <1>2 DEF SetStatus, Row
<1>4. tally' = tally BY DEF SetStatus
<1> QED BY <1>1, <1>2, <1>3, <1>4, RowsWritten DEF SetStatus

LEMMA EscalateByHandRows ==
  ASSUME MaxPings \in Nat, MaxSilent \in Nat, IInv, NEW t \in Tickets, EscalateByHand(t)
  PROVE  RowsTyped'
<1>1. t \in Tickets BY DEF EscalateByHand, IInv, AgentTyped, SweepTyped
<1>2. RowsTyped /\ ticket[t] \in Row /\ tally[t] \in Counts BY <1>1 DEF IInv, RowsTyped
<1>3. \E row \in Row : ticket' = [ticket EXCEPT ![t] = row]
  BY <1>1, <1>2 DEF EscalateByHand, Row
<1>4. tally' = tally BY DEF EscalateByHand
<1> QED BY <1>1, <1>2, <1>3, <1>4, RowsWritten DEF EscalateByHand

LEMMA DueRows ==
  ASSUME MaxPings \in Nat, MaxSilent \in Nat, IInv, NEW t \in Tickets, Due(t)
  PROVE  RowsTyped'
<1>1. t \in Tickets BY DEF Due, IInv, AgentTyped, SweepTyped
<1>2. RowsTyped /\ ticket[t] \in Row /\ tally[t] \in Counts BY <1>1 DEF IInv, RowsTyped
<1>3. \E row \in Row : ticket' = [ticket EXCEPT ![t] = row]
  BY <1>1, <1>2 DEF Due, Row
<1>4. tally' = tally BY DEF Due
<1> QED BY <1>1, <1>2, <1>3, <1>4, RowsWritten DEF Due

LEMMA LateRows ==
  ASSUME MaxPings \in Nat, MaxSilent \in Nat, IInv, NEW t \in Tickets, Late(t)
  PROVE  RowsTyped'
<1>1. t \in Tickets BY DEF Late, IInv, AgentTyped, SweepTyped
<1>2. RowsTyped /\ ticket[t] \in Row /\ tally[t] \in Counts BY <1>1 DEF IInv, RowsTyped
<1>3. \E row \in Row : ticket' = [ticket EXCEPT ![t] = row]
  BY <1>1, <1>2 DEF Late, Row
<1>4. tally' = tally BY DEF Late
<1> QED BY <1>1, <1>2, <1>3, <1>4, RowsWritten DEF Late

LEMMA StampBriefRows ==
  ASSUME MaxPings \in Nat, MaxSilent \in Nat, IInv, NEW b \in BOOLEAN, StampBrief(b)
  PROVE  RowsTyped'
<1>1. agent.t \in Tickets BY DEF StampBrief, IInv, AgentTyped, SweepTyped
<1>2. RowsTyped /\ ticket[agent.t] \in Row /\ tally[agent.t] \in Counts BY <1>1 DEF IInv, RowsTyped
<1>3. ticket' = ticket \/ \E row \in Row : ticket' = [ticket EXCEPT ![agent.t] = row]
  BY <1>1, <1>2 DEF StampBrief, Row
<1>4. tally' = tally BY DEF StampBrief
<1> QED BY <1>1, <1>2, <1>3, <1>4, RowsWritten DEF StampBrief

LEMMA LeaveRows ==
  ASSUME MaxPings \in Nat, MaxSilent \in Nat, IInv, NEW gone \in SUBSET Tickets, Leave(gone)
  PROVE  RowsTyped'
<1>1. ticket' \in [Tickets -> Row] BY DEF Leave, IInv, RowsTyped, Row
<1> QED BY <1>1 DEF Leave, IInv, RowsTyped

LEMMA EscalateRows ==
  ASSUME MaxPings \in Nat, MaxSilent \in Nat, IInv, NEW t \in Tickets, Escalate(t)
  PROVE  RowsTyped'
<1>1. t \in Tickets BY DEF Escalate, IInv, AgentTyped, SweepTyped
<1>2. RowsTyped /\ ticket[t] \in Row /\ tally[t] \in Counts BY <1>1 DEF IInv, RowsTyped
<1>3. ticket' = ticket BY DEF Escalate
<1>4. \E c \in Counts : tally' = [tally EXCEPT ![t] = c]
  <2> DEFINE c == [silent |-> tally'[t].silent, breach |-> tally[t].breach, pinged |-> tally[t].pinged,
                   briefed |-> tally[t].briefed]
  <2>1. c \in Counts BY <1>1, <1>2 DEF Escalate, RowsTyped, Counts
  <2>2. tally'[t] = c BY <1>1, <1>2 DEF Escalate, RowsTyped, Counts
  <2>3. tally' = [tally EXCEPT ![t] = c] BY <1>1, <1>2, <2>2 DEF Escalate, RowsTyped
  <2> QED BY <2>1, <2>3
<1> QED BY <1>1, <1>2, <1>3, <1>4, RowsWritten DEF Escalate

LEMMA PingRows ==
  ASSUME MaxPings \in Nat, MaxSilent \in Nat, IInv, NEW t \in Tickets, Ping(t)
  PROVE  RowsTyped'
<1>1. t \in Tickets BY DEF Ping, IInv, AgentTyped, SweepTyped
<1>2. RowsTyped /\ ticket[t] \in Row /\ tally[t] \in Counts BY <1>1 DEF IInv, RowsTyped
<1>3. ticket' = ticket BY DEF Ping
<1>4. \E c \in Counts : tally' = [tally EXCEPT ![t] = c]
  <2> DEFINE c == [silent |-> tally[t].silent, breach |-> tally[t].breach, pinged |-> tally'[t].pinged,
                   briefed |-> tally[t].briefed]
  <2>1. c \in Counts BY <1>1, <1>2 DEF Ping, RowsTyped, Counts
  <2>2. tally'[t] = c BY <1>1, <1>2 DEF Ping, RowsTyped, Counts
  <2>3. tally' = [tally EXCEPT ![t] = c] BY <1>1, <1>2, <2>2 DEF Ping, RowsTyped
  <2> QED BY <2>1, <2>3
<1> QED BY <1>1, <1>2, <1>3, <1>4, RowsWritten DEF Ping

LEMMA StampPingRows == ASSUME MaxPings \in Nat, MaxSilent \in Nat, IInv, StampPing PROVE RowsTyped'
<1> DEFINE t == sweep.t
           n == Counted(sweep.rows[t])
           row == [status |-> ticket[t].status, staff |-> ticket[t].staff, sent |-> ticket[t].sent,
                   due |-> FALSE, pings |-> n, late |-> ticket[t].late,
                   reason |-> ticket[t].reason]
<1>1. t \in Tickets /\ sweep.rows[t] \in Row /\ sweep.rows[t].pings < MaxPings
  BY DEF StampPing, IInv, SweepTyped
<1>2. RowsTyped /\ ticket[t] \in Row BY <1>1 DEF IInv, RowsTyped
<1>3. n \in 0..MaxPings BY <1>1 DEF Counted, Row
<1>4. row \in Row BY <1>2, <1>3 DEF Row
<1>5. ticket' = [ticket EXCEPT ![t].due = FALSE, ![t].pings = n] BY DEF StampPing
<1> HIDE DEF t, n
<1>6. ticket'[t] = row BY <1>1, <1>2, <1>5 DEF RowsTyped, Row
<1>7. ticket' = [ticket EXCEPT ![t] = row] BY <1>1, <1>2, <1>5, <1>6 DEF RowsTyped
<1> QED BY <1>1, <1>2, <1>4, <1>7, RowsWritten DEF StampPing

LEMMA EscalateBreachRows ==
  ASSUME MaxPings \in Nat, MaxSilent \in Nat, IInv, NEW t \in Tickets, EscalateBreach(t)
  PROVE  RowsTyped'
<1>1. t \in Tickets BY DEF EscalateBreach, IInv, AgentTyped, SweepTyped
<1>2. RowsTyped /\ ticket[t] \in Row /\ tally[t] \in Counts BY <1>1 DEF IInv, RowsTyped
<1>3. \E row \in Row : ticket' = [ticket EXCEPT ![t] = row]
  BY <1>1, <1>2 DEF EscalateBreach, Row
<1>4. \E c \in Counts : tally' = [tally EXCEPT ![t] = c]
  <2> DEFINE c == [silent |-> tally[t].silent, breach |-> tally'[t].breach, pinged |-> tally[t].pinged,
                   briefed |-> tally[t].briefed]
  <2>1. c \in Counts BY <1>1, <1>2 DEF EscalateBreach, RowsTyped, Counts
  <2>2. tally'[t] = c BY <1>1, <1>2 DEF EscalateBreach, RowsTyped, Counts
  <2>3. tally' = [tally EXCEPT ![t] = c] BY <1>1, <1>2, <2>2 DEF EscalateBreach, RowsTyped
  <2> QED BY <2>1, <2>3
<1> QED BY <1>1, <1>2, <1>3, <1>4, RowsWritten DEF EscalateBreach

-----------------------------------------------------------------------------
(* Every action preserves the invariant                                    *)

LEMMA AssignInv ==
  ASSUME MaxPings \in Nat, MaxSilent \in Nat, IInv, NEW t \in Tickets, Assign(t)
  PROVE  IInv'
<1>1. RowsTyped' BY AssignRows
<1>7. \A q \in Tickets : /\ ticket'[q].pings = ticket[q].pings /\ ticket'[q].reason = ticket[q].reason
                         /\ tally'[q].pinged = tally[q].pinged /\ tally'[q].breach = tally[q].breach
  BY DEF Assign, IInv, RowsTyped
<1>2. SweepTyped' BY <1>7 DEF Assign, IInv, SweepTyped
<1>3. AgentTyped' BY DEF Assign, IInv, AgentTyped, Waiting
<1>4. PingsCounted' BY <1>7 DEF Assign, IInv, PingsCounted, Stamping
<1>5. BreachHasReason' BY <1>7 DEF Assign, IInv, BreachHasReason, SweepTyped
<1> QED BY <1>1, <1>2, <1>3, <1>4, <1>5 DEF IInv

LEMMA SetStatusInv ==
  ASSUME MaxPings \in Nat, MaxSilent \in Nat, IInv,
         NEW t \in Tickets, NEW s \in Statuses, SetStatus(t, s)
  PROVE  IInv'
<1>1. RowsTyped' BY SetStatusRows
<1>2. SweepTyped' BY DEF SetStatus, IInv, SweepTyped, Places
<1>3. AgentTyped' BY DEF SetStatus, IInv, AgentTyped, Waiting
<1>4. PingsCounted' BY DEF SetStatus, IInv, PingsCounted, Stamping, Places
<1>5. BreachHasReason' BY DEF SetStatus, IInv, BreachHasReason
<1> QED BY <1>1, <1>2, <1>3, <1>4, <1>5 DEF IInv

LEMMA EscalateByHandInv ==
  ASSUME MaxPings \in Nat, MaxSilent \in Nat, IInv, NEW t \in Tickets, EscalateByHand(t)
  PROVE  IInv'
<1>1. RowsTyped' BY EscalateByHandRows
<1>2. SweepTyped' BY DEF EscalateByHand, IInv, SweepTyped, Asleep, Places
<1>3. AgentTyped' BY DEF EscalateByHand, IInv, AgentTyped, Waiting
<1>4. PingsCounted'
  BY DEF EscalateByHand, IInv, PingsCounted, Stamping, Counted, Exhausted, Passed,
     Asleep, Places
<1>5. BreachHasReason' BY DEF EscalateByHand, IInv, RowsTyped, BreachHasReason, Counts
<1> QED BY <1>1, <1>2, <1>3, <1>4, <1>5 DEF IInv

LEMMA LeaveInv ==
  ASSUME MaxPings \in Nat, MaxSilent \in Nat, IInv, NEW gone \in SUBSET Tickets, Leave(gone)
  PROVE  IInv'
<1>1. RowsTyped' BY LeaveRows
<1>6. \A q \in Tickets : ticket'[q].pings = ticket[q].pings /\ ticket'[q].reason = ticket[q].reason
  BY DEF Leave, IInv, RowsTyped, Row
<1>2. SweepTyped' BY <1>6 DEF Leave, IInv, SweepTyped
<1>3. AgentTyped' BY DEF Leave, IInv, AgentTyped
<1>4. PingsCounted' BY <1>6 DEF Leave, IInv, PingsCounted, Stamping
<1>5. BreachHasReason' BY <1>6 DEF Leave, IInv, BreachHasReason, SweepTyped
<1> QED BY <1>1, <1>2, <1>3, <1>4, <1>5 DEF IInv

LEMMA PauseAIInv == ASSUME MaxPings \in Nat, MaxSilent \in Nat, IInv, PauseAI PROVE IInv'
<1>1. RowsTyped' BY DEF PauseAI, IInv, RowsTyped
<1>2. SweepTyped' BY DEF PauseAI, IInv, SweepTyped
<1>3. AgentTyped' BY DEF PauseAI, IInv, AgentTyped, Waiting
<1>4. PingsCounted' BY DEF PauseAI, IInv, PingsCounted, Stamping
<1>5. BreachHasReason' BY DEF PauseAI, IInv, BreachHasReason
<1> QED BY <1>1, <1>2, <1>3, <1>4, <1>5 DEF IInv

LEMMA DueInv ==
  ASSUME MaxPings \in Nat, MaxSilent \in Nat, IInv, NEW t \in Tickets, Due(t)
  PROVE  IInv'
<1>1. RowsTyped' BY DueRows
<1>2. SweepTyped' BY DEF Due, IInv, SweepTyped, Counted, Exhausted, Passed, Asleep, Places
<1>3. AgentTyped' BY DEF Due, IInv, AgentTyped, Waiting
<1>4. PingsCounted' BY DEF Due, IInv, PingsCounted, Stamping
<1>5. BreachHasReason' BY DEF Due, IInv, BreachHasReason
<1> QED BY <1>1, <1>2, <1>3, <1>4, <1>5 DEF IInv

LEMMA LateInv ==
  ASSUME MaxPings \in Nat, MaxSilent \in Nat, IInv, NEW t \in Tickets, Late(t)
  PROVE  IInv'
<1>1. RowsTyped' BY LateRows
<1>2. SweepTyped' BY DEF Late, IInv, SweepTyped
<1>3. AgentTyped' BY DEF Late, IInv, AgentTyped, Waiting
<1>4. PingsCounted' BY DEF Late, IInv, PingsCounted, Stamping
<1>5. BreachHasReason' BY DEF Late, IInv, BreachHasReason
<1> QED BY <1>1, <1>2, <1>3, <1>4, <1>5 DEF IInv

LEMMA TakeBriefInv ==
  ASSUME MaxPings \in Nat, MaxSilent \in Nat, IInv, NEW b \in BOOLEAN, TakeBrief(b)
  PROVE  IInv'
<1>1. RowsTyped' BY DEF TakeBrief, IInv, RowsTyped
<1>2. SweepTyped' BY DEF TakeBrief, IInv, SweepTyped
<1>3. AgentTyped' BY DEF TakeBrief, IInv, AgentTyped, Waiting
<1>4. PingsCounted' BY DEF TakeBrief, IInv, PingsCounted, Stamping
<1>5. BreachHasReason' BY DEF TakeBrief, IInv, BreachHasReason
<1> QED BY <1>1, <1>2, <1>3, <1>4, <1>5 DEF IInv

LEMMA StampBriefInv ==
  ASSUME MaxPings \in Nat, MaxSilent \in Nat, IInv, NEW b \in BOOLEAN, StampBrief(b)
  PROVE  IInv'
<1>1. RowsTyped' BY StampBriefRows
<1>7. \A q \in Tickets : ticket'[q].pings = ticket[q].pings
  BY DEF StampBrief, IInv, RowsTyped
<1>2. SweepTyped' BY <1>7 DEF StampBrief, IInv, SweepTyped
<1>3. AgentTyped' BY DEF StampBrief, IInv, AgentTyped, Waiting
<1>4. PingsCounted' BY DEF StampBrief, IInv, RowsTyped, PingsCounted, Stamping
<1>5. BreachHasReason' BY DEF StampBrief, IInv, RowsTyped, BreachHasReason
<1> QED BY <1>1, <1>2, <1>3, <1>4, <1>5 DEF IInv

LEMMA ReplyInv ==
  ASSUME MaxPings \in Nat, MaxSilent \in Nat, IInv, TakeReply \/ Replied
  PROVE  IInv'
<1>1. RowsTyped' BY DEF TakeReply, Replied, IInv, RowsTyped
<1>2. SweepTyped' BY DEF TakeReply, Replied, IInv, SweepTyped
<1>3. AgentTyped' BY DEF TakeReply, Replied, IInv, AgentTyped, Waiting
<1>4. PingsCounted' BY DEF TakeReply, Replied, IInv, PingsCounted, Stamping
<1>5. BreachHasReason' BY DEF TakeReply, Replied, IInv, BreachHasReason
<1> QED BY <1>1, <1>2, <1>3, <1>4, <1>5 DEF IInv

LEMMA SweepBeginInv == ASSUME MaxPings \in Nat, MaxSilent \in Nat, IInv, SweepBegin PROVE IInv'
<1>1. RowsTyped' BY DEF SweepBegin, IInv, RowsTyped
<1>2. SweepTyped' BY DEF SweepBegin, IInv, RowsTyped, SweepTyped, Places
<1>3. AgentTyped' BY DEF SweepBegin, IInv, AgentTyped, Waiting
<1>4. PingsCounted' BY DEF SweepBegin, IInv, PingsCounted, Stamping
<1>5. BreachHasReason' BY DEF SweepBegin, IInv, BreachHasReason
<1> QED BY <1>1, <1>2, <1>3, <1>4, <1>5 DEF IInv

LEMMA SkipInv ==
  ASSUME MaxPings \in Nat, MaxSilent \in Nat, IInv, NEW t \in Tickets, Skip(t)
  PROVE  IInv'
<1>1. RowsTyped' BY DEF Skip, IInv, RowsTyped
<1>2. SweepTyped' BY DEF Skip, IInv, SweepTyped, Passed
<1>3. AgentTyped' BY DEF Skip, IInv, AgentTyped, Waiting
<1>4. PingsCounted' BY DEF Skip, IInv, RowsTyped, PingsCounted, Stamping, Row, Counts
<1>5. BreachHasReason' BY DEF Skip, IInv, BreachHasReason, Passed
<1> QED BY <1>1, <1>2, <1>3, <1>4, <1>5 DEF IInv

LEMMA EscalateInv ==
  ASSUME MaxPings \in Nat, MaxSilent \in Nat, IInv, NEW t \in Tickets, Escalate(t)
  PROVE  IInv'
<1>1. RowsTyped' BY EscalateRows
<1>2. SweepTyped' BY DEF Escalate, IInv, SweepTyped, Passed
<1>3. AgentTyped' BY DEF Escalate, IInv, AgentTyped, Waiting
<1>7. \A q \in Tickets : tally'[q].pinged = tally[q].pinged BY DEF Escalate, IInv, RowsTyped, Counts
<1>8. sweep'.place = "pings" BY DEF Escalate, Passed, IInv, SweepTyped
<1>4. PingsCounted' BY <1>7, <1>8 DEF Escalate, IInv, PingsCounted, Stamping
<1>5. BreachHasReason' BY DEF Escalate, IInv, BreachHasReason, Passed
<1> QED BY <1>1, <1>2, <1>3, <1>4, <1>5 DEF IInv

LEMMA PingInv ==
  ASSUME MaxPings \in Nat, MaxSilent \in Nat, IInv, NEW t \in Tickets, Ping(t)
  PROVE  IInv'
<1>1. RowsTyped' BY PingRows
<1>7. /\ sweep' = [place |-> "stamp", rows |-> sweep.rows, rest |-> sweep.rest, t |-> t]
      /\ sweep.place = "pings" /\ t \in sweep.rest /\ sweep.rows[t].pings < MaxPings
  <2>1. sweep' = [place |-> "stamp", rows |-> sweep.rows, rest |-> sweep.rest, t |-> t]
    BY DEF Ping, IInv, SweepTyped
  <2>2. sweep.rows[t].pings \in 0..MaxPings BY DEF Ping, IInv, SweepTyped, Row
  <2>3. sweep.place = "pings" /\ t \in sweep.rest /\ ~Exhausted(sweep.rows[t]) BY DEF Ping
  <2> QED BY <2>1, <2>2, <2>3 DEF Exhausted
<1>2. SweepTyped' BY <1>7 DEF Ping, IInv, SweepTyped, Places
<1>3. AgentTyped' BY DEF Ping, IInv, AgentTyped, Waiting
<1>4. PingsCounted'
  <2>1. \A q \in Tickets : /\ tally[q].pinged \in Nat /\ tally'[q].pinged \in Nat
                           /\ tally'[q].pinged <= tally[q].pinged + IF q = t THEN 1 ELSE 0
    BY DEF Ping, IInv, RowsTyped, Counts
  <2>2. \A q \in Tickets : ticket[q].pings \in Nat BY DEF IInv, RowsTyped, Row
  <2>3. \A q \in Tickets : Stamping(q) = 0 /\ Stamping(q)' = IF q = t THEN 1 ELSE 0
    BY <1>7 DEF Stamping
  <2>4. ticket' = ticket /\ kills' = kills /\ kills \in Nat BY DEF Ping, IInv, RowsTyped
  <2> QED BY <2>1, <2>2, <2>3, <2>4 DEF IInv, PingsCounted
<1>5. BreachHasReason' BY DEF Ping, IInv, BreachHasReason
<1> QED BY <1>1, <1>2, <1>3, <1>4, <1>5 DEF IInv

LEMMA StampPingInv == ASSUME MaxPings \in Nat, MaxSilent \in Nat, IInv, StampPing PROVE IInv'
<1>1. RowsTyped' BY StampPingRows
<1>2. SweepTyped' BY DEF StampPing, IInv, RowsTyped, SweepTyped, Places
<1>3. AgentTyped' BY DEF StampPing, IInv, AgentTyped, Waiting
<1>4. PingsCounted' BY DEF StampPing, IInv, RowsTyped, SweepTyped, Row, Counted
<1>5. BreachHasReason' BY DEF StampPing, IInv, RowsTyped, BreachHasReason
<1> QED BY <1>1, <1>2, <1>3, <1>4, <1>5 DEF IInv

LEMMA SweepBreachesInv ==
  ASSUME MaxPings \in Nat, MaxSilent \in Nat, IInv, SweepBreaches
  PROVE  IInv'
<1>1. RowsTyped' BY DEF SweepBreaches, IInv, RowsTyped
<1>2. SweepTyped' BY DEF SweepBreaches, SweepTyped, Asleep, Places
<1>3. AgentTyped' BY DEF SweepBreaches, IInv, AgentTyped, Waiting
<1>4. PingsCounted' BY DEF SweepBreaches, IInv, PingsCounted, Stamping
<1>5. BreachHasReason' BY DEF SweepBreaches, IInv, RowsTyped, BreachHasReason, Counts, Breached
<1> QED BY <1>1, <1>2, <1>3, <1>4, <1>5 DEF IInv

LEMMA EscalateBreachInv ==
  ASSUME MaxPings \in Nat, MaxSilent \in Nat, IInv, NEW t \in Tickets, EscalateBreach(t)
  PROVE  IInv'
<1>1. RowsTyped' BY EscalateBreachRows
<1>2. SweepTyped' BY DEF EscalateBreach, IInv, SweepTyped, Passed
<1>3. AgentTyped' BY DEF EscalateBreach, IInv, AgentTyped, Waiting
<1>4. PingsCounted' BY DEF EscalateBreach, IInv, PingsCounted, Stamping, Passed
<1>5. BreachHasReason' BY DEF EscalateBreach, IInv, RowsTyped, BreachHasReason, Passed
<1> QED BY <1>1, <1>2, <1>3, <1>4, <1>5 DEF IInv

LEMMA SweepEndInv == ASSUME MaxPings \in Nat, MaxSilent \in Nat, IInv, SweepEnd PROVE IInv'
<1>1. RowsTyped' BY DEF SweepEnd, IInv, RowsTyped
<1>2. SweepTyped' BY DEF SweepEnd, SweepTyped, Asleep, Places
<1>3. AgentTyped' BY DEF SweepEnd, IInv, AgentTyped, Waiting
<1>4. PingsCounted' BY DEF SweepEnd, IInv, RowsTyped, PingsCounted, Stamping, Row, Counts
<1>5. BreachHasReason' BY DEF SweepEnd, IInv, BreachHasReason, Asleep
<1> QED BY <1>1, <1>2, <1>3, <1>4, <1>5 DEF IInv

LEMMA KillSweepInv == ASSUME MaxPings \in Nat, MaxSilent \in Nat, IInv, KillSweep PROVE IInv'
<1>1. RowsTyped' BY DEF KillSweep, IInv, RowsTyped
<1>2. SweepTyped' BY DEF KillSweep, SweepTyped, Asleep, Places
<1>3. AgentTyped' BY DEF KillSweep, IInv, AgentTyped, Waiting
<1>4. PingsCounted'
  BY DEF KillSweep, IInv, RowsTyped, SweepTyped, AgentTyped, PingsCounted, Stamping, Asleep,
     Row, Counts
<1>5. BreachHasReason'
  BY DEF KillSweep, IInv, RowsTyped, SweepTyped, AgentTyped, BreachHasReason, Row, Counts,
     Counted, Exhausted, Passed, Asleep, Places, Breached
<1> QED BY <1>1, <1>2, <1>3, <1>4, <1>5 DEF IInv

LEMMA NextInv ==
  ASSUME MaxPings \in Nat, MaxSilent \in Nat
  PROVE  IInv /\ [FieldNext]_fieldVars => IInv'
<1> SUFFICES ASSUME IInv, [FieldNext]_fieldVars PROVE IInv' OBVIOUS
<1>1. CASE Sweeping
  BY <1>1, SweepBeginInv, StampPingInv, SweepBreachesInv, SweepEndInv, SkipInv, EscalateInv,
     PingInv, EscalateBreachInv DEF Sweeping
<1>2. CASE Worker BY <1>2, StampBriefInv, TakeBriefInv, ReplyInv, SetStatusInv DEF Worker, Apply
<1>3. CASE Dispatcher
  BY <1>3, PauseAIInv, LeaveInv, AssignInv, EscalateByHandInv, LateInv, SetStatusInv DEF Dispatcher
<1>4. CASE KillSweep BY <1>4, KillSweepInv
<1>5. CASE \E t \in Tickets : Due(t) BY <1>5, DueInv
<1>6. CASE UNCHANGED fieldVars
  BY <1>6 DEF fieldVars, IInv, RowsTyped, SweepTyped, AgentTyped, PingsCounted, BreachHasReason,
              Stamping
<1> QED BY <1>1, <1>2, <1>3, <1>4, <1>5, <1>6 DEF FieldNext

-----------------------------------------------------------------------------
(* The theorem                                                             *)

LEMMA Bounds == ASSUME MaxPings \in Nat, IInv PROVE FieldBounded
<1>1. PingsBounded
  <2> SUFFICES ASSUME NEW t \in Tickets PROVE tally[t].pinged <= MaxPings + kills BY DEF PingsBounded
  <2>1. ticket[t].pings \in 0..MaxPings /\ kills \in Nat /\ tally[t].pinged \in Nat
    BY DEF IInv, RowsTyped, Row, Counts
  <2>2. tally[t].pinged <= ticket[t].pings + Stamping(t) + kills BY DEF IInv, PingsCounted
  <2>3. CASE Stamping(t) = 0 BY <2>1, <2>2, <2>3
  <2>4. CASE Stamping(t) # 0
    <3>1. Stamping(t) = 1 /\ sweep.place = "stamp" /\ sweep.t = t BY <2>4 DEF Stamping
    <3>2. ticket[t].pings < MaxPings BY <3>1 DEF IInv, SweepTyped
    <3> QED BY <2>1, <2>2, <3>1, <3>2
  <2> QED BY <2>3, <2>4
<1>2. BreachOnce BY DEF IInv, RowsTyped, Counts, BreachHasReason, BreachOnce
<1> QED BY <1>1, <1>2 DEF FieldBounded

\* Whatever the operator, the technicians, the worker and killed sweeps do,
\* statuses changed unasked and technicians deleted under the sweep included:
\* no more pings than the maximum and one for each kill, one escalation of a
\* breach (sweep_field_pings).
THEOREM FieldWorkBounded ==
  ASSUME MaxPings \in Nat, MaxSilent \in Nat PROVE FieldSpec => []FieldBounded
<1>1. FieldInit => IInv BY InitInv
<1>2. IInv /\ [FieldNext]_fieldVars => IInv' BY NextInv
<1>3. IInv => FieldBounded BY Bounds
<1> QED BY <1>1, <1>2, <1>3, PTL DEF FieldSpec

-----------------------------------------------------------------------------
(* Leads and installations                                                 *)

OnLead == {"update", "quote", "operator_quote", "mark", "convert", "paid"}
OnInstall == {"install", "complete"}
Errands == {"idle", "intake", "agent", "raise"} \cup OnLead \cup OnInstall

\* What a request at a place has read fits the rows.
Fits(ls, is, place, n) ==
  /\ place \in Errands /\ DOMAIN n = {"id", "copy", "status"}
  /\ n.id \in 0..MaxLeads \cup 0..MaxInstalls
  /\ place \in OnLead \cup {"raise"} => n.id \in DOMAIN ls
  /\ place \in OnInstall => n.id \in DOMAIN is
  /\ place \in {"update", "mark"} => n.status \in L!LeadStatuses
  /\ place = "update" => n.copy \in L!Lead /\ n.copy.web = ls[n.id].web
  /\ place = "operator_quote" => n.copy.status \in L!LeadStatuses
  /\ place = "install" => /\ n.copy \in L!Install /\ n.copy.lead = is[n.id].lead
                          /\ n.status \in L!InstallStatuses
RowsFit(ls, ks, is) ==
  /\ ls \in Seq(L!Lead) /\ Len(ls) <= MaxLeads
  /\ ks \in Seq([lead : 1..MaxLeads, paid : BOOLEAN]) /\ Len(ks) <= MaxLinks
  /\ is \in Seq(L!Install) /\ Len(is) <= MaxInstalls
  /\ \A k \in DOMAIN ks : ks[k].lead \in DOMAIN ls
  /\ \A i \in DOMAIN is : is[i].lead \in DOMAIN ls
CrmTyped == /\ RowsFit(leads, links, installs)
            /\ errand \in [Clerks -> Errands] /\ DOMAIN note = Clerks
            /\ \A c \in Clerks : Fits(leads, installs, errand[c], note[c])

\* Rows are added; the form a lead came by and the lead of an order stay.
Grows(ls, ms, is, js) ==
  /\ DOMAIN ls \subseteq DOMAIN ms /\ \A l \in DOMAIN ls : ms[l].web = ls[l].web
  /\ DOMAIN is \subseteq DOMAIN js /\ \A i \in DOMAIN is : js[i].lead = is[i].lead

\* Request c moves; who waits elsewhere keeps what it has read.
LEMMA CrmKept ==
  ASSUME CrmTyped, NEW c \in Clerks, NEW place, NEW n, L!Go(c, place, n),
         RowsFit(leads', links', installs'), Grows(leads, leads', installs, installs'),
         Fits(leads', installs', place, n)
  PROVE  CrmTyped'
<1>1. /\ errand' = [errand EXCEPT ![c] = place] /\ note' = [note EXCEPT ![c] = n]
      /\ place \in Errands
  BY DEF L!Go, Fits
<1>2. errand \in [Clerks -> Errands] /\ DOMAIN note = Clerks BY DEF CrmTyped
<1>3. errand' \in [Clerks -> Errands] /\ DOMAIN note' = Clerks BY <1>1, <1>2
<1>4. ASSUME NEW d \in Clerks PROVE Fits(leads', installs', errand'[d], note'[d])
  <2>1. CASE d = c BY <1>1, <1>2, <2>1
  <2>2. CASE d # c
    <3>1. errand'[d] = errand[d] /\ note'[d] = note[d] BY <1>1, <1>2, <2>2
    <3>2. Fits(leads, installs, errand[d], note[d]) BY DEF CrmTyped
    <3> QED BY <3>1, <3>2 DEF Fits, Grows, OnLead, OnInstall
  <2> QED BY <2>1, <2>2
<1> QED BY <1>3, <1>4 DEF CrmTyped

\* One row of a table changes, or one is added.
LEMMA RowSet ==
  ASSUME NEW Set, NEW s \in Seq(Set), NEW i \in DOMAIN s, NEW r \in Set
  PROVE  /\ [s EXCEPT ![i] = r] \in Seq(Set) /\ Len([s EXCEPT ![i] = r]) = Len(s)
         /\ DOMAIN [s EXCEPT ![i] = r] = DOMAIN s
OBVIOUS

LEMMA RowAdded ==
  ASSUME NEW Set, NEW s \in Seq(Set), NEW r \in Set
  PROVE  /\ Append(s, r) \in Seq(Set) /\ Len(Append(s, r)) = Len(s) + 1
         /\ DOMAIN Append(s, r) = DOMAIN s \cup {Len(s) + 1} /\ Len(s) + 1 \notin DOMAIN s
         /\ \A i \in DOMAIN s : Append(s, r)[i] = s[i]
         /\ Append(s, r)[Len(s) + 1] = r
<1>1. /\ Append(s, r) \in Seq(Set) /\ Len(Append(s, r)) = Len(s) + 1 /\ Len(s) \in Nat
      /\ DOMAIN s = 1..Len(s) /\ \A i \in 1..Len(s) : Append(s, r)[i] = s[i]
      /\ Append(s, r)[Len(s) + 1] = r /\ DOMAIN Append(s, r) = 1..(Len(s) + 1)
  OBVIOUS
<1> QED BY <1>1

LEMMA RowRead == ASSUME NEW Set, NEW s \in Seq(Set), NEW i \in DOMAIN s PROVE s[i] \in Set
BY ElementOfSeq, LenProperties

\* The same table of leads with other columns, but for the web column.
LEMMA LeadSet ==
  ASSUME CrmTyped, NEW l \in DOMAIN leads, NEW r \in L!Lead, r.web = leads[l].web,
         leads' = [leads EXCEPT ![l] = r], UNCHANGED <<links, installs>>
  PROVE  RowsFit(leads', links', installs') /\ Grows(leads, leads', installs, installs')
         /\ DOMAIN leads' = DOMAIN leads
<1>1. RowsFit(leads, links, installs) BY DEF CrmTyped
<1>2. leads' \in Seq(L!Lead) /\ Len(leads') = Len(leads) /\ DOMAIN leads' = DOMAIN leads
  BY <1>1, RowSet DEF RowsFit
<1>3. \A m \in DOMAIN leads : leads'[m].web = leads[m].web OBVIOUS
<1> QED BY <1>1, <1>2, <1>3 DEF RowsFit, Grows

LEMMA LeadAdded ==
  ASSUME CrmTyped, NEW r \in L!Lead, Len(leads) < MaxLeads,
         leads' = Append(leads, r), UNCHANGED <<links, installs>>
  PROVE  RowsFit(leads', links', installs') /\ Grows(leads, leads', installs, installs')
<1>1. RowsFit(leads, links, installs) /\ MaxLeads \in Nat BY LeadsAssumption DEF CrmTyped
<1>2. /\ leads' \in Seq(L!Lead) /\ Len(leads') = Len(leads) + 1 /\ Len(leads) \in Nat
      /\ DOMAIN leads \subseteq DOMAIN leads' /\ \A l \in DOMAIN leads : leads'[l] = leads[l]
  BY <1>1, RowAdded DEF RowsFit
<1>3. Len(leads') <= MaxLeads BY <1>1, <1>2
<1> QED BY <1>1, <1>2, <1>3 DEF RowsFit, Grows

LEMMA InstallSet ==
  ASSUME CrmTyped, NEW i \in DOMAIN installs, NEW r \in L!Install, r.lead = installs[i].lead,
         installs' = [installs EXCEPT ![i] = r], UNCHANGED <<leads, links>>
  PROVE  RowsFit(leads', links', installs') /\ Grows(leads, leads', installs, installs')
         /\ DOMAIN installs' = DOMAIN installs
<1>1. RowsFit(leads, links, installs) BY DEF CrmTyped
<1>2. /\ installs' \in Seq(L!Install) /\ Len(installs') = Len(installs)
      /\ DOMAIN installs' = DOMAIN installs
  BY <1>1, RowSet DEF RowsFit
<1>3. \A m \in DOMAIN installs : installs'[m].lead = installs[m].lead OBVIOUS
<1> QED BY <1>1, <1>2, <1>3 DEF RowsFit, Grows

\* A request that starts or ends and writes nothing.
LEMMA NoWrite ==
  ASSUME CrmTyped, UNCHANGED <<leads, links, installs>>
  PROVE  RowsFit(leads', links', installs') /\ Grows(leads, leads', installs, installs')
BY DEF CrmTyped, Grows

LEMMA BlankFits ==
  ASSUME NEW ls, NEW is, NEW place \in {"idle", "intake", "agent"}
  PROVE  Fits(ls, is, place, L!Blank)
BY LeadsAssumption DEF Fits, L!Blank, Errands, OnLead, OnInstall

\* Requests apart: one on a lead, one on an installation, each with a current
\* copy; a lead is converted when it has its order, and an order activated
\* when it is done.
Alone(places) == \A c, d \in Clerks : errand[c] \in places /\ errand[d] \in places => c = d
Now(ls, is, place, n) ==
  /\ place \in {"update", "convert", "paid"} => n.copy.converted = ls[n.id].converted
  /\ place = "install" => n.copy.done = is[n.id].done
  /\ place = "complete" => ~is[n.id].done
OneOrder(ls, is) ==
  /\ \A i \in DOMAIN is : ls[is[i].lead].converted
  /\ \A i, j \in DOMAIN is : is[i].lead = is[j].lead => i = j
  /\ \A l \in DOMAIN ls : ls[l].converted => \E i \in DOMAIN is : is[i].lead = l
Activated(is) == \A i \in DOMAIN is : is[i].active = IF is[i].done THEN 1 ELSE 0
ApartInv ==
  /\ Alone(OnLead) /\ Alone(OnInstall) /\ \A c \in Clerks : errand[c] \notin {"intake", "agent"}
  /\ \A c \in Clerks : Now(leads, installs, errand[c], note[c])
  /\ OneOrder(leads, installs) /\ Activated(installs)

\* Forms one after the other: who checked found no fresh lead of the form.
WebFresh(ls) == {l \in DOMAIN ls : ls[l].web /\ ls[l].fresh}
FormsInv ==
  /\ Alone({"intake"}) /\ \A c \in Clerks : errand[c] = "intake" => WebFresh(leads) = {}
  /\ \A l, m \in WebFresh(leads) : l = m

CrmInv == /\ CrmTyped /\ (scene = "apart" => ApartInv) /\ (scene = "forms" => FormsInv)

\* What a step of request c may do in these scenes.
ApartStep(c, place, n) ==
  /\ place \notin {"intake", "agent"}
  /\ place \in OnLead => errand[c] \in OnLead \/ \A d \in Clerks : errand[d] \notin OnLead
  /\ place \in OnInstall => errand[c] \in OnInstall \/ \A d \in Clerks : errand[d] \notin OnInstall
  /\ errand[c] \in OnLead \/ \A l \in DOMAIN leads : leads'[l].converted = leads[l].converted
  /\ errand[c] \in OnInstall \/ \A i \in DOMAIN installs : installs'[i].done = installs[i].done
  /\ Now(leads', installs', place, n)
  /\ OneOrder(leads', installs') /\ Activated(installs')
FormsStep(c, place) ==
  /\ place = "intake" => WebFresh(leads') = {} /\ \A d \in Clerks : errand[d] # "intake"
  /\ \/ WebFresh(leads') \subseteq WebFresh(leads)
     \/ errand[c] = "intake" /\ WebFresh(leads') \subseteq WebFresh(leads) \cup {Len(leads) + 1}

LEMMA CrmMoves ==
  ASSUME CrmInv, scene' = scene, NEW c \in Clerks, NEW place, NEW n, L!Go(c, place, n),
         RowsFit(leads', links', installs'), Grows(leads, leads', installs, installs'),
         Fits(leads', installs', place, n),
         scene = "apart" => ApartStep(c, place, n), scene = "forms" => FormsStep(c, place)
  PROVE  CrmInv'
<1>0. CrmTyped BY DEF CrmInv
<1>1. CrmTyped' BY <1>0, CrmKept
<1>2. /\ errand'[c] = place /\ note'[c] = n
      /\ \A d \in Clerks \ {c} : errand'[d] = errand[d] /\ note'[d] = note[d]
  BY <1>0 DEF L!Go, CrmTyped
<1>3. ASSUME scene = "apart" PROVE ApartInv'
  <2>0. ApartInv /\ ApartStep(c, place, n) BY <1>3 DEF CrmInv
  <2>1. Alone(OnLead)' BY <1>2, <2>0 DEF Alone, ApartInv, ApartStep
  <2>2. Alone(OnInstall)' BY <1>2, <2>0 DEF Alone, ApartInv, ApartStep
  <2>3. \A d \in Clerks : errand'[d] \notin {"intake", "agent"}
    BY <1>2, <2>0 DEF ApartInv, ApartStep
  <2>4. ASSUME NEW d \in Clerks PROVE Now(leads', installs', errand'[d], note'[d])
    <3>1. CASE d = c BY <1>2, <2>0, <3>1 DEF ApartStep
    <3>2. CASE d # c
      <4>1. errand'[d] = errand[d] /\ note'[d] = note[d] BY <1>2, <3>2
      <4>2. Now(leads, installs, errand[d], note[d]) BY <2>0 DEF ApartInv
      <4>3. Fits(leads, installs, errand[d], note[d]) BY <1>0 DEF CrmTyped
      <4>4. errand[d] \in OnLead =>
              note[d].id \in DOMAIN leads /\ leads'[note[d].id].converted = leads[note[d].id].converted
        BY <2>0, <3>2, <4>3 DEF ApartInv, ApartStep, Alone, Fits
      <4>5. errand[d] \in OnInstall =>
              note[d].id \in DOMAIN installs /\ installs'[note[d].id].done = installs[note[d].id].done
        BY <2>0, <3>2, <4>3 DEF ApartInv, ApartStep, Alone, Fits
      <4> QED BY <4>1, <4>2, <4>4, <4>5 DEF Now, OnLead, OnInstall
    <3> QED BY <3>1, <3>2
  <2> QED BY <2>0, <2>1, <2>2, <2>3, <2>4 DEF ApartInv, ApartStep
<1>4. ASSUME scene = "forms" PROVE FormsInv'
  <2>0. FormsInv /\ FormsStep(c, place) BY <1>4 DEF CrmInv
  <2>1. Alone({"intake"})' BY <1>2, <2>0 DEF Alone, FormsInv, FormsStep
  <2>2. ASSUME NEW d \in Clerks, errand'[d] = "intake" PROVE WebFresh(leads') = {}
    <3>1. CASE d = c BY <1>2, <2>0, <2>2, <3>1 DEF FormsStep
    <3>2. CASE d # c
      <4>1. errand[d] = "intake" /\ errand[c] # "intake"
        BY <1>2, <2>0, <2>2, <3>2 DEF FormsInv, Alone
      <4> QED BY <2>0, <4>1 DEF FormsInv, FormsStep
    <3> QED BY <3>1, <3>2
  <2>3. ASSUME NEW l \in WebFresh(leads'), NEW m \in WebFresh(leads') PROVE l = m
    <3>1. CASE WebFresh(leads') \subseteq WebFresh(leads) BY <2>0, <2>3, <3>1 DEF FormsInv
    <3>2. CASE errand[c] = "intake" /\ WebFresh(leads') \subseteq WebFresh(leads) \cup {Len(leads) + 1}
      <4>1. WebFresh(leads) = {} BY <2>0, <3>2 DEF FormsInv
      <4> QED BY <2>3, <3>2, <4>1
    <3> QED BY <2>0, <3>1, <3>2 DEF FormsStep
  <2> QED BY <2>1, <2>2, <2>3 DEF FormsInv
<1> QED BY <1>1, <1>3, <1>4 DEF CrmInv

\* The tables stay, and so does what the scenes say of them.
LEMMA OrdersStay ==
  ASSUME CrmTyped, DOMAIN leads' = DOMAIN leads, UNCHANGED installs, ApartInv,
         \A l \in DOMAIN leads : leads'[l].converted = leads[l].converted
  PROVE  OneOrder(leads', installs') /\ Activated(installs')
BY DEF CrmTyped, RowsFit, ApartInv, OneOrder, Activated

\* A request that starts on a lead nobody works on, or ends, and writes nothing.
LEMMA CrmIdle ==
  ASSUME CrmInv, scene' = scene, NEW c \in Clerks, NEW place, NEW n, L!Go(c, place, n),
         UNCHANGED <<leads, installs>>, RowsFit(leads, links', installs),
         Fits(leads, installs, place, n),
         scene = "apart" =>
           /\ place \notin {"intake", "agent"} /\ Now(leads, installs, place, n)
           /\ place \in OnLead => errand[c] \in OnLead \/ \A d \in Clerks : errand[d] \notin OnLead
           /\ place \in OnInstall => \A d \in Clerks : errand[d] \notin OnInstall,
         place = "intake" /\ scene = "forms" =>
           WebFresh(leads) = {} /\ \A d \in Clerks : errand[d] # "intake"
  PROVE  CrmInv'
<1>1. Grows(leads, leads', installs, installs') BY DEF Grows
<1>2. RowsFit(leads', links', installs') /\ Fits(leads', installs', place, n) OBVIOUS
<1>3. scene = "apart" => ApartStep(c, place, n)
  BY DEF CrmInv, ApartInv, ApartStep
<1>4. scene = "forms" => FormsStep(c, place) BY DEF FormsStep
<1> QED BY <1>1, <1>2, <1>3, <1>4, CrmMoves

-----------------------------------------------------------------------------
(* The requests                                                            *)

\* What the guards of the scenes say.
LEMMA OffLeadFree ==
  ASSUME OffLead, NEW d \in Clerks PROVE errand[d] \notin OnLead \cup {"intake"}
BY DEF OffLead, NotIn, OnLead

LEMMA IntakeKeeps ==
  ASSUME CrmInv, scene' = scene, NEW c \in Clerks, L!Intake(c), scene = "forms", OffLead
  PROVE  CrmInv'
<1>1. WebFresh(leads) = {} BY DEF L!Intake, L!Duplicate, WebFresh
<1>2. \A d \in Clerks : errand[d] # "intake" BY OffLeadFree
<1>3. Fits(leads, installs, "intake", L!Blank) BY BlankFits
<1>4. L!Go(c, "intake", L!Blank) /\ UNCHANGED <<leads, links, installs>> BY DEF L!Intake
<1>5. RowsFit(leads, links', installs) BY <1>4 DEF CrmInv, CrmTyped
<1> QED BY <1>1, <1>2, <1>3, <1>4, <1>5, CrmIdle

LEMMA AgentLeadKeeps ==
  ASSUME CrmInv, scene' = scene, NEW c \in Clerks, L!AgentLead(c), scene = "forms"
  PROVE  CrmInv'
<1>3. Fits(leads, installs, "agent", L!Blank) BY BlankFits
<1>4. L!Go(c, "agent", L!Blank) /\ UNCHANGED <<leads, links, installs>> BY DEF L!AgentLead
<1>5. RowsFit(leads, links', installs) BY <1>4 DEF CrmInv, CrmTyped
<1> QED BY <1>3, <1>4, <1>5, CrmIdle

LEMMA CreatesKeep ==
  ASSUME CrmInv, scene' = scene, NEW c \in Clerks, L!IntakeCreate(c) \/ L!AgentCreate(c)
  PROVE  CrmInv'
<1> DEFINE r == L!Row("new", errand[c] = "intake")
<1>0. CrmTyped BY DEF CrmInv
<1>1. r \in L!Lead /\ r.web = (errand[c] = "intake") BY DEF L!Row, L!Lead, L!LeadStatuses
<1>2. /\ errand[c] \in {"intake", "agent"} /\ Len(leads) < MaxLeads
      /\ leads' = Append(leads, r) /\ UNCHANGED <<links, installs>>
      /\ L!Go(c, "idle", L!Blank)
  BY DEF L!IntakeCreate, L!AgentCreate, L!Finish
<1> HIDE DEF r
<1>3. RowsFit(leads', links', installs') /\ Grows(leads, leads', installs, installs')
  BY <1>0, <1>1, <1>2, LeadAdded
<1>4. Fits(leads', installs', "idle", L!Blank) BY BlankFits
<1>5. scene # "apart" BY <1>2 DEF CrmInv, ApartInv
<1>6. FormsStep(c, "idle")
  <2>1. /\ DOMAIN leads' = DOMAIN leads \cup {Len(leads) + 1}
        /\ \A l \in DOMAIN leads : leads'[l] = leads[l] /\ leads'[Len(leads) + 1] = r
    BY <1>0, <1>1, <1>2, RowAdded DEF CrmTyped, RowsFit
  <2>2. WebFresh(leads') \subseteq WebFresh(leads) \cup {Len(leads) + 1}
    BY <2>1 DEF WebFresh
  <2>3. CASE errand[c] = "intake" BY <2>2, <2>3 DEF FormsStep
  <2>4. CASE errand[c] # "intake"
    <3>1. leads'[Len(leads) + 1].web = FALSE
      <4>1. CASE DOMAIN leads = {}
        <5>1. leads'[Len(leads) + 1] = r BY <1>0, <1>1, <1>2, RowAdded DEF CrmTyped, RowsFit
        <5> QED BY <1>1, <2>4, <5>1
      <4>2. CASE DOMAIN leads # {} BY <1>1, <2>1, <2>4, <4>2
      <4> QED BY <4>1, <4>2
    <3>2. WebFresh(leads') \subseteq WebFresh(leads) BY <2>1, <2>2, <3>1 DEF WebFresh
    <3> QED BY <3>2 DEF FormsStep
  <2> QED BY <2>3, <2>4
<1> QED BY <1>2, <1>3, <1>4, <1>5, <1>6, CrmMoves

LEMMA DayKeeps == ASSUME CrmInv, scene' = scene, L!Day, scene = "forms" PROVE CrmInv'
<1>0. CrmTyped /\ FormsInv BY DEF CrmInv
<1>1. /\ leads' = [l \in DOMAIN leads |-> [leads[l] EXCEPT !.fresh = FALSE]]
      /\ UNCHANGED <<links, installs, errand, note>>
  BY DEF L!Day
<1>2. leads \in Seq(L!Lead) /\ \A l \in DOMAIN leads : leads[l] \in L!Lead
  BY <1>0, RowRead DEF CrmTyped, RowsFit
<1>3. \A l \in DOMAIN leads : /\ [leads[l] EXCEPT !.fresh = FALSE] \in L!Lead
                              /\ [leads[l] EXCEPT !.fresh = FALSE].web = leads[l].web
                              /\ [leads[l] EXCEPT !.fresh = FALSE].fresh = FALSE
  BY <1>2 DEF L!Lead
<1>4. /\ leads' \in Seq(L!Lead) /\ Len(leads') = Len(leads) /\ DOMAIN leads' = DOMAIN leads
      /\ \A l \in DOMAIN leads : leads'[l].web = leads[l].web /\ leads'[l].fresh = FALSE
  <2>1. leads' \in [DOMAIN leads -> L!Lead] BY <1>1, <1>3
  <2>2. DOMAIN leads = 1..Len(leads) /\ Len(leads) \in Nat BY <1>2
  <2>3. leads' \in Seq(L!Lead) /\ Len(leads') = Len(leads) BY <2>1, <2>2
  <2>4. \A l \in DOMAIN leads : leads'[l].web = leads[l].web /\ leads'[l].fresh = FALSE
    BY <1>1, <1>3
  <2> QED BY <2>1, <2>3, <2>4
<1>5. RowsFit(leads', links', installs') BY <1>0, <1>1, <1>4 DEF CrmTyped, RowsFit
<1>6. ASSUME NEW d \in Clerks PROVE Fits(leads', installs', errand'[d], note'[d])
  <2>1. Fits(leads, installs, errand[d], note[d]) BY <1>0 DEF CrmTyped
  <2> QED BY <1>1, <1>4, <2>1 DEF Fits, OnLead
<1>7. CrmTyped' BY <1>0, <1>1, <1>5, <1>6 DEF CrmTyped
<1>8. WebFresh(leads') = {} BY <1>4 DEF WebFresh
<1>9. FormsInv' BY <1>0, <1>1, <1>8 DEF FormsInv, Alone
<1> QED BY <1>7, <1>9 DEF CrmInv

\* A lead typed in by staff, the first of the scene.
LEMMA LeadCreateKeeps ==
  ASSUME CrmInv, scene' = scene, NEW s \in LeadPosts, L!LeadCreate(s), leads = <<>>
  PROVE  CrmInv'
<1> DEFINE r == L!Row(s, FALSE)
<1>0. CrmTyped BY DEF CrmInv
<1>1. r \in L!Lead /\ r.web = FALSE /\ r.converted = FALSE
  BY LeadsAssumption DEF L!Row, L!Lead, L!LeadStatuses
<1>2. /\ Len(leads) < MaxLeads /\ leads' = Append(leads, r)
      /\ UNCHANGED <<links, installs, errand, note>>
  BY DEF L!LeadCreate
<1> HIDE DEF r
<1>3. RowsFit(leads', links', installs') /\ Grows(leads, leads', installs, installs')
  BY <1>0, <1>1, <1>2, LeadAdded
<1>4. ASSUME NEW d \in Clerks PROVE Fits(leads', installs', errand'[d], note'[d])
  <2>1. Fits(leads, installs, errand[d], note[d]) BY <1>0 DEF CrmTyped
  <2> QED BY <1>2, <1>3, <2>1 DEF Fits, Grows, OnLead, OnInstall
<1>5. CrmTyped' BY <1>0, <1>2, <1>3, <1>4 DEF CrmTyped
<1>6. DOMAIN leads = {} /\ Len(leads) = 0 OBVIOUS
<1>7. DOMAIN leads' = {1} /\ leads'[1] = r
  BY <1>0, <1>1, <1>2, <1>6, RowAdded DEF CrmTyped, RowsFit
<1>8. DOMAIN installs = {} BY <1>0, <1>6 DEF CrmTyped, RowsFit
<1>9. WebFresh(leads') = {} BY <1>1, <1>7 DEF WebFresh
<1>10. ASSUME scene = "forms" PROVE FormsInv'
  BY <1>2, <1>9, <1>10 DEF CrmInv, FormsInv, Alone
<1>11. ASSUME scene = "apart" PROVE ApartInv'
  <2>1. ApartInv BY <1>11 DEF CrmInv
  <2>2. OneOrder(leads', installs') /\ Activated(installs')
    BY <1>1, <1>2, <1>7, <1>8 DEF OneOrder, Activated
  <2>3. ASSUME NEW d \in Clerks PROVE Now(leads', installs', errand'[d], note'[d])
    <3>1. Fits(leads, installs, errand[d], note[d]) /\ Now(leads, installs, errand[d], note[d])
      BY <1>0, <2>1 DEF CrmTyped, ApartInv
    <3> QED BY <1>2, <1>6, <3>1 DEF Fits, Now, OnLead
  <2> QED BY <1>2, <2>1, <2>2, <2>3 DEF ApartInv, Alone
<1> QED BY <1>5, <1>10, <1>11 DEF CrmInv

\* What a request has read, field by field.
LEMMA NoteSet ==
  ASSUME NEW b, DOMAIN b = {"id", "copy", "status"}, NEW i, NEW y, NEW s
  PROVE  /\ DOMAIN [b EXCEPT !.id = i, !.copy = y] = {"id", "copy", "status"}
         /\ [b EXCEPT !.id = i, !.copy = y].id = i /\ [b EXCEPT !.id = i, !.copy = y].copy = y
         /\ DOMAIN [b EXCEPT !.copy = y, !.status = s] = {"id", "copy", "status"}
         /\ [b EXCEPT !.copy = y, !.status = s].id = b.id
         /\ [b EXCEPT !.copy = y, !.status = s].status = s
         /\ DOMAIN [b EXCEPT !.id = i, !.copy = y, !.status = s] = {"id", "copy", "status"}
         /\ [b EXCEPT !.id = i, !.copy = y, !.status = s].id = i
         /\ [b EXCEPT !.id = i, !.copy = y, !.status = s].copy = y
         /\ [b EXCEPT !.id = i, !.copy = y, !.status = s].status = s
OBVIOUS

LEMMA BlankShape == DOMAIN L!Blank = {"id", "copy", "status"} BY DEF L!Blank

\* A request loads a lead nobody works on.
LEMMA FetchKeeps ==
  ASSUME CrmInv, scene' = scene, OffLead, NEW c \in Clerks, NEW l \in DOMAIN leads,
         NEW what \in {"update", "quote", "operator_quote", "convert", "mark"},
         NEW s \in L!LeadStatuses, L!FetchLead(c, l, what, s)
  PROVE  CrmInv'
<1> DEFINE n == [id |-> l, copy |-> L!Read(what, l), status |-> s]
<1>1. CrmTyped /\ leads[l] \in L!Lead BY RowRead DEF CrmInv, CrmTyped, RowsFit
<1>2. L!Go(c, what, n) /\ UNCHANGED <<leads, links, installs>> BY DEF L!FetchLead
<1>3. l \in 0..MaxLeads /\ RowsFit(leads, links', installs)
  <2>1. /\ leads \in Seq(L!Lead) /\ Len(leads) <= MaxLeads /\ MaxLeads \in Nat
        /\ RowsFit(leads, links, installs)
    BY <1>1, LeadsAssumption DEF CrmTyped, RowsFit
  <2>2. l \in 1..Len(leads) /\ Len(leads) \in Nat BY <2>1
  <2> QED BY <1>2, <2>1, <2>2
<1>4. n.id = l /\ n.status = s /\ n.copy = L!Read(what, l) OBVIOUS
<1>5. /\ what = "update" => n.copy = leads[l]
      /\ what = "operator_quote" => n.copy.status = leads[l].status
      /\ what = "convert" => n.copy.converted = leads[l].converted
  BY DEF L!Read
<1>6. leads[l].status \in L!LeadStatuses BY <1>1 DEF L!Lead
<1>7. DOMAIN n = {"id", "copy", "status"} OBVIOUS
<1> HIDE DEF n
<1>8. Fits(leads, installs, what, n)
  BY <1>1, <1>3, <1>4, <1>5, <1>6, <1>7 DEF Fits, Errands, OnLead, OnInstall
<1>9. Now(leads, installs, what, n) BY <1>4, <1>5 DEF Now
<1>10. \A d \in Clerks : errand[d] \notin OnLead BY OffLeadFree
<1> QED BY <1>2, <1>3, <1>8, <1>9, <1>10, CrmIdle DEF OnInstall

\* The webhook of a payment link loads its lead.
LEMMA PayLinkKeeps ==
  ASSUME CrmInv, scene' = scene, OffLead, NEW c \in Clerks, NEW k \in DOMAIN links,
         L!PayLink(c, k)
  PROVE  CrmInv'
<1> DEFINE l == links[k].lead
           n == [L!Blank EXCEPT !.id = l, !.copy = L!Read("paid", l)]
           r == [links[k] EXCEPT !.paid = TRUE]
           Link == [lead : 1..MaxLeads, paid : BOOLEAN]
<1>0. CrmTyped BY DEF CrmInv
<1>1. /\ links \in Seq(Link) /\ Len(links) <= MaxLinks /\ \A j \in DOMAIN links : links[j].lead \in DOMAIN leads
      /\ links[k] \in Link
  BY <1>0, RowRead DEF CrmTyped, RowsFit
<1>2. r \in Link /\ r.lead = links[k].lead /\ links' = [links EXCEPT ![k] = r]
  BY <1>1 DEF L!PayLink
<1>3. L!Go(c, "paid", n) /\ UNCHANGED <<leads, installs>> BY DEF L!PayLink
<1>4. /\ DOMAIN n = {"id", "copy", "status"}
      /\ n.id = l /\ n.copy.converted = leads[l].converted
  <2> DEFINE y == L!Read("paid", l)
  <2>1. y.converted = leads[l].converted BY DEF L!Read
  <2>2. DOMAIN n = {"id", "copy", "status"} /\ n.id = l /\ n.copy = y BY BlankShape, NoteSet
  <2> HIDE DEF y, n
  <2> QED BY <2>1, <2>2
<1>5. l \in DOMAIN leads /\ l \in 0..MaxLeads BY <1>1, LeadsAssumption
<1> HIDE DEF n, r, l, Link
<1>6. /\ links' \in Seq(Link) /\ Len(links') = Len(links) /\ DOMAIN links' = DOMAIN links
      /\ \A j \in DOMAIN links : links'[j].lead = links[j].lead
  BY <1>1, <1>2, RowSet
<1>7. RowsFit(leads, links', installs) BY <1>0, <1>1, <1>6 DEF CrmTyped, RowsFit, Link
<1>8. Fits(leads, installs, "paid", n)
  BY <1>4, <1>5 DEF Fits, Errands, OnLead, OnInstall
<1>9. Now(leads, installs, "paid", n) BY <1>4 DEF Now
<1>10. \A d \in Clerks : errand[d] \notin OnLead BY OffLeadFree
<1> QED BY <1>3, <1>7, <1>8, <1>9, <1>10, CrmIdle DEF OnInstall

\* A request loads an installation nobody works on.
LEMMA AskInstallKeeps ==
  ASSUME CrmInv, scene' = scene, NotIn({"install", "complete"}), NEW c \in Clerks,
         NEW i \in DOMAIN installs, NEW s \in InstallPosts, L!FetchInstall(c, i, s)
  PROVE  CrmInv'
<1> DEFINE copy == [installs[i] EXCEPT !.ticket = "none", !.active = 0]
           n == [L!Blank EXCEPT !.id = i, !.copy = copy, !.status = s]
<1>0. CrmTyped BY DEF CrmInv
<1>1. installs \in Seq(L!Install) /\ Len(installs) <= MaxInstalls /\ installs[i] \in L!Install
  BY <1>0, RowRead DEF CrmTyped, RowsFit
<1>2. copy \in L!Install /\ copy.lead = installs[i].lead /\ copy.done = installs[i].done
  BY <1>1 DEF L!Install
<1>3. L!Go(c, "install", n) /\ UNCHANGED <<leads, links, installs>> BY DEF L!FetchInstall
<1>4. DOMAIN n = {"id", "copy", "status"} /\ n.id = i /\ n.copy = copy /\ n.status = s
  <2> HIDE DEF copy
  <2> QED BY BlankShape, NoteSet
<1>6. i \in 0..MaxInstalls
  <2>1. i \in 1..Len(installs) /\ Len(installs) \in Nat /\ MaxInstalls \in Nat
    BY <1>1, LeadsAssumption
  <2> QED BY <1>1, <2>1
<1> HIDE DEF n, copy
<1>7. s \in L!InstallStatuses BY LeadsAssumption
<1>9. Fits(leads, installs, "install", n)
  BY <1>2, <1>4, <1>6, <1>7 DEF Fits, Errands, OnLead, OnInstall
<1>10. Now(leads, installs, "install", n) BY <1>2, <1>4 DEF Now
<1>11. \A d \in Clerks : errand[d] \notin OnInstall BY DEF NotIn, OnInstall
<1>12. RowsFit(leads, links', installs) BY <1>0, <1>3 DEF CrmTyped
<1> QED BY <1>3, <1>9, <1>10, <1>11, <1>12, CrmIdle DEF OnLead

\* The write of one column, or of all of the copy.
LEMMA LeadWritten ==
  ASSUME CrmInv, scene' = scene, NEW c \in Clerks, errand[c] \in OnLead,
         NEW r \in L!Lead, r.web = leads[note[c].id].web,
         r.fresh = leads[note[c].id].fresh,
         scene = "apart" => r.converted = leads[note[c].id].converted,
         leads' = [leads EXCEPT ![note[c].id] = r], UNCHANGED <<links, installs>>,
         L!Go(c, "idle", L!Blank)
  PROVE  CrmInv'
<1> DEFINE l == note[c].id
<1>0. CrmTyped /\ Fits(leads, installs, errand[c], note[c]) BY DEF CrmInv, CrmTyped
<1>1. l \in DOMAIN leads BY <1>0 DEF Fits
<1>2. /\ RowsFit(leads', links', installs') /\ Grows(leads, leads', installs, installs')
      /\ DOMAIN leads' = DOMAIN leads
  BY <1>0, <1>1, LeadSet
<1>3. Fits(leads', installs', "idle", L!Blank) BY BlankFits
<1>4. ASSUME scene = "apart" PROVE ApartStep(c, "idle", L!Blank)
  <2>1. ApartInv BY <1>4 DEF CrmInv
  <2>2. \A m \in DOMAIN leads : leads'[m].converted = leads[m].converted BY <1>1, <1>4
  <2>3. OneOrder(leads', installs') /\ Activated(installs')
    BY <1>0, <1>2, <2>1, <2>2, OrdersStay
  <2> QED BY <2>2, <2>3 DEF ApartStep, Now, OnLead, OnInstall
<1>5. FormsStep(c, "idle")
  <2>1. \A m \in DOMAIN leads : leads'[m].web = leads[m].web /\ leads'[m].fresh = leads[m].fresh
    BY <1>1
  <2>2. WebFresh(leads') \subseteq WebFresh(leads) BY <1>2, <2>1 DEF WebFresh
  <2> QED BY <2>2 DEF FormsStep
<1> QED BY <1>2, <1>3, <1>4, <1>5, CrmMoves

LEMMA MarkKeeps == ASSUME CrmInv, scene' = scene, NEW c \in Clerks, L!MarkLead(c) PROVE CrmInv'
<1> DEFINE l == note[c].id
           r == [leads[l] EXCEPT !.status = note[c].status]
<1>1. CrmTyped /\ Fits(leads, installs, errand[c], note[c]) BY DEF CrmInv, CrmTyped
<1>2. errand[c] = "mark" /\ l \in DOMAIN leads /\ note[c].status \in L!LeadStatuses
  BY <1>1 DEF Fits, L!MarkLead, OnLead
<1>3. leads[l] \in L!Lead BY <1>1, <1>2, RowRead DEF CrmTyped, RowsFit
<1>4. /\ r \in L!Lead /\ r.web = leads[l].web /\ r.fresh = leads[l].fresh
      /\ r.converted = leads[l].converted
  BY <1>2, <1>3 DEF L!Lead
<1>5. /\ leads' = [leads EXCEPT ![l] = r] /\ UNCHANGED <<links, installs>>
      /\ L!Go(c, "idle", L!Blank)
  BY DEF L!MarkLead, L!Finish
<1> HIDE DEF r
<1> QED BY <1>2, <1>4, <1>5, LeadWritten DEF OnLead

LEMMA UpdateKeeps ==
  ASSUME CrmInv, scene' = scene, NEW c \in Clerks, NEW plan \in BOOLEAN, L!LeadUpdate(c, plan)
  PROVE  CrmInv'
<1> DEFINE l == note[c].id
           r == [note[c].copy EXCEPT !.status = note[c].status, !.plan = plan,
                                     !.fresh = leads[l].fresh]
<1>1. CrmTyped /\ Fits(leads, installs, errand[c], note[c]) BY DEF CrmInv, CrmTyped
<1>2. /\ errand[c] = "update" /\ l \in DOMAIN leads /\ note[c].status \in L!LeadStatuses
      /\ note[c].copy \in L!Lead /\ note[c].copy.web = leads[l].web
  BY <1>1 DEF Fits, L!LeadUpdate, OnLead
<1>3. leads[l] \in L!Lead BY <1>1, <1>2, RowRead DEF CrmTyped, RowsFit
<1>4. /\ r \in L!Lead /\ r.web = leads[l].web /\ r.fresh = leads[l].fresh
      /\ r.converted = note[c].copy.converted
  BY <1>2, <1>3 DEF L!Lead
<1>5. /\ leads' = [leads EXCEPT ![l] = r] /\ UNCHANGED <<links, installs>>
      /\ L!Go(c, "idle", L!Blank)
  BY DEF L!LeadUpdate, L!Finish
<1>6. scene = "apart" => note[c].copy.converted = leads[l].converted
  BY <1>2 DEF CrmInv, ApartInv, Now
<1> HIDE DEF r
<1> QED BY <1>2, <1>4, <1>5, <1>6, LeadWritten DEF OnLead

LEMMA QuoteKeeps ==
  ASSUME CrmInv, scene' = scene, NEW c \in Clerks, NEW ok \in BOOLEAN, L!Quote(c, ok)
  PROVE  CrmInv'
<1> DEFINE l == note[c].id
           s == L!Quoted(note[c].copy, errand[c])
           n == [note[c] EXCEPT !.copy = <<>>, !.status = s]
           y == [lead |-> l, paid |-> FALSE]
           Link == [lead : 1..MaxLeads, paid : BOOLEAN]
<1>1. CrmTyped /\ Fits(leads, installs, errand[c], note[c]) BY DEF CrmInv, CrmTyped
<1>2. /\ errand[c] \in {"quote", "operator_quote"} /\ UNCHANGED <<leads, installs>>
      /\ errand[c] \in OnLead
  BY DEF L!Quote, OnLead
<1>3. CASE ~ok
  <2>1. L!Go(c, "idle", L!Blank) /\ UNCHANGED links BY <1>3 DEF L!Quote, L!Finish
  <2>2. Fits(leads, installs, "idle", L!Blank) BY BlankFits
  <2>3. RowsFit(leads, links', installs) BY <1>1, <2>1 DEF CrmTyped
  <2> QED BY <1>2, <2>1, <2>2, <2>3, CrmIdle DEF Now, OnLead, OnInstall
<1>4. CASE ok
  <2>1. /\ Len(links) < MaxLinks /\ links' = Append(links, y) /\ L!Go(c, "mark", n)
    BY <1>4 DEF L!Quote
  <2>2. l \in DOMAIN leads /\ l \in 1..MaxLeads
    <3>1. l \in DOMAIN leads BY <1>1, <1>2 DEF Fits
    <3>2. leads \in Seq(L!Lead) /\ Len(leads) <= MaxLeads /\ MaxLeads \in Nat
      BY <1>1, LeadsAssumption DEF CrmTyped, RowsFit
    <3> QED BY <3>1, <3>2
  <2>3. s \in L!LeadStatuses
    BY <1>1, <1>2 DEF Fits, L!Quoted, L!LeadStatuses
  <2>4. DOMAIN n = {"id", "copy", "status"} /\ n.id = l /\ n.status = s
    <3> HIDE DEF s
    <3>1. DOMAIN note[c] = {"id", "copy", "status"} BY <1>1 DEF Fits
    <3> QED BY <3>1, NoteSet
  <2>5. y \in Link /\ y.lead = l BY <2>2
  <2>6. links \in Seq(Link) /\ MaxLinks \in Nat BY <1>1, LeadsAssumption DEF CrmTyped, RowsFit
  <2> HIDE DEF n, y, s, Link
  <2>7. /\ links' \in Seq(Link) /\ Len(links') = Len(links) + 1 /\ Len(links) \in Nat
        /\ \A k \in DOMAIN links' : links'[k] = y \/ (k \in DOMAIN links /\ links'[k] = links[k])
    <3>1. links \in Seq(Link) /\ y \in Link BY <2>5, <2>6
    <3>2. /\ Append(links, y) \in Seq(Link) /\ Len(Append(links, y)) = Len(links) + 1
          /\ DOMAIN Append(links, y) = DOMAIN links \cup {Len(links) + 1}
          /\ \A k \in DOMAIN links : Append(links, y)[k] = links[k]
          /\ Append(links, y)[Len(links) + 1] = y
      BY <3>1, RowAdded
    <3>3. Len(links) \in Nat BY <2>6, LenProperties
    <3> QED BY <2>1, <3>2, <3>3
  <2>8. RowsFit(leads, links', installs)
    BY <1>1, <2>1, <2>2, <2>5, <2>6, <2>7 DEF CrmTyped, RowsFit, Link
  <2>9. Fits(leads, installs, "mark", n)
    BY <2>2, <2>3, <2>4 DEF Fits, Errands, OnLead, OnInstall
  <2>10. Now(leads, installs, "mark", n) BY DEF Now
  <2> QED BY <1>2, <2>1, <2>8, <2>9, <2>10, CrmIdle DEF OnInstall
<1> QED BY <1>3, <1>4

\* A step of an installation's row that is not an activation.
LEMMA InstallWritten ==
  ASSUME CrmInv, scene' = scene, NEW c \in Clerks, NEW i \in DOMAIN installs,
         NEW r \in L!Install, r.lead = installs[i].lead, r.active = installs[i].active,
         scene = "apart" => r.done = installs[i].done,
         installs' = [installs EXCEPT ![i] = r], UNCHANGED <<leads, links>>,
         NEW place \in {"idle", "complete"}, NEW n, L!Go(c, place, n),
         Fits(leads, installs', place, n),
         scene = "apart" /\ place = "complete" => errand[c] \in OnInstall /\ ~r.done /\ n.id = i
  PROVE  CrmInv'
<1>0. CrmTyped BY DEF CrmInv
<1>1. /\ RowsFit(leads', links', installs') /\ Grows(leads, leads', installs, installs')
      /\ DOMAIN installs' = DOMAIN installs
  BY <1>0, InstallSet
<1>2. Fits(leads', installs', place, n) OBVIOUS
<1>3. ASSUME scene = "apart" PROVE ApartStep(c, place, n)
  <2>1. ApartInv BY <1>3 DEF CrmInv
  <2>2. \A j \in DOMAIN installs : /\ installs'[j].done = installs[j].done
                                   /\ installs'[j].active = installs[j].active
                                   /\ installs'[j].lead = installs[j].lead
    BY <1>3
  <2>3. OneOrder(leads', installs') /\ Activated(installs')
    BY <1>1, <2>1, <2>2 DEF ApartInv, OneOrder, Activated
  <2>4. Now(leads', installs', place, n) BY <1>3 DEF Now
  <2> QED BY <1>3, <2>2, <2>3, <2>4 DEF ApartStep, OnLead, OnInstall
<1>4. FormsStep(c, place) BY DEF FormsStep
<1> QED BY <1>1, <1>2, <1>3, <1>4, CrmMoves

LEMMA RaiseKeeps == ASSUME CrmInv, scene' = scene, NEW c \in Clerks, L!RaiseTicket(c) PROVE CrmInv'
<1> DEFINE own == {i \in DOMAIN installs : installs[i].lead = note[c].id}
           i == L!Max(own)
           r == [installs[i] EXCEPT !.ticket = "open"]
<1>0. CrmTyped BY DEF CrmInv
<1>1. /\ L!Go(c, "idle", L!Blank) /\ UNCHANGED <<leads, links>>
      /\ installs' = IF own = {} THEN installs ELSE [installs EXCEPT ![i].ticket = "open"]
  BY DEF L!RaiseTicket, L!Finish
<1> HIDE DEF i, own
<1>2. CASE own = {} \/ i \notin DOMAIN installs
  <2>1. installs' = installs BY <1>0, <1>1, <1>2 DEF CrmTyped, RowsFit
  <2>2. Fits(leads, installs, "idle", L!Blank) BY BlankFits
  <2>3. RowsFit(leads, links', installs) BY <1>0, <1>1 DEF CrmTyped
  <2> QED BY <1>1, <2>1, <2>2, <2>3, CrmIdle DEF Now, OnLead, OnInstall
<1>3. CASE own # {} /\ i \in DOMAIN installs
  <2>1. installs[i] \in L!Install BY <1>0, <1>3, RowRead DEF CrmTyped, RowsFit
  <2>2. /\ r \in L!Install /\ r.lead = installs[i].lead /\ r.active = installs[i].active
        /\ r.done = installs[i].done
    BY <2>1 DEF L!Install
  <2>3. installs' = [installs EXCEPT ![i] = r] BY <1>1, <1>3
  <2> HIDE DEF r
  <2>4. Fits(leads, installs', "idle", L!Blank) BY BlankFits
  <2> QED BY <1>1, <1>3, <2>2, <2>3, <2>4, InstallWritten
<1> QED BY <1>2, <1>3

LEMMA SaveKeeps == ASSUME CrmInv, scene' = scene, NEW c \in Clerks, L!SaveInstall(c) PROVE CrmInv'
<1> DEFINE n == note[c]
           i == n.id
           kept == [n.copy EXCEPT !.ticket = installs[i].ticket, !.active = installs[i].active]
           r == IF L!Completing(n) THEN kept ELSE [kept EXCEPT !.status = n.status]
           place == IF L!Completing(n) THEN "complete" ELSE "idle"
           m == IF L!Completing(n) THEN [L!Blank EXCEPT !.id = i] ELSE L!Blank
<1>0. CrmTyped /\ Fits(leads, installs, errand[c], n) BY DEF CrmInv, CrmTyped
<1>1. /\ errand[c] = "install" /\ UNCHANGED <<leads, links>>
      /\ installs' = [installs EXCEPT ![i] = r] /\ L!Go(c, place, m)
  BY DEF L!SaveInstall, L!Finish
<1>2. /\ i \in DOMAIN installs /\ n.copy \in L!Install /\ n.copy.lead = installs[i].lead
      /\ n.status \in L!InstallStatuses
  BY <1>0, <1>1 DEF Fits, OnInstall
<1>3. installs[i] \in L!Install BY <1>0, <1>2, RowRead DEF CrmTyped, RowsFit
<1>4. /\ kept \in L!Install /\ kept.lead = installs[i].lead /\ kept.active = installs[i].active
      /\ kept.done = n.copy.done
  BY <1>2, <1>3 DEF L!Install
<1>5. /\ r \in L!Install /\ r.lead = installs[i].lead /\ r.active = installs[i].active
      /\ r.done = n.copy.done
  <2> HIDE DEF kept
  <2> QED BY <1>2, <1>4 DEF L!Install
<1>6. scene = "apart" => n.copy.done = installs[i].done
  BY <1>1 DEF CrmInv, ApartInv, Now
<1>7. place = "complete" => ~r.done /\ m.id = i
  <2> SUFFICES ASSUME place = "complete" PROVE ~r.done /\ m.id = i OBVIOUS
  <2>1. L!Completing(n) OBVIOUS
  <2>2. ~n.copy.done BY <2>1 DEF L!Completing
  <2>3. m.id = i BY <2>1, BlankShape
  <2> HIDE DEF r
  <2> QED BY <1>5, <2>2, <2>3
<1>8. /\ DOMAIN m = {"id", "copy", "status"} /\ place \in {"idle", "complete"}
      /\ m.id \in {i, 0}
  <2>1. L!Blank.id = 0 BY DEF L!Blank
  <2> QED BY <2>1, BlankShape
<1> HIDE DEF r, place, m, kept
<1>9. i \in 0..MaxLeads \cup 0..MaxInstalls BY <1>0 DEF Fits
<1>10. DOMAIN installs' = DOMAIN installs BY <1>1
<1>11. Fits(leads, installs', place, m)
  BY <1>2, <1>7, <1>8, <1>9, <1>10, LeadsAssumption DEF Fits, Errands, OnLead, OnInstall
<1> QED BY <1>1, <1>2, <1>5, <1>6, <1>7, <1>8, <1>11, InstallWritten DEF OnInstall

LEMMA CompleteKeeps ==
  ASSUME CrmInv, scene' = scene, NEW c \in Clerks, NEW plan \in BOOLEAN, L!Complete(c, plan)
  PROVE  CrmInv'
<1> DEFINE i == note[c].id
           l == installs[i].lead
           served == leads[l].converted /\ (plan \/ leads[l].plan)
           r == [leads[l] EXCEPT !.plan = leads[l].plan \/ plan,
                                 !.status = IF served THEN "installed" ELSE leads[l].status]
           x == installs[i]
           y == L!Installed(x)
           z == IF served THEN y ELSE x
<1>0. CrmTyped /\ Fits(leads, installs, errand[c], note[c]) BY DEF CrmInv, CrmTyped
<1>1. errand[c] = "complete" /\ L!Go(c, "idle", L!Blank) /\ UNCHANGED links
  BY DEF L!Complete, L!Finish
<1>2. i \in DOMAIN installs /\ l \in DOMAIN leads
  BY <1>0, <1>1 DEF Fits, OnInstall, CrmTyped, RowsFit
<1>3. leads[l] \in L!Lead /\ x \in L!Install
  BY <1>0, <1>2, RowRead DEF CrmTyped, RowsFit
<1>4. leads' = [leads EXCEPT ![l] = r]
  <2>1. leads' = [leads EXCEPT ![l].plan = @ \/ plan,
                               ![l].status = IF served THEN "installed" ELSE @]
    BY DEF L!Complete
  <2>2. leads' = [leads EXCEPT ![l] = [[leads[l] EXCEPT !.plan = @ \/ plan] EXCEPT
                                          !.status = IF served THEN "installed" ELSE @]]
    BY <1>2, <2>1
  <2>3. [[leads[l] EXCEPT !.plan = @ \/ plan] EXCEPT !.status = IF served THEN "installed" ELSE @] = r
    BY <1>3 DEF L!Lead
  <2> QED BY <2>2, <2>3, SMTT(30)
<1>5. installs' = [installs EXCEPT ![i] = z]
  <2>1. ASSUME ~served PROVE installs' = installs BY <2>1 DEF L!Complete
  <2>2. CASE served
    <3>1. installs' = [installs EXCEPT ![i] = y] BY <2>2 DEF L!Complete
    <3> QED BY <2>2, <3>1
  <2>3. CASE ~served
    <3>1. installs' = installs /\ z = installs[i] BY <2>1, <2>3
    <3>2. installs = [installs EXCEPT ![i] = installs[i]]
      BY <1>0, <1>2 DEF CrmTyped, RowsFit
    <3> QED BY <3>1, <3>2
  <2> QED BY <2>2, <2>3
<1>6. /\ r \in L!Lead /\ r.web = leads[l].web /\ r.fresh = leads[l].fresh
      /\ r.converted = leads[l].converted
  <2>1. (IF served THEN "installed" ELSE leads[l].status) \in L!LeadStatuses
    BY <1>3 DEF L!Lead, L!LeadStatuses
  <2>2. (leads[l].plan \/ plan) \in BOOLEAN OBVIOUS
  <2> HIDE DEF served
  <2> QED BY <1>3, <2>1, <2>2 DEF L!Lead
<1>7. /\ y \in L!Install /\ y.lead = x.lead /\ y.done = TRUE /\ y.active = x.active + 1
  <2> HIDE DEF x
  <2> DEFINE t == IF x.ticket = "open" THEN "resolved" ELSE x.ticket
             k == x.active + 1
  <2>1. y = [x EXCEPT !.status = "completed", !.done = TRUE, !.active = k, !.ticket = t]
    BY <1>3 DEF L!Install, L!Installed
  <2>2. t \in {"none", "open", "resolved"} /\ k \in Nat BY <1>3 DEF L!Install
  <2> HIDE DEF t
  <2>3. k = x.active + 1 OBVIOUS
  <2> HIDE DEF k, y
  <2> QED BY <1>3, <2>1, <2>2, <2>3 DEF L!Install, L!InstallStatuses
<1>8. /\ z \in L!Install /\ z.lead = x.lead
      /\ \/ z.done = x.done /\ z.active = x.active
         \/ z.done = TRUE /\ z.active = x.active + 1
  <2> HIDE DEF y, served, x
  <2> QED BY <1>3, <1>7
<1> HIDE DEF r, z, y, served, x
<1>9. /\ leads' \in Seq(L!Lead) /\ Len(leads') = Len(leads) /\ DOMAIN leads' = DOMAIN leads
      /\ installs' \in Seq(L!Install) /\ Len(installs') = Len(installs)
      /\ DOMAIN installs' = DOMAIN installs
  BY <1>0, <1>2, <1>4, <1>5, <1>6, <1>8, RowSet DEF CrmTyped, RowsFit
<1>10. \A m \in DOMAIN leads : /\ leads'[m].web = leads[m].web
                               /\ leads'[m].fresh = leads[m].fresh
                               /\ leads'[m].converted = leads[m].converted
  BY <1>2, <1>4, <1>6
<1>11. installs'[i] = z /\ \A j \in DOMAIN installs \ {i} : installs'[j] = installs[j]
  BY <1>2, <1>5
<1>12. \A j \in DOMAIN installs : installs'[j].lead = installs[j].lead
  BY <1>8, <1>11 DEF x
<1>13. RowsFit(leads', links', installs') /\ Grows(leads, leads', installs, installs')
  BY <1>0, <1>1, <1>9, <1>10, <1>12 DEF CrmTyped, RowsFit, Grows
<1>14. Fits(leads', installs', "idle", L!Blank) BY BlankFits
<1>15. ASSUME scene = "apart" PROVE ApartStep(c, "idle", L!Blank)
  <2>1. ApartInv BY <1>15 DEF CrmInv
  <2>2. ~x.done /\ x.active = 0 BY <1>1, <1>2, <2>1 DEF ApartInv, Now, Activated, x
  <2>3. Activated(installs')
    <3> SUFFICES ASSUME NEW j \in DOMAIN installs
                 PROVE  installs'[j].active = IF installs'[j].done THEN 1 ELSE 0
      BY <1>9 DEF Activated
    <3>1. CASE j = i BY <1>8, <1>11, <2>2, <3>1
    <3>2. CASE j # i BY <1>11, <2>1, <3>2 DEF ApartInv, Activated
    <3> QED BY <3>1, <3>2
  <2>4. OneOrder(leads', installs')
    BY <1>0, <1>9, <1>10, <1>12, <2>1 DEF ApartInv, OneOrder, CrmTyped, RowsFit
  <2> QED BY <1>1, <1>10, <2>3, <2>4 DEF ApartStep, Now, OnLead, OnInstall
<1>16. FormsStep(c, "idle") BY <1>9, <1>10 DEF FormsStep, WebFresh
<1> QED BY <1>1, <1>13, <1>14, <1>15, <1>16, CrmMoves, SMTT(30)

LEMMA ConvertKeeps == ASSUME CrmInv, scene' = scene, NEW c \in Clerks, L!Convert(c) PROVE CrmInv'
<1> DEFINE l == note[c].id
           r == [leads[l] EXCEPT !.converted = TRUE, !.status = "paid"]
           x == [lead |-> l, status |-> "pending", done |-> FALSE, ticket |-> "none", active |-> 0]
           place == IF errand[c] = "paid" THEN "raise" ELSE "idle"
           n == IF errand[c] = "paid" THEN [L!Blank EXCEPT !.id = l] ELSE L!Blank
           new == Len(installs) + 1
<1>0. CrmTyped /\ Fits(leads, installs, errand[c], note[c]) BY DEF CrmInv, CrmTyped
<1>1. /\ errand[c] \in {"convert", "paid"} /\ UNCHANGED links /\ L!Go(c, place, n)
  BY DEF L!Convert, L!Finish
<1>2. l \in DOMAIN leads /\ l \in 1..MaxLeads
  <2>1. l \in DOMAIN leads BY <1>0, <1>1 DEF Fits, OnLead
  <2>2. leads \in Seq(L!Lead) /\ Len(leads) <= MaxLeads /\ MaxLeads \in Nat
    BY <1>0, LeadsAssumption DEF CrmTyped, RowsFit
  <2> QED BY <2>1, <2>2
<1>3. /\ place \in {"raise", "idle"} /\ DOMAIN n = {"id", "copy", "status"} /\ n.id \in 0..MaxLeads
      /\ place = "raise" => n.id = l
  <2>1. L!Blank.id = 0 BY DEF L!Blank
  <2> QED BY <1>2, <2>1, BlankShape, LeadsAssumption
<1> HIDE DEF place, n
<1>4. ASSUME NEW ls, NEW is, l \in DOMAIN ls PROVE Fits(ls, is, place, n) /\ Now(ls, is, place, n)
  BY <1>3, <1>4 DEF Fits, Now, Errands, OnLead, OnInstall
<1>5. CASE L!Converted(note[c].copy)
  <2>1. UNCHANGED <<leads, installs>> BY <1>5 DEF L!Convert
  <2>2. RowsFit(leads, links', installs) BY <1>0, <1>1 DEF CrmTyped
  <2> QED BY <1>1, <1>2, <1>3, <1>4, <2>1, <2>2, CrmIdle DEF OnLead, OnInstall
<1>6. CASE ~L!Converted(note[c].copy)
  <2>1. /\ Len(installs) < MaxInstalls /\ installs' = Append(installs, x)
        /\ leads' = [leads EXCEPT ![l].converted = TRUE, ![l].status = "paid"]
    BY <1>6 DEF L!Convert
  <2>2. leads[l] \in L!Lead BY <1>0, <1>2, RowRead DEF CrmTyped, RowsFit
  <2>3. /\ r \in L!Lead /\ r.web = leads[l].web /\ r.fresh = leads[l].fresh
        /\ r.converted = TRUE /\ leads' = [leads EXCEPT ![l] = r]
    BY <1>2, <2>1, <2>2 DEF L!Lead, L!LeadStatuses
  <2>4. x \in L!Install /\ x.lead = l /\ x.done = FALSE /\ x.active = 0
    BY <1>2 DEF L!Install, L!InstallStatuses
  <2> HIDE DEF r, x
  <2>5. leads' \in Seq(L!Lead) /\ Len(leads') = Len(leads) /\ DOMAIN leads' = DOMAIN leads
    BY <1>0, <1>2, <2>3, RowSet DEF CrmTyped, RowsFit
  <2>6. installs \in Seq(L!Install) /\ MaxInstalls \in Nat
    BY <1>0, LeadsAssumption DEF CrmTyped, RowsFit
  <2>7. /\ installs' \in Seq(L!Install) /\ Len(installs') = new
        /\ DOMAIN installs' = DOMAIN installs \cup {new} /\ new \notin DOMAIN installs
        /\ \A i \in DOMAIN installs : installs'[i] = installs[i]
        /\ installs'[new] = x
    BY <2>1, <2>4, <2>6, RowAdded
  <2>8. Len(installs') <= MaxInstalls BY <2>1, <2>6, <2>7
  <2>9. \A i \in DOMAIN installs' : installs'[i].lead \in DOMAIN leads'
    BY <1>0, <1>2, <2>4, <2>5, <2>7 DEF CrmTyped, RowsFit
  <2>10. RowsFit(leads', links', installs')
    BY <1>0, <1>1, <2>5, <2>7, <2>8, <2>9 DEF CrmTyped, RowsFit
  <2>11. \A m \in DOMAIN leads : /\ leads'[m].web = leads[m].web
                                 /\ leads'[m].fresh = leads[m].fresh
                                 /\ m # l => leads'[m] = leads[m]
    BY <1>2, <2>3
  <2>12. Grows(leads, leads', installs, installs') BY <2>5, <2>7, <2>11 DEF Grows
  <2>13. ASSUME scene = "apart" PROVE ApartStep(c, place, n)
    <3>1. ApartInv BY <2>13 DEF CrmInv
    <3>2. note[c].copy.converted = leads[l].converted
      BY <1>1, <3>1 DEF ApartInv, Now
    <3>3. ~leads[l].converted BY <1>6, <3>2 DEF L!Converted
    <3>4. leads'[l].converted BY <1>2, <2>3
    <3>5. \A i \in DOMAIN installs : installs[i].lead \in DOMAIN leads
      BY <1>0 DEF CrmTyped, RowsFit
    <3>6. \A m \in DOMAIN leads \ {l} : leads'[m].converted = leads[m].converted BY <2>11
    <3>7. OneOrder(leads', installs')
      <4> HIDE DEF l, new
      <4>1. OneOrder(leads, installs) BY <3>1 DEF ApartInv
      <4>2. installs'[new].lead = l BY <2>4, <2>7
      <4>3. \A i \in DOMAIN installs : installs[i].lead # l BY <3>3, <4>1 DEF OneOrder
      <4>4. \A i \in DOMAIN installs' : leads'[installs'[i].lead].converted
        <5> SUFFICES ASSUME NEW i \in DOMAIN installs' PROVE leads'[installs'[i].lead].converted
          OBVIOUS
        <5>1. CASE i = new BY <3>4, <4>2, <5>1
        <5>2. CASE i # new
          <6>1. i \in DOMAIN installs /\ installs'[i] = installs[i] BY <2>7, <5>2
          <6> QED BY <3>5, <3>6, <4>1, <4>3, <6>1 DEF OneOrder
        <5> QED BY <5>1, <5>2
      <4>5. \A i, j \in DOMAIN installs' : installs'[i].lead = installs'[j].lead => i = j
        BY <2>7, <4>1, <4>2, <4>3 DEF OneOrder
      <4>6. ASSUME NEW m \in DOMAIN leads', leads'[m].converted
            PROVE  \E i \in DOMAIN installs' : installs'[i].lead = m
        <5>1. CASE m = l BY <2>7, <4>2, <5>1
        <5>2. CASE m # l
          <6>1. PICK i \in DOMAIN installs : installs[i].lead = m
            BY <2>5, <3>6, <4>1, <4>6, <5>2 DEF OneOrder
          <6> QED BY <2>7, <6>1
        <5> QED BY <5>1, <5>2
      <4> QED BY <4>4, <4>5, <4>6 DEF OneOrder
    <3>8. Activated(installs') BY <2>4, <2>7, <3>1 DEF ApartInv, Activated
    <3>9. \A i \in DOMAIN installs : installs'[i].done = installs[i].done BY <2>7
    <3>10. errand[c] \in OnLead BY <1>1 DEF OnLead
    <3>11. Now(leads', installs', place, n) BY <1>2, <1>4, <2>5
    <3> QED BY <1>3, <3>7, <3>8, <3>9, <3>10, <3>11 DEF ApartStep, OnInstall, OnLead
  <2>14. FormsStep(c, place) BY <1>3, <2>5, <2>11 DEF FormsStep, WebFresh
  <2>15. Fits(leads', installs', place, n) BY <1>2, <1>4, <2>5
  <2> QED BY <1>1, <2>10, <2>12, <2>13, <2>14, <2>15, CrmMoves
<1> QED BY <1>5, <1>6

\* The four components take turns: a step of another one leaves the leads alone.
LEMMA CrmAlone ==
  ASSUME CrmInv, scene' = scene, UNCHANGED crm PROVE CrmInv'
<1>1. UNCHANGED <<leads, links, installs, errand, note>> BY DEF crm
<1>2. CrmTyped' BY <1>1 DEF CrmInv, CrmTyped, RowsFit, Fits
<1>3. ApartInv => ApartInv' BY <1>1 DEF ApartInv, Alone, Now, OneOrder, Activated
<1>4. FormsInv => FormsInv' BY <1>1 DEF FormsInv, Alone, WebFresh
<1> QED BY <1>2, <1>3, <1>4 DEF CrmInv

LEMMA CrmStep == ASSUME CrmInv, scene' = scene, LeadsNext PROVE CrmInv'
<1>1. ASSUME NEW c \in Clerks, L!Working(c) PROVE CrmInv'
  BY <1>1, CreatesKeep, MarkKeeps, ConvertKeeps, RaiseKeeps, SaveKeeps, UpdateKeeps, QuoteKeeps,
     CompleteKeeps DEF L!Working
<1>2. ASSUME NEW c \in Clerks, OffLead, L!AskLead(c) PROVE CrmInv'
  <2>1. \A s \in LeadPosts : s \in L!LeadStatuses BY LeadsAssumption
  <2>2. {"quoted", "paid", "lost"} \subseteq L!LeadStatuses BY DEF L!LeadStatuses
  <2> QED BY <1>2, <2>1, <2>2, FetchKeeps, PayLinkKeeps DEF L!AskLead
<1>3. ASSUME NEW c \in Clerks, NotIn({"install", "complete"}), L!AskInstall(c) PROVE CrmInv'
  BY <1>3, AskInstallKeeps DEF L!AskInstall
<1>4. ASSUME NEW c \in Clerks, scene = "forms", OffLead, L!Intake(c) PROVE CrmInv'
  BY <1>4, IntakeKeeps
<1>5. ASSUME NEW c \in Clerks, scene = "forms", L!AgentLead(c) PROVE CrmInv'
  BY <1>5, AgentLeadKeeps
<1>6. ASSUME scene = "forms", L!Day PROVE CrmInv' BY <1>6, DayKeeps
<1>7. ASSUME leads = <<>>, NEW s \in LeadPosts, L!LeadCreate(s) PROVE CrmInv'
  BY <1>7, LeadCreateKeeps
<1> QED BY <1>1, <1>2, <1>3, <1>4, <1>5, <1>6, <1>7 DEF LeadsNext

LEMMA CrmStart == L!LeadsInit => CrmInv
<1> SUFFICES ASSUME L!LeadsInit PROVE CrmInv OBVIOUS
<1>1. /\ leads = <<>> /\ links = <<>> /\ installs = <<>>
      /\ errand = [c \in Clerks |-> "idle"] /\ note = [c \in Clerks |-> L!Blank]
  BY DEF L!LeadsInit
<1>2. RowsFit(leads, links, installs) BY <1>1, LeadsAssumption DEF RowsFit
<1>3. \A c \in Clerks : Fits(leads, installs, errand[c], note[c]) BY <1>1, BlankFits
<1>4. CrmTyped BY <1>1, <1>2, <1>3 DEF CrmTyped, Errands
<1>5. ApartInv
  BY <1>1 DEF ApartInv, Alone, Now, OneOrder, Activated, OnLead, OnInstall
<1>6. FormsInv BY <1>1 DEF FormsInv, Alone, WebFresh
<1> QED BY <1>4, <1>5, <1>6 DEF CrmInv

LEMMA AtMostOne == ASSUME NEW X, \A x, y \in X : x = y PROVE Cardinality(X) \in {0, 1}
<1>1. CASE X = {} BY <1>1, FS_EmptySet
<1>2. CASE X # {}
  <2>1. PICK x \in X : TRUE BY <1>2
  <2>2. X = {x} BY <2>1
  <2> QED BY <2>2, FS_Singleton
<1> QED BY <1>1, <1>2

\* Leads counts with the same operator.
LEMMA SameCount == \A X : L!Cardinality(X) = Cardinality(X)
BY DEF L!Cardinality, Cardinality

LEMMA CrmHolds == CrmInv => LeadsOnce
<1> SUFFICES ASSUME CrmInv PROVE LeadsOnce OBVIOUS
<1>0. CrmTyped BY DEF CrmInv
<1>1. L!LeadsType
  <2>1. /\ \A l \in DOMAIN leads : leads[l] \in L!Lead
        /\ \A i \in DOMAIN installs : installs[i] \in L!Install
        /\ \A k \in DOMAIN links : links[k] \in [lead : 1..MaxLeads, paid : BOOLEAN]
    BY <1>0, RowRead DEF CrmTyped, RowsFit
  <2>2. \A k \in DOMAIN links : links[k] \in [lead : DOMAIN leads, paid : BOOLEAN]
    BY <1>0, <2>1 DEF CrmTyped, RowsFit
  <2>3. \A c \in Clerks : note[c].id \in 0..MaxLeads \cup 0..MaxInstalls
    BY <1>0 DEF CrmTyped, Fits
  <2> QED BY <1>0, <2>1, <2>2, <2>3 DEF L!LeadsType, CrmTyped, RowsFit
<1>2. ASSUME scene = "apart" PROVE L!OneInstall /\ L!ActivatedOnce
  <2>1. OneOrder(leads, installs) /\ Activated(installs) BY <1>2 DEF CrmInv, ApartInv
  <2>2. ASSUME NEW l \in DOMAIN leads
        PROVE  Cardinality({i \in DOMAIN installs : installs[i].lead = l}) =
                 IF leads[l].converted THEN 1 ELSE 0
    <3> DEFINE own == {i \in DOMAIN installs : installs[i].lead = l}
    <3>1. CASE leads[l].converted
      <4>1. PICK i \in DOMAIN installs : installs[i].lead = l BY <2>1, <3>1 DEF OneOrder
      <4>2. own = {i} BY <2>1, <4>1 DEF OneOrder
      <4> QED BY <3>1, <4>2, FS_Singleton
    <3>2. CASE ~leads[l].converted
      <4>1. own = {} BY <2>1, <3>2 DEF OneOrder
      <4> QED BY <3>2, <4>1, FS_EmptySet
    <3> QED BY <3>1, <3>2
  <2> QED BY <2>1, <2>2, SameCount DEF L!OneInstall, L!ActivatedOnce, Activated
<1>3. ASSUME scene = "forms" PROVE L!OneFreshForm
  <2>1. \A l, m \in WebFresh(leads) : l = m BY <1>3 DEF CrmInv, FormsInv
  <2>2. Cardinality(WebFresh(leads)) \in {0, 1} BY <2>1, AtMostOne
  <2>3. Cardinality(WebFresh(leads)) <= 1 BY <2>2
  <2> QED BY <2>3, SameCount DEF L!OneFreshForm, WebFresh
<1> QED BY <1>1, <1>2, <1>3 DEF LeadsOnce

\* For any number of requests, leads, payment links and installations: a lead
\* is converted into one order and an order activated once, by staff, payments
\* or both, while requests on them do not overlap; and forms that do not
\* overlap leave one lead of a phone in a day, whatever staff save meanwhile.
THEOREM ConvertedOnce == MCSpec => []LeadsOnce
<1>1. MCInit => CrmInv BY CrmStart DEF MCInit
<1>2. CrmInv /\ [MCNext]_all => CrmInv'
  <2> SUFFICES ASSUME CrmInv, [MCNext]_all PROVE CrmInv' OBVIOUS
  <2>1. CASE UNCHANGED all BY <2>1, CrmAlone DEF all
  <2>2. CASE MCNext BY <2>2, CrmAlone, CrmStep DEF MCNext
  <2> QED BY <2>1, <2>2
<1>3. CrmInv => LeadsOnce BY CrmHolds
<1> QED BY <1>1, <1>2, <1>3, PTL DEF MCSpec

-----------------------------------------------------------------------------
(* Calls                                                                   *)

Lines == {"idle", "event", "digit", "hear", "note_in", "ask", "say", "note_out"}
Speaking == {"hear", "note_in", "ask", "say", "note_out"}
Memos == [event : V!Events, n : 0..MaxTurns, copy : V!Calls, cost : {0, 1}]
WellPlaced(place, x, ps) == /\ place \in Speaking => x.n # 0
                            /\ place = "event" => x.event \in ps \ {"started"}
CallTyped ==
  /\ call \in V!Calls /\ turns \subseteq V!Turns /\ IsFiniteSet(turns)
  /\ thread \subseteq (1..MaxTurns) \X {"in", "out"}
  /\ line \in V!Events \cup {"none"} /\ heard \subseteq posted /\ posted \subseteq V!Events
  /\ pressed \in 0..MaxDigits /\ paused \in BOOLEAN
  /\ phone \in [Handlers -> Lines] /\ memo \in [Handlers -> Memos]
  /\ \A h \in Handlers : WellPlaced(phone[h], memo[h], posted)
\* One request at a time for the turns, and one for the keys.
OneOf(places) == \A g, h \in Handlers : phone[g] \in places /\ phone[h] \in places => g = h
\* Keys: what the request that adds one has read.
KeysInv ==
  /\ OneOf({"digit"})
  /\ \A h \in Handlers : phone[h] = "digit" => memo[h].copy.digits = call.digits
                                               /\ pressed = call.digits + 1
  /\ (\A h \in Handlers : phone[h] # "digit") => pressed = call.digits
\* Turns: who speaks has read all there is.
Cost(T) == Cardinality({t \in T : t.cost = 1})
Ins == Cardinality({t \in turns : t.way = "in"})
Noted == {<<t.n, t.way>> : t \in turns}
SpeakInv ==
  /\ OneOf(Speaking)
  /\ call.transcript = turns /\ call.cost = Cost(turns) /\ \A t \in turns : t.n <= Ins
  /\ \A h \in Handlers : phone[h] \in Speaking =>
       memo[h].copy.transcript = turns /\ memo[h].copy.cost = Cost(turns)
  /\ \A h \in Handlers :
       /\ phone[h] = "hear" => memo[h].n = Ins + 1 /\ memo[h].cost = 0
       /\ phone[h] \in {"note_in", "ask", "say", "note_out"} => memo[h].n = Ins
       /\ phone[h] \in {"note_in", "ask", "say"} => \A t \in turns : t.way = "out" => t.n # Ins
       /\ phone[h] = "note_in" => thread \cup {<<memo[h].n, "in">>} = Noted
       /\ phone[h] = "note_out" => thread \cup {<<memo[h].n, "out">>} = Noted
  /\ (\A h \in Handlers : phone[h] \notin {"note_in", "note_out"}) => thread = Noted
\* Events, each handled before the next is posted: a call is made before it is
\* answered, and answered in the row before its end is posted.
HungUp == posted \cap V!Ends
EventsInv ==
  /\ line = "none" => posted = {}
  /\ line # "none" => "started" \in posted
  /\ line \in {"started", "answered"} => HungUp = {}
  /\ "started" \in heard \/ posted \subseteq {"started"}
  /\ "started" \in heard => call.made
  /\ "answered" \in heard => call.answered
  /\ HungUp # {} => ("answered" \in posted => call.answered) /\ \A e, f \in HungUp : e = f
  /\ call.ended => call.status \in HungUp
  /\ \A h \in Handlers : phone[h] = "event" =>
       /\ memo[h].copy.answered => call.answered
       /\ memo[h].copy.ended => call.ended
       /\ memo[h].event = "answered" /\ HungUp # {} => memo[h].copy.answered
CallInv ==
  /\ CallTyped
  /\ scene = "turns" => SpeakInv /\ KeysInv
  /\ scene = "events" => EventsInv

LEMMA CallCounts == \A X : V!Cardinality(X) = Cardinality(X)
BY DEF V!Cardinality, Cardinality, V!IsFiniteSet, IsFiniteSet

LEMMA CopiesTyped ==
  /\ V!NoCall \in V!Calls /\ V!Nobody \in Memos
  /\ \A x \in V!Calls :
       /\ V!Marks(x) \in V!Calls /\ V!Marks(x).answered = x.answered /\ V!Marks(x).ended = x.ended
       /\ V!Sums(x) \in V!Calls /\ V!Sums(x).transcript = x.transcript /\ V!Sums(x).cost = x.cost
       /\ V!Keys(x) \in V!Calls /\ V!Keys(x).digits = x.digits
<1>1. V!NoCall \in V!Calls BY DEF V!NoCall, V!Calls
<1>2. V!Nobody \in Memos BY <1>1, CallsAssumption DEF V!Nobody, Memos, V!Events
<1>3. ASSUME NEW x \in V!Calls
      PROVE /\ V!Marks(x) \in V!Calls /\ V!Marks(x).answered = x.answered /\ V!Marks(x).ended = x.ended
            /\ V!Sums(x) \in V!Calls /\ V!Sums(x).transcript = x.transcript /\ V!Sums(x).cost = x.cost
            /\ V!Keys(x) \in V!Calls /\ V!Keys(x).digits = x.digits
  BY DEF V!Marks, V!Sums, V!Keys, V!NoCall, V!Calls
<1> QED BY <1>1, <1>2, <1>3

\* A request goes to a place with what it has in hand.
LEMMA Holding ==
  ASSUME CallTyped, NEW h \in Handlers, NEW place \in Lines, NEW x \in Memos, V!Hold(h, place, x),
         posted' = posted, WellPlaced(place, x, posted)
  PROVE  /\ phone' \in [Handlers -> Lines] /\ memo' \in [Handlers -> Memos]
         /\ \A g \in Handlers : WellPlaced(phone'[g], memo'[g], posted')
         /\ phone'[h] = place /\ memo'[h] = x
         /\ \A g \in Handlers : g # h => phone'[g] = phone[g] /\ memo'[g] = memo[g]
BY DEF CallTyped, V!Hold

LEMMA Dropping ==
  ASSUME CallTyped, NEW h \in Handlers, V!Drop(h), posted' = posted
  PROVE  /\ phone' \in [Handlers -> Lines] /\ memo' \in [Handlers -> Memos]
         /\ \A g \in Handlers : WellPlaced(phone'[g], memo'[g], posted')
         /\ phone'[h] = "idle" /\ memo'[h] = V!Nobody
         /\ \A g \in Handlers : g # h => phone'[g] = phone[g] /\ memo'[g] = memo[g]
<1>1. V!Hold(h, "idle", V!Nobody) BY DEF V!Drop
<1>2. "idle" \in Lines /\ WellPlaced("idle", V!Nobody, posted) BY DEF Lines, Speaking, WellPlaced
<1> QED BY <1>1, <1>2, CopiesTyped, Holding

\* What a step that leaves some of the tables has to show of their types.
LEMMA TypedStep ==
  ASSUME CallTyped, UNCHANGED <<turns, thread>>, call' \in V!Calls,
         line' \in V!Events \cup {"none"}, heard' \subseteq posted', posted' \subseteq V!Events,
         pressed' \in 0..MaxDigits, paused' \in BOOLEAN,
         phone' \in [Handlers -> Lines], memo' \in [Handlers -> Memos],
         \A g \in Handlers : WellPlaced(phone'[g], memo'[g], posted')
  PROVE  CallTyped'
BY DEF CallTyped

(* One lemma for each kind of step: what it does, and that types stay. *)

LEMMA SwitchFacts ==
  ASSUME CallTyped, V!Switch
  PROVE  /\ CallTyped' /\ UNCHANGED <<heard, pressed, call, turns, thread, paused, phone, memo>>
         /\ \E e \in V!Events :
              /\ line' = e /\ posted' = posted \cup {e}
              /\ \/ line = "none" /\ e = "started"
                 \/ line = "started" /\ e = "answered"
                 \/ line \in {"started", "answered"} /\ e \in V!Ends
                 \/ line = "completed" /\ e = "recording"
<1>1. UNCHANGED <<heard, pressed, call, turns, thread, paused, phone, memo>> BY DEF V!Switch
<1>2. PICK e \in V!Events :
         /\ line' = e /\ posted' = posted \cup {e}
         /\ \/ line = "none" /\ e = "started"
            \/ line = "started" /\ e = "answered"
            \/ line \in {"started", "answered"} /\ e \in V!Ends
            \/ line = "completed" /\ e = "recording"
  BY DEF V!Switch, V!Ring, V!Pick, V!Recorded, V!HangUp, V!Post, V!Events
<1>3. CallTyped' BY <1>1, <1>2 DEF CallTyped, WellPlaced
<1> QED BY <1>1, <1>2, <1>3

LEMMA PauseFacts ==
  ASSUME CallTyped, V!Pause
  PROVE  CallTyped' /\ UNCHANGED <<line, posted, heard, pressed, call, turns, thread, phone, memo>>
<1>1. UNCHANGED <<line, posted, heard, pressed, call, turns, thread, phone, memo>> /\ paused' = ~paused
  BY DEF V!Pause
<1>2. paused' \in BOOLEAN BY <1>1
<1> QED BY <1>1, <1>2 DEF CallTyped

\* The fields of the row that a step writes.
SameMarks == call'.answered = call.answered /\ call'.ended = call.ended /\ call'.status = call.status
SameSums == call'.transcript = call.transcript /\ call'.cost = call.cost
SameKeys == call'.digits = call.digits

LEMMA StartFacts ==
  ASSUME CallTyped, NEW h \in Handlers, V!Start(h)
  PROVE  /\ CallTyped' /\ UNCHANGED <<line, posted, pressed, turns, thread, paused, phone, memo>>
         /\ "started" \in posted /\ heard' = heard \cup {"started"}
         /\ call'.made /\ SameMarks /\ SameSums /\ SameKeys
<1>1. /\ UNCHANGED <<line, posted, pressed, turns, thread, paused, phone, memo>>
      /\ "started" \in posted /\ heard' = heard \cup {"started"}
      /\ call' = IF call.made THEN call ELSE [call EXCEPT !.made = TRUE]
  BY DEF V!Start
<1>2. call' \in V!Calls /\ call'.made /\ SameMarks /\ SameSums /\ SameKeys
  BY <1>1 DEF CallTyped, V!Calls, SameMarks, SameSums, SameKeys
<1>3. CallTyped' BY <1>1, <1>2 DEF CallTyped
<1> QED BY <1>1, <1>2, <1>3

LEMMA LoadFacts ==
  ASSUME CallTyped, NEW h \in Handlers, NEW e \in V!Events, V!Load(h, e)
  PROVE  /\ CallTyped' /\ UNCHANGED <<line, posted, pressed, call, turns, thread, paused>>
         /\ e \in posted \ {"started"} /\ phone[h] = "idle"
         /\ \A g \in Handlers : g # h => phone'[g] = phone[g] /\ memo'[g] = memo[g]
         /\ \/ /\ call.made /\ heard' = heard /\ phone'[h] = "event" /\ memo'[h].event = e
               /\ memo'[h].copy.answered = call.answered /\ memo'[h].copy.ended = call.ended
            \/ ~call.made /\ heard' = heard \cup {e} /\ phone' = phone /\ memo' = memo
<1>1. UNCHANGED <<line, posted, pressed, call, turns, thread, paused>> /\ e \in posted \ {"started"}
      /\ phone[h] = "idle"
  BY DEF V!Load
<1>2. CASE call.made
  <2> DEFINE x == [V!Nobody EXCEPT !.event = e, !.copy = V!Marks(call)]
  <2>1. V!Hold(h, "event", x) /\ heard' = heard BY <1>2 DEF V!Load
  <2>2. /\ x \in Memos /\ x.event = e /\ x.copy.answered = call.answered /\ x.copy.ended = call.ended
    <3>1. call \in V!Calls BY DEF CallTyped
    <3>2. V!Marks(call) \in V!Calls /\ V!Marks(call).answered = call.answered
          /\ V!Marks(call).ended = call.ended
      BY <3>1, CopiesTyped
    <3> QED BY <3>2, CopiesTyped DEF Memos
  <2> HIDE DEF x
  <2>3. "event" \in Lines /\ WellPlaced("event", x, posted) BY <1>1, <2>2 DEF Lines, Speaking, WellPlaced
  <2>4. /\ phone' \in [Handlers -> Lines] /\ memo' \in [Handlers -> Memos]
        /\ \A g \in Handlers : WellPlaced(phone'[g], memo'[g], posted')
        /\ phone'[h] = "event" /\ memo'[h] = x
        /\ \A g \in Handlers : g # h => phone'[g] = phone[g] /\ memo'[g] = memo[g]
    BY <1>1, <2>1, <2>2, <2>3, Holding
  <2>5. CallTyped' BY <1>1, <2>1, <2>4 DEF CallTyped
  <2> QED BY <1>1, <1>2, <2>1, <2>2, <2>4, <2>5
<1>3. CASE ~call.made
  <2>1. heard' = heard \cup {e} /\ phone' = phone /\ memo' = memo BY <1>3 DEF V!Load
  <2>2. CallTyped' BY <1>1, <2>1 DEF CallTyped
  <2> QED BY <1>1, <1>3, <2>1, <2>2
<1> QED BY <1>2, <1>3

LEMMA SaveEventFacts ==
  ASSUME CallTyped, NEW h \in Handlers, V!SaveEvent(h)
  PROVE  /\ CallTyped' /\ UNCHANGED <<line, posted, pressed, turns, thread, paused>>
         /\ phone[h] = "event" /\ phone'[h] = "idle" /\ heard' = heard \cup {memo[h].event}
         /\ \A g \in Handlers : g # h => phone'[g] = phone[g] /\ memo'[g] = memo[g]
         /\ memo[h].event \in posted \ {"started"}
         /\ SameSums /\ SameKeys /\ call'.made = call.made
         /\ \/ memo[h].event = "answered" /\ memo[h].copy.answered /\ SameMarks
            \/ memo[h].event = "answered" /\ ~memo[h].copy.answered
               /\ call'.answered /\ call'.ended = call.ended
            \/ memo[h].event \in V!Ends /\ memo[h].copy.ended /\ SameMarks
            \/ memo[h].event \in V!Ends /\ ~memo[h].copy.ended
               /\ call'.answered = call.answered /\ call'.ended /\ call'.status = memo[h].event
            \/ memo[h].event = "recording" /\ SameMarks
<1> DEFINE e == memo[h].event
           x == memo[h].copy
<1>1. /\ UNCHANGED <<line, posted, pressed, turns, thread, paused>> /\ V!Drop(h) /\ phone[h] = "event"
      /\ heard' = heard \cup {e}
      /\ \E url \in BOOLEAN :
           call' = CASE e = "answered" -> V!Answer(x)
                     [] e = "recording" -> [call EXCEPT !.url = TRUE]
                     [] OTHER -> V!Complete(x, e, url)
  BY DEF V!SaveEvent
<1>2. call \in V!Calls /\ e \in posted \ {"started"} /\ posted \subseteq V!Events
  BY <1>1 DEF CallTyped, WellPlaced
<1>3. e = "answered" \/ e = "recording" \/ e \in V!Ends BY <1>2 DEF V!Events
<1>4. "answered" \notin V!Ends /\ "recording" \notin V!Ends BY DEF V!Ends
<1>5. /\ phone' \in [Handlers -> Lines] /\ memo' \in [Handlers -> Memos]
      /\ \A g \in Handlers : WellPlaced(phone'[g], memo'[g], posted')
      /\ phone'[h] = "idle" /\ \A g \in Handlers : g # h => phone'[g] = phone[g] /\ memo'[g] = memo[g]
  BY <1>1, Dropping
<1>9. x \in V!Calls BY DEF CallTyped, Memos
<1> HIDE DEF e, x
<1>6. /\ call' \in V!Calls /\ SameSums /\ SameKeys /\ call'.made = call.made
      /\ \/ e = "answered" /\ x.answered /\ SameMarks
         \/ e = "answered" /\ ~x.answered /\ call'.answered /\ call'.ended = call.ended
         \/ e \in V!Ends /\ x.ended /\ SameMarks
         \/ e \in V!Ends /\ ~x.ended /\ call'.answered = call.answered /\ call'.ended /\ call'.status = e
         \/ e = "recording" /\ SameMarks
  <2>1. CASE e = "answered"
    <3>1. call' = V!Answer(x) BY <1>1, <2>1
    <3> QED BY <1>2, <2>1, <3>1 DEF V!Answer, V!Calls, SameSums, SameKeys, SameMarks
  <2>2. CASE e = "recording"
    <3>1. call' = [call EXCEPT !.url = TRUE] BY <1>1, <2>2
    <3> QED BY <1>2, <2>2, <3>1 DEF V!Calls, SameSums, SameKeys, SameMarks
  <2>3. CASE e \in V!Ends
    <3>1. e # "answered" /\ e # "recording" BY <1>4, <2>3
    <3>2. PICK url \in BOOLEAN : call' = V!Complete(x, e, url) BY <1>1, <3>1
    <3>3. (x.url \/ url) \in BOOLEAN BY <1>9, <3>2 DEF V!Calls
    <3> QED BY <1>2, <2>3, <3>2, <3>3 DEF V!Complete, V!Calls, SameSums, SameKeys, SameMarks
  <2> QED BY <1>3, <2>1, <2>2, <2>3
<1>7. heard' \subseteq posted' BY <1>1, <1>2 DEF CallTyped
<1>8. CallTyped' BY <1>1, <1>5, <1>6, <1>7 DEF CallTyped
<1> QED BY <1>1, <1>2, <1>5, <1>6, <1>8 DEF e, x

LEMMA PressFacts ==
  ASSUME CallTyped, NEW h \in Handlers, V!Press(h)
  PROVE  /\ CallTyped' /\ UNCHANGED <<line, posted, heard, call, turns, thread, paused>>
         /\ phone[h] = "idle" /\ phone'[h] = "digit" /\ memo'[h].copy.digits = call.digits
         /\ pressed' = pressed + 1
         /\ \A g \in Handlers : g # h => phone'[g] = phone[g] /\ memo'[g] = memo[g]
<1> DEFINE x == [V!Nobody EXCEPT !.copy = V!Keys(call)]
<1>1. /\ UNCHANGED <<line, posted, heard, call, turns, thread, paused>> /\ V!Hold(h, "digit", x)
      /\ phone[h] = "idle" /\ pressed < MaxDigits /\ pressed' = pressed + 1
  BY DEF V!Press
<1>2. x \in Memos /\ x.copy.digits = call.digits
  <2>1. call \in V!Calls BY DEF CallTyped
  <2>2. V!Keys(call) \in V!Calls /\ V!Keys(call).digits = call.digits BY <2>1, CopiesTyped
  <2> QED BY <2>2, CopiesTyped DEF Memos
<1> HIDE DEF x
<1>3. "digit" \in Lines /\ WellPlaced("digit", x, posted) BY DEF Lines, Speaking, WellPlaced
<1>4. pressed' \in 0..MaxDigits BY <1>1, CallsAssumption DEF CallTyped
<1>5. /\ phone' \in [Handlers -> Lines] /\ memo' \in [Handlers -> Memos]
      /\ \A g \in Handlers : WellPlaced(phone'[g], memo'[g], posted')
      /\ phone'[h] = "digit" /\ memo'[h] = x
      /\ \A g \in Handlers : g # h => phone'[g] = phone[g] /\ memo'[g] = memo[g]
  BY <1>1, <1>2, <1>3, Holding
<1>6. CallTyped' BY <1>1, <1>4, <1>5 DEF CallTyped
<1> QED BY <1>1, <1>2, <1>5, <1>6

LEMMA SaveDigitFacts ==
  ASSUME CallTyped, NEW h \in Handlers, V!SaveDigit(h)
  PROVE  /\ CallTyped' /\ UNCHANGED <<line, posted, heard, pressed, turns, thread, paused>>
         /\ phone[h] = "digit" /\ phone'[h] = "idle" /\ call'.digits = memo[h].copy.digits + 1
         /\ \A g \in Handlers : g # h => phone'[g] = phone[g] /\ memo'[g] = memo[g]
         /\ SameMarks /\ SameSums /\ call'.made = call.made
<1>1. /\ UNCHANGED <<line, posted, heard, pressed, turns, thread, paused>> /\ V!Drop(h)
      /\ phone[h] = "digit" /\ call' = [call EXCEPT !.digits = memo[h].copy.digits + 1]
  BY DEF V!SaveDigit
<1>2. call \in V!Calls /\ memo[h].copy.digits \in Nat BY DEF CallTyped, Memos, V!Calls
<1>3. /\ call' \in V!Calls /\ SameMarks /\ SameSums /\ call'.made = call.made
      /\ call'.digits = memo[h].copy.digits + 1
  BY <1>1, <1>2 DEF V!Calls, SameMarks, SameSums
<1>4. /\ phone' \in [Handlers -> Lines] /\ memo' \in [Handlers -> Memos]
      /\ \A g \in Handlers : WellPlaced(phone'[g], memo'[g], posted')
      /\ phone'[h] = "idle" /\ \A g \in Handlers : g # h => phone'[g] = phone[g] /\ memo'[g] = memo[g]
  BY <1>1, Dropping
<1>5. CallTyped' BY <1>1, <1>3, <1>4 DEF CallTyped
<1> QED BY <1>1, <1>3, <1>4, <1>5

LEMMA SpeakersFinite ==
  ASSUME CallTyped PROVE IsFiniteSet({g \in Handlers : phone[g] = "hear"}) /\ IsFiniteSet({t \in turns : t.way = "in"})
                         /\ Ins \in Nat /\ Cardinality({g \in Handlers : phone[g] = "hear"}) \in Nat
<1>1. {g \in Handlers : phone[g] = "hear"} \in SUBSET Handlers /\ {t \in turns : t.way = "in"} \in SUBSET turns
  OBVIOUS
<1>2. IsFiniteSet({g \in Handlers : phone[g] = "hear"}) /\ IsFiniteSet({t \in turns : t.way = "in"})
  BY <1>1, FS_Subset, CallsAssumption DEF CallTyped
<1> QED BY <1>2, FS_CardinalityType DEF Ins

LEMMA UtterFacts ==
  ASSUME CallTyped, NEW h \in Handlers, V!Utter(h)
  PROVE  /\ CallTyped' /\ UNCHANGED <<line, posted, heard, pressed, turns, thread, paused>>
         /\ phone[h] = "idle" /\ SameSums /\ SameKeys
         /\ \A g \in Handlers : g # h => phone'[g] = phone[g] /\ memo'[g] = memo[g]
         /\ \/ phone' = phone /\ memo' = memo
            \/ /\ phone'[h] = "hear" /\ memo'[h].cost = 0
               /\ memo'[h].n = Ins + Cardinality({g \in Handlers : phone[g] = "hear"}) + 1
               /\ memo'[h].copy.transcript = call.transcript /\ memo'[h].copy.cost = call.cost
<1> DEFINE now == IF call.made THEN call ELSE [call EXCEPT !.made = TRUE, !.status = "in_progress"]
           n == Ins + Cardinality({g \in Handlers : phone[g] = "hear"}) + 1
           x == [V!Nobody EXCEPT !.n = n, !.copy = V!Sums(now)]
<1>1. /\ UNCHANGED <<line, posted, heard, pressed, turns, thread, paused>> /\ phone[h] = "idle"
      /\ n <= MaxTurns /\ call' = now
      /\ \/ UNCHANGED <<phone, memo>> \/ V!Hold(h, "hear", x)
  BY CallCounts DEF V!Utter, Ins
<1>2. n \in 1..MaxTurns BY <1>1, SpeakersFinite, CallsAssumption
<1>3. now \in V!Calls /\ now.transcript = call.transcript /\ now.cost = call.cost /\ now.digits = call.digits
  BY DEF CallTyped, V!Calls
<1>4. x \in Memos /\ x.n = n /\ x.cost = 0 /\ x.copy.transcript = now.transcript /\ x.copy.cost = now.cost
  <2> HIDE DEF n, now
  <2>1. V!Sums(now) \in V!Calls /\ V!Sums(now).transcript = now.transcript /\ V!Sums(now).cost = now.cost
    BY <1>3, CopiesTyped
  <2>2. n \in 0..MaxTurns BY <1>2, CallsAssumption
  <2> QED BY <2>1, <2>2, CopiesTyped DEF Memos, V!Nobody
<1> HIDE DEF n, x, now
<1>5. "hear" \in Lines /\ WellPlaced("hear", x, posted) BY <1>2, <1>4 DEF Lines, Speaking, WellPlaced
<1>6. SameSums /\ SameKeys BY <1>1, <1>3 DEF SameSums, SameKeys
<1>7. CASE UNCHANGED <<phone, memo>>
  <2>1. CallTyped' BY <1>1, <1>3, <1>7 DEF CallTyped
  <2> QED BY <1>1, <1>6, <1>7, <2>1
<1>8. CASE V!Hold(h, "hear", x)
  <2>1. /\ phone' \in [Handlers -> Lines] /\ memo' \in [Handlers -> Memos]
        /\ \A g \in Handlers : WellPlaced(phone'[g], memo'[g], posted')
        /\ phone'[h] = "hear" /\ memo'[h] = x
        /\ \A g \in Handlers : g # h => phone'[g] = phone[g] /\ memo'[g] = memo[g]
    BY <1>1, <1>4, <1>5, <1>8, Holding
  <2>2. CallTyped' BY <1>1, <1>3, <2>1 DEF CallTyped
  <2> QED BY <1>1, <1>3, <1>4, <1>6, <2>1, <2>2 DEF n
<1> QED BY <1>1, <1>7, <1>8

\* A turn appended to a copy.
Longer(c, t) == [c EXCEPT !.transcript = @ \cup {t}, !.cost = V!Cost(@, t.cost)]

LEMMA Appended ==
  ASSUME NEW c \in V!Calls, NEW t \in V!Turns
  PROVE  /\ Longer(c, t) \in V!Calls /\ Longer(c, t).transcript = c.transcript \cup {t}
         /\ Longer(c, t).cost = c.cost + t.cost
<1> DEFINE now == Longer(c, t)
<1>1. t.cost \in {0, 1} BY DEF V!Turns
<1>2. V!Cost(c.cost, t.cost) = c.cost + t.cost BY DEF V!Cost
<1>3. c.cost \in Nat /\ c.transcript \subseteq V!Turns BY DEF V!Calls
<1>4. PICK y : y = V!Cost(c.cost, t.cost) OBVIOUS
<1>5. PICK z : z = c.transcript \cup {t} OBVIOUS
<1>6. y \in Nat /\ z \in SUBSET V!Turns BY <1>1, <1>2, <1>3, <1>4, <1>5
<1>7. now = [c EXCEPT !.transcript = z, !.cost = y] BY <1>4, <1>5 DEF Longer
<1> HIDE DEF now
<1>8. now \in V!Calls /\ now.transcript = z /\ now.cost = y BY <1>6, <1>7 DEF V!Calls
<1>9. now \in V!Calls /\ now.transcript = c.transcript \cup {t} /\ now.cost = c.cost + t.cost
  BY <1>2, <1>4, <1>5, <1>8
<1> QED BY <1>9 DEF now

LEMMA AppendFacts ==
  ASSUME CallTyped, NEW h \in Handlers, V!Hear(h) \/ V!Say(h)
  PROVE  /\ CallTyped' /\ UNCHANGED <<line, posted, heard, pressed, thread, paused>>
         /\ \/ V!Hear(h) /\ phone[h] = "hear" /\ phone'[h] = "note_in"
            \/ V!Say(h) /\ phone[h] = "say" /\ phone'[h] = "note_out"
         /\ SameMarks /\ SameKeys /\ call'.made = call.made
         /\ \A g \in Handlers : g # h => phone'[g] = phone[g] /\ memo'[g] = memo[g]
         /\ memo'[h].n = memo[h].n /\ memo'[h].cost = memo[h].cost
         /\ LET way == IF phone[h] = "hear" THEN "in" ELSE "out"
                t == [n |-> memo[h].n, way |-> way, cost |-> memo[h].cost] IN
            /\ t \in V!Turns /\ turns' = turns \cup {t}
            /\ call'.transcript = memo[h].copy.transcript \cup {t}
            /\ call'.cost = memo[h].copy.cost + memo[h].cost
            /\ memo'[h].copy.transcript = call'.transcript /\ memo'[h].copy.cost = call'.cost
<1> DEFINE way == IF phone[h] = "hear" THEN "in" ELSE "out"
           place == IF phone[h] = "hear" THEN "note_in" ELSE "note_out"
           t == [n |-> memo[h].n, way |-> way, cost |-> memo[h].cost]
           now == Longer(memo[h].copy, t)
           x == [memo[h] EXCEPT !.copy = now]
<1>0. phone[h] \in {"hear", "say"} /\ V!Append1(h, way, place) BY DEF V!Hear, V!Say
<1>1. /\ UNCHANGED <<line, posted, heard, pressed, thread, paused>> /\ turns' = turns \cup {t}
      /\ call' = [call EXCEPT !.transcript = now.transcript, !.cost = now.cost] /\ V!Hold(h, place, x)
  BY <1>0 DEF V!Append1, Longer
<1>2. memo[h] \in Memos /\ call \in V!Calls /\ memo[h].copy \in V!Calls /\ memo[h].n \in 1..MaxTurns
      /\ memo[h].cost \in {0, 1}
  BY <1>0, CallsAssumption DEF CallTyped, Memos, WellPlaced, Speaking
<1>3. t \in V!Turns /\ t.cost = memo[h].cost BY <1>2 DEF V!Turns
<1> HIDE DEF t
<1>4. /\ now \in V!Calls /\ now.transcript = memo[h].copy.transcript \cup {t}
      /\ now.cost = memo[h].copy.cost + memo[h].cost
  BY <1>2, <1>3, Appended
<1> HIDE DEF now
<1>5. /\ x \in Memos /\ x.copy = now /\ x.n = memo[h].n /\ x.cost = memo[h].cost
  BY <1>2, <1>4 DEF Memos
<1> HIDE DEF x
<1>6. /\ call' \in V!Calls /\ call'.transcript = now.transcript /\ call'.cost = now.cost
      /\ SameMarks /\ SameKeys /\ call'.made = call.made
  BY <1>1, <1>2, <1>4 DEF V!Calls, SameMarks, SameKeys
<1>7. place \in Lines /\ WellPlaced(place, x, posted) BY <1>2, <1>5, CallsAssumption DEF Lines, Speaking, WellPlaced
<1>8. /\ phone' \in [Handlers -> Lines] /\ memo' \in [Handlers -> Memos]
      /\ \A g \in Handlers : WellPlaced(phone'[g], memo'[g], posted')
      /\ phone'[h] = place /\ memo'[h] = x
      /\ \A g \in Handlers : g # h => phone'[g] = phone[g] /\ memo'[g] = memo[g]
  BY <1>1, <1>5, <1>7, Holding
<1>9. IsFiniteSet(turns') /\ turns' \subseteq V!Turns BY <1>1, <1>3, FS_AddElement DEF CallTyped
<1>10. CallTyped' BY <1>1, <1>6, <1>8, <1>9 DEF CallTyped
<1>11. \/ V!Hear(h) /\ phone[h] = "hear" /\ phone'[h] = "note_in"
       \/ V!Say(h) /\ phone[h] = "say" /\ phone'[h] = "note_out"
  BY <1>8 DEF V!Hear, V!Say
<1> QED BY <1>1, <1>3, <1>4, <1>5, <1>6, <1>8, <1>10, <1>11 DEF t

LEMMA AskFacts ==
  ASSUME CallTyped, NEW h \in Handlers, NEW c \in {0, 1}, V!Ask(h, c)
  PROVE  /\ CallTyped' /\ UNCHANGED <<line, posted, heard, pressed, call, turns, thread, paused>>
         /\ phone[h] = "ask" /\ phone'[h] = "say" /\ memo'[h].n = memo[h].n /\ memo'[h].copy = memo[h].copy
         /\ \A g \in Handlers : g # h => phone'[g] = phone[g] /\ memo'[g] = memo[g]
<1> DEFINE x == [memo[h] EXCEPT !.cost = c]
<1>1. /\ UNCHANGED <<line, posted, heard, pressed, call, turns, thread, paused>>
      /\ phone[h] = "ask" /\ V!Hold(h, "say", x)
  BY DEF V!Ask
<1>2. memo[h] \in Memos /\ memo[h].n # 0 BY <1>1 DEF CallTyped, WellPlaced, Speaking
<1>3. x \in Memos /\ x.n = memo[h].n /\ x.copy = memo[h].copy BY <1>2 DEF Memos
<1> HIDE DEF x
<1>4. "say" \in Lines /\ WellPlaced("say", x, posted) BY <1>2, <1>3 DEF Lines, WellPlaced
<1>5. /\ phone' \in [Handlers -> Lines] /\ memo' \in [Handlers -> Memos]
      /\ \A g \in Handlers : WellPlaced(phone'[g], memo'[g], posted')
      /\ phone'[h] = "say" /\ memo'[h] = x
      /\ \A g \in Handlers : g # h => phone'[g] = phone[g] /\ memo'[g] = memo[g]
  BY <1>1, <1>3, <1>4, Holding
<1>6. CallTyped' BY <1>1, <1>5 DEF CallTyped
<1> QED BY <1>1, <1>3, <1>5, <1>6

LEMMA NoteFacts ==
  ASSUME CallTyped, NEW h \in Handlers, V!NoteIn(h) \/ V!NoteOut(h)
  PROVE  /\ CallTyped' /\ UNCHANGED <<line, posted, heard, pressed, call, turns, paused>>
         /\ \/ /\ phone[h] = "note_in" /\ phone'[h] = "ask" /\ memo'[h] = memo[h]
               /\ thread' = thread \cup {<<memo[h].n, "in">>}
            \/ /\ phone[h] = "note_out" /\ phone'[h] = "idle"
               /\ thread' = thread \cup {<<memo[h].n, "out">>}
         /\ \A g \in Handlers : g # h => phone'[g] = phone[g] /\ memo'[g] = memo[g]
<1>1. /\ UNCHANGED <<line, posted, heard, pressed, call, turns, paused>>
      /\ \/ /\ phone[h] = "note_in" /\ V!Hold(h, "ask", memo[h]) /\ thread' = thread \cup {<<memo[h].n, "in">>}
         \/ phone[h] = "note_out" /\ V!Drop(h) /\ thread' = thread \cup {<<memo[h].n, "out">>}
  BY DEF V!NoteIn, V!NoteOut, V!Note
<1>2. memo[h] \in Memos /\ memo[h].n \in 1..MaxTurns
  BY <1>1, CallsAssumption DEF CallTyped, WellPlaced, Speaking, Memos
<1>3. "ask" \in Lines /\ WellPlaced("ask", memo[h], posted) BY <1>2, CallsAssumption DEF Lines, WellPlaced
<1>4. /\ phone' \in [Handlers -> Lines] /\ memo' \in [Handlers -> Memos]
      /\ \A g \in Handlers : WellPlaced(phone'[g], memo'[g], posted')
      /\ \/ /\ phone[h] = "note_in" /\ phone'[h] = "ask" /\ memo'[h] = memo[h]
            /\ thread' = thread \cup {<<memo[h].n, "in">>}
         \/ /\ phone[h] = "note_out" /\ phone'[h] = "idle"
            /\ thread' = thread \cup {<<memo[h].n, "out">>}
      /\ \A g \in Handlers : g # h => phone'[g] = phone[g] /\ memo'[g] = memo[g]
  <2>1. CASE phone[h] = "note_in" /\ V!Hold(h, "ask", memo[h]) /\ thread' = thread \cup {<<memo[h].n, "in">>}
    BY <1>1, <1>2, <1>3, <2>1, Holding
  <2>2. CASE phone[h] = "note_out" /\ V!Drop(h) /\ thread' = thread \cup {<<memo[h].n, "out">>}
    BY <1>1, <2>2, Dropping
  <2> QED BY <1>1, <2>1, <2>2
<1>5. thread' \subseteq (1..MaxTurns) \X {"in", "out"} BY <1>1, <1>2 DEF CallTyped
<1>6. CallTyped' BY <1>1, <1>4, <1>5 DEF CallTyped
<1> QED BY <1>1, <1>4, <1>6

\* The sum of costs that are 0 or 1 counts those that are 1: the function the
\* fold is defined by is unique on finite sets.
Costs(R) == V!MapThenSumSet(LAMBDA t : t.cost, R)
Sums(f, R) ==
  f = [s \in SUBSET R |-> IF s = {} THEN 0
                          ELSE (CHOOSE y \in s : TRUE).cost + f[s \ {CHOOSE y \in s : TRUE}]]

LEMMA CostsFold == ASSUME NEW R PROVE Costs(R) = (CHOOSE f : Sums(f, R))[R]
BY DEF Costs, V!MapThenSumSet, V!MapThenFoldSet, Sums

Smaller == {p \in Nat \X Nat : p[1] < p[2]}

LEMMA LeastNumber ==
  ASSUME NEW N, N \subseteq Nat, N # {}
  PROVE  \E m \in N : \A k \in N : m <= k
<1>1. IsWellFoundedOn(Smaller, Nat) BY NatLessThanWellFounded DEF OpToRel, Smaller
<1>2. PICK m \in N : \A k \in N : <<k, m>> \notin Smaller BY <1>1, WFMin, Zenon
<1>3. \A k \in N : ~(k < m) BY <1>2 DEF Smaller
<1> QED BY <1>2, <1>3

Charged(T) == \A t \in T : t.cost \in {0, 1}

LEMMA CostLess ==
  ASSUME NEW T, IsFiniteSet(T), Charged(T), NEW y \in T
  PROVE  Cost(T) = y.cost + Cost(T \ {y}) /\ Cost(T) \in Nat /\ Cost(T \ {y}) \in Nat
<1> DEFINE A == {t \in T : t.cost = 1}
           C == {t \in T \ {y} : t.cost = 1}
<1>1. A \in SUBSET T /\ C \in SUBSET T OBVIOUS
<1>2. IsFiniteSet(A) /\ IsFiniteSet(C) BY <1>1, FS_Subset
<1>3. Cardinality(A) \in Nat /\ Cardinality(C) \in Nat BY <1>2, FS_CardinalityType
<1>4. Cost(T) = Cardinality(A) /\ Cost(T \ {y}) = Cardinality(C) BY DEF Cost
<1>5. CASE y.cost = 0
  <2>1. A = C BY <1>5
  <2>2. Cardinality(A) = y.cost + Cardinality(C) BY <1>3, <1>5, <2>1
  <2> QED BY <1>3, <1>4, <2>2
<1>6. CASE y.cost = 1
  <2>1. A = C \cup {y} /\ y \notin C BY <1>6
  <2>2. Cardinality(A) = Cardinality(C) + 1 BY <1>2, <2>1, FS_AddElement
  <2>3. Cardinality(A) = y.cost + Cardinality(C) BY <1>3, <1>6, <2>2
  <2> QED BY <1>3, <1>4, <2>3
<1>7. y.cost \in {0, 1} BY DEF Charged
<1> QED BY <1>5, <1>6, <1>7

LEMMA CostsCount ==
  ASSUME NEW R, IsFiniteSet(R), Charged(R)
  PROVE  Costs(R) = Cost(R)
<1> DEFINE One(s) == CHOOSE y \in s : TRUE
           f == [s \in SUBSET R |-> Cost(s)]
           p == CHOOSE g : Sums(g, R)
<1>1. \A s \in SUBSET R : s # {} => One(s) \in s OBVIOUS
<1>2. \A s \in SUBSET R : IsFiniteSet(s) /\ Charged(s) BY FS_Subset DEF Charged
<1>3. Cost({}) = 0
  <2>1. {t \in {} : t.cost = 1} = {} OBVIOUS
  <2> QED BY <2>1, FS_EmptySet DEF Cost
<1>4. Sums(f, R)
  <2>1. ASSUME NEW s \in SUBSET R
        PROVE f[s] = IF s = {} THEN 0 ELSE One(s).cost + f[s \ {One(s)}]
    <3>1. CASE s = {} BY <1>3, <3>1
    <3>2. CASE s # {}
      <4>1. One(s) \in s BY <1>1, <3>2
      <4>2. PICK y \in s : y = One(s) BY <4>1
      <4>3. s \ {y} \in SUBSET R OBVIOUS
      <4>4. Cost(s) = y.cost + Cost(s \ {y}) BY <1>2, CostLess
      <4>5. f[s] = Cost(s) /\ f[s \ {y}] = Cost(s \ {y}) BY <4>3
      <4> QED BY <3>2, <4>2, <4>4, <4>5
    <3> QED BY <3>1, <3>2
  <2> QED BY <2>1 DEF Sums
<1>5. Sums(p, R) BY <1>4
<1> HIDE DEF f, p
<1>6. \A s \in SUBSET R : p[s] = IF s = {} THEN 0 ELSE One(s).cost + p[s \ {One(s)}] BY <1>5 DEF Sums
<1> DEFINE Odd == {s \in SUBSET R : p[s] # Cost(s)}
           N == {Cardinality(s) : s \in Odd}
<1>7. Odd = {}
  <2> SUFFICES ASSUME Odd # {} PROVE FALSE OBVIOUS
  <2>1. \A s \in Odd : Cardinality(s) \in Nat BY <1>2, FS_CardinalityType
  <2>2. N \subseteq Nat /\ N # {} BY <2>1
  <2>3. PICK m \in N : \A k \in N : m <= k BY <2>2, LeastNumber
  <2>4. PICK s \in Odd : Cardinality(s) = m OBVIOUS
  <2>5. \A r \in Odd : Cardinality(s) <= Cardinality(r) BY <2>3, <2>4
  <2>6. s # {} BY <1>3, <1>6
  <2>7. PICK y \in s : y = One(s) BY <1>1, <2>6
  <2>8. p[s] = y.cost + p[s \ {y}] BY <1>6, <2>6, <2>7
  <2>9. IsFiniteSet(s) /\ Charged(s) BY <1>2
  <2>10. Cardinality(s \ {y}) = Cardinality(s) - 1 BY <2>9, FS_RemoveElement
  <2>11. Cardinality(s) \in Nat BY <2>1
  <2>12. s \ {y} \in SUBSET R /\ s \ {y} \notin Odd 
    <3>1. Cardinality(s \ {y}) < Cardinality(s) BY <2>10, <2>11
    <3>2. ~(Cardinality(s) <= Cardinality(s \ {y})) BY <2>10, <2>11
    <3> QED BY <2>5, <3>2
  <2>13. p[s \ {y}] = Cost(s \ {y}) BY <2>12
  <2>14. p[s] = Cost(s) BY <2>8, <2>9, <2>13, CostLess
  <2> QED BY <2>14
<1>8. Costs(R) = p[R] BY CostsFold DEF p
<1> QED BY <1>7, <1>8

\* What one turn more does to the counts.
LEMMA OneMore ==
  ASSUME NEW T, IsFiniteSet(T), Charged(T), NEW t, t \notin T, t.cost \in {0, 1}
  PROVE  /\ Cost(T \cup {t}) = Cost(T) + t.cost
         /\ t.way = "in" => Cardinality({u \in T \cup {t} : u.way = "in"})
                            = Cardinality({u \in T : u.way = "in"}) + 1
         /\ t.way # "in" => {u \in T \cup {t} : u.way = "in"} = {u \in T : u.way = "in"}
<1>1. IsFiniteSet(T \cup {t}) /\ Charged(T \cup {t}) /\ t \in T \cup {t} BY FS_AddElement DEF Charged
<1>2. (T \cup {t}) \ {t} = T OBVIOUS
<1>3. PICK y \in T \cup {t} : y = t OBVIOUS
<1>4. /\ Cost(T \cup {t}) = y.cost + Cost((T \cup {t}) \ {y}) /\ Cost(T \cup {t}) \in Nat
      /\ Cost((T \cup {t}) \ {y}) \in Nat
  BY <1>1, CostLess
<1>5. Cost(T \cup {t}) = Cost(T) + t.cost BY <1>2, <1>3, <1>4
<1>6. ASSUME t.way = "in" PROVE Cardinality({u \in T \cup {t} : u.way = "in"})
                                = Cardinality({u \in T : u.way = "in"}) + 1
  <2>1. {u \in T : u.way = "in"} \in SUBSET T OBVIOUS
  <2>2. IsFiniteSet({u \in T : u.way = "in"}) BY <2>1, FS_Subset
  <2>3. {u \in T \cup {t} : u.way = "in"} = {u \in T : u.way = "in"} \cup {t} BY <1>6
  <2>4. t \notin {u \in T : u.way = "in"} OBVIOUS
  <2> QED BY <2>2, <2>3, <2>4, FS_AddElement
<1> QED BY <1>5, <1>6

(* Who does not touch the turns, the keys or the marks leaves what is known of them. *)

StillBut(places) == \A g \in Handlers : \/ phone'[g] = phone[g] /\ memo'[g] = memo[g]
                                        \/ phone[g] \notin places /\ phone'[g] \notin places

LEMMA SpeakKept ==
  ASSUME SpeakInv, UNCHANGED <<turns, thread>>, SameSums, StillBut(Speaking)
  PROVE  SpeakInv'
<1>1. Ins' = Ins /\ Noted' = Noted /\ Cost(turns)' = Cost(turns) BY DEF Ins, Noted, Cost
<1>2. \A g \in Handlers : phone'[g] \in Speaking => phone[g] = phone'[g] /\ memo'[g] = memo[g]
  BY DEF StillBut
<1>3. \A g \in Handlers : phone[g] \in Speaking => phone'[g] = phone[g] BY DEF StillBut
<1>4. OneOf(Speaking)' BY <1>2 DEF SpeakInv, OneOf
<1>5. \A g \in Handlers : phone'[g] \in Speaking =>
        memo'[g].copy.transcript = turns' /\ memo'[g].copy.cost = Cost(turns)'
  BY <1>1, <1>2 DEF SpeakInv
<1>6. {"hear", "note_in", "ask", "say", "note_out"} \subseteq Speaking BY DEF Speaking
<1>7. ASSUME NEW g \in Handlers
      PROVE /\ phone'[g] = "hear" => memo'[g].n = Ins' + 1 /\ memo'[g].cost = 0
            /\ phone'[g] \in {"note_in", "ask", "say", "note_out"} => memo'[g].n = Ins'
            /\ phone'[g] \in {"note_in", "ask", "say"} => \A t \in turns' : t.way = "out" => t.n # Ins'
            /\ phone'[g] = "note_in" => thread' \cup {<<memo'[g].n, "in">>} = Noted'
            /\ phone'[g] = "note_out" => thread' \cup {<<memo'[g].n, "out">>} = Noted'
  <2> SUFFICES ASSUME phone'[g] \in Speaking
               PROVE /\ phone'[g] = "hear" => memo'[g].n = Ins' + 1 /\ memo'[g].cost = 0
                     /\ phone'[g] \in {"note_in", "ask", "say", "note_out"} => memo'[g].n = Ins'
                     /\ phone'[g] \in {"note_in", "ask", "say"} => \A t \in turns' : t.way = "out" => t.n # Ins'
                     /\ phone'[g] = "note_in" => thread' \cup {<<memo'[g].n, "in">>} = Noted'
                     /\ phone'[g] = "note_out" => thread' \cup {<<memo'[g].n, "out">>} = Noted'
    BY <1>6
  <2>1. phone'[g] = phone[g] /\ memo'[g] = memo[g] BY <1>2
  <2> QED BY <1>1, <2>1 DEF SpeakInv
<1>8. (\A g \in Handlers : phone'[g] \notin {"note_in", "note_out"}) => thread' = Noted'
  <2> SUFFICES ASSUME \A g \in Handlers : phone'[g] \notin {"note_in", "note_out"} PROVE thread' = Noted'
    OBVIOUS
  <2>1. \A g \in Handlers : phone[g] \notin {"note_in", "note_out"} BY <1>3, <1>6
  <2> QED BY <1>1, <2>1 DEF SpeakInv
<1>9. call'.transcript = turns' /\ call'.cost = Cost(turns)' /\ \A t \in turns' : t.n <= Ins'
  BY <1>1 DEF SpeakInv, SameSums
<1> QED BY <1>4, <1>5, <1>7, <1>8, <1>9 DEF SpeakInv

LEMMA KeysKept ==
  ASSUME KeysInv, UNCHANGED pressed, SameKeys, StillBut({"digit"})
  PROVE  KeysInv'
BY DEF KeysInv, SameKeys, StillBut, OneOf

LEMMA EventsKept ==
  ASSUME EventsInv, UNCHANGED <<line, posted, heard>>, SameMarks, call.made => call'.made, StillBut({"event"})
  PROVE  EventsInv'
<1>1. HungUp' = HungUp BY DEF HungUp
<1>2. \A g \in Handlers : phone'[g] = "event" => phone[g] = "event" /\ memo'[g] = memo[g] BY DEF StillBut
<1> QED BY <1>1, <1>2 DEF EventsInv, SameMarks

\* The turns, step by step. ----------------------------------------------------

\* Nobody speaks but one.
LEMMA SoleSpeaker ==
  ASSUME SpeakInv, NEW h \in Handlers, phone[h] \in Speaking
  PROVE  \A g \in Handlers : g # h => phone[g] \notin Speaking
BY DEF SpeakInv, OneOf

LEMMA UtterSpeak ==
  ASSUME CallTyped, SpeakInv, NEW h \in Handlers, Off(Speaking), V!Utter(h)
  PROVE  SpeakInv'
<1>1. /\ UNCHANGED <<turns, thread>> /\ SameSums
      /\ \A g \in Handlers : g # h => phone'[g] = phone[g] /\ memo'[g] = memo[g]
      /\ \/ phone' = phone /\ memo' = memo
         \/ /\ phone'[h] = "hear" /\ memo'[h].cost = 0
            /\ memo'[h].n = Ins + Cardinality({g \in Handlers : phone[g] = "hear"}) + 1
            /\ memo'[h].copy.transcript = call.transcript /\ memo'[h].copy.cost = call.cost
  BY UtterFacts
<1>2. CASE phone' = phone /\ memo' = memo BY <1>1, <1>2, SpeakKept DEF StillBut
<1>3. CASE /\ phone'[h] = "hear" /\ memo'[h].cost = 0
           /\ memo'[h].n = Ins + Cardinality({g \in Handlers : phone[g] = "hear"}) + 1
           /\ memo'[h].copy.transcript = call.transcript /\ memo'[h].copy.cost = call.cost
  <2>1. \A g \in Handlers : phone[g] \notin Speaking BY DEF Off
  <2>2. "hear" \in Speaking /\ "note_in" \in Speaking /\ "note_out" \in Speaking BY DEF Speaking
  <2>3. {g \in Handlers : phone[g] = "hear"} = {} BY <2>1, <2>2
  <2>4. Cardinality({g \in Handlers : phone[g] = "hear"}) = 0 BY <2>3, FS_EmptySet
  <2>5. memo'[h].n = Ins + 1 BY <1>3, <2>4, SpeakersFinite
  <2>6. Ins' = Ins /\ Noted' = Noted /\ Cost(turns)' = Cost(turns) BY <1>1 DEF Ins, Noted, Cost
  <2>7. \A g \in Handlers : g # h => phone'[g] \notin Speaking BY <1>1, <2>1
  <2>8. thread = Noted BY <2>1, <2>2 DEF SpeakInv
  <2>9. /\ call.transcript = turns /\ call.cost = Cost(turns) /\ \A t \in turns : t.n <= Ins BY DEF SpeakInv
  <2>10. \A g \in Handlers : phone'[g] \in Speaking => g = h BY <2>7
  <2>11. \A g \in Handlers : phone'[g] \notin {"note_in", "ask", "say", "note_out"}
    BY <1>3, <2>7 DEF Speaking
  <2>12. \A g \in Handlers : phone'[g] = "hear" => g = h BY <2>2, <2>10
  <2> QED BY <1>1, <1>3, <2>5, <2>6, <2>8, <2>9, <2>10, <2>11, <2>12 DEF SpeakInv, OneOf, SameSums
<1> QED BY <1>1, <1>2, <1>3

LEMMA AppendSpeak ==
  ASSUME CallTyped, SpeakInv, NEW h \in Handlers, V!Hear(h) \/ V!Say(h)
  PROVE  SpeakInv'
<1> DEFINE way == IF phone[h] = "hear" THEN "in" ELSE "out"
           t == [n |-> memo[h].n, way |-> way, cost |-> memo[h].cost]
<1>1. /\ CallTyped' /\ UNCHANGED thread
      /\ \/ phone[h] = "hear" /\ phone'[h] = "note_in"
         \/ phone[h] = "say" /\ phone'[h] = "note_out"
      /\ \A g \in Handlers : g # h => phone'[g] = phone[g] /\ memo'[g] = memo[g]
      /\ memo'[h].n = memo[h].n
      /\ t \in V!Turns /\ turns' = turns \cup {t}
      /\ call'.transcript = memo[h].copy.transcript \cup {t} /\ call'.cost = memo[h].copy.cost + memo[h].cost
      /\ memo'[h].copy.transcript = call'.transcript /\ memo'[h].copy.cost = call'.cost
  BY AppendFacts
<1>2. t.n = memo[h].n /\ t.way = way /\ t.cost = memo[h].cost /\ t.cost \in {0, 1} BY <1>1 DEF V!Turns
<1>3. phone[h] = "hear" => way = "in" OBVIOUS
<1>4. phone[h] = "say" => way = "out" OBVIOUS
<1> HIDE DEF t, way
<1>5. phone[h] \in Speaking /\ "hear" \in Speaking /\ "say" \in Speaking
      /\ "note_in" \in Speaking /\ "note_out" \in Speaking
  BY <1>1 DEF Speaking
<1>6. \A g \in Handlers : g # h => phone[g] \notin Speaking /\ phone'[g] \notin Speaking
  BY <1>1, <1>5, SoleSpeaker
<1>7. /\ memo[h].copy.transcript = turns /\ memo[h].copy.cost = Cost(turns) /\ \A u \in turns : u.n <= Ins
      /\ phone[h] = "hear" => memo[h].n = Ins + 1 /\ memo[h].cost = 0
      /\ phone[h] = "say" => memo[h].n = Ins /\ \A u \in turns : u.way = "out" => u.n # Ins
  BY <1>5 DEF SpeakInv
<1>8. thread = Noted
  <2>1. \A g \in Handlers : phone[g] \notin {"note_in", "note_out"} BY <1>1, <1>5, <1>6
  <2> QED BY <2>1 DEF SpeakInv
<1>9. Ins \in Nat BY SpeakersFinite
<1>10. t \notin turns
  <2>1. CASE phone[h] = "hear" BY <1>2, <1>7, <1>9, <2>1
  <2>2. CASE phone[h] = "say" BY <1>2, <1>4, <1>7, <2>2
  <2> QED BY <1>1, <2>1, <2>2
<1>11. IsFiniteSet(turns) /\ Charged(turns) BY DEF CallTyped, Charged, V!Turns
<1>12. /\ Cost(turns \cup {t}) = Cost(turns) + t.cost
       /\ t.way = "in" => Cardinality({u \in turns \cup {t} : u.way = "in"}) = Ins + 1
       /\ t.way # "in" => {u \in turns \cup {t} : u.way = "in"} = {u \in turns : u.way = "in"}
  BY <1>2, <1>10, <1>11, OneMore DEF Ins
<1>13. Cost(turns)' = Cost(turns) + t.cost BY <1>1, <1>12 DEF Cost
<1>14. phone[h] = "hear" => Ins' = Ins + 1 BY <1>1, <1>2, <1>3, <1>12 DEF Ins
<1>15. phone[h] = "say" => Ins' = Ins BY <1>1, <1>2, <1>4, <1>12 DEF Ins
<1>16. memo[h].n = Ins' BY <1>1, <1>7, <1>14, <1>15
<1>17. \A u \in turns' : u.n <= Ins'
  <2> SUFFICES ASSUME NEW u \in turns' PROVE u.n <= Ins' OBVIOUS
  <2>1. Ins' = Ins \/ Ins' = Ins + 1 BY <1>1, <1>14, <1>15
  <2>2. CASE u = t BY <1>2, <1>9, <1>16, <2>1, <2>2
  <2>3. CASE u \in turns
    <3>1. u.n \in Int BY <2>3, CallsAssumption DEF CallTyped, V!Turns
    <3> QED BY <1>7, <1>9, <2>1, <2>3, <3>1
  <2> QED BY <1>1, <2>2, <2>3
<1>18. Noted' = thread' \cup {<<memo[h].n, way>>}
  <2>1. Noted' = Noted \cup {<<t.n, t.way>>} BY <1>1 DEF Noted
  <2> QED BY <1>1, <1>2, <1>8, <2>1
<1>19. call'.transcript = turns' /\ call'.cost = Cost(turns)' BY <1>1, <1>2, <1>7, <1>13
<1>20. OneOf(Speaking)' BY <1>6 DEF OneOf
<1>21. phone'[h] = "note_in" => \A u \in turns' : u.way = "out" => u.n # Ins'
  <2> SUFFICES ASSUME phone'[h] = "note_in", NEW u \in turns', u.way = "out" PROVE u.n # Ins'
    OBVIOUS
  <2>1. phone[h] = "hear" BY <1>1
  <2>2. u \in turns BY <1>1, <1>2, <1>3, <2>1
  <2> QED BY <1>7, <1>9, <1>14, <2>1, <2>2
<1>22. phone'[h] \in {"note_in", "note_out"} /\ phone'[h] \in Speaking BY <1>1, <1>5
<1>23. phone'[h] = "note_in" => way = "in" BY <1>1, <1>3
<1>24. phone'[h] = "note_out" => way = "out" BY <1>1, <1>4
<1>25. ASSUME NEW g \in Handlers
       PROVE /\ phone'[g] \in Speaking => memo'[g].copy.transcript = turns' /\ memo'[g].copy.cost = Cost(turns)'
             /\ phone'[g] = "hear" => memo'[g].n = Ins' + 1 /\ memo'[g].cost = 0
             /\ phone'[g] \in {"note_in", "ask", "say", "note_out"} => memo'[g].n = Ins'
             /\ phone'[g] \in {"note_in", "ask", "say"} => \A u \in turns' : u.way = "out" => u.n # Ins'
             /\ phone'[g] = "note_in" => thread' \cup {<<memo'[g].n, "in">>} = Noted'
             /\ phone'[g] = "note_out" => thread' \cup {<<memo'[g].n, "out">>} = Noted'
  <2>1. CASE g = h BY <1>1, <1>16, <1>18, <1>19, <1>21, <1>22, <1>23, <1>24, <2>1
  <2>2. CASE g # h BY <1>6, <2>2 DEF Speaking
  <2> QED BY <2>1, <2>2
<1> QED BY <1>17, <1>19, <1>20, <1>22, <1>25 DEF SpeakInv

LEMMA AskSpeak ==
  ASSUME CallTyped, SpeakInv, NEW h \in Handlers, NEW c \in {0, 1}, V!Ask(h, c)
  PROVE  SpeakInv'
<1>1. /\ UNCHANGED <<call, turns, thread>>
      /\ phone[h] = "ask" /\ phone'[h] = "say" /\ memo'[h].n = memo[h].n /\ memo'[h].copy = memo[h].copy
      /\ \A g \in Handlers : g # h => phone'[g] = phone[g] /\ memo'[g] = memo[g]
  BY AskFacts
<1>2. {"hear", "note_in", "ask", "say", "note_out"} \subseteq Speaking BY DEF Speaking
<1>3. \A g \in Handlers : g # h => phone[g] \notin Speaking /\ phone'[g] \notin Speaking
  BY <1>1, <1>2, SoleSpeaker
<1>4. Ins' = Ins /\ Noted' = Noted /\ Cost(turns)' = Cost(turns) BY <1>1 DEF Ins, Noted, Cost
<1>5. /\ memo[h].copy.transcript = turns /\ memo[h].copy.cost = Cost(turns) /\ memo[h].n = Ins
      /\ \A t \in turns : t.way = "out" => t.n # Ins
  BY <1>1, <1>2 DEF SpeakInv
<1>6. \A g \in Handlers : phone[g] \notin {"note_in", "note_out"} BY <1>1, <1>2, <1>3
<1>7. thread = Noted BY <1>6 DEF SpeakInv
<1>8. OneOf(Speaking)' BY <1>3 DEF OneOf
<1>9. \A g \in Handlers : phone'[g] \in Speaking => g = h BY <1>3
<1>10. \A g \in Handlers : phone'[g] \in {"hear", "note_in", "ask", "say", "note_out"} => g = h BY <1>2, <1>9
<1>11. /\ call'.transcript = turns' /\ call'.cost = Cost(turns)' /\ \A t \in turns' : t.n <= Ins'
  BY <1>1, <1>4 DEF SpeakInv
<1> QED BY <1>1, <1>4, <1>5, <1>7, <1>8, <1>9, <1>10, <1>11 DEF SpeakInv

LEMMA NoteSpeak ==
  ASSUME CallTyped, SpeakInv, NEW h \in Handlers, V!NoteIn(h) \/ V!NoteOut(h)
  PROVE  SpeakInv'
<1>1. /\ UNCHANGED <<call, turns>>
      /\ \/ /\ phone[h] = "note_in" /\ phone'[h] = "ask" /\ memo'[h] = memo[h]
            /\ thread' = thread \cup {<<memo[h].n, "in">>}
         \/ /\ phone[h] = "note_out" /\ phone'[h] = "idle"
            /\ thread' = thread \cup {<<memo[h].n, "out">>}
      /\ \A g \in Handlers : g # h => phone'[g] = phone[g] /\ memo'[g] = memo[g]
  BY NoteFacts
<1>2. {"hear", "note_in", "ask", "say", "note_out"} \subseteq Speaking /\ "idle" \notin Speaking BY DEF Speaking
<1>3. \A g \in Handlers : g # h => phone[g] \notin Speaking /\ phone'[g] \notin Speaking
  BY <1>1, <1>2, SoleSpeaker
<1>4. Ins' = Ins /\ Noted' = Noted /\ Cost(turns)' = Cost(turns) BY <1>1 DEF Ins, Noted, Cost
<1>5. thread' = Noted BY <1>1 DEF SpeakInv
<1>6. OneOf(Speaking)' BY <1>3 DEF OneOf
<1>7. \A g \in Handlers : phone'[g] \in Speaking => g = h BY <1>3
<1>8. \A g \in Handlers : phone'[g] \in {"hear", "note_in", "ask", "say", "note_out"} => g = h BY <1>2, <1>7
<1>9. /\ call'.transcript = turns' /\ call'.cost = Cost(turns)' /\ \A t \in turns' : t.n <= Ins'
  BY <1>1, <1>4 DEF SpeakInv
<1>10. CASE phone[h] = "note_in" /\ phone'[h] = "ask" /\ memo'[h] = memo[h]
  <2>1. /\ memo[h].copy.transcript = turns /\ memo[h].copy.cost = Cost(turns) /\ memo[h].n = Ins
        /\ \A t \in turns : t.way = "out" => t.n # Ins
    BY <1>2, <1>10 DEF SpeakInv
  <2> QED BY <1>1, <1>4, <1>5, <1>6, <1>7, <1>8, <1>9, <1>10, <2>1 DEF SpeakInv
<1>11. CASE phone[h] = "note_out" /\ phone'[h] = "idle"
  <2>1. \A g \in Handlers : phone'[g] \notin Speaking BY <1>2, <1>3, <1>11
  <2>2. \A g \in Handlers : phone'[g] \notin {"hear", "note_in", "ask", "say", "note_out"} BY <1>2, <2>1
  <2> QED BY <1>1, <1>4, <1>5, <1>6, <1>9, <2>1, <2>2 DEF SpeakInv
<1> QED BY <1>1, <1>10, <1>11

\* A step of a call, in any scene.
LEMMA CallMoves ==
  ASSUME VoiceNext
  PROVE  \/ V!Switch /\ (scene = "events" => heard = posted /\ Off({"event"}))
         \/ scene = "turns" /\ V!Pause
         \/ \E h \in Handlers : V!Start(h)
         \/ \E h \in Handlers : \E e \in V!Events : V!Load(h, e)
         \/ \E h \in Handlers : V!SaveEvent(h)
         \/ \E h \in Handlers : V!Press(h) /\ Off({"digit"})
         \/ \E h \in Handlers : V!SaveDigit(h)
         \/ \E h \in Handlers : scene = "turns" /\ Off(Speaking) /\ V!Utter(h)
         \/ \E h \in Handlers : V!Hear(h) \/ V!Say(h)
         \/ \E h \in Handlers : \E c \in {0, 1} : V!Ask(h, c)
         \/ \E h \in Handlers : V!NoteIn(h) \/ V!NoteOut(h)
BY DEF VoiceNext, V!Handle, V!Speak, Speaking

LEMMA CallTypes ==
  ASSUME CallTyped, VoiceNext
  PROVE  CallTyped'
BY CallMoves, SwitchFacts, PauseFacts, StartFacts, LoadFacts, SaveEventFacts, PressFacts, SaveDigitFacts,
   UtterFacts, AppendFacts, AskFacts, NoteFacts

\* A step that moves one request between places that do not matter.
LEMMA MovesAside ==
  ASSUME NEW h \in Handlers, NEW places, phone[h] \notin places, phone'[h] \notin places,
         \A g \in Handlers : g # h => phone'[g] = phone[g] /\ memo'[g] = memo[g]
  PROVE  StillBut(places)
BY DEF StillBut

LEMMA SpeakStep ==
  ASSUME CallTyped, SpeakInv, VoiceNext PROVE SpeakInv'
<1>0. "idle" \notin Speaking /\ "event" \notin Speaking /\ "digit" \notin Speaking BY DEF Speaking
<1>1. CASE V!Switch
  <2>1. UNCHANGED <<turns, thread, call, phone, memo>> BY <1>1, SwitchFacts
  <2> QED BY <2>1, SpeakKept DEF SameSums, StillBut
<1>2. CASE V!Pause
  <2>1. UNCHANGED <<turns, thread, call, phone, memo>> BY <1>2, PauseFacts
  <2> QED BY <2>1, SpeakKept DEF SameSums, StillBut
<1>3. ASSUME NEW h \in Handlers, V!Start(h) PROVE SpeakInv'
  <2>1. UNCHANGED <<turns, thread, phone, memo>> /\ SameSums BY <1>3, StartFacts
  <2> QED BY <2>1, SpeakKept DEF StillBut
<1>4. ASSUME NEW h \in Handlers, NEW e \in V!Events, V!Load(h, e) PROVE SpeakInv'
  <2>1. /\ UNCHANGED <<turns, thread, call>> /\ phone[h] = "idle"
        /\ \A g \in Handlers : g # h => phone'[g] = phone[g] /\ memo'[g] = memo[g]
        /\ phone'[h] = "event" \/ phone' = phone
    BY <1>4, LoadFacts
  <2>2. StillBut(Speaking) BY <1>0, <2>1, MovesAside
  <2> QED BY <2>1, <2>2, SpeakKept DEF SameSums
<1>5. ASSUME NEW h \in Handlers, V!SaveEvent(h) PROVE SpeakInv'
  <2>1. /\ UNCHANGED <<turns, thread>> /\ SameSums /\ phone[h] = "event" /\ phone'[h] = "idle"
        /\ \A g \in Handlers : g # h => phone'[g] = phone[g] /\ memo'[g] = memo[g]
    BY <1>5, SaveEventFacts
  <2>2. StillBut(Speaking) BY <1>0, <2>1, MovesAside
  <2> QED BY <2>1, <2>2, SpeakKept
<1>6. ASSUME NEW h \in Handlers, V!Press(h) PROVE SpeakInv'
  <2>1. /\ UNCHANGED <<turns, thread, call>> /\ phone[h] = "idle" /\ phone'[h] = "digit"
        /\ \A g \in Handlers : g # h => phone'[g] = phone[g] /\ memo'[g] = memo[g]
    BY <1>6, PressFacts
  <2>2. StillBut(Speaking) BY <1>0, <2>1, MovesAside
  <2> QED BY <2>1, <2>2, SpeakKept DEF SameSums
<1>7. ASSUME NEW h \in Handlers, V!SaveDigit(h) PROVE SpeakInv'
  <2>1. /\ UNCHANGED <<turns, thread>> /\ SameSums /\ phone[h] = "digit" /\ phone'[h] = "idle"
        /\ \A g \in Handlers : g # h => phone'[g] = phone[g] /\ memo'[g] = memo[g]
    BY <1>7, SaveDigitFacts
  <2>2. StillBut(Speaking) BY <1>0, <2>1, MovesAside
  <2> QED BY <2>1, <2>2, SpeakKept
<1> QED BY <1>1, <1>2, <1>3, <1>4, <1>5, <1>6, <1>7, CallMoves, UtterSpeak, AppendSpeak, AskSpeak, NoteSpeak

\* The keys: who adds one has read all that were pressed before.
LEMMA KeysStep ==
  ASSUME CallTyped, KeysInv, VoiceNext PROVE KeysInv'
<1>0. "digit" \notin Speaking BY DEF Speaking
<1>1. CASE V!Switch
  <2>1. UNCHANGED <<pressed, call, phone, memo>> BY <1>1, SwitchFacts
  <2> QED BY <2>1, KeysKept DEF SameKeys, StillBut
<1>2. CASE V!Pause
  <2>1. UNCHANGED <<pressed, call, phone, memo>> BY <1>2, PauseFacts
  <2> QED BY <2>1, KeysKept DEF SameKeys, StillBut
<1>3. ASSUME NEW h \in Handlers, V!Start(h) PROVE KeysInv'
  <2>1. UNCHANGED <<pressed, phone, memo>> /\ SameKeys BY <1>3, StartFacts
  <2> QED BY <2>1, KeysKept DEF StillBut
<1>4. ASSUME NEW h \in Handlers, NEW e \in V!Events, V!Load(h, e) PROVE KeysInv'
  <2>1. /\ UNCHANGED <<pressed, call>> /\ phone[h] = "idle"
        /\ \A g \in Handlers : g # h => phone'[g] = phone[g] /\ memo'[g] = memo[g]
        /\ phone'[h] = "event" \/ phone' = phone
    BY <1>4, LoadFacts
  <2>2. StillBut({"digit"}) BY <2>1, MovesAside
  <2> QED BY <2>1, <2>2, KeysKept DEF SameKeys
<1>5. ASSUME NEW h \in Handlers, V!SaveEvent(h) PROVE KeysInv'
  <2>1. /\ UNCHANGED pressed /\ SameKeys /\ phone[h] = "event" /\ phone'[h] = "idle"
        /\ \A g \in Handlers : g # h => phone'[g] = phone[g] /\ memo'[g] = memo[g]
    BY <1>5, SaveEventFacts
  <2>2. StillBut({"digit"}) BY <2>1, MovesAside
  <2> QED BY <2>1, <2>2, KeysKept
<1>6. ASSUME NEW h \in Handlers, V!Press(h), Off({"digit"}) PROVE KeysInv'
  <2>1. /\ UNCHANGED call /\ phone'[h] = "digit" /\ memo'[h].copy.digits = call.digits /\ pressed' = pressed + 1
        /\ \A g \in Handlers : g # h => phone'[g] = phone[g] /\ memo'[g] = memo[g]
    BY <1>6, PressFacts
  <2>2. pressed = call.digits /\ \A g \in Handlers : phone[g] # "digit" BY <1>6 DEF KeysInv, Off
  <2> QED BY <2>1, <2>2 DEF KeysInv, OneOf
<1>7. ASSUME NEW h \in Handlers, V!SaveDigit(h) PROVE KeysInv'
  <2>1. /\ UNCHANGED pressed /\ phone[h] = "digit" /\ phone'[h] = "idle" /\ call'.digits = memo[h].copy.digits + 1
        /\ \A g \in Handlers : g # h => phone'[g] = phone[g] /\ memo'[g] = memo[g]
    BY <1>7, SaveDigitFacts
  <2>2. \A g \in Handlers : phone'[g] # "digit" BY <2>1 DEF KeysInv, OneOf
  <2>3. pressed' = call'.digits BY <2>1 DEF KeysInv
  <2> QED BY <2>2, <2>3 DEF KeysInv, OneOf
<1>8. ASSUME NEW h \in Handlers, V!Utter(h) PROVE KeysInv'
  <2>1. /\ UNCHANGED pressed /\ SameKeys /\ phone[h] = "idle"
        /\ \A g \in Handlers : g # h => phone'[g] = phone[g] /\ memo'[g] = memo[g]
        /\ phone'[h] = "hear" \/ phone' = phone
    BY <1>8, UtterFacts
  <2>2. StillBut({"digit"}) BY <2>1, MovesAside
  <2> QED BY <2>1, <2>2, KeysKept
<1>9. ASSUME NEW h \in Handlers, V!Hear(h) \/ V!Say(h) PROVE KeysInv'
  <2>1. /\ UNCHANGED pressed /\ SameKeys
        /\ phone[h] \in {"hear", "say"} /\ phone'[h] \in {"note_in", "note_out"}
        /\ \A g \in Handlers : g # h => phone'[g] = phone[g] /\ memo'[g] = memo[g]
    BY <1>9, AppendFacts
  <2>2. StillBut({"digit"}) BY <2>1, MovesAside
  <2> QED BY <2>1, <2>2, KeysKept
<1>10. ASSUME NEW h \in Handlers, NEW c \in {0, 1}, V!Ask(h, c) PROVE KeysInv'
  <2>1. /\ UNCHANGED <<pressed, call>> /\ phone[h] = "ask" /\ phone'[h] = "say"
        /\ \A g \in Handlers : g # h => phone'[g] = phone[g] /\ memo'[g] = memo[g]
    BY <1>10, AskFacts
  <2>2. StillBut({"digit"}) BY <2>1, MovesAside
  <2> QED BY <2>1, <2>2, KeysKept DEF SameKeys
<1>11. ASSUME NEW h \in Handlers, V!NoteIn(h) \/ V!NoteOut(h) PROVE KeysInv'
  <2>1. /\ UNCHANGED <<pressed, call>> /\ phone[h] \in {"note_in", "note_out"} /\ phone'[h] \in {"ask", "idle"}
        /\ \A g \in Handlers : g # h => phone'[g] = phone[g] /\ memo'[g] = memo[g]
    BY <1>11, NoteFacts
  <2>2. StillBut({"digit"}) BY <2>1, MovesAside
  <2> QED BY <2>1, <2>2, KeysKept DEF SameKeys
<1> QED BY <1>1, <1>2, <1>3, <1>4, <1>5, <1>6, <1>7, <1>8, <1>9, <1>10, <1>11, CallMoves

\* The events, one by one.
LEMMA EventsStep ==
  ASSUME CallTyped, EventsInv, scene = "events", VoiceNext PROVE EventsInv' /\ V!EndStep
<1>0. /\ HungUp \subseteq V!Ends /\ HungUp \subseteq posted /\ heard \subseteq posted
      /\ \A e \in V!Ends : e \in posted => e \in HungUp
      /\ "answered" \notin V!Ends /\ "recording" \notin V!Ends /\ "started" \notin V!Ends
  BY DEF HungUp, CallTyped, V!Ends
<1>1. ASSUME V!Switch, heard = posted, Off({"event"}) PROVE EventsInv' /\ V!EndStep
  <2>1. UNCHANGED <<heard, call, phone, memo>> BY <1>1, SwitchFacts
  <2>2. PICK e \in V!Events :
          /\ line' = e /\ posted' = posted \cup {e}
          /\ \/ line = "none" /\ e = "started"
             \/ line = "started" /\ e = "answered"
             \/ line \in {"started", "answered"} /\ e \in V!Ends
             \/ line = "completed" /\ e = "recording"
    BY <1>1, SwitchFacts
  <2>3. \A g \in Handlers : phone'[g] # "event" BY <1>1, <2>1 DEF Off
  <2>4. V!EndStep BY <2>1 DEF V!EndStep
  <2>5. HungUp' = HungUp \cup ({e} \cap V!Ends) BY <2>2 DEF HungUp
  <2>6. CASE line = "none" /\ e = "started"
    <3>1. posted = {} /\ HungUp = {} BY <2>6, <1>0 DEF EventsInv
    <3>2. HungUp' = {} BY <1>0, <2>5, <2>6, <3>1
    <3> QED BY <1>1, <2>1, <2>2, <2>3, <2>4, <2>6, <3>1, <3>2 DEF EventsInv
  <2>7. CASE line = "started" /\ e = "answered"
    <3>1. "started" \in posted /\ HungUp = {} BY <2>7 DEF EventsInv
    <3>2. HungUp' = {} BY <1>0, <2>5, <2>7, <3>1
    <3> QED BY <1>1, <2>1, <2>2, <2>3, <2>4, <2>7, <3>1, <3>2 DEF EventsInv
  <2>8. CASE line \in {"started", "answered"} /\ e \in V!Ends
    <3>1. "started" \in posted /\ HungUp = {} BY <2>8 DEF EventsInv
    <3>2. HungUp' = {e} /\ e # "answered" BY <1>0, <2>5, <2>8, <3>1
    <3>3. line' \notin {"none", "started", "answered"} BY <2>2, <2>8 DEF V!Ends
    <3>4. "answered" \in posted' => call'.answered BY <1>1, <2>1, <2>2, <3>2 DEF EventsInv
    <3>5. ~call'.ended BY <2>1, <3>1 DEF EventsInv
    <3> QED BY <1>1, <2>1, <2>2, <2>3, <2>4, <2>8, <3>1, <3>2, <3>3, <3>4, <3>5 DEF EventsInv
  <2>9. CASE line = "completed" /\ e = "recording"
    <3>1. "started" \in posted BY <2>9 DEF EventsInv
    <3>2. HungUp' = HungUp BY <1>0, <2>5, <2>9
    <3> QED BY <1>1, <2>1, <2>2, <2>3, <2>4, <2>9, <3>1, <3>2 DEF EventsInv
  <2> QED BY <2>2, <2>6, <2>7, <2>8, <2>9
<1>2. ASSUME NEW h \in Handlers, V!Start(h) PROVE EventsInv' /\ V!EndStep
  <2>1. /\ UNCHANGED <<line, posted, phone, memo>> /\ "started" \in posted /\ heard' = heard \cup {"started"}
        /\ call'.made /\ SameMarks
    BY <1>2, StartFacts
  <2>2. HungUp' = HungUp BY <2>1 DEF HungUp
  <2> QED BY <2>1, <2>2 DEF EventsInv, SameMarks, V!EndStep
<1>3. ASSUME NEW h \in Handlers, NEW e \in V!Events, V!Load(h, e) PROVE EventsInv' /\ V!EndStep
  <2>1. /\ UNCHANGED <<line, posted, call>> /\ e \in posted \ {"started"} /\ phone[h] = "idle"
        /\ \A g \in Handlers : g # h => phone'[g] = phone[g] /\ memo'[g] = memo[g]
        /\ \/ /\ call.made /\ heard' = heard /\ phone'[h] = "event" /\ memo'[h].event = e
              /\ memo'[h].copy.answered = call.answered /\ memo'[h].copy.ended = call.ended
           \/ ~call.made /\ heard' = heard \cup {e} /\ phone' = phone /\ memo' = memo
    BY <1>3, LoadFacts
  <2>2. HungUp' = HungUp BY <2>1 DEF HungUp
  <2>3. "started" \in heard /\ call.made BY <2>1 DEF EventsInv
  <2>4. V!EndStep BY <2>1 DEF V!EndStep
  <2>5. memo'[h].event = e /\ memo'[h].copy.answered = call.answered /\ memo'[h].copy.ended = call.ended
        /\ heard' = heard
    BY <2>1, <2>3
  <2>6. ASSUME NEW g \in Handlers, phone'[g] = "event"
        PROVE /\ memo'[g].copy.answered => call'.answered
              /\ memo'[g].copy.ended => call'.ended
              /\ memo'[g].event = "answered" /\ HungUp' # {} => memo'[g].copy.answered
    <3>1. CASE g = h
      <4>1. e = "answered" /\ HungUp # {} => call.answered BY <2>1 DEF EventsInv
      <4> QED BY <2>1, <2>2, <2>5, <3>1, <4>1
    <3>2. CASE g # h BY <2>1, <2>2, <2>6, <3>2 DEF EventsInv
    <3> QED BY <3>1, <3>2
  <2> QED BY <2>1, <2>2, <2>4, <2>5, <2>6 DEF EventsInv
<1>4. ASSUME NEW h \in Handlers, V!SaveEvent(h) PROVE EventsInv' /\ V!EndStep
  <2> DEFINE e == memo[h].event
             x == memo[h].copy
  <2>1. /\ UNCHANGED <<line, posted>> /\ phone[h] = "event" /\ phone'[h] = "idle" /\ heard' = heard \cup {e}
        /\ \A g \in Handlers : g # h => phone'[g] = phone[g] /\ memo'[g] = memo[g]
        /\ e \in posted \ {"started"} /\ call'.made = call.made
        /\ \/ e = "answered" /\ x.answered /\ SameMarks
           \/ e = "answered" /\ ~x.answered /\ call'.answered /\ call'.ended = call.ended
           \/ e \in V!Ends /\ x.ended /\ SameMarks
           \/ e \in V!Ends /\ ~x.ended /\ call'.answered = call.answered /\ call'.ended /\ call'.status = e
           \/ e = "recording" /\ SameMarks
    BY <1>4, SaveEventFacts
  <2>2. /\ x.answered => call.answered
        /\ x.ended => call.ended
        /\ e = "answered" /\ HungUp # {} => x.answered
    BY <2>1 DEF EventsInv
  <2> HIDE DEF e, x
  <2>3. HungUp' = HungUp BY <2>1 DEF HungUp
  <2>4. "started" \in heard BY <2>1 DEF EventsInv
  <2>5. call.ended => call.status \in HungUp BY DEF EventsInv
  <2>6. (call.answered => call'.answered) /\ (call.ended => call'.ended) BY <2>1 DEF SameMarks
  <2>7. e = "answered" => call'.answered BY <1>0, <2>1, <2>2 DEF SameMarks
  <2>8. call'.ended => call'.status \in HungUp
    <3>1. CASE e = "answered" /\ ~x.answered /\ call'.ended = call.ended BY <2>2, <2>5, <3>1
    <3>2. CASE e \in V!Ends /\ call'.status = e BY <1>0, <2>1, <3>2
    <3>3. CASE SameMarks BY <2>5, <3>3 DEF SameMarks
    <3> QED BY <2>1, <3>1, <3>2, <3>3
  <2>9. V!EndStep
    <3> SUFFICES ASSUME call.ended PROVE call'.ended /\ call'.status = call.status BY DEF V!EndStep
    <3>1. call.status \in HungUp /\ \A f, k \in HungUp : f = k BY <2>5 DEF EventsInv
    <3>2. CASE e = "answered" /\ ~x.answered BY <2>2, <3>1, <3>2
    <3>3. CASE e \in V!Ends /\ call'.ended /\ call'.status = e BY <1>0, <2>1, <3>1, <3>3
    <3>4. CASE SameMarks BY <3>4 DEF SameMarks
    <3> QED BY <2>1, <3>2, <3>3, <3>4
  <2>10. ASSUME NEW g \in Handlers, phone'[g] = "event"
         PROVE /\ memo'[g].copy.answered => call'.answered
               /\ memo'[g].copy.ended => call'.ended
               /\ memo'[g].event = "answered" /\ HungUp' # {} => memo'[g].copy.answered
    <3>1. g # h BY <2>1, <2>10
    <3>2. phone[g] = "event" /\ memo'[g] = memo[g] BY <2>1, <2>10, <3>1
    <3> QED BY <2>3, <2>6, <3>2 DEF EventsInv
  <2> QED BY <2>1, <2>3, <2>4, <2>6, <2>7, <2>8, <2>9, <2>10 DEF EventsInv
<1>5. ASSUME NEW h \in Handlers, V!Press(h) PROVE EventsInv' /\ V!EndStep
  <2>1. /\ UNCHANGED <<line, posted, heard, call>> /\ phone[h] = "idle" /\ phone'[h] = "digit"
        /\ \A g \in Handlers : g # h => phone'[g] = phone[g] /\ memo'[g] = memo[g]
    BY <1>5, PressFacts
  <2>2. StillBut({"event"}) BY <2>1, MovesAside
  <2> QED BY <2>1, <2>2, EventsKept DEF SameMarks, V!EndStep
<1>6. ASSUME NEW h \in Handlers, V!SaveDigit(h) PROVE EventsInv' /\ V!EndStep
  <2>1. /\ UNCHANGED <<line, posted, heard>> /\ phone[h] = "digit" /\ phone'[h] = "idle"
        /\ \A g \in Handlers : g # h => phone'[g] = phone[g] /\ memo'[g] = memo[g]
        /\ SameMarks /\ call'.made = call.made
    BY <1>6, SaveDigitFacts
  <2>2. StillBut({"event"}) BY <2>1, MovesAside
  <2> QED BY <2>1, <2>2, EventsKept DEF SameMarks, V!EndStep
<1>7. ASSUME NEW h \in Handlers, V!Hear(h) \/ V!Say(h) PROVE EventsInv' /\ V!EndStep
  <2>1. /\ UNCHANGED <<line, posted, heard>> /\ SameMarks /\ call'.made = call.made
        /\ phone[h] \in {"hear", "say"} /\ phone'[h] \in {"note_in", "note_out"}
        /\ \A g \in Handlers : g # h => phone'[g] = phone[g] /\ memo'[g] = memo[g]
    BY <1>7, AppendFacts
  <2>2. StillBut({"event"}) BY <2>1, MovesAside
  <2> QED BY <2>1, <2>2, EventsKept DEF SameMarks, V!EndStep
<1>8. ASSUME NEW h \in Handlers, NEW c \in {0, 1}, V!Ask(h, c) PROVE EventsInv' /\ V!EndStep
  <2>1. /\ UNCHANGED <<line, posted, heard, call>> /\ phone[h] = "ask" /\ phone'[h] = "say"
        /\ \A g \in Handlers : g # h => phone'[g] = phone[g] /\ memo'[g] = memo[g]
    BY <1>8, AskFacts
  <2>2. StillBut({"event"}) BY <2>1, MovesAside
  <2> QED BY <2>1, <2>2, EventsKept DEF SameMarks, V!EndStep
<1>9. ASSUME NEW h \in Handlers, V!NoteIn(h) \/ V!NoteOut(h) PROVE EventsInv' /\ V!EndStep
  <2>1. /\ UNCHANGED <<line, posted, heard, call>>
        /\ phone[h] \in {"note_in", "note_out"} /\ phone'[h] \in {"ask", "idle"}
        /\ \A g \in Handlers : g # h => phone'[g] = phone[g] /\ memo'[g] = memo[g]
    BY <1>9, NoteFacts
  <2>2. StillBut({"event"}) BY <2>1, MovesAside
  <2> QED BY <2>1, <2>2, EventsKept DEF SameMarks, V!EndStep
<1> QED BY <1>1, <1>2, <1>3, <1>4, <1>5, <1>6, <1>7, <1>8, <1>9, CallMoves

LEMMA CallStart == MCInit => CallInv
<1> SUFFICES ASSUME MCInit PROVE CallInv OBVIOUS
<1>1. /\ line = "none" /\ posted = {} /\ heard = {} /\ pressed = 0 /\ call = V!NoCall
      /\ turns = {} /\ thread = {} /\ paused = FALSE
      /\ phone = [h \in Handlers |-> "idle"] /\ memo = [h \in Handlers |-> V!Nobody]
  BY DEF MCInit, V!VoiceInit
<1>2. "idle" \in Lines /\ "idle" \notin Speaking BY DEF Lines, Speaking
<1>3. \A h \in Handlers : phone[h] = "idle" BY <1>1
<1>4. CallTyped
  <2>1. phone \in [Handlers -> Lines] /\ memo \in [Handlers -> Memos] /\ call \in V!Calls
    BY <1>1, <1>2, CopiesTyped
  <2>2. \A h \in Handlers : WellPlaced(phone[h], memo[h], posted) BY <1>2, <1>3 DEF WellPlaced
  <2>3. pressed \in 0..MaxDigits BY <1>1, CallsAssumption
  <2>4. IsFiniteSet(turns) BY <1>1, FS_EmptySet
  <2>5. paused \in BOOLEAN BY <1>1
  <2> QED BY <1>1, <2>1, <2>2, <2>3, <2>4, <2>5 DEF CallTyped
<1>5. call.transcript = {} /\ call.cost = 0 /\ call.digits = 0 /\ ~call.ended /\ ~call.made
  BY <1>1 DEF V!NoCall
<1>6. Cost(turns) = 0 /\ Noted = {}
  <2>1. {t \in turns : t.cost = 1} = {} BY <1>1
  <2> QED BY <1>1, <2>1, FS_EmptySet DEF Cost, Noted
<1>7. SpeakInv BY <1>1, <1>2, <1>3, <1>5, <1>6 DEF SpeakInv, OneOf
<1>8. KeysInv BY <1>1, <1>3, <1>5 DEF KeysInv, OneOf
<1>9. EventsInv BY <1>1, <1>3, <1>5 DEF EventsInv, HungUp
<1> QED BY <1>4, <1>7, <1>8, <1>9 DEF CallInv

LEMMA CallAlone ==
  ASSUME CallInv, UNCHANGED voice, UNCHANGED scene PROVE CallInv' /\ V!EndStep
<1>1. UNCHANGED <<line, posted, heard, pressed, call, turns, thread, paused, phone, memo>> BY DEF voice
<1>2. CallTyped => CallTyped' BY <1>1 DEF CallTyped
<1>3. SpeakInv => SpeakInv' BY <1>1, SpeakKept DEF SameSums, StillBut
<1>4. KeysInv => KeysInv' BY <1>1, KeysKept DEF SameKeys, StillBut
<1>5. EventsInv => EventsInv' BY <1>1, EventsKept DEF SameMarks, StillBut
<1>6. V!EndStep BY <1>1 DEF V!EndStep
<1> QED BY <1>2, <1>3, <1>4, <1>5, <1>6 DEF CallInv

LEMMA CallStep ==
  ASSUME CallInv, [MCNext]_all PROVE CallInv' /\ (scene = "events" => V!EndStep)
<1>1. CASE UNCHANGED <<voice, scene>> BY <1>1, CallAlone
<1>2. CASE VoiceNext /\ UNCHANGED scene
  <2>1. CallTyped' BY <1>2, CallTypes DEF CallInv
  <2>2. scene = "turns" => SpeakInv' /\ KeysInv' BY <1>2, SpeakStep, KeysStep DEF CallInv
  <2>3. scene = "events" => EventsInv' /\ V!EndStep BY <1>2, EventsStep DEF CallInv
  <2> QED BY <1>2, <2>1, <2>2, <2>3 DEF CallInv
<1> QED BY <1>1, <1>2 DEF MCNext, all, voice

LEMMA CallRollsUp ==
  ASSUME CallTyped, SpeakInv, KeysInv PROVE V!RollUp
<1> SUFFICES ASSUME \A h \in Handlers : phone[h] = "idle" PROVE V!RollUp BY DEF V!RollUp
<1>1. \A h \in Handlers : phone[h] \notin {"note_in", "note_out"} /\ phone[h] # "digit" OBVIOUS
<1>2. call.transcript = turns /\ call.digits = pressed /\ call.cost = Cost(turns) /\ thread = Noted
  BY <1>1 DEF SpeakInv, KeysInv
<1>3. Costs(turns) = Cost(turns) BY CostsCount DEF CallTyped, Charged, V!Turns
<1> QED BY <1>2, <1>3 DEF V!RollUp, Costs, Noted

\* The record of a call whose utterances follow each other is the one of its turns
\* and keys whenever no request is under way, whatever events are handled meanwhile;
\* and a call whose events arrive one by one keeps its end, however often they are
\* repeated (append_turn, voice_turn, mark_call_answered, mark_call_completed).
THEOREM RecordsAreRight == MCSpec => CallsHold
<1>1. MCInit => CallInv BY CallStart
<1>2. CallInv /\ [MCNext]_all => CallInv' BY CallStep
<1>3. CallInv => V!VoiceType /\ (scene = "turns" => V!RollUp)
  <2> SUFFICES ASSUME CallInv PROVE V!VoiceType /\ (scene = "turns" => V!RollUp) OBVIOUS
  <2>1. V!VoiceType BY DEF CallInv, CallTyped, V!VoiceType, Lines, Memos
  <2>2. scene = "turns" => V!RollUp BY CallRollsUp DEF CallInv
  <2> QED BY <2>1, <2>2
<1>4. CallInv /\ [MCNext]_all => [scene = "events" => V!EndStep]_all BY CallStep
<1> QED BY <1>1, <1>2, <1>3, <1>4, PTL DEF MCSpec, CallsHold

-----------------------------------------------------------------------------
(* Units of the shop: a sum of naturals is a number of pairs               *)

Pairs(h, T) == {p \in T \X Nat : 1 <= p[2] /\ p[2] <= h[p[1]]}
Weight(h, T) == Cardinality(Pairs(h, T))
Weighed(h, T) == IsFiniteSet(T) /\ \A o \in T : h[o] \in Nat

LEMMA WeightOne ==
  ASSUME NEW h, NEW o, h[o] \in Nat
  PROVE  IsFiniteSet(Pairs(h, {o})) /\ Weight(h, {o}) = h[o]
<1> DEFINE I == 1..h[o]
<1>1. IsFiniteSet(I) /\ Cardinality(I) = h[o] BY FS_Interval
<1>2. IsFiniteSet({o}) /\ Cardinality({o}) = 1 BY FS_Singleton
<1>3. IsFiniteSet({o} \X I) /\ Cardinality({o} \X I) = Cardinality({o}) * Cardinality(I)
  BY <1>1, <1>2, FS_Product
<1>4. Cardinality({o} \X I) = h[o]
  <2> HIDE DEF I
  <2>1. Cardinality({o} \X I) = 1 * h[o] BY <1>1, <1>2, <1>3
  <2> QED BY <2>1
<1>5. Pairs(h, {o}) = {o} \X I BY DEF Pairs
<1> HIDE DEF I
<1> QED BY <1>3, <1>4, <1>5 DEF Weight

LEMMA WeightFinite ==
  ASSUME NEW h, NEW T, Weighed(h, T)
  PROVE  IsFiniteSet(Pairs(h, T))
<1> DEFINE Parts == {Pairs(h, {o}) : o \in T}
<1>1. Pairs(h, T) = UNION Parts BY DEF Pairs
<1>2. \A A \in Parts : IsFiniteSet(A) BY WeightOne DEF Weighed
<1>3. IsFiniteSet(Parts)
  <2> DEFINE f == [o \in T |-> Pairs(h, {o})]
  <2>1. f \in Surjection(T, Parts) BY DEF Surjection
  <2> HIDE DEF f, Parts
  <2> QED BY <2>1, FS_Surjection DEF Weighed
<1> QED BY <1>1, <1>2, <1>3, FS_UNION

LEMMA WeightNat == ASSUME NEW h, NEW T, Weighed(h, T) PROVE Weight(h, T) \in Nat
BY WeightFinite, FS_CardinalityType DEF Weight

LEMMA WeightNone == ASSUME NEW h PROVE Weight(h, {}) = 0
<1>1. Pairs(h, {}) = {} BY DEF Pairs
<1> QED BY <1>1, FS_EmptySet DEF Weight

\* One order more.
LEMMA WeightMore ==
  ASSUME NEW h, NEW T, Weighed(h, T), NEW o, o \notin T, h[o] \in Nat
  PROVE  Weighed(h, T \cup {o}) /\ Weight(h, T \cup {o}) = Weight(h, T) + h[o]
<1>1. Weighed(h, T \cup {o}) BY FS_AddElement DEF Weighed
<1>2. IsFiniteSet(Pairs(h, T)) /\ IsFiniteSet(Pairs(h, {o})) BY WeightFinite, WeightOne
<1>3. Pairs(h, T \cup {o}) = Pairs(h, T) \cup Pairs(h, {o}) BY DEF Pairs
<1>4. Pairs(h, T) \cap Pairs(h, {o}) = {} BY DEF Pairs
<1>5. Cardinality(Pairs(h, T) \cup Pairs(h, {o}))
      = Cardinality(Pairs(h, T)) + Cardinality(Pairs(h, {o})) - Cardinality(Pairs(h, T) \cap Pairs(h, {o}))
  BY <1>2, FS_Union
<1>6. Cardinality(Pairs(h, T) \cap Pairs(h, {o})) = 0 BY <1>4, FS_EmptySet
<1>7. Weight(h, {o}) = h[o] /\ Weight(h, T) \in Nat BY WeightOne, WeightNat
<1>8. Weight(h, T \cup {o}) = Weight(h, T) + Weight(h, {o}) - 0
  BY <1>3, <1>5, <1>6 DEF Weight
<1> QED BY <1>1, <1>7, <1>8

LEMMA WeightOut ==
  ASSUME NEW h, NEW s, Weighed(h, s), NEW y \in s
  PROVE  Weight(h, s) = h[y] + Weight(h, s \ {y}) /\ Cardinality(s \ {y}) < Cardinality(s)
<1>1. PICK r : r = s \ {y} OBVIOUS
<1>2. r \cup {y} = s /\ y \notin r BY <1>1
<1>3. Weighed(h, r) BY <1>1, FS_Subset DEF Weighed
<1>4. h[y] \in Nat /\ Weight(h, r) \in Nat BY <1>3, WeightNat DEF Weighed
<1>5. Weight(h, s) = Weight(h, r) + h[y] BY <1>2, <1>3, <1>4, WeightMore
<1>6. Cardinality(r) = Cardinality(s) - 1 /\ Cardinality(s) \in Nat
  BY <1>1, FS_RemoveElement, FS_CardinalityType DEF Weighed
<1>7. Weight(h, s) = h[y] + Weight(h, r) BY <1>4, <1>5
<1> QED BY <1>1, <1>6, <1>7

\* Some of the orders, and orders that have the same units.
LEMMA WeightLess ==
  ASSUME NEW h, NEW T, Weighed(h, T), NEW R, R \subseteq T
  PROVE  Weighed(h, R) /\ Weight(h, R) <= Weight(h, T)
<1>1. Weighed(h, R) BY FS_Subset DEF Weighed
<1>2. Pairs(h, R) \in SUBSET Pairs(h, T) BY DEF Pairs
<1> QED BY <1>1, <1>2, WeightFinite, FS_Subset DEF Weight
LEMMA WeightSame ==
  ASSUME NEW h, NEW k, NEW T, \A o \in T : h[o] = k[o]
  PROVE  Weight(h, T) = Weight(k, T)
<1>1. Pairs(h, T) = Pairs(k, T) BY DEF Pairs
<1> QED BY <1>1 DEF Weight
LEMMA WeightRest ==
  ASSUME NEW h, NEW T, NEW R, R \subseteq T, \A o \in T \ R : h[o] = 0
  PROVE  Weight(h, R) = Weight(h, T)
<1>1. Pairs(h, R) = Pairs(h, T) BY DEF Pairs
<1> QED BY <1>1 DEF Weight

\* What the shop's fold adds up.
Sum(g, f, R) ==
  f = [s \in SUBSET R |-> IF s = {} THEN 0
                          ELSE S!Units(CHOOSE y \in s : TRUE, g) + f[s \ {CHOOSE y \in s : TRUE}]]

LEMMA BoughtSum ==
  ASSUME NEW g
  PROVE  LET R == {o \in DOMAIN orders : orders[o].paystack = "success"}
         IN S!Bought(g) = (CHOOSE f : Sum(g, f, R))[R]
BY DEF S!Bought, S!MapThenSumSet, S!MapThenFoldSet, Sum

LEMMA BoughtWeight ==
  ASSUME NEW g, NEW h, NEW R, R = {o \in DOMAIN orders : orders[o].paystack = "success"},
         Weighed(h, R), \A o \in R : S!Units(o, g) = h[o]
  PROVE  S!Bought(g) = Weight(h, R)
<1> DEFINE One(s) == CHOOSE y \in s : TRUE
           f == [s \in SUBSET R |-> Weight(h, s)]
           p == CHOOSE k : Sum(g, k, R)
<1>1. \A s \in SUBSET R : s # {} => One(s) \in s OBVIOUS
<1>2. \A s \in SUBSET R : Weighed(h, s) BY FS_Subset DEF Weighed
<1>3. ASSUME NEW s \in SUBSET R, NEW y \in s
      PROVE  Weight(h, s) = h[y] + Weight(h, s \ {y}) /\ Cardinality(s \ {y}) < Cardinality(s)
  BY <1>2, WeightOut
<1>4. Sum(g, f, R)
  <2>1. ASSUME NEW s \in SUBSET R
        PROVE f[s] = IF s = {} THEN 0 ELSE S!Units(One(s), g) + f[s \ {One(s)}]
    <3>1. CASE s = {} BY <3>1, WeightNone
    <3>2. CASE s # {}
      <4>1. One(s) \in s BY <1>1, <3>2
      <4>2. PICK y \in s : y = One(s) BY <4>1
      <4>3. s \ {y} \in SUBSET R OBVIOUS
      <4>4. Weight(h, s) = h[y] + Weight(h, s \ {y}) BY <1>3
      <4>5. f[s] = Weight(h, s) /\ f[s \ {y}] = Weight(h, s \ {y}) BY <4>3
      <4>6. S!Units(y, g) = h[y] OBVIOUS
      <4> QED BY <3>2, <4>2, <4>4, <4>5, <4>6
    <3> QED BY <3>1, <3>2
  <2> QED BY <2>1 DEF Sum
<1>5. Sum(g, p, R) BY <1>4
<1> HIDE DEF f, p
<1>6. \A s \in SUBSET R : p[s] = IF s = {} THEN 0 ELSE S!Units(One(s), g) + p[s \ {One(s)}]
  BY <1>5 DEF Sum
<1> DEFINE Odd == {s \in SUBSET R : p[s] # Weight(h, s)}
           N == {Cardinality(s) : s \in Odd}
<1>7. Odd = {}
  <2> SUFFICES ASSUME Odd # {} PROVE FALSE OBVIOUS
  <2>1. \A s \in Odd : Cardinality(s) \in Nat BY <1>2, FS_CardinalityType DEF Weighed
  <2>2. N \subseteq Nat /\ N # {} BY <2>1
  <2>3. PICK m \in N : \A k \in N : m <= k BY <2>2, LeastNumber
  <2>4. PICK s \in Odd : Cardinality(s) = m OBVIOUS
  <2>5. \A r \in Odd : Cardinality(s) <= Cardinality(r) BY <2>3, <2>4
  <2>6. s # {} BY <1>6, WeightNone
  <2>7. PICK y \in s : y = One(s) BY <1>1, <2>6
  <2>8. p[s] = S!Units(y, g) + p[s \ {y}] /\ S!Units(y, g) = h[y] BY <1>6, <2>6, <2>7
  <2>9. s \ {y} \in SUBSET R /\ Cardinality(s \ {y}) < Cardinality(s) BY <1>3
  <2>10. Cardinality(s) \in Nat BY <2>1
  <2>11. s \ {y} \notin Odd
    <3>1. SUFFICES ASSUME s \ {y} \in Odd PROVE FALSE OBVIOUS
    <3>2. Cardinality(s) <= Cardinality(s \ {y}) /\ Cardinality(s \ {y}) \in Nat BY <2>1, <2>5, <3>1
    <3> QED BY <2>9, <2>10, <3>2
  <2>12. p[s \ {y}] = Weight(h, s \ {y}) BY <2>9, <2>11
  <2>13. p[s] = Weight(h, s) BY <1>3, <2>8, <2>12
  <2> QED BY <2>13
<1>8. S!Bought(g) = p[R] BY BoughtSum DEF p
<1> QED BY <1>7, <1>8

-----------------------------------------------------------------------------
(* Types of the shop                                                       *)

Deals == {"none", "open", "paid", "answered"}
Spots == {"idle", "check", "initialise", "mark", "take"}
Sales == [cart : Carts \cup {<<>>}, rest : SUBSET Goods, order : Nat]
Views == [page : {"none", "form", "saving", "list"}, stock : [Goods -> Nat], order : Nat,
          status : S!Statuses, copy : S!Order \cup {<<>>}]

OrdersTyped == orders \in Seq(S!Order) /\ deals \in Seq(Deals) /\ Len(deals) = Len(orders)
SaleFits(place, s, rows) ==
  /\ place = "check" => s.cart \in Carts /\ s.rest \subseteq DOMAIN s.cart
  /\ place \in {"initialise", "mark", "take"} => s.order \in 1..Len(rows)
  /\ place \in {"mark", "take"} => s.rest \subseteq DOMAIN rows[s.order].cart
TillsTyped ==
  /\ till \in [Tills -> Spots] /\ sale \in [Tills -> Sales]
  /\ \A w \in Tills : sale[w].order \in 0..Len(orders) /\ SaleFits(till[w], sale[w], orders)
DeskTyped ==
  /\ desk \in Views
  /\ desk.page \in {"form", "saving"} => desk.order \in 1..Len(orders)
  /\ desk.page = "saving" => desk.copy \in S!Order /\ desk.copy.cart = orders[desk.order].cart
ShopTyped ==
  stock \in [Goods -> Nat] /\ crashes \in 0..MaxCrashes /\ OrdersTyped /\ TillsTyped /\ DeskTyped

\* Orders are added, and keep what was ordered.
OrdersKept == Len(orders) <= Len(orders') /\ \A o \in 1..Len(orders) : orders'[o].cart = orders[o].cart

LEMMA OrderSaved ==
  ASSUME OrdersTyped, NEW o \in 1..Len(orders), NEW r \in S!Order, r.cart = orders[o].cart,
         orders' = [orders EXCEPT ![o] = r], deals' \in Seq(Deals), Len(deals') = Len(deals)
  PROVE  /\ OrdersTyped' /\ OrdersKept /\ Len(orders') = Len(orders) /\ orders'[o] = r
         /\ \A q \in 1..Len(orders) : q # o => orders'[q] = orders[q]
<1>1. [orders EXCEPT ![o] = r] \in Seq(S!Order) /\ Len([orders EXCEPT ![o] = r]) = Len(orders)
  BY ExceptSeq DEF OrdersTyped
<1>2. orders'[o] = r /\ \A q \in 1..Len(orders) : q # o => orders'[q] = orders[q] BY DEF OrdersTyped
<1>3. Len(orders) \in Nat BY DEF OrdersTyped
<1> QED BY <1>1, <1>2, <1>3 DEF OrdersTyped, OrdersKept

LEMMA OrderAdded ==
  ASSUME OrdersTyped, NEW r \in S!Order, orders' = Append(orders, r), deals' = Append(deals, "none")
  PROVE  /\ OrdersTyped' /\ OrdersKept /\ Len(orders') = Len(orders) + 1 /\ orders'[Len(orders) + 1] = r
         /\ deals'[Len(orders) + 1] = "none"
         /\ \A q \in 1..Len(orders) : orders'[q] = orders[q] /\ deals'[q] = deals[q]
<1>1. orders' \in Seq(S!Order) /\ Len(orders') = Len(orders) + 1 /\ Len(orders) \in Nat
  BY DEF OrdersTyped
<1>2. deals' \in Seq(Deals) /\ Len(deals') = Len(deals) + 1 BY DEF OrdersTyped, Deals
<1>3. /\ orders'[Len(orders) + 1] = r /\ deals'[Len(orders) + 1] = "none"
      /\ \A q \in 1..Len(orders) : orders'[q] = orders[q] /\ deals'[q] = deals[q]
  BY DEF OrdersTyped
<1> QED BY <1>1, <1>2, <1>3 DEF OrdersTyped, OrdersKept

LEMMA DealMade ==
  ASSUME OrdersTyped, NEW o \in 1..Len(orders), NEW d \in Deals, deals' = [deals EXCEPT ![o] = d]
  PROVE  /\ deals' \in Seq(Deals) /\ Len(deals') = Len(deals) /\ deals'[o] = d
         /\ \A q \in 1..Len(orders) : q # o => deals'[q] = deals[q]
<1>1. o \in 1..Len(deals) BY DEF OrdersTyped
<1>2. [deals EXCEPT ![o] = d] \in Seq(Deals) /\ Len([deals EXCEPT ![o] = d]) = Len(deals)
  BY <1>1, ExceptSeq DEF OrdersTyped
<1>3. deals'[o] = d /\ \A q \in 1..Len(orders) : q # o => deals'[q] = deals[q]
  BY <1>1 DEF OrdersTyped
<1> QED BY <1>2, <1>3

LEMMA OrdersStand ==
  ASSUME OrdersTyped, UNCHANGED <<orders, deals>>
  PROVE  OrdersTyped' /\ OrdersKept
BY DEF OrdersTyped, OrdersKept

LEMMA FitsStill ==
  ASSUME OrdersTyped, OrdersTyped', OrdersKept, NEW place, NEW s \in Sales, s.order \in 0..Len(orders),
         SaleFits(place, s, orders)
  PROVE  s.order \in 0..Len(orders') /\ SaleFits(place, s, orders')
<1>1. Len(orders) \in Nat /\ Len(orders') \in Nat BY DEF OrdersTyped
<1>2. s.order \in 0..Len(orders') BY <1>1 DEF OrdersKept
<1>3. s.order \in 1..Len(orders) => s.order \in 1..Len(orders') /\ orders'[s.order].cart = orders[s.order].cart
  BY <1>1 DEF OrdersKept
<1> QED BY <1>2, <1>3 DEF SaleFits

LEMMA TillsSame ==
  ASSUME ShopTyped, OrdersTyped', OrdersKept, UNCHANGED <<till, sale>>
  PROVE  TillsTyped'
<1>1. \A w \in Tills : sale[w] \in Sales BY DEF ShopTyped, TillsTyped
<1>2. \A w \in Tills : sale[w].order \in 0..Len(orders') /\ SaleFits(till[w], sale[w], orders')
  BY <1>1, FitsStill DEF ShopTyped, TillsTyped
<1> QED BY <1>2 DEF ShopTyped, TillsTyped

LEMMA TillSteps ==
  ASSUME ShopTyped, OrdersTyped', OrdersKept, NEW w \in Tills, NEW place \in Spots, NEW s \in Sales,
         s.order \in 0..Len(orders'), SaleFits(place, s, orders'), S!At(w, place, s)
  PROVE  /\ TillsTyped' /\ till'[w] = place /\ sale'[w] = s
         /\ \A v \in Tills : v # w => till'[v] = till[v] /\ sale'[v] = sale[v]
<1>1. /\ till' = [till EXCEPT ![w] = place] /\ sale' = [sale EXCEPT ![w] = s] BY DEF S!At
<1>2. till' \in [Tills -> Spots] /\ sale' \in [Tills -> Sales] BY <1>1 DEF ShopTyped, TillsTyped
<1>3. /\ till'[w] = place /\ sale'[w] = s
      /\ \A v \in Tills : v # w => till'[v] = till[v] /\ sale'[v] = sale[v]
  BY <1>1 DEF ShopTyped, TillsTyped
<1>4. ASSUME NEW v \in Tills
      PROVE  sale'[v].order \in 0..Len(orders') /\ SaleFits(till'[v], sale'[v], orders')
  <2>1. CASE v = w BY <1>3, <2>1 DEF SaleFits
  <2>2. CASE v # w
    <3>1. sale[v] \in Sales /\ sale[v].order \in 0..Len(orders) /\ SaleFits(till[v], sale[v], orders)
      BY DEF ShopTyped, TillsTyped
    <3>2. sale[v].order \in 0..Len(orders') /\ SaleFits(till[v], sale[v], orders')
      BY <3>1, FitsStill DEF ShopTyped
    <3> QED BY <1>3, <2>2, <3>2 DEF SaleFits
  <2> QED BY <2>1, <2>2
<1> QED BY <1>2, <1>3, <1>4 DEF TillsTyped

LEMMA TillLeaves ==
  ASSUME ShopTyped, OrdersTyped', OrdersKept, NEW w \in Tills, S!Leave(w)
  PROVE  /\ TillsTyped' /\ till'[w] = "idle" /\ sale'[w].order = 0 /\ sale'[w].rest = {}
         /\ \A v \in Tills : v # w => till'[v] = till[v] /\ sale'[v] = sale[v]
<1>1. S!Free \in Sales /\ S!Free.order = 0 /\ S!Free.rest = {} BY DEF S!Free, Sales
<1>2. "idle" \in Spots BY DEF Spots
<1>3. SaleFits("idle", S!Free, orders') BY DEF SaleFits
<1>4. Len(orders') \in Nat BY DEF OrdersTyped
<1>5. S!Free.order \in 0..Len(orders') BY <1>1, <1>4
<1>6. S!At(w, "idle", S!Free) BY DEF S!Leave
<1> QED BY <1>1, <1>2, <1>3, <1>5, <1>6, TillSteps

LEMMA DeskSame ==
  ASSUME ShopTyped, OrdersTyped', OrdersKept, UNCHANGED desk
  PROVE  DeskTyped'
<1>1. Len(orders) \in Nat /\ Len(orders') \in Nat BY DEF OrdersTyped, ShopTyped
<1>2. desk.order \in 1..Len(orders) =>
        desk.order \in 1..Len(orders') /\ orders'[desk.order].cart = orders[desk.order].cart
  BY <1>1 DEF OrdersKept
<1> QED BY <1>2 DEF ShopTyped, DeskTyped

OthersStay(w) == \A v \in Tills : v # w => till'[v] = till[v] /\ sale'[v] = sale[v]
Settings == UNCHANGED <<stock, crashes>>

LEMMA CartFacts ==
  ASSUME NEW c \in Carts
  PROVE  DOMAIN c \subseteq Goods /\ \A g \in DOMAIN c : c[g] \in Nat
BY ShopAssumption
LEMMA OrderFacts ==
  ASSUME ShopTyped, NEW o \in 1..Len(orders)
  PROVE  /\ orders[o] \in S!Order /\ orders[o].cart \in Carts /\ deals[o] \in Deals
         /\ o \in 1..Len(deals)
<1>1. orders[o] \in S!Order /\ o \in 1..Len(deals) BY DEF ShopTyped, OrdersTyped
<1>2. deals[o] \in Deals BY <1>1 DEF ShopTyped, OrdersTyped
<1> QED BY <1>1, <1>2 DEF S!Order
LEMMA SaleFacts ==
  ASSUME ShopTyped, NEW w \in Tills
  PROVE  /\ till[w] \in Spots /\ sale[w] \in Sales /\ sale[w].order \in 0..Len(orders)
         /\ SaleFits(till[w], sale[w], orders)
BY DEF ShopTyped, TillsTyped

\* A request that touches no row.
LEMMA BrowseFacts ==
  ASSUME ShopTyped, NEW w \in Tills, S!CheckStock(w) \/ \E cart \in Carts : S!Checkout(w, cart)
  PROVE  /\ ShopTyped' /\ OthersStay(w) /\ Settings /\ UNCHANGED <<orders, deals>>
         /\ till[w] \in {"idle", "check"} /\ till'[w] \in {"idle", "check"}
<1>1. OrdersTyped' /\ OrdersKept /\ DeskTyped' /\ Settings /\ UNCHANGED <<stock, orders, deals, crashes>>
  BY OrdersStand, DeskSame DEF S!CheckStock, S!Checkout, ShopTyped, Settings
<1>2. Len(orders') \in Nat BY <1>1 DEF OrdersTyped
<1>3. ASSUME NEW cart \in Carts, S!Checkout(w, cart)
      PROVE  TillsTyped' /\ OthersStay(w) /\ till'[w] = "check" /\ till[w] = "idle"
  <2> DEFINE s == [S!Free EXCEPT !.cart = cart, !.rest = DOMAIN cart]
  <2>1. s \in Sales /\ s.order = 0 /\ s.cart = cart /\ s.rest = DOMAIN cart BY CartFacts DEF S!Free, Sales
  <2>2. S!At(w, "check", s) /\ till[w] = "idle" BY <1>3 DEF S!Checkout
  <2> HIDE DEF s
  <2>3. SaleFits("check", s, orders') BY <2>1 DEF SaleFits
  <2>4. "check" \in Spots /\ s.order \in 0..Len(orders') BY <1>2, <2>1 DEF Spots
  <2> QED BY <1>1, <2>1, <2>2, <2>3, <2>4, TillSteps DEF OthersStay
<1>4. ASSUME S!CheckStock(w)
      PROVE  TillsTyped' /\ OthersStay(w) /\ till'[w] \in {"idle", "check"} /\ till[w] = "check"
  <2>1. till[w] = "check" BY <1>4 DEF S!CheckStock
  <2>2. CASE S!Leave(w) BY <1>1, <2>1, <2>2, TillLeaves DEF OthersStay
  <2>3. ASSUME NEW g \in sale[w].rest, S!At(w, "check", [sale[w] EXCEPT !.rest = @ \ {g}])
        PROVE  TillsTyped' /\ OthersStay(w) /\ till'[w] = "check"
    <3> DEFINE s == [sale[w] EXCEPT !.rest = @ \ {g}]
    <3>1. s \in Sales /\ s.order = sale[w].order /\ s.cart = sale[w].cart /\ s.rest = sale[w].rest \ {g}
      BY SaleFacts DEF Sales
    <3>2. s.cart \in Carts /\ s.rest \subseteq DOMAIN s.cart BY <2>1, <3>1, SaleFacts DEF SaleFits
    <3> HIDE DEF s
    <3>3. SaleFits("check", s, orders') BY <3>2 DEF SaleFits
    <3>4. "check" \in Spots /\ s.order \in 0..Len(orders') BY <1>1, <3>1, SaleFacts DEF Spots
    <3>5. S!At(w, "check", s) BY <2>3 DEF s
    <3> QED BY <1>1, <3>1, <3>3, <3>4, <3>5, TillSteps DEF OthersStay
  <2>4. S!Leave(w) \/ \E g \in sale[w].rest : S!At(w, "check", [sale[w] EXCEPT !.rest = @ \ {g}])
    BY <1>4 DEF S!CheckStock
  <2> QED BY <2>1, <2>2, <2>3, <2>4
<1>5. stock' \in [Goods -> Nat] /\ crashes' \in 0..MaxCrashes BY <1>1 DEF ShopTyped
<1> QED BY <1>1, <1>3, <1>4, <1>5 DEF ShopTyped

LEMMA MakeOrderFacts ==
  ASSUME ShopTyped, NEW w \in Tills, S!MakeOrder(w)
  PROVE  /\ ShopTyped' /\ OthersStay(w) /\ Settings /\ OrdersKept
         /\ till[w] = "check" /\ till'[w] = "initialise" /\ sale'[w].order = Len(orders) + 1
         /\ Len(orders') = Len(orders) + 1
         /\ orders'[Len(orders) + 1].status = "pending" /\ orders'[Len(orders) + 1].paystack = "pending"
         /\ deals'[Len(orders) + 1] = "none"
         /\ \A o \in 1..Len(orders) : orders'[o] = orders[o] /\ deals'[o] = deals[o]
<1> DEFINE r == [cart |-> sale[w].cart, live |-> TRUE, status |-> "pending", paystack |-> "pending"]
           s == [S!Free EXCEPT !.order = Len(orders) + 1]
<1>1. /\ till[w] = "check" /\ orders' = Append(orders, r) /\ deals' = Append(deals, "none")
      /\ S!At(w, "initialise", s)
      /\ UNCHANGED <<stock, desk, crashes>>
  BY DEF S!MakeOrder
<1>2. r \in S!Order BY <1>1, SaleFacts DEF SaleFits, S!Order, S!Statuses
<1>3. r.status = "pending" /\ r.paystack = "pending" OBVIOUS
<1> HIDE DEF r
<1>4. /\ OrdersTyped' /\ OrdersKept /\ Len(orders') = Len(orders) + 1 /\ orders'[Len(orders) + 1] = r
      /\ deals'[Len(orders) + 1] = "none"
      /\ \A q \in 1..Len(orders) : orders'[q] = orders[q] /\ deals'[q] = deals[q]
  BY <1>1, <1>2, OrderAdded DEF ShopTyped
<1>5. Len(orders) \in Nat BY DEF ShopTyped, OrdersTyped
<1>6. s \in Sales /\ s.order = Len(orders) + 1 BY <1>5 DEF S!Free, Sales
<1> HIDE DEF s
<1>7. "initialise" \in Spots /\ s.order \in 0..Len(orders') /\ SaleFits("initialise", s, orders')
  BY <1>4, <1>5, <1>6 DEF Spots, SaleFits
<1>8. TillsTyped' /\ OthersStay(w) /\ till'[w] = "initialise" /\ sale'[w] = s
  BY <1>1, <1>4, <1>6, <1>7, TillSteps DEF OthersStay
<1>9. DeskTyped' BY <1>1, <1>4, DeskSame
<1>10. stock' \in [Goods -> Nat] /\ crashes' \in 0..MaxCrashes BY <1>1 DEF ShopTyped
<1> QED BY <1>1, <1>3, <1>4, <1>6, <1>8, <1>9, <1>10 DEF ShopTyped, Settings

\* One row, or the deal of one order, is saved.
OnlyOrder(o) == \A q \in 1..Len(orders) : q # o => orders'[q] = orders[q] /\ deals'[q] = deals[q]

LEMMA InitialiseFacts ==
  ASSUME ShopTyped, NEW w \in Tills, NEW ok \in BOOLEAN, S!Initialise(w, ok)
  PROVE  /\ ShopTyped' /\ OthersStay(w) /\ Settings /\ OrdersKept /\ Len(orders') = Len(orders)
         /\ till[w] = "initialise" /\ till'[w] = "idle" /\ OnlyOrder(sale[w].order)
         /\ sale[w].order \in 1..Len(orders)
         /\ orders'[sale[w].order].status = orders[sale[w].order].status
         /\ orders'[sale[w].order].paystack = orders[sale[w].order].paystack
         /\ deals'[sale[w].order] \in {deals[sale[w].order], "open"}
<1>1. PICK o : o = sale[w].order OBVIOUS
<1>2. /\ till[w] = "initialise" /\ S!Leave(w) /\ UNCHANGED <<stock, desk, crashes>>
      /\ \/ deals' = [deals EXCEPT ![o] = "open"] /\ orders' = orders
         \/ orders' = [orders EXCEPT ![o].live = FALSE] /\ deals' = deals
  BY <1>1 DEF S!Initialise
<1>3. o \in 1..Len(orders) BY <1>1, <1>2, SaleFacts DEF SaleFits
<1>4. /\ OrdersTyped' /\ OrdersKept /\ Len(orders') = Len(orders) /\ OnlyOrder(o)
      /\ orders'[o].status = orders[o].status /\ orders'[o].paystack = orders[o].paystack
      /\ deals'[o] \in {deals[o], "open"}
  <2>1. CASE deals' = [deals EXCEPT ![o] = "open"] /\ orders' = orders
    <3>1. "open" \in Deals BY DEF Deals
    <3>2. /\ deals' \in Seq(Deals) /\ Len(deals') = Len(deals) /\ deals'[o] = "open"
          /\ \A q \in 1..Len(orders) : q # o => deals'[q] = deals[q]
      BY <1>3, <2>1, <3>1, DealMade DEF ShopTyped
    <3> QED BY <2>1, <3>2 DEF OrdersTyped, ShopTyped, OrdersKept, OnlyOrder
  <2>2. CASE orders' = [orders EXCEPT ![o].live = FALSE] /\ deals' = deals
    <3> DEFINE r == [orders[o] EXCEPT !.live = FALSE]
    <3>1. /\ r \in S!Order /\ r.cart = orders[o].cart
          /\ r.status = orders[o].status /\ r.paystack = orders[o].paystack
      BY <1>3, OrderFacts DEF S!Order
    <3>2. orders' = [orders EXCEPT ![o] = r] BY <2>2
    <3> HIDE DEF r
    <3>3. deals' \in Seq(Deals) /\ Len(deals') = Len(deals) /\ OrdersTyped
      BY <2>2 DEF ShopTyped, OrdersTyped
    <3>4. /\ OrdersTyped' /\ OrdersKept /\ Len(orders') = Len(orders) /\ orders'[o] = r
          /\ \A q \in 1..Len(orders) : q # o => orders'[q] = orders[q]
      BY <1>3, <3>1, <3>2, <3>3, OrderSaved
    <3> QED BY <2>2, <3>1, <3>4 DEF OnlyOrder
  <2> QED BY <1>2, <2>1, <2>2
<1>5. TillsTyped' /\ OthersStay(w) /\ till'[w] = "idle" BY <1>2, <1>4, TillLeaves DEF OthersStay
<1>6. DeskTyped' BY <1>2, <1>4, DeskSame
<1>7. stock' \in [Goods -> Nat] /\ crashes' \in 0..MaxCrashes BY <1>2 DEF ShopTyped
<1> QED BY <1>1, <1>2, <1>3, <1>4, <1>5, <1>6, <1>7 DEF ShopTyped, Settings

LEMMA PayOrderFacts ==
  ASSUME ShopTyped, NEW o \in DOMAIN deals, S!PayOrder(o)
  PROVE  /\ ShopTyped' /\ Settings /\ UNCHANGED <<orders, till, sale>> /\ o \in 1..Len(orders)
         /\ deals[o] = "open" /\ deals'[o] = "paid" /\ OnlyOrder(o)
<1>1. /\ deals[o] = "open" /\ deals' = [deals EXCEPT ![o] = "paid"]
      /\ UNCHANGED <<stock, orders, desk, till, sale, crashes>>
  BY DEF S!PayOrder
<1>2. o \in 1..Len(orders) /\ "paid" \in Deals BY DEF ShopTyped, OrdersTyped, Deals
<1>3. /\ deals' \in Seq(Deals) /\ Len(deals') = Len(deals) /\ deals'[o] = "paid"
      /\ \A q \in 1..Len(orders) : q # o => deals'[q] = deals[q]
  BY <1>1, <1>2, DealMade DEF ShopTyped
<1>4. OrdersTyped' /\ OrdersKept BY <1>1, <1>3 DEF OrdersTyped, ShopTyped, OrdersKept
<1>5. TillsTyped' BY <1>1, <1>4, TillsSame
<1>6. DeskTyped' BY <1>1, <1>4, DeskSame
<1>7. stock' \in [Goods -> Nat] /\ crashes' \in 0..MaxCrashes BY <1>1 DEF ShopTyped
<1> QED BY <1>1, <1>2, <1>3, <1>4, <1>5, <1>6, <1>7 DEF ShopTyped, Settings, OnlyOrder

\* The webhook's first read: it answers, or is about to mark the order.
LEMMA WebhookFacts ==
  ASSUME ShopTyped, NEW w \in Tills, NEW o \in DOMAIN deals, S!Webhook(w, o)
  PROVE  /\ ShopTyped' /\ OthersStay(w) /\ Settings /\ UNCHANGED orders /\ o \in 1..Len(orders)
         /\ till[w] = "idle" /\ deals[o] = "paid" /\ OnlyOrder(o)
         /\ \/ till'[w] = "idle" /\ deals'[o] = "answered"
            \/ /\ till'[w] = "mark" /\ sale'[w].order = o /\ sale'[w].rest = DOMAIN orders[o].cart
               /\ orders[o].paystack # "success" /\ deals'[o] = "paid"
<1>1. o \in 1..Len(orders) /\ till[w] = "idle" /\ deals[o] = "paid" /\ UNCHANGED <<stock, orders, desk, crashes>>
  BY DEF S!Webhook, ShopTyped, OrdersTyped
<1>2. CASE S!At(w, "mark", [S!Free EXCEPT !.order = o, !.rest = DOMAIN orders[o].cart])
           /\ ~S!Processed(o) /\ UNCHANGED deals
  <2> DEFINE s == [S!Free EXCEPT !.order = o, !.rest = DOMAIN orders[o].cart]
  <2>1. OrdersTyped' /\ OrdersKept BY <1>1, <1>2, OrdersStand DEF ShopTyped
  <2>2. DOMAIN orders[o].cart \subseteq Goods /\ o \in Nat BY <1>1, OrderFacts, CartFacts
  <2>3. s \in Sales /\ s.order = o /\ s.rest = DOMAIN orders[o].cart BY <2>2 DEF S!Free, Sales
  <2> HIDE DEF s
  <2>4. SaleFits("mark", s, orders') /\ "mark" \in Spots BY <1>1, <2>3 DEF SaleFits, Spots
  <2>5. s.order \in 0..Len(orders') BY <1>1, <2>2, <2>3
  <2>6. S!At(w, "mark", s) BY <1>2 DEF s
  <2>7. TillsTyped' /\ OthersStay(w) /\ till'[w] = "mark" /\ sale'[w] = s
    BY <2>1, <2>3, <2>4, <2>5, <2>6, TillSteps DEF OthersStay
  <2>8. DeskTyped' BY <1>1, <2>1, DeskSame
  <2>9. stock' \in [Goods -> Nat] /\ crashes' \in 0..MaxCrashes BY <1>1 DEF ShopTyped
  <2> QED BY <1>1, <1>2, <2>1, <2>3, <2>7, <2>8, <2>9 DEF ShopTyped, Settings, OnlyOrder, S!Processed
<1>3. CASE S!Answer(o) /\ UNCHANGED <<till, sale>>
  <2>1. deals' = [deals EXCEPT ![o] = "answered"] /\ "answered" \in Deals BY <1>3 DEF S!Answer, Deals
  <2>2. /\ deals' \in Seq(Deals) /\ Len(deals') = Len(deals) /\ deals'[o] = "answered"
        /\ \A q \in 1..Len(orders) : q # o => deals'[q] = deals[q]
    BY <1>1, <2>1, DealMade DEF ShopTyped
  <2>3. OrdersTyped' /\ OrdersKept BY <1>1, <2>2 DEF OrdersTyped, ShopTyped, OrdersKept
  <2>4. TillsTyped' BY <1>3, <2>3, TillsSame
  <2>5. DeskTyped' BY <1>1, <2>3, DeskSame
  <2>6. stock' \in [Goods -> Nat] /\ crashes' \in 0..MaxCrashes BY <1>1 DEF ShopTyped
  <2> QED BY <1>1, <1>3, <2>2, <2>3, <2>4, <2>5, <2>6 DEF ShopTyped, Settings, OnlyOrder, OthersStay
<1> QED BY <1>2, <1>3 DEF S!Webhook

LEMMA MarkFacts ==
  ASSUME ShopTyped, NEW w \in Tills, S!Mark(w)
  PROVE  /\ ShopTyped' /\ OthersStay(w) /\ Settings /\ UNCHANGED deals
         /\ OrdersKept /\ Len(orders') = Len(orders) /\ OnlyOrder(sale[w].order)
         /\ sale[w].order \in 1..Len(orders)
         /\ till[w] = "mark" /\ till'[w] = "take" /\ sale'[w] = sale[w]
         /\ orders'[sale[w].order].status = "paid" /\ orders'[sale[w].order].paystack = "success"
<1>1. PICK o : o = sale[w].order OBVIOUS
<1> DEFINE r == [orders[o] EXCEPT !.paystack = "success", !.status = "paid"]
<1>2. /\ till[w] = "mark" /\ S!At(w, "take", sale[w]) /\ UNCHANGED <<stock, deals, desk, crashes>>
      /\ orders' = [orders EXCEPT ![o] = r]
  BY <1>1 DEF S!Mark, S!Marked
<1>3. o \in 1..Len(orders) /\ sale[w].rest \subseteq DOMAIN orders[o].cart /\ sale[w] \in Sales
  BY <1>1, <1>2, SaleFacts DEF SaleFits
<1>4. r \in S!Order /\ r.cart = orders[o].cart /\ r.status = "paid" /\ r.paystack = "success"
  BY <1>3, OrderFacts DEF S!Order, S!Statuses
<1> HIDE DEF r
<1>5. OrdersTyped /\ deals' \in Seq(Deals) /\ Len(deals') = Len(deals) BY <1>2 DEF ShopTyped, OrdersTyped
<1>6. /\ OrdersTyped' /\ OrdersKept /\ Len(orders') = Len(orders) /\ orders'[o] = r
      /\ \A q \in 1..Len(orders) : q # o => orders'[q] = orders[q]
  BY <1>2, <1>3, <1>4, <1>5, OrderSaved
<1>7. SaleFits("take", sale[w], orders') /\ "take" \in Spots /\ sale[w].order \in 0..Len(orders')
  BY <1>1, <1>3, <1>4, <1>6 DEF SaleFits, Spots
<1>8. TillsTyped' /\ OthersStay(w) /\ till'[w] = "take" /\ sale'[w] = sale[w]
  BY <1>2, <1>3, <1>6, <1>7, TillSteps DEF OthersStay
<1>9. DeskTyped' BY <1>2, <1>6, DeskSame
<1>10. stock' \in [Goods -> Nat] /\ crashes' \in 0..MaxCrashes BY <1>2 DEF ShopTyped
<1> QED BY <1>1, <1>2, <1>3, <1>4, <1>6, <1>8, <1>9, <1>10 DEF ShopTyped, Settings, OnlyOrder

\* One item, or the end of the request.
Taken(w, g) ==
  LET n == orders[sale[w].order].cart[g] IN
  /\ g \in Goods /\ g \in sale[w].rest /\ g \in DOMAIN orders[sale[w].order].cart /\ n \in Nat
  /\ till'[w] = "take" /\ sale'[w].order = sale[w].order /\ sale'[w].rest = sale[w].rest \ {g}
  /\ UNCHANGED deals
  /\ \A k \in Goods : k # g => stock'[k] = stock[k]
  /\ stock[g] < n => stock'[g] = stock[g]
  /\ ~(stock[g] < n) => stock'[g] = stock[g] - n

LEMMA TakeFacts ==
  ASSUME ShopTyped, NEW w \in Tills, S!Take(w)
  PROVE  /\ ShopTyped' /\ OthersStay(w) /\ UNCHANGED <<orders, crashes>>
         /\ sale[w].order \in 1..Len(orders) /\ till[w] = "take" /\ OnlyOrder(sale[w].order)
         /\ \/ /\ sale[w].rest = {} /\ till'[w] = "idle" /\ UNCHANGED stock
               /\ deals'[sale[w].order] = "answered"
            \/ \E g \in Goods : Taken(w, g)
<1>1. PICK o : o = sale[w].order OBVIOUS
<1>2. till[w] = "take" /\ UNCHANGED <<orders, desk, crashes>> BY DEF S!Take
<1>3. o \in 1..Len(orders) /\ sale[w].rest \subseteq DOMAIN orders[o].cart /\ sale[w] \in Sales
  BY <1>1, <1>2, SaleFacts DEF SaleFits
<1>4. stock \in [Goods -> Nat] /\ crashes' \in 0..MaxCrashes BY <1>2 DEF ShopTyped
<1>5. CASE sale[w].rest = {}
  <2>1. S!Leave(w) /\ S!Answer(o) /\ UNCHANGED stock BY <1>1, <1>5 DEF S!Take
  <2>2. deals' = [deals EXCEPT ![o] = "answered"] /\ "answered" \in Deals BY <2>1 DEF S!Answer, Deals
  <2>3. /\ deals' \in Seq(Deals) /\ Len(deals') = Len(deals) /\ deals'[o] = "answered"
        /\ \A q \in 1..Len(orders) : q # o => deals'[q] = deals[q]
    BY <1>3, <2>2, DealMade DEF ShopTyped
  <2>4. OrdersTyped' /\ OrdersKept BY <1>2, <2>3 DEF OrdersTyped, ShopTyped, OrdersKept
  <2>5. TillsTyped' /\ OthersStay(w) /\ till'[w] = "idle" BY <2>1, <2>4, TillLeaves DEF OthersStay
  <2>6. DeskTyped' BY <1>2, <2>4, DeskSame
  <2>7. stock' \in [Goods -> Nat] BY <1>4, <2>1
  <2> QED BY <1>1, <1>2, <1>3, <1>4, <1>5, <2>1, <2>3, <2>4, <2>5, <2>6, <2>7 DEF ShopTyped, OnlyOrder
<1>6. CASE sale[w].rest # {}
  <2>1. PICK g \in sale[w].rest :
          /\ S!At(w, "take", [sale[w] EXCEPT !.rest = @ \ {g}]) /\ UNCHANGED deals
          /\ stock' = IF S!Short(g, orders[o].cart[g]) THEN stock
                      ELSE [stock EXCEPT ![g] = @ - orders[o].cart[g]]
    BY <1>1, <1>6 DEF S!Take
  <2>2. g \in Goods /\ g \in DOMAIN orders[o].cart BY <1>3 DEF Sales
  <2>3. PICK n \in Nat : n = orders[o].cart[g] BY <1>3, <2>2, OrderFacts, CartFacts
  <2>4. /\ stock' \in [Goods -> Nat] /\ \A k \in Goods : k # g => stock'[k] = stock[k]
        /\ stock[g] < n => stock'[g] = stock[g]
        /\ ~(stock[g] < n) => stock'[g] = stock[g] - n
    <3>1. CASE stock[g] < n
      <4>1. stock' = stock BY <2>1, <2>3, <3>1 DEF S!Short
      <4> QED BY <1>4, <3>1, <4>1
    <3>2. CASE ~(stock[g] < n)
      <4>1. stock' = [stock EXCEPT ![g] = @ - n] BY <2>1, <2>3, <3>2 DEF S!Short
      <4>2. stock[g] - n \in Nat BY <1>4, <2>2, <3>2
      <4> QED BY <1>4, <2>2, <3>2, <4>1, <4>2
    <3> QED BY <3>1, <3>2
  <2> DEFINE s == [sale[w] EXCEPT !.rest = @ \ {g}]
  <2>5. s \in Sales /\ s.order = o /\ s.rest = sale[w].rest \ {g} BY <1>1, <1>3 DEF Sales
  <2> HIDE DEF s
  <2>6. OrdersTyped' /\ OrdersKept BY <1>2, <2>1, OrdersStand DEF ShopTyped
  <2>7. SaleFits("take", s, orders') /\ "take" \in Spots /\ s.order \in 0..Len(orders')
    BY <1>2, <1>3, <2>5 DEF SaleFits, Spots
  <2>8. S!At(w, "take", s) BY <2>1 DEF s
  <2>9. TillsTyped' /\ OthersStay(w) /\ till'[w] = "take" /\ sale'[w] = s
    BY <2>5, <2>6, <2>7, <2>8, TillSteps DEF OthersStay
  <2>10. DeskTyped' BY <1>2, <2>6, DeskSame
  <2>11. ShopTyped' BY <1>4, <2>4, <2>6, <2>9, <2>10 DEF ShopTyped
  <2>12. Taken(w, g) BY <1>1, <2>1, <2>2, <2>3, <2>4, <2>5, <2>9 DEF Taken
  <2>13. OnlyOrder(o) BY <1>2, <2>1 DEF OnlyOrder
  <2> QED BY <1>1, <1>2, <1>3, <2>2, <2>9, <2>11, <2>12, <2>13
<1> QED BY <1>5, <1>6

LEMMA KillFacts ==
  ASSUME ShopTyped, NEW w \in Tills, S!KillTill(w)
  PROVE  ShopTyped' /\ OthersStay(w) /\ UNCHANGED <<stock, orders, deals>> /\ till'[w] = "idle" /\ crashes' # 0
<1>1. /\ crashes < MaxCrashes /\ crashes' = crashes + 1 /\ S!Leave(w) /\ UNCHANGED <<stock, orders, deals, desk>>
  BY DEF S!KillTill
<1>2. OrdersTyped' /\ OrdersKept BY <1>1, OrdersStand DEF ShopTyped
<1>3. TillsTyped' /\ OthersStay(w) /\ till'[w] = "idle" BY <1>1, <1>2, TillLeaves DEF OthersStay
<1>4. DeskTyped' BY <1>1, <1>2, DeskSame
<1>5. crashes' \in 0..MaxCrashes /\ crashes' # 0 /\ stock' \in [Goods -> Nat]
  BY <1>1, ShopAssumption DEF ShopTyped
<1> QED BY <1>1, <1>2, <1>3, <1>4, <1>5 DEF ShopTyped

LEMMA FulfilFacts ==
  ASSUME ShopTyped, S!Fulfil
  PROVE  \E o \in 1..Len(orders) :
           /\ ShopTyped' /\ Settings /\ UNCHANGED <<deals, till, sale>> /\ OnlyOrder(o)
           /\ Len(orders') = Len(orders) /\ OrdersKept
           /\ orders'[o].paystack = orders[o].paystack
           /\ \/ orders[o].status = "paid" /\ orders'[o].status = "processing"
              \/ orders[o].status \in {"paid", "processing"} /\ orders'[o].status = "shipped"
              \/ orders[o].status = "shipped" /\ orders'[o].status = "delivered"
<1>1. PICK o \in DOMAIN orders : \/ S!MarkAs(o, {"paid"}, "processing") \/ S!MarkAs(o, S!Shippable, "shipped")
                                 \/ S!MarkAs(o, {"shipped"}, "delivered")
  BY DEF S!Fulfil
<1>2. o \in 1..Len(orders) BY DEF ShopTyped, OrdersTyped
<1>3. PICK to \in {"processing", "shipped", "delivered"} :
        /\ orders' = [orders EXCEPT ![o].status = to]
        /\ UNCHANGED <<stock, deals, desk, till, sale, crashes>>
        /\ \/ orders[o].status = "paid" /\ to = "processing"
           \/ orders[o].status \in {"paid", "processing"} /\ to = "shipped"
           \/ orders[o].status = "shipped" /\ to = "delivered"
  BY <1>1 DEF S!MarkAs, S!Shippable
<1> DEFINE r == [orders[o] EXCEPT !.status = to]
<1>4. orders' = [orders EXCEPT ![o] = r] BY <1>3
<1>5. r \in S!Order /\ r.cart = orders[o].cart /\ r.status = to /\ r.paystack = orders[o].paystack
  BY <1>2, OrderFacts DEF S!Order, S!Statuses
<1> HIDE DEF r
<1>6. OrdersTyped /\ deals' \in Seq(Deals) /\ Len(deals') = Len(deals) BY <1>3 DEF ShopTyped, OrdersTyped
<1>7. /\ OrdersTyped' /\ OrdersKept /\ Len(orders') = Len(orders) /\ orders'[o] = r
      /\ \A q \in 1..Len(orders) : q # o => orders'[q] = orders[q]
  BY <1>2, <1>4, <1>5, <1>6, OrderSaved
<1>8. TillsTyped' BY <1>3, <1>7, TillsSame
<1>9. DeskTyped' BY <1>3, <1>7, DeskSame
<1>10. stock' \in [Goods -> Nat] /\ crashes' \in 0..MaxCrashes BY <1>3 DEF ShopTyped
<1> QED BY <1>2, <1>3, <1>5, <1>7, <1>8, <1>9, <1>10 DEF ShopTyped, Settings, OnlyOrder

\* The operator's pages, which the scene "pages" has.
LEMMA PagesTyped ==
  ASSUME ShopTyped, S!Pages
  PROVE  ShopTyped'
<1>0. /\ S!Closed \in Views /\ S!Closed.page = "none" /\ S!Closed.stock = FirstStock
      /\ desk \in Views /\ stock \in [Goods -> Nat]
  <2>1. S!Closed \in Views BY ShopAssumption DEF S!Closed, Views, S!Statuses
  <2> QED BY <2>1 DEF S!Closed, ShopTyped, DeskTyped
<1>1. ASSUME UNCHANGED <<orders, deals, till, sale, crashes>>, stock' \in [Goods -> Nat], DeskTyped'
      PROVE  ShopTyped'
  <2>1. OrdersTyped' /\ OrdersKept BY <1>1, OrdersStand DEF ShopTyped
  <2>2. TillsTyped' BY <1>1, <2>1, TillsSame
  <2> QED BY <1>1, <2>1, <2>2 DEF ShopTyped
<1>2. CASE S!OpenList
  <2>1. /\ desk' = [S!Closed EXCEPT !.page = "list", !.stock = stock]
        /\ UNCHANGED <<stock, orders, deals, till, sale, crashes>>
    BY <1>2 DEF S!OpenList
  <2>2. desk' \in Views /\ desk'.page = "list" BY <1>0, <2>1 DEF Views
  <2>3. DeskTyped' BY <2>2 DEF DeskTyped
  <2> QED BY <1>0, <1>1, <2>1, <2>3
<1>3. CASE \E o \in DOMAIN orders : S!OpenForm(o)
  <2>1. PICK o \in DOMAIN orders :
          /\ desk' = [S!Closed EXCEPT !.page = "form", !.order = o, !.status = orders[o].status]
          /\ UNCHANGED <<stock, orders, deals, till, sale, crashes>>
    BY <1>3 DEF S!OpenForm
  <2>2. o \in 1..Len(orders) BY DEF ShopTyped, OrdersTyped
  <2>3. orders[o].status \in S!Statuses /\ o \in Nat BY <2>2, OrderFacts DEF S!Order
  <2>4. desk' \in Views /\ desk'.page = "form" /\ desk'.order = o BY <1>0, <2>1, <2>3 DEF Views
  <2>5. DeskTyped' BY <2>1, <2>2, <2>4 DEF DeskTyped
  <2> QED BY <1>0, <1>1, <2>1, <2>5
<1>4. CASE \E s \in {desk.status, "cancelled"} : S!PostForm(s)
  <2>1. PICK s \in {desk.status, "cancelled"} :
          /\ desk.page = "form" /\ UNCHANGED <<stock, orders, deals, till, sale, crashes>>
          /\ desk' = [desk EXCEPT !.page = "saving", !.copy = [orders[desk.order] EXCEPT !.status = s]]
    BY <1>4 DEF S!PostForm
  <2>2. desk.order \in 1..Len(orders) /\ s \in S!Statuses
    BY <1>0, <2>1 DEF ShopTyped, DeskTyped, Views, S!Statuses
  <2>3. PICK r : r = [orders[desk.order] EXCEPT !.status = s] OBVIOUS
  <2>4. r \in S!Order /\ r.cart = orders[desk.order].cart BY <2>2, <2>3, OrderFacts DEF S!Order
  <2>5. /\ desk' \in Views /\ desk'.page = "saving" /\ desk'.order = desk.order /\ desk'.copy = r
    BY <1>0, <2>1, <2>3, <2>4 DEF Views
  <2>6. DeskTyped' BY <2>1, <2>2, <2>4, <2>5 DEF DeskTyped
  <2> QED BY <1>0, <1>1, <2>1, <2>6
<1>5. CASE \E g \in Goods : S!SaveList(g, FirstStock[g])
  <2>1. PICK g \in Goods : /\ desk' = S!Closed /\ stock' = [desk.stock EXCEPT ![g] = FirstStock[g]]
                           /\ UNCHANGED <<orders, deals, till, sale, crashes>>
    BY <1>5 DEF S!SaveList
  <2>2. desk.stock \in [Goods -> Nat] /\ FirstStock[g] \in Nat BY <1>0, ShopAssumption DEF Views
  <2>3. stock' \in [Goods -> Nat] BY <2>1, <2>2
  <2>4. DeskTyped' BY <1>0, <2>1 DEF DeskTyped
  <2> QED BY <1>1, <2>1, <2>3, <2>4
<1>6. CASE S!SaveForm
  <2>1. /\ desk.page = "saving" /\ desk' = S!Closed /\ orders' = [orders EXCEPT ![desk.order] = desk.copy]
        /\ UNCHANGED <<stock, deals, till, sale, crashes>>
    BY <1>6 DEF S!SaveForm
  <2>2. desk.order \in 1..Len(orders) /\ desk.copy \in S!Order /\ desk.copy.cart = orders[desk.order].cart
    BY <2>1 DEF ShopTyped, DeskTyped
  <2>3. OrdersTyped /\ deals' \in Seq(Deals) /\ Len(deals') = Len(deals) BY <2>1 DEF ShopTyped, OrdersTyped
  <2>4. OrdersTyped' /\ OrdersKept BY <2>1, <2>2, <2>3, OrderSaved
  <2>5. TillsTyped' BY <2>1, <2>4, TillsSame
  <2>6. DeskTyped' BY <1>0, <2>1 DEF DeskTyped
  <2>7. stock' \in [Goods -> Nat] /\ crashes' \in 0..MaxCrashes BY <2>1 DEF ShopTyped
  <2> QED BY <2>4, <2>5, <2>6, <2>7 DEF ShopTyped
<1> QED BY <1>2, <1>3, <1>4, <1>5, <1>6 DEF S!Pages

-----------------------------------------------------------------------------
(* An order's row, its deal and the requests that hold it                  *)

\* A request that holds an order; a deal that Paystack was paid for; a row
\* that was marked paid.
HasOrder == {"initialise", "mark", "take"}
Settled == {"paid", "answered"}
Sold == {"paid", "processing", "shipped", "delivered"}

RowAt(row, deal) ==
  /\ row.paystack = "pending" => row.status = "pending"
  /\ row.paystack = "success" => row.status \in Sold /\ deal \in Settled
TillAt(place, s, rows, bills) ==
  /\ place = "initialise" => bills[s.order] = "none"
  /\ place = "mark" => /\ bills[s.order] \in Settled /\ rows[s.order].paystack = "pending"
                       /\ s.rest = DOMAIN rows[s.order].cart
  /\ place = "take" => rows[s.order].paystack = "success"

RowsRight == \A o \in 1..Len(orders) : RowAt(orders[o], deals[o])
TillsRight == \A w \in Tills : TillAt(till[w], sale[w], orders, deals)
TillsAlone ==
  \A v, w \in Tills : v # w /\ till[v] \in HasOrder /\ till[w] \in HasOrder => sale[v].order # sale[w].order
InOrder == RowsRight /\ TillsRight /\ TillsAlone

LEMMA Held ==
  ASSUME ShopTyped, NEW w \in Tills, till[w] \in HasOrder
  PROVE  sale[w].order \in 1..Len(orders)
BY SaleFacts DEF SaleFits, HasOrder

\* Who does not hold the order that changes is right after the change.
LEMMA TillStays ==
  ASSUME ShopTyped, TillsRight, OrdersKept, NEW o, OnlyOrder(o), NEW v \in Tills,
         till[v] \in HasOrder => sale[v].order # o
  PROVE  TillAt(till[v], sale[v], orders', deals')
<1>1. CASE till[v] \in HasOrder
  <2>1. PICK q \in 1..Len(orders) : q = sale[v].order BY <1>1, Held
  <2>2. orders'[q] = orders[q] /\ deals'[q] = deals[q] BY <1>1, <2>1 DEF OnlyOrder
  <2>3. TillAt(till[v], sale[v], orders, deals) BY DEF TillsRight
  <2> QED BY <2>1, <2>2, <2>3 DEF TillAt
<1>2. CASE till[v] \notin HasOrder BY <1>2 DEF TillAt, HasOrder
<1> QED BY <1>1, <1>2

LEMMA TillsMove ==
  ASSUME ShopTyped, TillsRight, OrdersKept, NEW o, OnlyOrder(o), NEW w \in Tills, OthersStay(w),
         \A v \in Tills : v # w /\ till[v] \in HasOrder => sale[v].order # o,
         TillAt(till'[w], sale'[w], orders', deals')
  PROVE  TillsRight'
<1>1. ASSUME NEW v \in Tills, v # w PROVE TillAt(till'[v], sale'[v], orders', deals')
  <2>1. TillAt(till[v], sale[v], orders', deals') BY <1>1, TillStays
  <2> QED BY <1>1, <2>1 DEF OthersStay
<1> QED BY <1>1 DEF TillsRight

LEMMA AloneStill ==
  ASSUME TillsAlone, NEW w \in Tills, OthersStay(w),
         till'[w] \in HasOrder => \A v \in Tills : v # w /\ till[v] \in HasOrder => sale[v].order # sale'[w].order
  PROVE  TillsAlone'
<1> SUFFICES ASSUME NEW u \in Tills, NEW v \in Tills, u # v, till'[u] \in HasOrder, till'[v] \in HasOrder
             PROVE  sale'[u].order # sale'[v].order
  BY DEF TillsAlone
<1>1. CASE u = w BY <1>1 DEF OthersStay
<1>2. CASE v = w BY <1>2 DEF OthersStay
<1>3. CASE u # w /\ v # w BY <1>3 DEF OthersStay, TillsAlone
<1> QED BY <1>1, <1>2, <1>3

LEMMA RowsMove ==
  ASSUME ShopTyped, RowsRight, Len(orders') = Len(orders), NEW o, OnlyOrder(o),
         o \in 1..Len(orders) => RowAt(orders'[o], deals'[o])
  PROVE  RowsRight'
BY DEF RowsRight, OnlyOrder

\* A step that changes the status of no order.
SameStatuses == \A o \in 1..Len(orders) : orders'[o].status = orders[o].status
LEMMA QuietShips ==
  ASSUME ShopTyped, RowsRight, SameStatuses PROVE S!ShippedStep
<1>1. DOMAIN orders = 1..Len(orders) BY DEF ShopTyped, OrdersTyped
<1>2. ASSUME NEW o \in 1..Len(orders), orders[o].status \in {"shipped", "delivered"}
      PROVE  deals[o] \in Settled
  <2>1. orders[o].paystack \in {"pending", "success"} BY OrderFacts DEF S!Order
  <2> QED BY <1>2, <2>1 DEF RowsRight, RowAt
<1> QED BY <1>1, <1>2 DEF S!ShippedStep, SameStatuses, Settled

LEMMA OrdersStill ==
  ASSUME ShopTyped, UNCHANGED <<orders, deals>>
  PROVE  OrdersKept /\ OnlyOrder(0) /\ Len(orders') = Len(orders) /\ SameStatuses
BY OrdersStand DEF ShopTyped, OnlyOrder, SameStatuses

\* A request that changes no order and holds none afterwards.
LEMMA OrderlyIdle ==
  ASSUME ShopTyped, InOrder, NEW w \in Tills, OthersStay(w), UNCHANGED <<orders, deals>>,
         till'[w] \notin HasOrder
  PROVE  InOrder' /\ S!ShippedStep
<1>1. OrdersKept /\ OnlyOrder(0) /\ Len(orders') = Len(orders) /\ SameStatuses BY OrdersStill
<1>2. 0 \notin 1..Len(orders) BY DEF ShopTyped, OrdersTyped
<1>3. TillAt(till'[w], sale'[w], orders', deals') BY DEF TillAt, HasOrder
<1>4. \A v \in Tills : v # w /\ till[v] \in HasOrder => sale[v].order # 0 BY <1>2, Held
<1>5. TillsRight' BY <1>1, <1>3, <1>4, TillsMove DEF InOrder
<1>6. RowsRight' BY <1>1, <1>2, RowsMove DEF InOrder
<1>7. TillsAlone' BY AloneStill DEF InOrder
<1> QED BY <1>1, <1>5, <1>6, <1>7, QuietShips DEF InOrder

LEMMA OrderlyMake ==
  ASSUME ShopTyped, InOrder, NEW w \in Tills, S!MakeOrder(w)
  PROVE  InOrder' /\ S!ShippedStep
<1>1. Len(orders) \in Nat BY DEF ShopTyped, OrdersTyped
<1>2. PICK n \in Nat : n = Len(orders) BY <1>1
<1>3. /\ OthersStay(w) /\ OrdersKept /\ till'[w] = "initialise" /\ sale'[w].order = n + 1 /\ Len(orders') = n + 1
      /\ orders'[n + 1].status = "pending" /\ orders'[n + 1].paystack = "pending" /\ deals'[n + 1] = "none"
      /\ \A o \in 1..n : orders'[o] = orders[o] /\ deals'[o] = deals[o]
  BY <1>2, MakeOrderFacts
<1>4. OnlyOrder(n + 1) /\ SameStatuses BY <1>2, <1>3 DEF OnlyOrder, SameStatuses
<1>5. \A v \in Tills : till[v] \in HasOrder => sale[v].order # n + 1 BY <1>2, Held
<1>6. TillAt(till'[w], sale'[w], orders', deals') BY <1>3 DEF TillAt
<1>7. TillsRight' BY <1>3, <1>4, <1>5, <1>6, TillsMove DEF InOrder
<1>8. TillsAlone' BY <1>3, <1>5, AloneStill DEF InOrder
<1>9. ASSUME NEW o \in 1..(n + 1) PROVE RowAt(orders'[o], deals'[o])
  <2>1. CASE o = n + 1 BY <1>3, <2>1 DEF RowAt
  <2>2. CASE o \in 1..n BY <1>2, <1>3, <2>2 DEF InOrder, RowsRight
  <2> QED BY <2>1, <2>2
<1>10. RowsRight' BY <1>3, <1>9 DEF RowsRight
<1> QED BY <1>4, <1>7, <1>8, <1>10, QuietShips DEF InOrder

LEMMA OrderlyInitialise ==
  ASSUME ShopTyped, InOrder, NEW w \in Tills, NEW ok \in BOOLEAN, S!Initialise(w, ok)
  PROVE  InOrder' /\ S!ShippedStep
<1>1. PICK o : o = sale[w].order OBVIOUS
<1>2. /\ OthersStay(w) /\ OrdersKept /\ Len(orders') = Len(orders) /\ till[w] = "initialise" /\ till'[w] = "idle"
      /\ OnlyOrder(o) /\ o \in 1..Len(orders) /\ orders'[o].status = orders[o].status
      /\ orders'[o].paystack = orders[o].paystack /\ deals'[o] \in {deals[o], "open"}
  BY <1>1, InitialiseFacts
<1>3. deals[o] = "none" BY <1>1, <1>2 DEF InOrder, TillsRight, TillAt
<1>4. RowAt(orders'[o], deals'[o]) BY <1>2, <1>3 DEF InOrder, RowsRight, RowAt, Settled
<1>5. RowsRight' BY <1>2, <1>4, RowsMove DEF InOrder
<1>6. \A v \in Tills : v # w /\ till[v] \in HasOrder => sale[v].order # o
  BY <1>1, <1>2 DEF InOrder, TillsAlone, HasOrder
<1>7. TillAt(till'[w], sale'[w], orders', deals') BY <1>2 DEF TillAt
<1>8. TillsRight' BY <1>2, <1>6, <1>7, TillsMove DEF InOrder
<1>9. TillsAlone' BY <1>2, AloneStill DEF InOrder, HasOrder
<1>10. SameStatuses BY <1>2 DEF SameStatuses, OnlyOrder
<1> QED BY <1>5, <1>8, <1>9, <1>10, QuietShips DEF InOrder

LEMMA OrderlyPay ==
  ASSUME ShopTyped, InOrder, NEW o \in DOMAIN deals, S!PayOrder(o)
  PROVE  InOrder' /\ S!ShippedStep
<1>1. /\ UNCHANGED <<orders, till, sale>> /\ o \in 1..Len(orders)
      /\ deals[o] = "open" /\ deals'[o] = "paid" /\ OnlyOrder(o)
  BY PayOrderFacts
<1>2. Len(orders') = Len(orders) /\ OrdersKept /\ SameStatuses
  BY <1>1 DEF OrdersKept, SameStatuses, ShopTyped, OrdersTyped
<1>3. RowAt(orders'[o], deals'[o]) BY <1>1 DEF InOrder, RowsRight, RowAt, Settled
<1>4. RowsRight' BY <1>2, <1>1, <1>3, RowsMove DEF InOrder
<1>5. ASSUME NEW v \in Tills, till[v] \in HasOrder PROVE sale[v].order # o
  BY <1>1, <1>5 DEF InOrder, TillsRight, TillAt, RowsRight, RowAt, Settled, HasOrder
<1>6. \A v \in Tills : TillAt(till[v], sale[v], orders', deals') BY <1>1, <1>2, <1>5, TillStays DEF InOrder
<1>7. TillsRight' BY <1>1, <1>6 DEF TillsRight
<1>8. TillsAlone' BY <1>1 DEF InOrder, TillsAlone
<1> QED BY <1>2, <1>4, <1>7, <1>8, QuietShips DEF InOrder

LEMMA OrderlyWebhook ==
  ASSUME ShopTyped, InOrder, NEW w \in Tills, NEW o \in DOMAIN deals, S!Webhook(w, o),
         \A v \in Tills : till[v] \in {"mark", "take"} => sale[v].order # o
  PROVE  InOrder' /\ S!ShippedStep
<1>1. /\ OthersStay(w) /\ UNCHANGED orders /\ o \in 1..Len(orders) /\ deals[o] = "paid" /\ OnlyOrder(o)
      /\ \/ till'[w] = "idle" /\ deals'[o] = "answered"
         \/ /\ till'[w] = "mark" /\ sale'[w].order = o /\ sale'[w].rest = DOMAIN orders[o].cart
            /\ orders[o].paystack # "success" /\ deals'[o] = "paid"
  BY WebhookFacts
<1>2. Len(orders') = Len(orders) /\ OrdersKept /\ SameStatuses
  BY <1>1 DEF OrdersKept, SameStatuses, ShopTyped, OrdersTyped
<1>3. ASSUME NEW v \in Tills, till[v] \in HasOrder PROVE sale[v].order # o
  BY <1>1, <1>3 DEF InOrder, TillsRight, TillAt, HasOrder
<1>4. deals'[o] \in Settled BY <1>1 DEF Settled
<1>5. RowAt(orders'[o], deals'[o]) BY <1>1, <1>4 DEF InOrder, RowsRight, RowAt
<1>6. RowsRight' BY <1>1, <1>2, <1>5, RowsMove DEF InOrder
<1>7. orders[o].paystack \in {"pending", "success"} BY <1>1, OrderFacts DEF S!Order
<1>8. TillAt(till'[w], sale'[w], orders', deals')
  <2>1. CASE till'[w] = "idle" BY <2>1 DEF TillAt
  <2>2. CASE till'[w] # "idle"
    <3>1. till'[w] = "mark" /\ sale'[w].order = o /\ sale'[w].rest = DOMAIN orders'[o].cart
          /\ orders'[o].paystack = "pending"
      BY <1>1, <1>7, <2>2
    <3> QED BY <1>4, <3>1 DEF TillAt
  <2> QED BY <2>1, <2>2
<1>9. TillsRight' BY <1>1, <1>2, <1>3, <1>8, TillsMove DEF InOrder
<1>10. till'[w] \in HasOrder => sale'[w].order = o BY <1>1 DEF HasOrder
<1>11. TillsAlone' BY <1>1, <1>3, <1>10, AloneStill DEF InOrder
<1> QED BY <1>2, <1>6, <1>9, <1>11, QuietShips DEF InOrder

LEMMA OrderlyMark ==
  ASSUME ShopTyped, InOrder, NEW w \in Tills, S!Mark(w)
  PROVE  InOrder' /\ S!ShippedStep
<1>1. PICK o : o = sale[w].order OBVIOUS
<1>2. /\ OthersStay(w) /\ UNCHANGED deals /\ OrdersKept /\ Len(orders') = Len(orders) /\ OnlyOrder(o)
      /\ o \in 1..Len(orders) /\ till[w] = "mark" /\ till'[w] = "take" /\ sale'[w] = sale[w]
      /\ orders'[o].status = "paid" /\ orders'[o].paystack = "success"
  BY <1>1, MarkFacts
<1>3. deals[o] \in Settled /\ orders[o].paystack = "pending" BY <1>1, <1>2 DEF InOrder, TillsRight, TillAt
<1>4. orders[o].status = "pending" BY <1>2, <1>3 DEF InOrder, RowsRight, RowAt
<1>5. RowAt(orders'[o], deals'[o]) BY <1>2, <1>3 DEF RowAt, Sold
<1>6. RowsRight' BY <1>2, <1>5, RowsMove DEF InOrder
<1>7. \A v \in Tills : v # w /\ till[v] \in HasOrder => sale[v].order # o
  BY <1>1, <1>2 DEF InOrder, TillsAlone, HasOrder
<1>8. TillAt(till'[w], sale'[w], orders', deals') BY <1>1, <1>2 DEF TillAt
<1>9. TillsRight' BY <1>2, <1>7, <1>8, TillsMove DEF InOrder
<1>10. TillsAlone' BY <1>1, <1>2, <1>7, AloneStill DEF InOrder
<1>11. S!ShippedStep
  <2>1. DOMAIN orders = 1..Len(orders) BY DEF ShopTyped, OrdersTyped
  <2>2. ASSUME NEW q \in 1..Len(orders), orders'[q].status \in {"shipped", "delivered"}
        PROVE  deals[q] \in Settled
    <3>1. q # o BY <1>2, <2>2
    <3>2. orders[q].status \in {"shipped", "delivered"} BY <1>2, <2>2, <3>1 DEF OnlyOrder
    <3>3. orders[q].paystack \in {"pending", "success"} BY OrderFacts DEF S!Order
    <3> QED BY <3>2, <3>3 DEF InOrder, RowsRight, RowAt
  <2>3. ASSUME NEW q \in 1..Len(orders), orders[q].status \in {"shipped", "delivered"}
        PROVE  orders'[q].status \in {"shipped", "delivered"}
    BY <1>2, <1>4, <2>3 DEF OnlyOrder
  <2> QED BY <2>1, <2>2, <2>3 DEF S!ShippedStep, Settled
<1> QED BY <1>6, <1>9, <1>10, <1>11 DEF InOrder

LEMMA OrderlyTake ==
  ASSUME ShopTyped, InOrder, NEW w \in Tills, S!Take(w)
  PROVE  InOrder' /\ S!ShippedStep
<1>1. PICK o : o = sale[w].order OBVIOUS
<1>2. /\ OthersStay(w) /\ UNCHANGED orders /\ o \in 1..Len(orders) /\ till[w] = "take" /\ OnlyOrder(o)
      /\ \/ till'[w] = "idle" /\ deals'[o] = "answered"
         \/ till'[w] = "take" /\ sale'[w].order = o /\ UNCHANGED deals
  BY <1>1, TakeFacts DEF Taken
<1>3. Len(orders') = Len(orders) /\ OrdersKept /\ SameStatuses
  BY <1>2 DEF OrdersKept, SameStatuses, ShopTyped, OrdersTyped
<1>4. orders[o].paystack = "success" BY <1>1, <1>2 DEF InOrder, TillsRight, TillAt
<1>5. RowAt(orders'[o], deals'[o]) BY <1>2 DEF InOrder, RowsRight, RowAt, Settled
<1>6. RowsRight' BY <1>2, <1>3, <1>5, RowsMove DEF InOrder
<1>7. \A v \in Tills : v # w /\ till[v] \in HasOrder => sale[v].order # o
  BY <1>1, <1>2 DEF InOrder, TillsAlone, HasOrder
<1>8. TillAt(till'[w], sale'[w], orders', deals') BY <1>2, <1>4 DEF TillAt
<1>9. TillsRight' BY <1>2, <1>3, <1>7, <1>8, TillsMove DEF InOrder
<1>10. till'[w] \in HasOrder => sale'[w].order = o BY <1>2 DEF HasOrder
<1>11. TillsAlone' BY <1>2, <1>7, <1>10, AloneStill DEF InOrder
<1> QED BY <1>3, <1>6, <1>9, <1>11, QuietShips DEF InOrder

LEMMA OrderlyFulfil ==
  ASSUME ShopTyped, InOrder, S!Fulfil
  PROVE  InOrder' /\ S!ShippedStep
<1>1. PICK o \in 1..Len(orders) :
        /\ UNCHANGED <<deals, till, sale>> /\ OnlyOrder(o) /\ Len(orders') = Len(orders) /\ OrdersKept
        /\ orders'[o].paystack = orders[o].paystack
        /\ \/ orders[o].status = "paid" /\ orders'[o].status = "processing"
           \/ orders[o].status \in {"paid", "processing"} /\ orders'[o].status = "shipped"
           \/ orders[o].status = "shipped" /\ orders'[o].status = "delivered"
  BY FulfilFacts
<1>2. orders[o].paystack \in {"pending", "success"} BY OrderFacts DEF S!Order
<1>3. orders[o].paystack = "success" BY <1>1, <1>2 DEF InOrder, RowsRight, RowAt
<1>4. deals[o] \in Settled BY <1>3 DEF InOrder, RowsRight, RowAt
<1>5. RowAt(orders'[o], deals'[o]) BY <1>1, <1>3, <1>4 DEF RowAt, Sold
<1>6. RowsRight' BY <1>1, <1>5, RowsMove DEF InOrder
<1>7. ASSUME NEW v \in Tills PROVE TillAt(till[v], sale[v], orders', deals')
  <2>1. CASE till[v] \in HasOrder /\ sale[v].order = o
    <3>1. orders'[o].cart = orders[o].cart BY <1>1 DEF OrdersKept
    <3>2. TillAt(till[v], sale[v], orders, deals) BY DEF InOrder, TillsRight
    <3> QED BY <1>1, <2>1, <3>1, <3>2 DEF TillAt
  <2>2. CASE till[v] \in HasOrder => sale[v].order # o BY <1>1, <2>2, TillStays DEF InOrder
  <2> QED BY <2>1, <2>2
<1>8. TillsRight' BY <1>1, <1>7 DEF TillsRight
<1>9. TillsAlone' BY <1>1 DEF InOrder, TillsAlone
<1>10. S!ShippedStep
  <2>1. DOMAIN orders = 1..Len(orders) BY DEF ShopTyped, OrdersTyped
  <2>2. ASSUME NEW q \in 1..Len(orders), orders'[q].status \in {"shipped", "delivered"}
        PROVE  deals[q] \in Settled
    <3>1. CASE q = o BY <1>4, <3>1
    <3>2. CASE q # o
      <4>1. orders[q].status \in {"shipped", "delivered"} BY <1>1, <2>2, <3>2 DEF OnlyOrder
      <4>2. orders[q].paystack \in {"pending", "success"} BY OrderFacts DEF S!Order
      <4> QED BY <4>1, <4>2 DEF InOrder, RowsRight, RowAt
    <3> QED BY <3>1, <3>2
  <2>3. ASSUME NEW q \in 1..Len(orders), orders[q].status \in {"shipped", "delivered"}
        PROVE  orders'[q].status \in {"shipped", "delivered"}
    BY <1>1, <2>3 DEF OnlyOrder
  <2> QED BY <2>1, <2>2, <2>3 DEF S!ShippedStep, Settled
<1> QED BY <1>6, <1>8, <1>9, <1>10 DEF InOrder

-----------------------------------------------------------------------------
(* The books: what has left the stock is the units of some paid orders     *)

Ordered(rows, g) == [o \in 1..Len(rows) |-> IF g \in DOMAIN rows[o].cart THEN rows[o].cart[g] ELSE 0]
Paid(rows) == {o \in 1..Len(rows) : rows[o].paystack = "success"}
\* Orders of which a request is still to take the item.
Owed(places, held, g) == {o \in {held[w].order : w \in Tills} :
                            \E w \in Tills : places[w] = "take" /\ held[w].order = o /\ g \in held[w].rest}

\* The units of the orders in gone have left; and with nothing oversold and no
\* worker killed, what has not left and is owed by no request is nothing.
Booked(gone, rows, left, killed, owed, g) ==
  /\ gone \subseteq Paid(rows) /\ gone \cap owed = {}
  /\ FirstStock[g] - left = Weight(Ordered(rows, g), gone)
  /\ killed = 0 /\ Weight(Ordered(rows, g), Paid(rows)) <= FirstStock[g] =>
       \A o \in Paid(rows) \ gone : o \in owed \/ Ordered(rows, g)[o] = 0
Books == \A g \in Goods : \E gone : Booked(gone, orders, stock[g], crashes, Owed(till, sale, g), g)

LEMMA OrderedFacts ==
  ASSUME ShopTyped, NEW g
  PROVE  /\ Weighed(Ordered(orders, g), Paid(orders)) /\ Paid(orders) \subseteq 1..Len(orders)
         /\ \A o \in 1..Len(orders) : Ordered(orders, g)[o] \in Nat
<1>1. \A o \in 1..Len(orders) : Ordered(orders, g)[o] \in Nat
  <2> SUFFICES ASSUME NEW o \in 1..Len(orders) PROVE Ordered(orders, g)[o] \in Nat OBVIOUS
  <2>1. PICK c \in Carts : c = orders[o].cart BY OrderFacts
  <2>2. g \in DOMAIN c => c[g] \in Nat BY CartFacts
  <2> QED BY <2>1, <2>2 DEF Ordered
<1>2. Len(orders) \in Nat /\ Paid(orders) \subseteq 1..Len(orders) BY DEF ShopTyped, OrdersTyped, Paid
<1>3. IsFiniteSet(1..Len(orders)) BY <1>2, FS_Interval
<1>4. IsFiniteSet(Paid(orders)) BY <1>2, <1>3, FS_Subset
<1> QED BY <1>1, <1>2, <1>4 DEF Weighed

\* What was ordered stays ordered.
LEMMA OrderedStays ==
  ASSUME ShopTyped, ShopTyped', OrdersKept, NEW g
  PROVE  \A o \in 1..Len(orders) : o \in 1..Len(orders') /\ Ordered(orders', g)[o] = Ordered(orders, g)[o]
<1>1. Len(orders) \in Nat /\ Len(orders') \in Nat /\ Len(orders) <= Len(orders')
  BY DEF ShopTyped, OrdersTyped, OrdersKept
<1>2. ASSUME NEW o \in 1..Len(orders)
      PROVE  o \in 1..Len(orders') /\ Ordered(orders', g)[o] = Ordered(orders, g)[o]
  <2>1. o \in 1..Len(orders') /\ orders'[o].cart = orders[o].cart BY <1>1 DEF OrdersKept
  <2> QED BY <2>1 DEF Ordered
<1> QED BY <1>2

\* A step that takes nothing: only a killed worker no longer owes.
LEMMA BookedStill ==
  ASSUME ShopTyped, ShopTyped', OrdersKept, Paid(orders') = Paid(orders), NEW g \in Goods,
         stock'[g] = stock[g],
         NEW owed, NEW less, less \subseteq owed, (crashes' = crashes /\ less = owed) \/ crashes' # 0,
         NEW gone, Booked(gone, orders, stock[g], crashes, owed, g)
  PROVE  Booked(gone, orders', stock'[g], crashes', less, g)
<1>1. gone \subseteq Paid(orders) /\ Paid(orders) \subseteq 1..Len(orders) BY OrderedFacts DEF Booked
<1>2. \A o \in Paid(orders) : Ordered(orders', g)[o] = Ordered(orders, g)[o] BY <1>1, OrderedStays
<1>3. Weight(Ordered(orders', g), gone) = Weight(Ordered(orders, g), gone) BY <1>1, <1>2, WeightSame
<1>4. Weight(Ordered(orders', g), Paid(orders)) = Weight(Ordered(orders, g), Paid(orders))
  BY <1>2, WeightSame
<1> QED BY <1>1, <1>2, <1>3, <1>4 DEF Booked

LEMMA BooksStill ==
  ASSUME ShopTyped, ShopTyped', OrdersKept, Books, Paid(orders') = Paid(orders), UNCHANGED stock,
         \A g \in Goods : /\ Owed(till', sale', g) \subseteq Owed(till, sale, g)
                          /\ \/ crashes' = crashes /\ Owed(till', sale', g) = Owed(till, sale, g)
                             \/ crashes' # 0
  PROVE  Books'
<1> SUFFICES ASSUME NEW g \in Goods
             PROVE  \E gone : Booked(gone, orders', stock'[g], crashes', Owed(till', sale', g), g)
  BY DEF Books
<1>1. PICK gone : Booked(gone, orders, stock[g], crashes, Owed(till, sale, g), g) BY DEF Books
<1>2. Booked(gone, orders', stock'[g], crashes', Owed(till', sale', g), g) BY <1>1, BookedStill
<1> QED BY <1>2

\* The orders owed when one request moves.
LEMMA OwedStays ==
  ASSUME NEW w \in Tills, OthersStay(w), till'[w] # "take", NEW g
  PROVE  Owed(till', sale', g) \subseteq Owed(till, sale, g)
BY DEF Owed, OthersStay
LEMMA OwedSame ==
  ASSUME NEW w \in Tills, OthersStay(w), till'[w] # "take", till[w] # "take" \/ sale[w].rest = {}, NEW g
  PROVE  Owed(till', sale', g) = Owed(till, sale, g)
BY DEF Owed, OthersStay

LEMMA PaidSame ==
  ASSUME ShopTyped, ShopTyped', Len(orders') = Len(orders), NEW o, OnlyOrder(o),
         o \in 1..Len(orders) => orders'[o].paystack = orders[o].paystack
  PROVE  Paid(orders') = Paid(orders)
BY DEF Paid, OnlyOrder

\* The steps that take nothing, but for the mark.
LEMMA BooksQuiet ==
  ASSUME ShopTyped, Books,
         \/ \E w \in Tills : \/ S!CheckStock(w) \/ S!MakeOrder(w) \/ S!KillTill(w)
                             \/ \E cart \in Carts : S!Checkout(w, cart)
                             \/ \E ok \in BOOLEAN : S!Initialise(w, ok)
                             \/ \E o \in DOMAIN deals : S!Webhook(w, o) \/ S!PayOrder(o)
         \/ S!Fulfil
  PROVE  Books'
<1>0. /\ Len(orders) \in Nat /\ 0 \notin 1..Len(orders)
      /\ UNCHANGED <<orders, deals>> => OrdersKept /\ OnlyOrder(0) /\ Len(orders') = Len(orders)
  BY OrdersStill DEF ShopTyped, OrdersTyped
<1>1. ASSUME NEW w \in Tills, S!CheckStock(w) \/ \E cart \in Carts : S!Checkout(w, cart) PROVE Books'
  <2>1. /\ ShopTyped' /\ OthersStay(w) /\ UNCHANGED <<stock, crashes>> /\ UNCHANGED <<orders, deals>>
        /\ till[w] # "take" /\ till'[w] # "take"
    BY <1>1, BrowseFacts DEF Settings
  <2>2. OrdersKept /\ Paid(orders') = Paid(orders) BY <1>0, <2>1
  <2>3. \A g \in Goods : Owed(till', sale', g) = Owed(till, sale, g) BY <2>1, OwedSame
  <2> QED BY <2>1, <2>2, <2>3, BooksStill
<1>2. ASSUME NEW w \in Tills, S!MakeOrder(w) PROVE Books'
  <2>1. PICK n \in Nat : n = Len(orders) BY <1>0
  <2>2. /\ ShopTyped' /\ OthersStay(w) /\ UNCHANGED <<stock, crashes>> /\ OrdersKept
        /\ till[w] # "take" /\ till'[w] # "take" /\ Len(orders') = n + 1
        /\ orders'[n + 1].paystack = "pending" /\ \A o \in 1..n : orders'[o] = orders[o]
    BY <1>2, <2>1, MakeOrderFacts DEF Settings
  <2>3. Paid(orders') = Paid(orders) BY <2>1, <2>2 DEF Paid
  <2>4. \A g \in Goods : Owed(till', sale', g) = Owed(till, sale, g) BY <2>2, OwedSame
  <2> QED BY <2>2, <2>3, <2>4, BooksStill
<1>3. ASSUME NEW w \in Tills, NEW ok \in BOOLEAN, S!Initialise(w, ok) PROVE Books'
  <2>1. /\ ShopTyped' /\ OthersStay(w) /\ UNCHANGED <<stock, crashes>> /\ OrdersKept /\ Len(orders') = Len(orders)
        /\ till[w] # "take" /\ till'[w] # "take" /\ OnlyOrder(sale[w].order)
        /\ orders'[sale[w].order].paystack = orders[sale[w].order].paystack
    BY <1>3, InitialiseFacts DEF Settings
  <2>2. Paid(orders') = Paid(orders) BY <2>1, PaidSame
  <2>3. \A g \in Goods : Owed(till', sale', g) = Owed(till, sale, g) BY <2>1, OwedSame
  <2> QED BY <2>1, <2>2, <2>3, BooksStill
<1>4. ASSUME NEW o \in DOMAIN deals, S!PayOrder(o) PROVE Books'
  <2>1. ShopTyped' /\ UNCHANGED <<stock, crashes>> /\ UNCHANGED <<orders, till, sale>>
    BY <1>4, PayOrderFacts DEF Settings
  <2>2. OrdersKept BY <1>0, <2>1 DEF OrdersKept
  <2> QED BY <2>1, <2>2, BooksStill
<1>5. ASSUME NEW w \in Tills, NEW o \in DOMAIN deals, S!Webhook(w, o) PROVE Books'
  <2>1. /\ ShopTyped' /\ OthersStay(w) /\ UNCHANGED <<stock, crashes>> /\ UNCHANGED orders
        /\ till[w] # "take" /\ till'[w] # "take"
    BY <1>5, WebhookFacts DEF Settings
  <2>2. OrdersKept BY <1>0, <2>1 DEF OrdersKept
  <2>3. \A g \in Goods : Owed(till', sale', g) = Owed(till, sale, g) BY <2>1, OwedSame
  <2> QED BY <2>1, <2>2, <2>3, BooksStill
<1>6. ASSUME NEW w \in Tills, S!KillTill(w) PROVE Books'
  <2>1. /\ ShopTyped' /\ OthersStay(w) /\ UNCHANGED <<stock, orders, deals>> /\ till'[w] # "take" /\ crashes' # 0
    BY <1>6, KillFacts
  <2>2. OrdersKept BY <1>0, <2>1
  <2>3. \A g \in Goods : Owed(till', sale', g) \subseteq Owed(till, sale, g) BY <2>1, OwedStays
  <2> QED BY <2>1, <2>2, <2>3, BooksStill
<1>7. CASE S!Fulfil
  <2>1. PICK o \in 1..Len(orders) :
          /\ ShopTyped' /\ UNCHANGED <<stock, crashes>> /\ UNCHANGED <<deals, till, sale>> /\ OnlyOrder(o)
          /\ Len(orders') = Len(orders) /\ OrdersKept /\ orders'[o].paystack = orders[o].paystack
    BY <1>7, FulfilFacts DEF Settings
  <2>2. Paid(orders') = Paid(orders) BY <2>1, PaidSame
  <2> QED BY <2>1, <2>2, BooksStill
<1> QED BY <1>1, <1>2, <1>3, <1>4, <1>5, <1>6, <1>7

\* The mark: the order is paid and all its items are owed.
LEMMA BooksMark ==
  ASSUME ShopTyped, InOrder, Books, NEW w \in Tills, S!Mark(w)
  PROVE  Books'
<1>1. PICK o : o = sale[w].order OBVIOUS
<1>2. /\ ShopTyped' /\ OthersStay(w) /\ UNCHANGED <<stock, crashes>> /\ OrdersKept
      /\ Len(orders') = Len(orders) /\ OnlyOrder(o)
      /\ o \in 1..Len(orders) /\ till[w] = "mark" /\ till'[w] = "take" /\ sale'[w] = sale[w]
      /\ orders'[o].paystack = "success"
  BY <1>1, MarkFacts DEF Settings
<1>3. orders[o].paystack = "pending" /\ sale[w].rest = DOMAIN orders[o].cart
  BY <1>1, <1>2 DEF InOrder, TillsRight, TillAt
<1>4. Paid(orders') = Paid(orders) \cup {o} /\ o \notin Paid(orders) BY <1>2, <1>3 DEF Paid, OnlyOrder
<1> SUFFICES ASSUME NEW g \in Goods
             PROVE  \E gone : Booked(gone, orders', stock'[g], crashes', Owed(till', sale', g), g)
  BY DEF Books
<1>5. PICK gone : Booked(gone, orders, stock[g], crashes, Owed(till, sale, g), g) BY DEF Books
<1> DEFINE h == Ordered(orders, g)
           k == Ordered(orders', g)
<1>6. /\ gone \subseteq Paid(orders) /\ Paid(orders) \subseteq 1..Len(orders) /\ Weighed(h, Paid(orders))
      /\ h[o] \in Nat
  BY <1>2, <1>5, OrderedFacts DEF Booked
<1>7. \A q \in 1..Len(orders) : k[q] = h[q] BY <1>2, OrderedStays
<1>8. Owed(till', sale', g) = Owed(till, sale, g) \cup (IF g \in DOMAIN orders[o].cart THEN {o} ELSE {})
  BY <1>1, <1>2, <1>3 DEF Owed, OthersStay
<1>9. g \notin DOMAIN orders[o].cart => h[o] = 0 BY <1>2 DEF Ordered
<1> HIDE DEF h, k
<1>10. Weight(k, gone) = Weight(h, gone) /\ Weight(k, Paid(orders)) = Weight(h, Paid(orders))
  BY <1>6, <1>7, WeightSame
<1>11. Weighed(k, Paid(orders) \cup {o})
  <2>1. Weighed(h, Paid(orders) \cup {o}) BY <1>4, <1>6, WeightMore
  <2> QED BY <1>2, <1>6, <1>7, <2>1 DEF Weighed
<1>12. Weight(k, Paid(orders)) <= Weight(k, Paid(orders')) BY <1>4, <1>11, WeightLess
<1>13. FirstStock[g] \in Nat /\ Weight(k, Paid(orders)) \in Nat /\ Weight(k, Paid(orders')) \in Nat
  <2>1. Weighed(k, Paid(orders)) /\ Weighed(k, Paid(orders')) BY <1>4, <1>11, WeightLess
  <2> QED BY <2>1, WeightNat, ShopAssumption
<1>14. FirstStock[g] - stock'[g] = Weight(k, gone) /\ gone \cap Owed(till', sale', g) = {}
  BY <1>2, <1>4, <1>5, <1>6, <1>8, <1>10 DEF Booked, h
<1>15. ASSUME crashes' = 0, Weight(k, Paid(orders')) <= FirstStock[g], NEW q \in Paid(orders') \ gone
       PROVE  q \in Owed(till', sale', g) \/ k[q] = 0
  <2>1. CASE q = o BY <1>2, <1>7, <1>8, <1>9, <2>1
  <2>2. CASE q # o
    <3>1. q \in Paid(orders) \ gone BY <1>4, <1>15, <2>2
    <3>2. Weight(h, Paid(orders)) <= FirstStock[g] BY <1>10, <1>12, <1>13, <1>15
    <3>3. q \in Owed(till, sale, g) \/ h[q] = 0 BY <1>2, <1>5, <1>15, <3>1, <3>2 DEF Booked, h
    <3> QED BY <1>6, <1>7, <1>8, <3>1, <3>3
  <2> QED BY <2>1, <2>2
<1>16. Booked(gone, orders', stock'[g], crashes', Owed(till', sale', g), g)
  BY <1>4, <1>6, <1>14, <1>15 DEF Booked, k
<1> QED BY <1>16

\* An item is taken: the order is gone, or passed over because too much was sold.
LEMMA BooksTake ==
  ASSUME ShopTyped, InOrder, Books, NEW w \in Tills, S!Take(w)
  PROVE  Books'
<1>1. PICK o : o = sale[w].order OBVIOUS
<1>2. /\ ShopTyped' /\ OthersStay(w) /\ UNCHANGED <<orders, crashes>> /\ o \in 1..Len(orders) /\ till[w] = "take"
      /\ \/ sale[w].rest = {} /\ till'[w] = "idle" /\ UNCHANGED stock
         \/ \E g \in Goods : Taken(w, g)
  BY <1>1, TakeFacts
<1>3. OrdersKept BY <1>2 DEF OrdersKept, ShopTyped, OrdersTyped
<1>4. o \in Paid(orders) BY <1>1, <1>2 DEF InOrder, TillsRight, TillAt, Paid
<1>5. CASE sale[w].rest = {} /\ till'[w] = "idle" /\ UNCHANGED stock
  <2>1. \A g \in Goods : Owed(till', sale', g) = Owed(till, sale, g) BY <1>2, <1>5, OwedSame
  <2> QED BY <1>2, <1>3, <1>5, <2>1, BooksStill
<1>6. ASSUME NEW t \in Goods, Taken(w, t) PROVE Books'
  <2>1. PICK n : n = orders[o].cart[t] OBVIOUS
  <2>2. /\ t \in sale[w].rest /\ t \in DOMAIN orders[o].cart /\ n \in Nat
        /\ till'[w] = "take" /\ sale'[w].order = o /\ sale'[w].rest = sale[w].rest \ {t}
        /\ \A k \in Goods : k # t => stock'[k] = stock[k]
        /\ stock[t] < n => stock'[t] = stock[t]
        /\ ~(stock[t] < n) => stock'[t] = stock[t] - n
    BY <1>1, <1>6, <2>1 DEF Taken
  <2>3. \A v \in Tills : v # w /\ till[v] = "take" => sale[v].order # o
    BY <1>1, <1>2 DEF InOrder, TillsAlone, HasOrder
  <2> SUFFICES ASSUME NEW g \in Goods
               PROVE  \E gone : Booked(gone, orders', stock'[g], crashes', Owed(till', sale', g), g)
    BY DEF Books
  <2>4. PICK gone : Booked(gone, orders, stock[g], crashes, Owed(till, sale, g), g) BY DEF Books
  <2>5. CASE g # t
    <3>1. Owed(till', sale', g) = Owed(till, sale, g) BY <1>1, <1>2, <2>2, <2>5 DEF Owed, OthersStay
    <3>2. stock'[g] = stock[g] BY <2>2, <2>5
    <3> QED BY <1>2, <2>4, <3>1, <3>2
  <2>6. CASE g = t
    <3> DEFINE owed == Owed(till, sale, t)
               h == Ordered(orders, t)
    <3>1. Owed(till', sale', t) = owed \ {o} /\ o \in owed
      BY <1>1, <1>2, <2>2, <2>3 DEF Owed, OthersStay
    <3>2. h[o] = n BY <1>2, <2>1, <2>2 DEF Ordered
    <3>3. Weighed(h, Paid(orders)) BY OrderedFacts
    <3> HIDE DEF owed, h
    <3>4. /\ gone \subseteq Paid(orders) /\ gone \cap owed = {} /\ FirstStock[t] - stock[t] = Weight(h, gone)
          /\ crashes = 0 /\ Weight(h, Paid(orders)) <= FirstStock[t] =>
               \A q \in Paid(orders) \ gone : q \in owed \/ h[q] = 0
      BY <2>4, <2>6 DEF Booked, h, owed
    <3>5. Weighed(h, gone) /\ o \notin gone BY <3>1, <3>3, <3>4, WeightLess
    <3>6. Weight(h, gone \cup {o}) = Weight(h, gone) + n BY <2>2, <3>2, <3>5, WeightMore
    <3>7. gone \cup {o} \subseteq Paid(orders) BY <1>4, <3>4
    <3>8. Weight(h, gone \cup {o}) <= Weight(h, Paid(orders)) BY <3>3, <3>7, WeightLess
    <3>9. /\ FirstStock[t] \in Nat /\ stock[t] \in Nat /\ Weight(h, gone) \in Nat /\ Weight(h, Paid(orders)) \in Nat
      BY <3>3, <3>5, WeightNat, ShopAssumption DEF ShopTyped
    <3>10. CASE stock[t] < n
      <4>1. ~(Weight(h, Paid(orders)) <= FirstStock[t]) BY <2>2, <3>4, <3>6, <3>8, <3>9, <3>10
      <4>2. gone \cap (owed \ {o}) = {} /\ stock'[t] = stock[t] BY <2>2, <3>4, <3>10
      <4>3. Booked(gone, orders, stock'[t], crashes, owed \ {o}, t) BY <3>4, <4>1, <4>2 DEF Booked, h
      <4> QED BY <1>2, <2>6, <3>1, <4>3
    <3>11. CASE ~(stock[t] < n)
      <4>1. stock'[t] = stock[t] - n BY <2>2, <3>11
      <4>2. FirstStock[t] - stock'[t] = Weight(h, gone \cup {o}) BY <2>2, <3>4, <3>6, <3>9, <4>1
      <4>3. (gone \cup {o}) \cap (owed \ {o}) = {} BY <3>4
      <4>4. crashes = 0 /\ Weight(h, Paid(orders)) <= FirstStock[t] =>
              \A q \in Paid(orders) \ (gone \cup {o}) : q \in owed \ {o} \/ h[q] = 0
        BY <3>4
      <4>5. Booked(gone \cup {o}, orders, stock'[t], crashes, owed \ {o}, t)
        BY <3>7, <4>2, <4>3, <4>4 DEF Booked, h
      <4> QED BY <1>2, <2>6, <3>1, <4>5
    <3> QED BY <3>10, <3>11
  <2> QED BY <2>5, <2>6
<1> QED BY <1>2, <1>5, <1>6

ShopInv == ShopTyped /\ (scene = "orderly" => InOrder /\ Books)

LEMMA ShopStart == ASSUME MCInit PROVE ShopInv
<1>1. /\ stock = FirstStock /\ orders = <<>> /\ deals = <<>> /\ crashes = 0 /\ desk = S!Closed
      /\ till = [w \in Tills |-> "idle"] /\ sale = [w \in Tills |-> S!Free]
  BY DEF MCInit, S!ShopInit
<1>2. Len(orders) = 0 /\ OrdersTyped BY <1>1 DEF OrdersTyped
<1>3. S!Free \in Sales /\ S!Free.order = 0 BY DEF S!Free, Sales
<1>4. \A w \in Tills : till[w] = "idle" /\ sale[w] = S!Free BY <1>1
<1>5. TillsTyped
  <2>1. till \in [Tills -> Spots] /\ sale \in [Tills -> Sales] BY <1>1, <1>3 DEF Spots
  <2>2. \A w \in Tills : sale[w].order \in 0..Len(orders) /\ SaleFits(till[w], sale[w], orders)
    BY <1>2, <1>3, <1>4 DEF SaleFits
  <2> QED BY <2>1, <2>2 DEF TillsTyped
<1>6. DeskTyped
  <2>1. S!Closed \in Views BY ShopAssumption DEF S!Closed, Views, S!Statuses
  <2>2. S!Closed.page = "none" BY DEF S!Closed
  <2> QED BY <1>1, <2>1, <2>2 DEF DeskTyped
<1>7. ShopTyped BY <1>1, <1>2, <1>5, <1>6, ShopAssumption DEF ShopTyped
<1>8. 1..Len(orders) = {} BY <1>2
<1>9. InOrder BY <1>4, <1>8 DEF InOrder, RowsRight, TillsRight, TillAt, TillsAlone, HasOrder
<1>10. Books
  <2> SUFFICES ASSUME NEW g \in Goods PROVE Booked({}, orders, stock[g], crashes, Owed(till, sale, g), g)
    BY DEF Books
  <2>1. Paid(orders) = {} BY <1>8 DEF Paid
  <2>2. Weight(Ordered(orders, g), {}) = 0 BY WeightNone
  <2>3. FirstStock[g] - stock[g] = 0 BY <1>1, ShopAssumption
  <2> QED BY <2>1, <2>2, <2>3 DEF Booked
<1> QED BY <1>7, <1>9, <1>10 DEF ShopInv

\* Every step of a sale, and of the shop.
LEMMA SaleTyped ==
  ASSUME ShopTyped, ShopNext
  PROVE  ShopTyped'
<1>1. \/ \E w \in Tills : S!Selling(w) \/ S!Customers(w) \/ S!KillTill(w)
      \/ \E w \in Tills : \E o \in DOMAIN deals : S!Webhook(w, o) \/ S!PayOrder(o)
      \/ S!Fulfil \/ S!Pages
  BY DEF ShopNext, Delivered
<1>2. ASSUME NEW w \in Tills, S!Selling(w) PROVE ShopTyped'
  BY <1>2, InitialiseFacts, BrowseFacts, MakeOrderFacts, MarkFacts, TakeFacts DEF S!Selling
<1>3. ASSUME NEW w \in Tills, S!Customers(w) PROVE ShopTyped'
  BY <1>3, BrowseFacts, PayOrderFacts DEF S!Customers
<1>4. ASSUME NEW w \in Tills, S!KillTill(w) PROVE ShopTyped' BY <1>4, KillFacts
<1>5. ASSUME NEW w \in Tills, NEW o \in DOMAIN deals, S!Webhook(w, o) \/ S!PayOrder(o) PROVE ShopTyped'
  BY <1>5, WebhookFacts, PayOrderFacts
<1>6. CASE S!Fulfil BY <1>6, FulfilFacts
<1>7. CASE S!Pages BY <1>7, PagesTyped
<1> QED BY <1>1, <1>2, <1>3, <1>4, <1>5, <1>6, <1>7

LEMMA OrderlyStep ==
  ASSUME ShopTyped, InOrder, Books, ShopNext, scene = "orderly"
  PROVE  InOrder' /\ Books' /\ S!ShippedStep
<1>1. \/ \E w \in Tills : S!Selling(w) \/ S!Customers(w) \/ S!KillTill(w)
      \/ \E w \in Tills : \E o \in DOMAIN deals : Delivered(w, o) \/ S!PayOrder(o)
      \/ S!Fulfil
  BY DEF ShopNext
<1>2. ASSUME NEW w \in Tills, S!CheckStock(w) \/ \E cart \in Carts : S!Checkout(w, cart)
      PROVE  InOrder' /\ Books' /\ S!ShippedStep
  <2>1. OthersStay(w) /\ UNCHANGED <<orders, deals>> /\ till'[w] \notin HasOrder
    BY <1>2, BrowseFacts DEF HasOrder
  <2> QED BY <1>2, <2>1, OrderlyIdle, BooksQuiet
<1>3. ASSUME NEW w \in Tills, S!MakeOrder(w) PROVE InOrder' /\ Books' /\ S!ShippedStep
  BY <1>3, OrderlyMake, BooksQuiet
<1>4. ASSUME NEW w \in Tills, NEW ok \in BOOLEAN, S!Initialise(w, ok)
      PROVE  InOrder' /\ Books' /\ S!ShippedStep
  BY <1>4, OrderlyInitialise, BooksQuiet
<1>5. ASSUME NEW w \in Tills, S!Mark(w) PROVE InOrder' /\ Books' /\ S!ShippedStep
  BY <1>5, OrderlyMark, BooksMark
<1>6. ASSUME NEW w \in Tills, S!Take(w) PROVE InOrder' /\ Books' /\ S!ShippedStep
  BY <1>6, OrderlyTake, BooksTake
<1>7. ASSUME NEW w \in Tills, NEW o \in DOMAIN deals, S!PayOrder(o)
      PROVE  InOrder' /\ Books' /\ S!ShippedStep
  BY <1>7, OrderlyPay, BooksQuiet
<1>8. ASSUME NEW w \in Tills, NEW o \in DOMAIN deals, Delivered(w, o)
      PROVE  InOrder' /\ Books' /\ S!ShippedStep
  <2>1. S!Webhook(w, o) /\ \A v \in Tills : till[v] \in {"mark", "take"} => sale[v].order # o
    BY <1>8 DEF Delivered
  <2> QED BY <2>1, OrderlyWebhook, BooksQuiet
<1>9. ASSUME NEW w \in Tills, S!KillTill(w) PROVE InOrder' /\ Books' /\ S!ShippedStep
  <2>1. OthersStay(w) /\ UNCHANGED <<orders, deals>> /\ till'[w] \notin HasOrder
    BY <1>9, KillFacts DEF HasOrder
  <2> QED BY <1>9, <2>1, OrderlyIdle, BooksQuiet
<1>10. CASE S!Fulfil BY <1>10, OrderlyFulfil, BooksQuiet
<1>11. ASSUME NEW w \in Tills, S!Selling(w) PROVE InOrder' /\ Books' /\ S!ShippedStep
  BY <1>2, <1>3, <1>4, <1>5, <1>6, <1>11 DEF S!Selling
<1>12. ASSUME NEW w \in Tills, S!Customers(w) PROVE InOrder' /\ Books' /\ S!ShippedStep
  BY <1>2, <1>7, <1>12 DEF S!Customers
<1> QED BY <1>1, <1>7, <1>8, <1>9, <1>10, <1>11, <1>12

LEMMA ShopAlone ==
  ASSUME ShopInv, UNCHANGED shop, UNCHANGED scene PROVE ShopInv' /\ (scene = "orderly" => S!ShippedStep)
<1>1. UNCHANGED <<stock, orders, deals, desk, till, sale, crashes>> BY DEF shop
<1>2. ShopTyped'
  BY <1>1 DEF ShopInv, ShopTyped, OrdersTyped, TillsTyped, DeskTyped
<1>3. InOrder => InOrder' BY <1>1 DEF InOrder, RowsRight, TillsRight, TillsAlone
<1>4. Books => Books' BY <1>1 DEF Books
<1>5. scene = "orderly" => S!ShippedStep
  <2>1. SameStatuses BY <1>1 DEF SameStatuses
  <2> QED BY <2>1, QuietShips DEF ShopInv, InOrder
<1> QED BY <1>2, <1>3, <1>4, <1>5 DEF ShopInv

LEMMA ShopStep ==
  ASSUME ShopInv, [MCNext]_all PROVE ShopInv' /\ (scene = "orderly" => S!ShippedStep)
<1>1. CASE UNCHANGED <<shop, scene>> BY <1>1, ShopAlone
<1>2. CASE ShopNext /\ UNCHANGED scene
  <2>1. ShopTyped' BY <1>2, SaleTyped DEF ShopInv
  <2>2. scene = "orderly" => InOrder' /\ Books' /\ S!ShippedStep BY <1>2, OrderlyStep DEF ShopInv
  <2> QED BY <1>2, <2>1, <2>2 DEF ShopInv
<1> QED BY <1>1, <1>2 DEF MCNext, all

LEMMA BooksBalance ==
  ASSUME ShopTyped, Books PROVE S!StockBooked
<1> SUFFICES ASSUME NEW g \in Goods
             PROVE  /\ FirstStock[g] - stock[g] <= S!Bought(g)
                    /\ (/\ crashes = 0 /\ S!Bought(g) <= FirstStock[g]
                        /\ \A w \in Tills : till[w] = "idle") => FirstStock[g] - stock[g] = S!Bought(g)
  BY DEF S!StockBooked
<1>1. PICK gone : Booked(gone, orders, stock[g], crashes, Owed(till, sale, g), g) BY DEF Books
<1> DEFINE h == Ordered(orders, g)
<1>2. S!Bought(g) = Weight(h, Paid(orders))
  <2>1. DOMAIN orders = 1..Len(orders) BY DEF ShopTyped, OrdersTyped
  <2>2. Paid(orders) = {o \in DOMAIN orders : orders[o].paystack = "success"} BY <2>1 DEF Paid
  <2>3. Weighed(h, Paid(orders)) BY OrderedFacts
  <2>4. \A o \in Paid(orders) : S!Units(o, g) = h[o] BY DEF Paid, S!Units, Ordered
  <2> HIDE DEF h
  <2> QED BY <2>2, <2>3, <2>4, BoughtWeight
<1>3. Weighed(h, Paid(orders)) BY OrderedFacts
<1> HIDE DEF h
<1>4. gone \subseteq Paid(orders) /\ FirstStock[g] - stock[g] = Weight(h, gone) BY <1>1 DEF Booked, h
<1>5. Weight(h, gone) <= Weight(h, Paid(orders)) BY <1>3, <1>4, WeightLess
<1>6. ASSUME crashes = 0, S!Bought(g) <= FirstStock[g], \A w \in Tills : till[w] = "idle"
      PROVE  FirstStock[g] - stock[g] = S!Bought(g)
  <2>1. Owed(till, sale, g) = {} BY <1>6 DEF Owed
  <2>2. \A o \in Paid(orders) \ gone : h[o] = 0 BY <1>1, <1>2, <1>6, <2>1 DEF Booked, h
  <2>3. Weight(h, gone) = Weight(h, Paid(orders)) BY <1>4, <2>2, WeightRest
  <2> QED BY <1>2, <1>4, <2>3
<1> QED BY <1>2, <1>4, <1>5, <1>6

LEMMA ShopTypes == ASSUME ShopTyped PROVE S!ShopType
<1>1. stock \in [Goods -> Nat] /\ \A o \in DOMAIN orders : orders[o] \in S!Order
  BY DEF ShopTyped, OrdersTyped
<1>2. Len(deals) = Len(orders) /\ S!Range(deals) \subseteq {"none", "open", "paid", "answered"}
  BY DEF ShopTyped, OrdersTyped, S!Range, Deals
<1>3. till \in [Tills -> {"idle", "check", "initialise", "mark", "take"}]
  BY DEF ShopTyped, TillsTyped, Spots
<1>4. \A w \in Tills : sale[w].order \in 0..Len(orders) /\ sale[w].rest \subseteq Goods
  BY DEF ShopTyped, TillsTyped, Sales
<1>5. desk.page \in {"none", "form", "saving", "list"} /\ crashes \in 0..MaxCrashes
  BY DEF ShopTyped, DeskTyped, Views
<1> QED BY <1>1, <1>2, <1>3, <1>4, <1>5 DEF S!ShopType

\* What leaves the stock is the units of paid orders, once for each however often
\* the event is sent; with nothing oversold and no worker killed all of them have
\* left when the requests are over; what is shipped was paid for, and is not
\* returned to the orders to be shipped (api_shop_webhook, OrderAdmin's actions).
THEOREM PaidOrdersBooked ==
  MCSpec => /\ [](S!ShopType /\ (scene = "orderly" => S!StockBooked))
            /\ [][scene = "orderly" => S!ShippedStep]_all
<1>1. MCInit => ShopInv BY ShopStart
<1>2. ShopInv /\ [MCNext]_all => ShopInv' BY ShopStep
<1>3. ShopInv => S!ShopType /\ (scene = "orderly" => S!StockBooked)
  BY ShopTypes, BooksBalance DEF ShopInv
<1>4. ShopInv /\ [MCNext]_all => [scene = "orderly" => S!ShippedStep]_all BY ShopStep
<1> QED BY <1>1, <1>2, <1>3, <1>4, PTL DEF MCSpec
=============================================================================
