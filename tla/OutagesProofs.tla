--------------------------- MODULE OutagesProofs ---------------------------
(***************************************************************************)
(* Theorems about Outages and Ports for any number of routers and ports,   *)
(* any threshold of at least two strikes, and logs and crashes without     *)
(* bound: no router is taken offline by one bad check; of a router that is *)
(* watched the log tells the status, and no recovery is announced without  *)
(* its outage; and the roles of the ports reach the board.                 *)
(***************************************************************************)
EXTENDS MCFleet, TLAPS, FiniteSetTheorems, SequenceTheorems, WellFoundedInduction

\* A router with strikes was unwell in the last sweep.
RowsStruck(rows, sick) == \A r \in Routers : rows[r].strikes > 0 => sick[r]
\* The same of a copy, unless this sweep has found that router healthy.
CopiesStruck(s, sick) ==
  s.at = "save" => \A r \in Routers :
    s.copy[r].strikes > 0 => sick[r] \/ (s.copy[r].status # "pending"
                                         /\ s.copy[r].seen /\ s.shook[r])

IInv == TypeOK /\ RowsStruck(health, unwell) /\ CopiesStruck(sweep, unwell)

-----------------------------------------------------------------------------
(* Lemmas                                                                  *)

\* The smaller of a count and the ceiling.
LEMMA MinOfTwo ==
  ASSUME NEW a \in Nat, NEW b \in Nat
  PROVE  Min({a, b}) \in {a, b} /\ Min({a, b}) <= a /\ Min({a, b}) <= b
<1>1. \E x \in {a, b} : \A y \in {a, b} : x <= y
  <2>1. CASE a <= b BY <2>1
  <2>2. CASE b <= a BY <2>2
  <2> QED BY <2>1, <2>2
<1> QED BY <1>1 DEF Min

LEMMA Least == ASSUME NEW S, S \subseteq Nat, S # {} PROVE Min(S) \in S /\ \A m \in S : Min(S) <= m
<1>1. PICK n \in S : \A m \in S : ~(<<m, n>> \in OpToRel(<, Nat))
  BY NatLessThanWellFounded, WFMin
<1>2. ASSUME NEW m \in S PROVE n <= m
  <2>1. n \in Nat /\ m \in Nat OBVIOUS
  <2>2. m < n => <<m, n>> \in OpToRel(<, Nat) BY <2>1 DEF OpToRel
  <2>3. ~(m < n)
    <3>1. <<m, n>> \notin OpToRel(<, Nat) BY <1>1
    <3> QED BY <3>1, <2>2
  <2> QED BY <2>1, <2>3
<1> QED BY <1>2 DEF Min

LEMMA StrikesType ==
  ASSUME NEW h \in Healths, NEW healthy \in BOOLEAN
  PROVE  StrikesOf(h, healthy) \in 0..Ceiling
<1>1. h.strikes \in 0..Ceiling BY DEF Healths
<1>2. Min({h.strikes + 1, Ceiling}) \in 0..Ceiling BY <1>1, MinOfTwo, StrikesAssumption
<1> QED BY <1>1, <1>2, StrikesAssumption DEF StrikesOf

\* One bad check leaves a router that had no strikes with one.
LEMMA OneStrike ==
  ASSUME NEW h \in Healths, h.strikes = 0
  PROVE  StrikesOf(h, FALSE) <= 1
<1>1. Min({1, Ceiling}) <= 1 BY MinOfTwo, StrikesAssumption
<1> QED BY <1>1 DEF StrikesOf

\* What is kept of a longer log is its beginning.
LEMMA Beginning ==
  ASSUME NEW rows \in Seq(LogRows), NEW f, f = Followed(rows)
  PROVE  /\ f \in Seq(LogRows) /\ Len(f) <= MaxLog /\ Len(f) <= Len(rows)
         /\ \A k \in DOMAIN f : k \in DOMAIN rows /\ f[k] = rows[k]
         /\ Len(rows) <= MaxLog => Len(f) = Len(rows)
         /\ Len(rows) >= MaxLog => Len(f) = MaxLog
<1>1. MaxLog \in Nat /\ Len(rows) \in Nat BY BoundsAssumption
<1>2. PICK n : n = Min({MaxLog, Len(rows)}) OBVIOUS
<1>3. n \in {MaxLog, Len(rows)} /\ n <= MaxLog /\ n <= Len(rows) BY <1>1, <1>2, MinOfTwo
<1>4. f = SubSeq(rows, 1, n) BY <1>2 DEF Followed
<1>5. f \in Seq(LogRows) /\ Len(f) = n /\ \A k \in 1..n : f[k] = rows[k]
  BY <1>1, <1>3, <1>4, SubSeqProperties
<1> QED BY <1>1, <1>3, <1>5

LEMMA EventType == ASSUME NEW r \in Routers, NEW e \in {"online", "offline"} PROVE Event(r, e) \in LogRows
BY DEF Event, LogRows

LEMMA InitInv == Init => IInv
<1> SUFFICES ASSUME Init PROVE IInv OBVIOUS
<1>1. PICK status \in [Routers -> {"pending", "online"}] :
        health = [r \in Routers |-> [status |-> status[r], strikes |-> 0, seen |-> TRUE,
                                     cached |-> FALSE, needs |-> FALSE]]
  BY DEF Init
<1>2. \A r \in Routers : health[r] \in Healths /\ health[r].strikes = 0
  BY <1>1, StrikesAssumption DEF Healths, Statuses
<1>3. health \in [Routers -> Healths] BY <1>1, <1>2
<1>4. sweep = Off /\ sweep.at = "off" BY DEF Init, Off
<1>5. log \in Seq(LogRows) /\ Len(log) <= MaxLog BY BoundsAssumption DEF Init
<1>6. TypeOK BY <1>3, <1>4, <1>5 DEF Init, TypeOK
<1> QED BY <1>2, <1>4, <1>6 DEF IInv, RowsStruck, CopiesStruck

\* A step that keeps the sweep, and no row gets strikes.
LEMMA RowsChange ==
  ASSUME IInv, TypeOK', sweep' = sweep, unwell' = unwell,
         \A r \in Routers : health'[r].strikes = health[r].strikes
  PROVE  IInv'
BY DEF IInv, RowsStruck, CopiesStruck

\* A step of the sweep that leaves the rows alone and is not about to save.
LEMMA SweepMoves ==
  ASSUME IInv, UNCHANGED <<health, unwell>>, sweep'.at # "save", TypeOK' PROVE IInv'
BY DEF IInv, RowsStruck, CopiesStruck

\* The rows of a change of one router by EXCEPT.
LEMMA RowWrite ==
  ASSUME IInv, NEW r \in Routers, NEW h \in Healths, h.strikes = health[r].strikes,
         health' = [health EXCEPT ![r] = h]
  PROVE  /\ health' \in [Routers -> Healths]
         /\ \A q \in Routers : health'[q].strikes = health[q].strikes
BY DEF IInv, TypeOK

LEMMA RequestInv == ASSUME IInv, NEW r \in Routers, Heartbeat(r) \/ Webhook(r) \/ MarkOffline(r)
                    PROVE  IInv'
<1> DEFINE h == health[r]
<1>0. h \in Healths /\ health \in [Routers -> Healths] BY DEF IInv, TypeOK
<1>1. UNCHANGED <<shaking, log, sweep, unwell>> BY DEF Heartbeat, Webhook, MarkOffline
<1>2. \E g \in Healths : g.strikes = h.strikes /\ health' = [health EXCEPT ![r] = g]
  <2>1. CASE Heartbeat(r)
    <3> DEFINE g == [status |-> health'[r].status, strikes |-> h.strikes, seen |-> TRUE,
                     cached |-> h.cached, needs |-> h.needs /\ r \notin Mikrotiks]
    <3>1. health'[r] = g BY <1>0, <2>1 DEF Heartbeat, Healths
    <3>2. health' = [health EXCEPT ![r] = g] BY <1>0, <2>1, <3>1 DEF Heartbeat
    <3>3. g \in Healths BY <1>0, <2>1 DEF Heartbeat, Healths, Statuses
    <3> QED BY <3>2, <3>3
  <2>2. CASE Webhook(r)
    <3>1. CASE health' = [health EXCEPT ![r].status = "online", ![r].seen = TRUE]
      BY <1>0, <3>1 DEF Healths, Statuses
    <3>2. CASE health' = [health EXCEPT ![r].status = "offline"]
      BY <1>0, <3>2 DEF Healths, Statuses
    <3> QED BY <2>2, <3>1, <3>2 DEF Webhook
  <2>3. CASE MarkOffline(r) BY <1>0, <2>3 DEF MarkOffline, Healths, Statuses
  <2> QED BY <2>1, <2>2, <2>3
<1>3. PICK g \in Healths : g.strikes = h.strikes /\ health' = [health EXCEPT ![r] = g] BY <1>2
<1>4. request' \in [Routers -> {<<>>, <<"online">>, <<"offline">>}]
  <2>1. PICK e \in {<<>>, <<"online">>, <<"offline">>} :
          request' = [request EXCEPT ![r] = e] \/ request' = request
    BY DEF Heartbeat, Webhook, MarkOffline
  <2> QED BY <2>1 DEF IInv, TypeOK
<1>5. TypeOK' BY <1>1, <1>3, <1>4, RowWrite DEF IInv, TypeOK
<1> QED BY <1>1, <1>3, <1>5, RowWrite, RowsChange

LEMMA WorldInv == ASSUME IInv, NEW r \in Routers, Tunnel(r) \/ Stale(r) PROVE IInv'
<1>0. health[r] \in Healths /\ health \in [Routers -> Healths] /\ shaking \in [Routers -> BOOLEAN]
  BY DEF IInv, TypeOK
<1>1. CASE Tunnel(r)
  <2>1. shaking' \in [Routers -> BOOLEAN] BY <1>0, <1>1 DEF Tunnel
  <2>2. TypeOK' BY <1>1, <2>1 DEF Tunnel, IInv, TypeOK
  <2> QED BY <1>1, <2>2, RowsChange DEF Tunnel
<1>2. CASE Stale(r)
  <2>1. \E g \in Healths : g.strikes = health[r].strikes /\ health' = [health EXCEPT ![r] = g]
    <3>1. CASE health' = [health EXCEPT ![r].seen = FALSE] BY <1>0, <3>1 DEF Healths
    <3>2. CASE health' = [health EXCEPT ![r].cached = FALSE] BY <1>0, <3>2 DEF Healths
    <3> QED BY <1>2, <3>1, <3>2 DEF Stale
  <2>2. PICK g \in Healths : g.strikes = health[r].strikes /\ health' = [health EXCEPT ![r] = g]
    BY <2>1
  <2>3. TypeOK' BY <1>2, <2>2, RowWrite DEF Stale, IInv, TypeOK
  <2> QED BY <1>2, <2>2, <2>3, RowWrite, RowsChange DEF Stale
<1> QED BY <1>1, <1>2

-----------------------------------------------------------------------------
(* check_routers                                                           *)

LEMMA LoadInv == ASSUME IInv, SweepLoad PROVE IInv'
<1>1. sweep' \in Saving
  <2>1. <<>> \in Seq(LogRows) OBVIOUS
  <2> QED BY <2>1 DEF SweepLoad, Saving, IInv, TypeOK
<1>2. TypeOK' BY <1>1 DEF SweepLoad, IInv, TypeOK
<1> QED BY <1>2 DEF SweepLoad, IInv, RowsStruck, CopiesStruck

\* Where the sweep is says what it holds.
LEMMA Holding ==
  ASSUME IInv
  PROVE  /\ sweep.at = "save" => sweep \in Saving
         /\ sweep.at \in {"walk", "tell"} => sweep \in Walking
BY DEF IInv, TypeOK, Off, Saving, Walking

\* The row that is saved.
SavedRow(h, shook, needs) ==
  [status |-> StatusOf(h, h.seen /\ shook), strikes |-> StrikesOf(h, h.seen /\ shook),
   seen |-> h.seen, cached |-> shook, needs |-> needs]

LEMMA SavedType ==
  ASSUME NEW h \in Healths, NEW shook \in BOOLEAN, NEW needs \in BOOLEAN
  PROVE  SavedRow(h, shook, needs) \in Healths
<1> DEFINE healthy == h.seen /\ shook
<1>1. h.seen \in BOOLEAN /\ healthy \in BOOLEAN BY DEF Healths
<1>2. StrikesOf(h, healthy) \in 0..Ceiling BY <1>1, StrikesType
<1>3. StatusOf(h, healthy) \in Statuses BY DEF StatusOf, Healths, Statuses
<1> QED BY <1>1, <1>2, <1>3 DEF SavedRow, Healths

\* A row that gets strikes, or keeps some, is of a router found unwell.
LEMMA StruckIsSick ==
  ASSUME NEW h \in Healths, NEW shook \in BOOLEAN, NEW needs \in BOOLEAN, NEW sick,
         SavedRow(h, shook, needs).strikes > 0,
         h.strikes > 0 => sick \/ (h.status # "pending" /\ h.seen /\ shook)
  PROVE  IF h.status = "pending" THEN sick ELSE ~(h.seen /\ shook)
<1>1. CASE h.status = "pending" BY <1>1 DEF SavedRow, StrikesOf
<1>2. CASE h.status # "pending" BY <1>2 DEF SavedRow, StrikesOf
<1> QED BY <1>1, <1>2

\* Who goes offline now had strikes: one bad check is not enough.
LEMMA OfflineHadStrikes ==
  ASSUME Strikes >= 2, NEW h \in Healths, NEW shook \in BOOLEAN, NEW needs,
         h.status # "offline", SavedRow(h, shook, needs).status = "offline"
  PROVE  h.strikes > 0 /\ h.status # "pending" /\ ~(h.seen /\ shook)
<1> DEFINE healthy == h.seen /\ shook
<1>1. h.status # "pending" /\ ~healthy /\ StrikesOf(h, healthy) >= Strikes
  BY DEF SavedRow, StatusOf
<1>2. ASSUME h.strikes = 0 PROVE FALSE
  <2>1. StrikesOf(h, FALSE) >= Strikes BY <1>1 DEF StrikesOf
  <2>2. StrikesOf(h, FALSE) <= 1 BY <1>2, OneStrike
  <2>3. StrikesOf(h, FALSE) \in 0..Ceiling BY StrikesType
  <2>4. \A n \in 0..Ceiling : ~(n >= Strikes /\ n <= 1) BY StrikesAssumption
  <2> QED BY <2>1, <2>2, <2>3, <2>4
<1> QED BY <1>1, <1>2 DEF Healths

\* What a save writes: the row of one router, and perhaps a log row for later.
Saves(r, needs, row) ==
  LET h == sweep.copy[r] IN
  /\ r \in sweep.left /\ sweep \in Saving /\ sweep' \in Saving
  /\ row = SavedRow(h, sweep.shook[r], needs)
  /\ health' = [health EXCEPT ![r] = row]
  /\ unwell' = [unwell EXCEPT ![r] = IF h.status = "pending" THEN @ ELSE ~(h.seen /\ sweep.shook[r])]
  /\ sweep'.copy = sweep.copy /\ sweep'.shook = sweep.shook /\ sweep'.left = sweep.left \ {r}
  /\ sweep'.found = IF row.status # h.status /\ row.status \in {"online", "offline"}
                    THEN Append(sweep.found, Event(r, row.status)) ELSE sweep.found
  /\ UNCHANGED <<shaking, log, request>>

LEMMA Saved ==
  ASSUME IInv, SweepSave
  PROVE  \E r \in Routers, needs \in BOOLEAN, row \in Healths : Saves(r, needs, row)
<1>1. sweep \in Saving /\ sweep.at = "save" BY Holding DEF SweepSave
<1>2. PICK r \in sweep.left : SaveRouter(r) BY DEF SweepSave
<1>3. r \in Routers /\ sweep.left \subseteq Routers /\ sweep.found \in Seq(LogRows) BY <1>1 DEF Saving
<1> DEFINE h == sweep.copy[r]
           healthy == h.seen /\ sweep.shook[r]
<1>4. h \in Healths /\ sweep.shook[r] \in BOOLEAN BY <1>1, <1>3 DEF Saving
<1>5. PICK backoff \in BOOLEAN : health' = [health EXCEPT ![r] =
             [status |-> StatusOf(h, healthy), strikes |-> StrikesOf(h, healthy),
              seen |-> h.seen, cached |-> sweep.shook[r],
              needs |-> h.needs \/ (h.seen /\ ~sweep.shook[r] /\ h.status # "pending" /\ ~backoff)]]
  BY <1>2 DEF SaveRouter
<1>6. PICK needs \in BOOLEAN :
        needs = (h.needs \/ (h.seen /\ ~sweep.shook[r] /\ h.status # "pending" /\ ~backoff))
  OBVIOUS
<1>7. PICK row \in Healths : row = SavedRow(h, sweep.shook[r], needs) BY <1>4, SavedType
<1>8. health' = [health EXCEPT ![r] = row] BY <1>5, <1>6, <1>7 DEF SavedRow
<1>9. row.status = StatusOf(h, healthy) BY <1>7 DEF SavedRow
<1>10. PICK found \in Seq(LogRows) :
         found = IF row.status # h.status /\ row.status \in {"online", "offline"}
                 THEN Append(sweep.found, Event(r, row.status)) ELSE sweep.found
  <2>1. row.status \in {"online", "offline"} => Append(sweep.found, Event(r, row.status)) \in Seq(LogRows)
    BY <1>3, EventType
  <2> QED BY <1>3, <2>1
<1>11. sweep' = [sweep EXCEPT !.left = @ \ {r}, !.found = found] BY <1>2, <1>9, <1>10 DEF SaveRouter
<1>12. /\ sweep' \in Saving /\ sweep'.copy = sweep.copy /\ sweep'.shook = sweep.shook
       /\ sweep'.left = sweep.left \ {r} /\ sweep'.found = found
  BY <1>1, <1>3, <1>11 DEF Saving
<1>13. /\ unwell' = [unwell EXCEPT ![r] = IF h.status = "pending" THEN @ ELSE ~healthy]
       /\ UNCHANGED <<shaking, log, request>>
  BY <1>2 DEF SaveRouter
<1> QED BY <1>1, <1>3, <1>7, <1>8, <1>10, <1>12, <1>13 DEF Saves

LEMMA SaveInv == ASSUME IInv, SweepSave PROVE IInv'
<1> PICK r \in Routers, needs \in BOOLEAN, row \in Healths : Saves(r, needs, row) BY Saved
<1> DEFINE h == sweep.copy[r]
<1>1. /\ sweep \in Saving /\ sweep' \in Saving /\ sweep'.copy = sweep.copy /\ sweep'.shook = sweep.shook
      /\ health' = [health EXCEPT ![r] = row] /\ row = SavedRow(h, sweep.shook[r], needs)
      /\ unwell' = [unwell EXCEPT ![r] = IF h.status = "pending" THEN @ ELSE ~(h.seen /\ sweep.shook[r])]
      /\ UNCHANGED <<shaking, log, request>>
  BY DEF Saves
<1>2. /\ health \in [Routers -> Healths] /\ unwell \in [Routers -> BOOLEAN]
      /\ h \in Healths /\ sweep.shook[r] \in BOOLEAN /\ sweep.at = "save"
  BY <1>1 DEF IInv, TypeOK, Saving
<1>3. TypeOK' BY <1>1, <1>2 DEF IInv, TypeOK
<1>4. h.strikes > 0 => unwell[r] \/ (h.status # "pending" /\ h.seen /\ sweep.shook[r])
  BY <1>2 DEF IInv, CopiesStruck
<1>5. ASSUME NEW q \in Routers, health'[q].strikes > 0 PROVE unwell'[q]
  <2>1. CASE q # r BY <1>1, <1>2, <1>5, <2>1 DEF IInv, RowsStruck
  <2>2. CASE q = r
    <3>1. SavedRow(h, sweep.shook[r], needs).strikes > 0 BY <1>1, <1>2, <1>5, <2>2
    <3>2. IF h.status = "pending" THEN unwell[r] ELSE ~(h.seen /\ sweep.shook[r])
      BY <1>2, <1>4, <3>1, StruckIsSick
    <3> QED BY <1>1, <1>2, <2>2, <3>2
  <2> QED BY <2>1, <2>2
<1>6. ASSUME NEW q \in Routers, sweep.copy[q].strikes > 0
      PROVE  unwell'[q] \/ (sweep.copy[q].status # "pending"
                            /\ sweep.copy[q].seen /\ sweep.shook[q])
  <2>1. unwell[q] \/ (sweep.copy[q].status # "pending" /\ sweep.copy[q].seen /\ sweep.shook[q])
    BY <1>2, <1>6 DEF IInv, CopiesStruck
  <2>2. CASE q # r BY <1>1, <1>2, <2>1, <2>2
  <2>3. CASE q = r BY <1>1, <1>2, <2>1, <2>3
  <2> QED BY <2>2, <2>3
<1> QED BY <1>1, <1>3, <1>5, <1>6 DEF IInv, RowsStruck, CopiesStruck

\* Rows of the log get older, quiet, told or settled.
LEMMA LogWrite ==
  ASSUME IInv, NEW rows, NEW f \in [DOMAIN log -> LogRows], rows = f
  PROVE  rows \in Seq(LogRows) /\ Len(rows) = Len(log) /\ Len(rows) <= MaxLog
<1>1. log \in Seq(LogRows) /\ Len(log) <= MaxLog BY DEF IInv, TypeOK
<1>2. Len(log) \in Nat /\ DOMAIN log = 1..Len(log) BY <1>1
<1>3. f \in [1..Len(log) -> LogRows] BY <1>2
<1> QED BY <1>1, <1>2, <1>3

LEMMA InsertInv == ASSUME IInv, SweepInsert PROVE IInv'
<1>1. sweep \in Saving BY Holding DEF SweepInsert
<1>2. PICK rows \in Seq(LogRows) : rows = log \o sweep.found
  <2>1. sweep.found \in Seq(LogRows) /\ log \in Seq(LogRows) BY <1>1 DEF Saving, IInv, TypeOK
  <2>2. log \o sweep.found \in Seq(LogRows) BY <2>1
  <2> QED BY <2>2
<1>3. PICK f : f = Followed(rows) OBVIOUS
<1>4. f \in Seq(LogRows) /\ Len(f) <= MaxLog BY <1>3, Beginning
<1>5. log' = f /\ sweep' = [at |-> "walk", pending |-> Unsettled(f),
                            status |-> [r \in Routers |-> health[r].status]]
      /\ UNCHANGED <<shaking, health, request, unwell>>
  BY <1>2, <1>3 DEF SweepInsert
<1>6. Unsettled(f) \subseteq 1..MaxLog BY <1>4, BoundsAssumption DEF Unsettled
<1>7. [r \in Routers |-> health[r].status] \in [Routers -> Statuses] BY DEF IInv, TypeOK, Healths
<1>8. sweep' \in Walking BY <1>5, <1>6, <1>7 DEF Walking
<1>9. TypeOK' BY <1>4, <1>5, <1>8 DEF IInv, TypeOK
<1> QED BY <1>5, <1>9, SweepMoves

\* One entry after the other.
LEMMA WalkInv ==
  ASSUME IInv, WalkQuietly \/ WalkLoudly \/ Tell \/ TellFails
  PROVE  IInv' /\ sweep \in Walking /\ sweep' \in Walking
<1>1. UNCHANGED <<shaking, health, request, unwell>> BY DEF WalkQuietly, WalkLoudly, Tell, TellFails
<1>2. sweep \in Walking BY Holding DEF WalkQuietly, WalkLoudly, Tell, TellFails
<1>3. PICK i : i = Min(sweep.pending) OBVIOUS
<1>4. sweep' \in Walking
  <2>1. CASE WalkQuietly
    <3>1. PICK S : sweep' = [sweep EXCEPT !.pending = @ \ S] BY <2>1 DEF WalkQuietly, Skip
    <3> QED BY <1>2, <3>1 DEF Walking
  <2>2. CASE WalkLoudly BY <1>2, <2>2 DEF WalkLoudly, Walking
  <2>3. CASE Tell BY <1>2, <2>3 DEF Tell, Walking
  <2>4. CASE TellFails BY <1>2, <2>4 DEF TellFails, Walking
  <2> QED BY <2>1, <2>2, <2>3, <2>4
<1>5. log' \in Seq(LogRows) /\ Len(log') <= MaxLog
  <2>1. log \in [DOMAIN log -> LogRows]
    <3>1. log \in Seq(LogRows) BY DEF IInv, TypeOK
    <3> QED BY <3>1
  <2>2. log' \in [DOMAIN log -> LogRows]
    <3>1. CASE UNCHANGED log BY <2>1, <3>1
    <3>2. ASSUME NEW rows, log' = Quieted(rows) PROVE log' \in [DOMAIN log -> LogRows]
      BY <2>1, <3>2 DEF Quieted, LogRows
    <3>3. CASE log' = [log EXCEPT ![i].settled = "sent"] BY <2>1, <3>3 DEF LogRows
    <3>4. CASE log' = [log EXCEPT ![i].told = TRUE] BY <2>1, <3>4 DEF LogRows
    <3> QED BY <1>3, <3>1, <3>2, <3>3, <3>4 DEF WalkQuietly, WalkLoudly, Tell, TellFails
  <2> QED BY <2>2, LogWrite
<1>6. TypeOK' BY <1>1, <1>4, <1>5 DEF IInv, TypeOK
<1>7. sweep'.at # "save" BY <1>4 DEF Walking
<1> QED BY <1>1, <1>2, <1>4, <1>6, <1>7, SweepMoves

LEMMA EndInv == ASSUME IInv, SweepEnd \/ SweepCrash PROVE IInv'
<1>1. UNCHANGED <<shaking, health, log, request, unwell>> /\ sweep' = Off BY DEF SweepEnd, SweepCrash
<1>2. TypeOK' BY <1>1 DEF IInv, TypeOK
<1> QED BY <1>1, <1>2, SweepMoves DEF Off

LEMMA LogEventInv == ASSUME IInv, NEW r \in Routers, LogEvent(r) PROVE IInv'
<1>1. PICK e \in {"online", "offline"} : e = Head(request[r]) BY DEF LogEvent, IInv, TypeOK
<1>2. PICK rows \in Seq(LogRows) : rows = Append(log, Event(r, e))
  <2>1. log \in Seq(LogRows) /\ Event(r, e) \in LogRows BY EventType DEF IInv, TypeOK
  <2>2. Append(log, Event(r, e)) \in Seq(LogRows) BY <2>1
  <2> QED BY <2>2
<1>3. PICK f : f = Followed(rows) OBVIOUS
<1>4. f \in Seq(LogRows) /\ Len(f) <= MaxLog BY <1>3, Beginning
<1>5. log' = f BY <1>1, <1>2, <1>3 DEF LogEvent
<1>6. request' = [request EXCEPT ![r] = <<>>] /\ UNCHANGED <<shaking, health, sweep, unwell>>
  BY DEF LogEvent
<1>7. TypeOK' BY <1>4, <1>5, <1>6 DEF IInv, TypeOK
<1> QED BY <1>6, <1>7, RowsChange

LEMMA AgeInv == ASSUME IInv, NEW i \in DOMAIN log, Age(i) PROVE IInv'
<1>1. PICK a \in {"confirmed", "old"} : log' = [log EXCEPT ![i].age = a] BY DEF Age
<1>2. log' \in Seq(LogRows) /\ Len(log') <= MaxLog
  <2>1. log \in Seq(LogRows) BY DEF IInv, TypeOK
  <2>2. log \in [DOMAIN log -> LogRows] BY <2>1
  <2>3. log' \in [DOMAIN log -> LogRows] BY <1>1, <2>2 DEF LogRows
  <2> QED BY <2>3, LogWrite
<1>3. UNCHANGED <<shaking, health, sweep, request, unwell>> BY DEF Age
<1>4. TypeOK' BY <1>2, <1>3 DEF IInv, TypeOK
<1> QED BY <1>3, <1>4, RowsChange

LEMMA NextInv == IInv /\ [Next]_vars => IInv'
<1> SUFFICES ASSUME IInv, [Next]_vars PROVE IInv' OBVIOUS
<1>1. CASE SweepLoad BY <1>1, LoadInv
<1>2. CASE CheckRouters BY <1>2, SaveInv, InsertInv, WalkInv, EndInv DEF CheckRouters
<1>3. CASE TellFails \/ SweepCrash BY <1>3, WalkInv, EndInv
<1>4. CASE World BY <1>4, WorldInv DEF World
<1>5. CASE Requests BY <1>5, RequestInv DEF Requests
<1>6. CASE (\E r \in Routers : LogEvent(r)) \/ (\E i \in DOMAIN log : Age(i)) BY <1>6, LogEventInv, AgeInv
<1>7. CASE UNCHANGED vars
  <2>1. TypeOK' BY <1>7 DEF vars, IInv, TypeOK
  <2> QED BY <1>7, <2>1, RowsChange DEF vars
<1> QED BY <1>1, <1>2, <1>3, <1>4, <1>5, <1>6, <1>7 DEF Next

-----------------------------------------------------------------------------
(* Hysteresis                                                              *)

\* What the sweep saves of a router that goes offline, it found unwell before.
Warned == \A r \in Routers : SweepSave /\ sweep.copy[r].status # "offline"
            /\ health[r].status # "offline" /\ health'[r].status = "offline" => unwell[r]

LEMMA StepWarned == ASSUME Strikes >= 2, IInv PROVE Warned
<1> SUFFICES ASSUME NEW q \in Routers, SweepSave, sweep.copy[q].status # "offline",
                    health[q].status # "offline", health'[q].status = "offline"
             PROVE  unwell[q]
  BY DEF Warned
<1> DEFINE h == sweep.copy[q]
<1>1. PICK r \in Routers, needs \in BOOLEAN, row \in Healths : Saves(r, needs, row) BY Saved
<1>2. sweep \in Saving /\ health' = [health EXCEPT ![r] = row] /\ row = SavedRow(sweep.copy[r], sweep.shook[r], needs)
  BY <1>1 DEF Saves
<1>3. health \in [Routers -> Healths] /\ h \in Healths /\ sweep.shook[q] \in BOOLEAN /\ sweep.at = "save"
  BY <1>2 DEF Saving, IInv, TypeOK
<1>4. q = r /\ SavedRow(h, sweep.shook[q], needs).status = "offline" BY <1>2, <1>3
<1>5. h.strikes > 0 /\ ~(h.status # "pending" /\ h.seen /\ sweep.shook[q])
  BY <1>3, <1>4, OfflineHadStrikes
<1> QED BY <1>3, <1>5 DEF IInv, CopiesStruck

\* check_routers takes no router offline by one bad check: the check before
\* found it unwell, too, whatever heartbeats, webhooks, the staff and kills do
\* in between (OFFLINE_STRIKES_REQUIRED, two or more).
THEOREM Hysteresis == ASSUME Strikes >= 2 PROVE Spec => HysteresisHolds
<1>1. IInv /\ [Next]_vars => [\A r \in Routers : SweepSave /\ sweep.copy[r].status # "offline"
       /\ health[r].status # "offline" /\ health'[r].status = "offline" => unwell[r]]_vars
  BY StepWarned DEF Warned
<1> QED BY <1>1, InitInv, NextInv, PTL DEF Spec, HysteresisHolds

-----------------------------------------------------------------------------
(* A router that is watched: the log tells its status                      *)

\* The last event the log has of the watched router.
Last == IF log = <<>> THEN "online" ELSE log[Len(log)].event
Rows(e) == IF e = "none" THEN <<>> ELSE <<Event(open, e)>>
\* e is an event that is saved in the row and not logged yet, or "none".
Due(e) ==
  /\ sweep.at = "save" => sweep.found = Rows(e) /\ (open \in sweep.left => e = "none")
  /\ sweep.at \in {"walk", "tell"} => e = "none"
  /\ request[open] = IF sweep.at = "save" \/ e = "none" THEN <<>> ELSE <<e>>
\* The status is the last event, logged or due; events alternate.
Told(e) == Len(log) < MaxLog => IF e = "none" THEN health[open].status = Last
                                ELSE health[open].status = e /\ e # Last
Reports == \E e \in {"none", "online", "offline"} : Due(e) /\ Told(e)
Alternates ==
  \A i \in DOMAIN log : /\ log[i].router = open
                        /\ log[i].event # IF i = 1 THEN "online" ELSE log[i - 1].event
Watching ==
  /\ health[open].status \in {"online", "offline"}
  /\ \A r \in Routers \ {open} : health[r].status = "pending" /\ request[r] = <<>>
  /\ sweep.at = "save" => \A r \in sweep.left : sweep.copy[r].status = health[r].status
  /\ sweep.at \in {"walk", "tell"} => sweep.status[open] = health[open].status

\* A row that waits is not old.
InAge == \A i \in DOMAIN log : log[i].age = "old" => log[i].settled # "pending"
\* An outage that was settled without being announced has its recovery settled.
Paired ==
  \A i \in DOMAIN log : log[i].event = "offline" /\ ~log[i].told /\ log[i].settled # "pending" =>
    IF i < Len(log) THEN log[i + 1].settled # "pending" ELSE Len(log) = MaxLog
\* A recovery comes after its outage in the list, or the outage was announced.
Listed ==
  /\ sweep.at \in {"walk", "tell"} => \A i \in sweep.pending :
       /\ i \in DOMAIN log /\ log[i].settled = "pending"
       /\ log[i].event = "online" => log[i - 1].told \/ i - 1 \in sweep.pending
  /\ sweep.at = "tell" => /\ sweep.pending # {}
                          /\ \A n \in {Min(sweep.pending)} : log[n].event = "offline" => n = Len(log)
WatchInv == Watching /\ Reports /\ Alternates /\ InAge /\ Paired /\ Listed

LEMMA LogShape ==
  ASSUME IInv
  PROVE  /\ log \in Seq(LogRows) /\ Len(log) \in Nat /\ DOMAIN log = 1..Len(log) /\ Len(log) <= MaxLog
         /\ MaxLog \in Nat /\ log \in [DOMAIN log -> LogRows]
         /\ \A i \in DOMAIN log : log[i].event \in {"online", "offline"} /\ log[i].told \in BOOLEAN
<1>1. log \in Seq(LogRows) /\ Len(log) <= MaxLog BY DEF IInv, TypeOK
<1>2. Len(log) \in Nat /\ DOMAIN log = 1..Len(log) BY <1>1
<1>3. log \in [DOMAIN log -> LogRows] BY <1>1
<1>4. \A i \in DOMAIN log : log[i].event \in {"online", "offline"} /\ log[i].told \in BOOLEAN
  BY <1>3 DEF LogRows
<1> QED BY <1>1, <1>2, <1>3, <1>4, BoundsAssumption

\* The log with one row more, or as it was when it is full.
LEMMA OneMore ==
  ASSUME IInv, NEW e \in {"online", "offline"}, log' = Followed(Append(log, Event(open, e)))
  PROVE  \/ Len(log) = MaxLog /\ log' = log
         \/ /\ Len(log) < MaxLog /\ Len(log') = Len(log) + 1 /\ log' \in Seq(LogRows)
            /\ log'[Len(log) + 1] = Event(open, e)
            /\ \A k \in DOMAIN log : log'[k] = log[k]
<1>1. PICK rows \in Seq(LogRows) :
        rows = Append(log, Event(open, e)) /\ Len(rows) = Len(log) + 1
        /\ rows[Len(log) + 1] = Event(open, e) /\ \A k \in DOMAIN log : rows[k] = log[k]
  <2>1. Event(open, e) \in LogRows BY EventType, SceneAssumption
  <2>2. PICK x \in LogRows : x = Event(open, e) BY <2>1
  <2>3. PICK rows : rows = Append(log, x) OBVIOUS
  <2>4. rows \in Seq(LogRows) /\ Len(rows) = Len(log) + 1 /\ rows[Len(log) + 1] = x
        /\ \A k \in DOMAIN log : rows[k] = log[k]
    BY <2>3, LogShape
  <2> QED BY <2>2, <2>3, <2>4
<1>2. PICK f : f = Followed(rows) /\ f = log' BY <1>1
<1>3. /\ f \in Seq(LogRows) /\ \A k \in DOMAIN f : k \in DOMAIN rows /\ f[k] = rows[k]
      /\ Len(rows) <= MaxLog => Len(f) = Len(rows)
      /\ Len(rows) >= MaxLog => Len(f) = MaxLog
  BY <1>2, Beginning
<1>4. Len(f) \in Nat /\ DOMAIN f = 1..Len(f) BY <1>3
<1>5. CASE Len(log) = MaxLog
  <2>1. Len(f) = MaxLog BY <1>1, <1>3, <1>5, LogShape
  <2>2. \A k \in DOMAIN log : f[k] = log[k] BY <1>1, <1>3, <1>4, <1>5, <2>1, LogShape
  <2>3. f = log BY <1>3, <1>5, <2>1, <2>2, LogShape
  <2> QED BY <1>2, <1>5, <2>3
<1>6. CASE Len(log) < MaxLog
  <2>1. Len(f) = Len(log) + 1 BY <1>1, <1>3, <1>6, LogShape
  <2>2. \A k \in 1..(Len(log) + 1) : f[k] = rows[k] BY <1>3, <1>4, <2>1
  <2>3. f[Len(log) + 1] = Event(open, e) /\ \A k \in DOMAIN log : f[k] = log[k] BY <1>1, <2>2, LogShape
  <2> QED BY <1>2, <1>3, <1>6, <2>1, <2>3
<1> QED BY <1>5, <1>6, LogShape

LEMMA Appended ==
  ASSUME IInv, Alternates, InAge, Paired, NEW e \in {"online", "offline"},
         Len(log) < MaxLog => e # Last, log' = Followed(Append(log, Event(open, e)))
  PROVE  /\ Alternates' /\ InAge' /\ Paired' /\ log' \in Seq(LogRows)
         /\ Len(log') < MaxLog => Len(log) < MaxLog /\ Last' = e
         /\ \A k \in DOMAIN log : k \in DOMAIN log' /\ log'[k] = log[k]
<1>1. CASE Len(log) = MaxLog /\ log' = log BY <1>1, LogShape DEF Alternates, InAge, Paired
<1>2. CASE /\ Len(log) < MaxLog /\ Len(log') = Len(log) + 1 /\ log' \in Seq(LogRows)
           /\ log'[Len(log) + 1] = Event(open, e)
           /\ \A k \in DOMAIN log : log'[k] = log[k]
  <2>1. PICK n \in Nat : n = Len(log) /\ DOMAIN log = 1..n /\ DOMAIN log' = 1..(n + 1) BY <1>2, LogShape
  <2>2. PICK x : x = log'[n + 1] /\ x = Event(open, e) BY <1>2, <2>1
  <2>3. x.router = open /\ x.event = e /\ x.age = "new" /\ x.settled = "pending" /\ ~x.told
    BY <2>2 DEF Event
  <2>4. n = 0 \/ Last = log[n].event BY <2>1 DEF Last
  <2>5. n = 0 => Last = "online" BY <2>1, LogShape DEF Last
  <2>6. Alternates' BY <1>2, <2>1, <2>2, <2>3, <2>4, <2>5 DEF Alternates
  <2>7. InAge' BY <1>2, <2>1, <2>2, <2>3 DEF InAge
  <2>8. Paired'
    <3> SUFFICES ASSUME NEW i \in 1..(n + 1), log'[i].event = "offline", ~log'[i].told, log'[i].settled # "pending"
                 PROVE  IF i < n + 1 THEN log'[i + 1].settled # "pending" ELSE n + 1 = MaxLog
      BY <1>2, <2>1 DEF Paired
    <3>1. i # n + 1 BY <2>2, <2>3
    <3>2. i \in 1..n /\ log'[i] = log[i] BY <1>2, <2>1, <3>1
    <3>3. IF i < n THEN log[i + 1].settled # "pending" ELSE n = MaxLog BY <2>1, <3>2 DEF Paired
    <3>4. i < n BY <1>2, <2>1, <3>2, <3>3
    <3>5. i + 1 \in 1..n BY <3>2, <3>4
    <3> QED BY <1>2, <2>1, <3>3, <3>4, <3>5
  <2>9. Last' = e
    <3>1. log' # <<>> BY <2>1, <1>2
    <3> QED BY <1>2, <2>1, <2>2, <2>3, <3>1 DEF Last
  <2> QED BY <1>2, <2>1, <2>6, <2>7, <2>8, <2>9
<1> QED BY <1>1, <1>2, OneMore

-----------------------------------------------------------------------------
(* Steps that leave the log alone                                          *)

LEMMA Places == ASSUME IInv PROVE sweep.at \in {"off", "save", "walk", "tell"}
BY DEF IInv, TypeOK, Off, Saving, Walking

\* The signals change; statuses, log and sweep do not.
LEMMA StatusStays ==
  ASSUME IInv, WatchInv, UNCHANGED <<log, sweep, request>>,
         \A r \in Routers : health'[r].status = health[r].status
  PROVE  WatchInv'
<1>1. open \in Routers BY SceneAssumption
<1>2. Watching'
  <2>1. health'[open].status \in {"online", "offline"} BY <1>1 DEF WatchInv, Watching
  <2>2. \A r \in Routers \ {open} : health'[r].status = "pending" /\ request'[r] = <<>>
    BY DEF WatchInv, Watching
  <2>3. sweep.at = "save" => \A r \in Routers : r \in sweep.left => sweep.copy[r].status = health'[r].status
    BY DEF WatchInv, Watching
  <2>4. sweep.at = "save" => sweep.left \subseteq Routers BY Holding DEF Saving
  <2>5. sweep.at \in {"walk", "tell"} => sweep.status[open] = health'[open].status
    BY <1>1 DEF WatchInv, Watching
  <2> QED BY <2>1, <2>2, <2>3, <2>4, <2>5 DEF Watching
<1>3. Last' = Last BY DEF Last
<1>4. Reports'
  <2>1. PICK e \in {"none", "online", "offline"} : Due(e) /\ Told(e) BY DEF WatchInv, Reports
  <2>2. Due(e)' BY <2>1 DEF Due
  <2>3. Told(e)' BY <1>1, <1>3, <2>1 DEF Told
  <2> QED BY <2>2, <2>3 DEF Reports
<1>5. Alternates' /\ InAge' /\ Paired' BY DEF WatchInv, Alternates, InAge, Paired
<1>6. Listed' BY DEF WatchInv, Listed
<1> QED BY <1>2, <1>4, <1>5, <1>6 DEF WatchInv

LEMMA WorldWatched == ASSUME IInv, WatchInv, Tunnel(open) \/ Stale(open) PROVE WatchInv'
<1>1. UNCHANGED <<log, sweep, request>> BY DEF Tunnel, Stale
<1>2. \A r \in Routers : health'[r].status = health[r].status
  <2>1. health \in [Routers -> Healths] BY DEF IInv, TypeOK
  <2>2. CASE Tunnel(open) BY <2>2 DEF Tunnel
  <2>3. CASE health' = [health EXCEPT ![open].seen = FALSE] BY <2>1, <2>3 DEF Healths
  <2>4. CASE health' = [health EXCEPT ![open].cached = FALSE] BY <2>1, <2>4 DEF Healths
  <2> QED BY <2>2, <2>3, <2>4 DEF Stale
<1> QED BY <1>1, <1>2, StatusStays

\* While nothing runs, the status is the last event of the log.
LEMMA AtRest ==
  ASSUME WatchInv, Settled
  PROVE  /\ sweep.at = "off" /\ request[open] = <<>>
         /\ Len(log) < MaxLog => health[open].status = Last
<1>1. sweep.at = "off" /\ request[open] = <<>> BY SceneAssumption DEF Settled
<1>2. PICK e \in {"none", "online", "offline"} : Due(e) /\ Told(e) BY DEF WatchInv, Reports
<1>3. e = "none" BY <1>1, <1>2 DEF Due
<1> QED BY <1>1, <1>2, <1>3 DEF Told

\* A request changes the status, and owes the log the event if it did.
LEMMA RequestWatched ==
  ASSUME IInv, WatchInv, Settled, Heartbeat(open) \/ Webhook(open)
  PROVE  WatchInv'
<1>1. UNCHANGED <<log, sweep>> BY DEF Heartbeat, Webhook
<1>2. /\ open \in Routers /\ open \notin Mikrotiks /\ health \in [Routers -> Healths]
      /\ request \in [Routers -> {<<>>, <<"online">>, <<"offline">>}]
  BY SceneAssumption DEF IInv, TypeOK
<1>3. PICK h \in Healths : h = health[open] BY <1>2
<1>4. h.status \in {"online", "offline"} BY <1>3 DEF WatchInv, Watching
<1>5. PICK e \in {"none", "online", "offline"} :
        /\ health'[open].status = IF e = "none" THEN h.status ELSE e
        /\ e # h.status
        /\ request' = [request EXCEPT ![open] = IF e = "none" THEN <<>> ELSE <<e>>]
  <2>1. CASE Heartbeat(open)
    <3>1. /\ health'[open].status = IF h.cached THEN "online" ELSE h.status
          /\ request' = [request EXCEPT ![open] = IF h.status = "offline" /\ h.cached
                                                  THEN <<"online">> ELSE <<>>]
      BY <1>2, <1>3, <1>4, <2>1 DEF Heartbeat, Healths
    <3> QED BY <1>4, <3>1
  <2>2. CASE Webhook(open)
    <3>1. CASE /\ health' = [health EXCEPT ![open].status = "online", ![open].seen = TRUE]
               /\ request' = [request EXCEPT ![open] = IF h.status = "offline" THEN <<"online">> ELSE <<>>]
      <4>1. health'[open].status = "online" BY <1>2, <3>1 DEF Healths
      <4> QED BY <1>4, <3>1, <4>1
    <3>2. CASE /\ health' = [health EXCEPT ![open].status = "offline"]
               /\ request' = [request EXCEPT ![open] = IF h.status \in {"online", "provisioned"}
                                                       THEN <<"offline">> ELSE <<>>]
      <4>1. health'[open].status = "offline" BY <1>2, <3>2 DEF Healths
      <4> QED BY <1>4, <3>2, <4>1
    <3> QED BY <1>3, <2>2, <3>1, <3>2 DEF Webhook
  <2> QED BY <2>1, <2>2
<1>6. \A r \in Routers \ {open} : health'[r] = health[r] /\ request'[r] = request[r]
  <2>1. \A r \in Routers \ {open} : request'[r] = request[r] BY <1>2, <1>5
  <2>2. CASE Heartbeat(open) BY <1>2, <2>1, <2>2 DEF Heartbeat
  <2>3. CASE Webhook(open) BY <1>2, <2>1, <2>3 DEF Webhook
  <2> QED BY <2>2, <2>3
<1>7. sweep.at = "off" BY AtRest
<1>8. Watching' BY <1>1, <1>4, <1>5, <1>6, <1>7 DEF WatchInv, Watching
<1>9. Last' = Last BY <1>1 DEF Last
<1>10. Due(e)' BY <1>1, <1>2, <1>5, <1>7 DEF Due
<1>11. Told(e)'
  <2>1. Len(log) < MaxLog => h.status = Last BY <1>3, AtRest
  <2> QED BY <1>1, <1>5, <1>9, <2>1 DEF Told
<1>12. Alternates' /\ InAge' /\ Paired' BY <1>1 DEF WatchInv, Alternates, InAge, Paired
<1>13. Listed' BY <1>1, <1>7 DEF Listed
<1> QED BY <1>8, <1>10, <1>11, <1>12, <1>13 DEF WatchInv, Reports

LEMMA LoadWatched == ASSUME IInv, WatchInv, Settled, SweepLoad PROVE WatchInv'
<1>1. /\ sweep'.at = "save" /\ sweep'.copy = health /\ sweep'.left = Routers /\ sweep'.found = <<>>
      /\ UNCHANGED <<health, log, request>>
  BY DEF SweepLoad
<1>2. Watching' BY <1>1 DEF WatchInv, Watching
<1>3. Last' = Last BY <1>1 DEF Last
<1>4. Due("none")' BY <1>1, AtRest DEF Due, Rows
<1>5. Told("none")' BY <1>1, <1>3, AtRest DEF Told
<1>6. Alternates' /\ InAge' /\ Paired' BY <1>1 DEF WatchInv, Alternates, InAge, Paired
<1>7. Listed' BY <1>1 DEF Listed
<1> QED BY <1>2, <1>4, <1>5, <1>6, <1>7 DEF WatchInv, Reports

LEMMA EndWatched == ASSUME IInv, WatchInv, SweepEnd PROVE WatchInv'
<1>1. /\ sweep.at = "walk" /\ sweep'.at = "off" /\ UNCHANGED <<health, log, request>>
  BY DEF SweepEnd, Off
<1>2. Watching' BY <1>1 DEF WatchInv, Watching
<1>3. Last' = Last BY <1>1 DEF Last
<1>4. Reports'
  <2>1. PICK e \in {"none", "online", "offline"} : Due(e) /\ Told(e) BY DEF WatchInv, Reports
  <2>2. Due(e)' BY <1>1, <2>1 DEF Due
  <2>3. Told(e)' BY <1>1, <1>3, <2>1 DEF Told
  <2> QED BY <2>2, <2>3 DEF Reports
<1>5. Alternates' /\ InAge' /\ Paired' BY <1>1 DEF WatchInv, Alternates, InAge, Paired
<1>6. Listed' BY <1>1 DEF Listed
<1> QED BY <1>2, <1>4, <1>5, <1>6 DEF WatchInv

\* A save of the watched router finds the event that it writes; the others wait
\* for their claim.
LEMMA SaveWatched == ASSUME IInv, WatchInv, SweepSave PROVE WatchInv'
<1>1. PICK r \in Routers, needs \in BOOLEAN, row \in Healths : Saves(r, needs, row) BY Saved
<1>2. PICK h : h = sweep.copy[r] OBVIOUS
<1>3. /\ r \in sweep.left /\ sweep \in Saving /\ sweep' \in Saving
      /\ row = SavedRow(h, sweep.shook[r], needs)
      /\ health' = [health EXCEPT ![r] = row]
      /\ sweep'.copy = sweep.copy /\ sweep'.left = sweep.left \ {r}
      /\ sweep'.found = IF row.status # h.status /\ row.status \in {"online", "offline"}
                        THEN Append(sweep.found, Event(r, row.status)) ELSE sweep.found
      /\ UNCHANGED <<log, request>>
  BY <1>1, <1>2 DEF Saves
<1>4. sweep.at = "save" /\ sweep'.at = "save" BY <1>3 DEF Saving
<1>5. h.status = health[r].status BY <1>2, <1>3, <1>4 DEF WatchInv, Watching
<1>6. row.status = StatusOf(h, h.seen /\ sweep.shook[r]) BY <1>3 DEF SavedRow
<1>7. open \in Routers /\ health \in [Routers -> Healths] BY SceneAssumption DEF IInv, TypeOK
<1>8. health'[r] = row /\ \A q \in Routers \ {r} : health'[q] = health[q] BY <1>3, <1>7
<1>9. Last' = Last BY <1>3 DEF Last
<1>10. PICK e \in {"none", "online", "offline"} : Due(e) /\ Told(e) BY DEF WatchInv, Reports
<1>11. sweep.found = Rows(e) /\ (open \in sweep.left => e = "none") /\ request[open] = <<>>
  BY <1>4, <1>10 DEF Due
<1>12. Alternates' /\ InAge' /\ Paired' BY <1>3 DEF WatchInv, Alternates, InAge, Paired
<1>13. Listed' BY <1>4 DEF Listed
<1>14. CASE r # open
  <2>1. h.status = "pending" /\ row.status = "pending" BY <1>5, <1>6, <1>14 DEF WatchInv, Watching, StatusOf
  <2>2. Watching' BY <1>3, <1>4, <1>5, <1>7, <1>8, <1>14, <2>1 DEF WatchInv, Watching
  <2>3. sweep'.found = sweep.found BY <1>3, <2>1
  <2>4. Due(e)' BY <1>3, <1>4, <1>11, <2>3 DEF Due
  <2>5. Told(e)' BY <1>3, <1>7, <1>8, <1>9, <1>10, <1>14 DEF Told
  <2> QED BY <1>12, <1>13, <2>2, <2>4, <2>5 DEF WatchInv, Reports
<1>15. CASE r = open
  <2>1. h.status \in {"online", "offline"} BY <1>5, <1>15 DEF WatchInv, Watching
  <2>2. row.status \in {"online", "offline"} BY <1>6, <2>1 DEF StatusOf
  <2>3. Watching' BY <1>3, <1>4, <1>7, <1>8, <1>15, <2>2 DEF WatchInv, Watching
  <2>4. e = "none" /\ sweep.found = <<>> BY <1>3, <1>11, <1>15 DEF Rows
  <2>5. Len(log) < MaxLog => h.status = Last BY <1>5, <1>10, <1>15, <2>4 DEF Told
  <2>6. PICK f \in {"none", "online", "offline"} :
          f = IF row.status # h.status THEN row.status ELSE "none"
    BY <2>2
  <2>7. sweep'.found = Rows(f)
    <3>1. CASE f = "none" BY <1>3, <2>2, <2>4, <2>6, <3>1 DEF Rows
    <3>2. CASE f # "none"
      <4>1. f = row.status /\ sweep'.found = Append(<<>>, Event(open, f)) BY <1>3, <1>15, <2>2, <2>4, <2>6, <3>2
      <4>2. PICK x : x = Event(open, f) OBVIOUS
      <4>3. Append(<<>>, x) = <<x>> OBVIOUS
      <4> QED BY <3>2, <4>1, <4>2, <4>3 DEF Rows
    <3> QED BY <3>1, <3>2
  <2>8. Due(f)' BY <1>3, <1>4, <1>11, <1>15, <2>7 DEF Due
  <2>9. Told(f)' BY <1>3, <1>8, <1>9, <1>15, <2>2, <2>5, <2>6 DEF Told
  <2> QED BY <1>12, <1>13, <2>3, <2>8, <2>9 DEF WatchInv, Reports
<1> QED BY <1>14, <1>15

-----------------------------------------------------------------------------
(* Steps that write the log                                                *)

\* The event a request owes is logged.
LEMMA LogWatched == ASSUME IInv, WatchInv, LogEvent(open) PROVE WatchInv'
<1>1. PICK e \in {"none", "online", "offline"} : Due(e) /\ Told(e) BY DEF WatchInv, Reports
<1>2. /\ request[open] # <<>> /\ log' = Followed(Append(log, Event(open, Head(request[open]))))
      /\ request' = [request EXCEPT ![open] = <<>>] /\ UNCHANGED <<health, sweep>>
  BY DEF LogEvent
<1>3. sweep.at # "save" /\ e # "none" /\ request[open] = <<e>> BY <1>1, <1>2 DEF Due
<1>4. sweep.at = "off" BY <1>1, <1>3, Places DEF Due
<1>5. log' = Followed(Append(log, Event(open, e)))
  <2>1. Head(<<e>>) = e OBVIOUS
  <2> QED BY <1>2, <1>3, <2>1
<1>6. Len(log) < MaxLog => e # Last BY <1>1, <1>3 DEF Told
<1>7. /\ Alternates' /\ InAge' /\ Paired'
      /\ Len(log') < MaxLog => Len(log) < MaxLog /\ Last' = e
  BY <1>3, <1>5, <1>6, Appended DEF WatchInv
<1>8. open \in Routers /\ request \in [Routers -> {<<>>, <<"online">>, <<"offline">>}]
  BY SceneAssumption DEF IInv, TypeOK
<1>9. request'[open] = <<>> /\ \A q \in Routers \ {open} : request'[q] = request[q] BY <1>2, <1>8
<1>10. Watching' BY <1>2, <1>4, <1>9 DEF WatchInv, Watching
<1>11. Due("none")' BY <1>2, <1>4, <1>9 DEF Due
<1>12. Told("none")'
  <2>1. ASSUME Len(log') < MaxLog PROVE health'[open].status = Last' BY <1>1, <1>2, <1>3, <1>7, <2>1 DEF Told
  <2> QED BY <2>1 DEF Told
<1>13. Listed' BY <1>2, <1>4 DEF Listed
<1> QED BY <1>7, <1>10, <1>11, <1>12, <1>13 DEF WatchInv, Reports

\* What waits is listed with the outages before it that were not announced.
LEMMA InsertWatched == ASSUME IInv, WatchInv, SweepInsert PROVE WatchInv'
<1>1. PICK e \in {"none", "online", "offline"} : Due(e) /\ Told(e) BY DEF WatchInv, Reports
<1>2. /\ sweep.at = "save" /\ log' = Followed(log \o sweep.found)
      /\ sweep'.at = "walk" /\ sweep'.pending = Unsettled(log')
      /\ sweep'.status = [r \in Routers |-> health[r].status] /\ UNCHANGED <<health, request>>
  BY DEF SweepInsert
<1>3. sweep.found = Rows(e) /\ request[open] = <<>> BY <1>1, <1>2 DEF Due
<1>4. /\ Alternates' /\ InAge' /\ Paired' /\ log' \in Seq(LogRows)
      /\ Len(log') < MaxLog => health[open].status = Last'
  <2>1. CASE e = "none"
    <3>1. log \o <<>> = log BY LogShape
    <3>2. log' = Followed(log) BY <1>2, <1>3, <2>1, <3>1 DEF Rows
    <3>3. PICK f : f = Followed(log) OBVIOUS
    <3>4. /\ f \in Seq(LogRows) /\ Len(f) = Len(log) /\ \A k \in DOMAIN f : f[k] = log[k]
      BY <3>3, Beginning, LogShape
    <3>5. f = log BY <3>4, LogShape
    <3>6. log' = log BY <3>2, <3>3, <3>5
    <3>7. Last' = Last BY <3>6 DEF Last
    <3>8. Alternates' /\ InAge' /\ Paired' BY <3>6 DEF WatchInv, Alternates, InAge, Paired
    <3> QED BY <1>1, <2>1, <3>6, <3>7, <3>8, LogShape DEF Told
  <2>2. CASE e # "none"
    <3>1. PICK x \in LogRows : x = Event(open, e)
      <4>1. Event(open, e) \in LogRows BY <2>2, EventType, SceneAssumption
      <4> QED BY <4>1
    <3>2. log \o <<x>> = Append(log, x) BY LogShape
    <3>3. log' = Followed(Append(log, Event(open, e))) BY <1>2, <1>3, <2>2, <3>1, <3>2 DEF Rows
    <3>4. Len(log) < MaxLog => e # Last /\ health[open].status = e BY <1>1, <2>2 DEF Told
    <3> QED BY <2>2, <3>3, <3>4, Appended DEF WatchInv
  <2> QED BY <2>1, <2>2
<1>5. open \in Routers BY SceneAssumption
<1>6. Watching' BY <1>2, <1>5 DEF WatchInv, Watching
<1>7. Due("none")' BY <1>2, <1>3 DEF Due
<1>8. Told("none")' BY <1>2, <1>4 DEF Told
<1>9. Listed'
  <2>1. SUFFICES ASSUME NEW i \in Unsettled(log')
                 PROVE  /\ i \in DOMAIN log' /\ log'[i].settled = "pending"
                        /\ log'[i].event = "online" => log'[i - 1].told \/ i - 1 \in Unsettled(log')
    BY <1>2 DEF Listed
  <2>2. PICK n \in Nat : n = Len(log') /\ DOMAIN log' = 1..n BY <1>4
  <2>3. i \in 1..n /\ log'[i].settled = "pending" BY <2>2 DEF Unsettled
  <2>4. ASSUME log'[i].event = "online", ~log'[i - 1].told PROVE i - 1 \in Unsettled(log')
    <3>1. i # 1 /\ log'[i - 1].event # "online" BY <1>4, <2>2, <2>3, <2>4 DEF Alternates
    <3>2. i - 1 \in 1..n /\ i - 1 < n /\ (i - 1) + 1 = i BY <2>3, <3>1
    <3>3. log'[i - 1] \in LogRows BY <1>4, <2>2, <3>2
    <3>4. log'[i - 1].event = "offline" BY <3>1, <3>3 DEF LogRows
    <3>5. log'[i - 1].settled = "pending" BY <1>4, <2>2, <2>3, <2>4, <3>2, <3>4 DEF Paired
    <3> QED BY <2>2, <3>2, <3>5 DEF Unsettled
  <2> QED BY <2>2, <2>3, <2>4
<1> QED BY <1>4, <1>6, <1>7, <1>8, <1>9 DEF WatchInv, Reports

\* No row that waits gets old.
LEMMA AgeWatched ==
  ASSUME IInv, WatchInv, Settled, NEW i \in DOMAIN log, Age(i),
         log[i].age = "confirmed" => log[i].settled # "pending"
  PROVE  WatchInv'
<1>1. /\ log' = [log EXCEPT ![i].age = IF @ = "new" THEN "confirmed" ELSE "old"]
      /\ log[i].age # "old" /\ UNCHANGED <<health, sweep, request>>
  BY DEF Age
<1>2. log \in [DOMAIN log -> LogRows] BY LogShape
<1>3. /\ DOMAIN log' = DOMAIN log
      /\ \A k \in DOMAIN log : /\ log'[k].router = log[k].router /\ log'[k].event = log[k].event
                               /\ log'[k].settled = log[k].settled /\ log'[k].told = log[k].told
                               /\ k # i => log'[k].age = log[k].age
  BY <1>1, <1>2 DEF LogRows
<1>4. log'[i].age = "old" => log[i].age = "confirmed" BY <1>1, <1>2 DEF LogRows
<1>5. log' \in Seq(LogRows) BY AgeInv DEF IInv, TypeOK
<1>6. PICK n \in Nat : Len(log') = n /\ Len(log) = n /\ DOMAIN log = 1..n /\ DOMAIN log' = 1..n
  BY <1>3, <1>5, LogShape
<1>7. InAge' BY <1>3, <1>4 DEF WatchInv, InAge
<1>8. Alternates'
  <2>1. \A k \in 1..n : k # 1 => k - 1 \in 1..n OBVIOUS
  <2> QED BY <1>3, <1>6, <2>1 DEF WatchInv, Alternates
<1>9. Paired'
  <2>1. \A k \in 1..n : k < n => k + 1 \in 1..n OBVIOUS
  <2> QED BY <1>3, <1>6, <2>1 DEF WatchInv, Paired
<1>10. Last' = Last
  <2>1. log = <<>> <=> n = 0 BY <1>6, LogShape
  <2>2. log' = <<>> <=> n = 0 BY <1>5, <1>6
  <2> QED BY <1>3, <1>6, <2>1, <2>2 DEF Last
<1>11. sweep.at = "off" BY DEF Settled
<1>12. Watching' BY <1>1 DEF WatchInv, Watching
<1>13. Reports'
  <2>1. PICK e \in {"none", "online", "offline"} : Due(e) /\ Told(e) BY DEF WatchInv, Reports
  <2>2. Due(e)' BY <1>1, <2>1 DEF Due
  <2>3. Told(e)' BY <1>1, <1>6, <1>10, <2>1 DEF Told
  <2> QED BY <2>2, <2>3 DEF Reports
<1>14. Listed' BY <1>1, <1>11 DEF Listed
<1> QED BY <1>7, <1>8, <1>9, <1>12, <1>13, <1>14 DEF WatchInv

-----------------------------------------------------------------------------
(* The walk through what waits                                             *)

\* The same events, and none of them waits again or is untold.
Grown(rows) ==
  /\ rows \in Seq(LogRows) /\ Len(rows) = Len(log)
  /\ \A k \in DOMAIN log :
       /\ rows[k].router = log[k].router /\ rows[k].event = log[k].event /\ rows[k].age = log[k].age
       /\ log[k].told => rows[k].told
       /\ log[k].settled # "pending" => rows[k].settled # "pending"

LEMMA GrownDomain ==
  ASSUME IInv, Grown(log')
  PROVE  \E n \in Nat : Len(log) = n /\ Len(log') = n /\ DOMAIN log = 1..n /\ DOMAIN log' = 1..n
<1>1. log' \in Seq(LogRows) /\ Len(log') = Len(log) BY DEF Grown
<1> QED BY <1>1, LogShape

\* The entry that is looked at.
LEMMA First ==
  ASSUME IInv, WatchInv, sweep.at \in {"walk", "tell"}, sweep.pending # {}
  PROVE  \E i \in DOMAIN log : /\ i = Min(sweep.pending) /\ i \in sweep.pending
                               /\ \A m \in sweep.pending : i <= m
                               /\ log[i].settled = "pending" /\ log[i].age # "old"
<1>1. sweep.pending \subseteq Nat BY Holding, BoundsAssumption DEF Walking
<1>2. PICK i : i = Min(sweep.pending) OBVIOUS
<1>3. i \in sweep.pending /\ \A m \in sweep.pending : i <= m BY <1>1, <1>2, Least
<1>4. i \in DOMAIN log /\ log[i].settled = "pending" BY <1>3 DEF WatchInv, Listed
<1>5. log[i].age # "old" BY <1>4 DEF WatchInv, InAge
<1> QED BY <1>2, <1>3, <1>4, <1>5

\* What a walk over grown rows leaves as it was.
LEMMA WalkReports ==
  ASSUME IInv, WatchInv, sweep.at \in {"walk", "tell"}, sweep'.at \in {"walk", "tell"},
         sweep'.status = sweep.status, UNCHANGED <<health, request>>, Grown(log')
  PROVE  Watching' /\ Reports' /\ Alternates' /\ InAge'
<1>1. PICK n \in Nat : Len(log) = n /\ Len(log') = n /\ DOMAIN log = 1..n /\ DOMAIN log' = 1..n
  BY GrownDomain
<1>2. \A k \in 1..n : /\ log'[k].router = log[k].router /\ log'[k].event = log[k].event
                      /\ log'[k].age = log[k].age
                      /\ log[k].settled # "pending" => log'[k].settled # "pending"
  BY <1>1 DEF Grown
<1>3. Watching' BY DEF WatchInv, Watching
<1>4. Last' = Last
  <2>1. log = <<>> <=> n = 0 BY <1>1, LogShape
  <2>2. log' = <<>> <=> n = 0 BY <1>1 DEF Grown
  <2> QED BY <1>1, <1>2, <2>1, <2>2 DEF Last
<1>5. Reports'
  <2>1. PICK e \in {"none", "online", "offline"} : Due(e) /\ Told(e) BY DEF WatchInv, Reports
  <2>2. Due(e)' BY <2>1 DEF Due
  <2>3. Told(e)' BY <1>1, <1>4, <2>1 DEF Told
  <2> QED BY <2>2, <2>3 DEF Reports
<1>6. Alternates'
  <2>1. \A k \in 1..n : k # 1 => k - 1 \in 1..n OBVIOUS
  <2> QED BY <1>1, <1>2, <2>1 DEF WatchInv, Alternates
<1>7. InAge' BY <1>1, <1>2 DEF WatchInv, InAge
<1> QED BY <1>3, <1>5, <1>6, <1>7

\* Outages that get settled without being told have their recovery settled.
LEMMA PairedKept ==
  ASSUME IInv, WatchInv, Grown(log'),
         \A k \in DOMAIN log :
           log[k].event = "offline" /\ ~log'[k].told /\ log[k].settled = "pending"
             /\ log'[k].settled # "pending" =>
           IF k < Len(log) THEN log'[k + 1].settled # "pending" ELSE Len(log) = MaxLog
  PROVE  Paired'
<1>1. PICK n \in Nat : Len(log) = n /\ Len(log') = n /\ DOMAIN log = 1..n /\ DOMAIN log' = 1..n
  BY GrownDomain
<1> SUFFICES ASSUME NEW k \in 1..n, log'[k].event = "offline", ~log'[k].told,
                    log'[k].settled # "pending"
             PROVE  IF k < n THEN log'[k + 1].settled # "pending" ELSE n = MaxLog
  BY <1>1 DEF Paired
<1>2. log[k].event = "offline" /\ ~log[k].told BY <1>1 DEF Grown
<1>3. CASE log[k].settled = "pending" BY <1>1, <1>2, <1>3
<1>4. CASE log[k].settled # "pending"
  <2>1. IF k < n THEN log[k + 1].settled # "pending" ELSE n = MaxLog
    BY <1>1, <1>2, <1>4 DEF WatchInv, Paired
  <2>2. k < n => k + 1 \in 1..n OBVIOUS
  <2> QED BY <1>1, <2>1, <2>2 DEF Grown
<1> QED BY <1>3, <1>4

\* No recovery loses its outage from the list unless that was told.
LEMMA ListedKept ==
  ASSUME IInv, WatchInv, sweep.at \in {"walk", "tell"}, Grown(log'), sweep'.at = "walk",
         sweep'.pending \subseteq sweep.pending,
         \A k \in sweep'.pending : log'[k].settled = log[k].settled,
         \A k \in sweep'.pending : log[k].event = "online" /\ k - 1 \in sweep.pending =>
           log'[k - 1].told \/ k - 1 \in sweep'.pending
  PROVE  Listed'
<1>1. PICK n \in Nat : Len(log) = n /\ Len(log') = n /\ DOMAIN log = 1..n /\ DOMAIN log' = 1..n
  BY GrownDomain
<1> SUFFICES ASSUME NEW k \in sweep'.pending
             PROVE  /\ k \in 1..n /\ log'[k].settled = "pending"
                    /\ log'[k].event = "online" => log'[k - 1].told \/ k - 1 \in sweep'.pending
  BY <1>1 DEF Listed
<1>2. /\ k \in 1..n /\ log[k].settled = "pending"
      /\ log[k].event = "online" => log[k - 1].told \/ k - 1 \in sweep.pending
  BY <1>1 DEF WatchInv, Listed
<1>3. log'[k].event = log[k].event BY <1>1, <1>2 DEF Grown
<1>4. ASSUME log[k].event = "online" PROVE log'[k - 1].told \/ k - 1 \in sweep'.pending
  <2>1. k # 1 BY <1>1, <1>2, <1>4 DEF WatchInv, Alternates
  <2>2. k - 1 \in 1..n BY <1>2, <2>1
  <2>3. log[k - 1].told => log'[k - 1].told BY <1>1, <2>2 DEF Grown
  <2> QED BY <1>2, <1>4, <2>3
<1> QED BY <1>2, <1>3, <1>4

\* Only the next event can end an outage.
LEMMA NextEnds ==
  ASSUME IInv, WatchInv, NEW i \in DOMAIN log, log[i].event = "offline"
  PROVE  /\ i < Len(log) => i + 1 \in Recoveries(i) /\ Min(Recoveries(i)) = i + 1
         /\ Recoveries(i) = {} => i = Len(log)
<1>1. PICK n \in Nat : Len(log) = n /\ DOMAIN log = 1..n BY LogShape
<1>2. ASSUME i < n PROVE i + 1 \in Recoveries(i)
  <2>1. i + 1 \in 1..n /\ i + 1 # 1 /\ (i + 1) - 1 = i BY <1>1, <1>2
  <2>2. log[i + 1].event # "offline" /\ log[i + 1].router = open /\ log[i].router = open
    BY <1>1, <2>1 DEF WatchInv, Alternates
  <2>3. log[i + 1].event = "online" BY <1>1, <2>1, <2>2, LogShape
  <2> QED BY <1>1, <2>1, <2>2, <2>3 DEF Recoveries
<1>3. ASSUME i < n PROVE Min(Recoveries(i)) = i + 1
  <2>1. Recoveries(i) \subseteq Nat /\ \A m \in Recoveries(i) : m > i BY <1>1 DEF Recoveries
  <2>2. PICK m : m = Min(Recoveries(i)) OBVIOUS
  <2>3. m \in Recoveries(i) /\ m <= i + 1 BY <1>2, <1>3, <2>1, <2>2, Least
  <2> QED BY <1>1, <2>1, <2>2, <2>3
<1> QED BY <1>1, <1>2, <1>3

LEMMA QuietGrown ==
  ASSUME IInv, NEW rows, log' = Quieted(rows), log' \in Seq(LogRows), Len(log') = Len(log)
  PROVE  /\ Grown(log')
         /\ \A k \in DOMAIN log : /\ log'[k].told = log[k].told
                                  /\ k \in rows => log'[k].settled # "pending"
                                  /\ k \notin rows => log'[k] = log[k]
<1>1. log \in [DOMAIN log -> LogRows] BY LogShape
<1>2. \A k \in DOMAIN log : log'[k] = IF k \in rows /\ log[k].settled = "pending"
                                       THEN [log[k] EXCEPT !.settled = "quiet"] ELSE log[k]
  BY DEF Quieted
<1>3. \A k \in DOMAIN log : /\ log'[k].told = log[k].told /\ log'[k].router = log[k].router
                            /\ log'[k].event = log[k].event /\ log'[k].age = log[k].age
                            /\ k \in rows => log'[k].settled # "pending"
                            /\ k \notin rows => log'[k] = log[k]
                            /\ log[k].settled # "pending" => log'[k].settled # "pending"
  BY <1>1, <1>2 DEF LogRows
<1> QED BY <1>3 DEF Grown

LEMMA SameLength ==
  ASSUME IInv, IInv', DOMAIN log' = DOMAIN log
  PROVE  log' \in Seq(LogRows) /\ Len(log') = Len(log)
<1>1. log' \in Seq(LogRows) /\ log \in Seq(LogRows) BY DEF IInv, TypeOK
<1>2. \A s \in Seq(LogRows) : Len(s) \in Nat /\ DOMAIN s = 1..Len(s) OBVIOUS
<1>3. PICK m \in Nat, n \in Nat : m = Len(log') /\ n = Len(log) /\ DOMAIN log' = 1..m /\ DOMAIN log = 1..n
  BY <1>1, <1>2
<1>4. 1..m = 1..n BY <1>3
<1>5. m = n
  <2>1. m \in 1..m \/ m = 0 OBVIOUS
  <2>2. n \in 1..n \/ n = 0 OBVIOUS
  <2> QED BY <1>4, <2>1, <2>2
<1> QED BY <1>1, <1>3, <1>5

\* Entries skipped: an outage, with the recovery that ended it if there is one.
LEMMA QuietWatched == ASSUME IInv, WatchInv, WalkQuietly PROVE WatchInv'
<1>1. /\ sweep.at = "walk" /\ sweep.pending # {} /\ UNCHANGED <<health, request>>
  BY DEF WalkQuietly
<1>2. PICK i \in DOMAIN log : /\ i = Min(sweep.pending) /\ i \in sweep.pending
                              /\ \A m \in sweep.pending : i <= m
                              /\ log[i].settled = "pending" /\ log[i].age # "old"
  BY <1>1, First
<1>3. PICK n \in Nat : Len(log) = n /\ DOMAIN log = 1..n BY LogShape
<1>4. /\ log[i].event = "offline"
      /\ \/ Recoveries(i) # {} /\ log' = Quieted(Blip(i)) /\ Skip(Blip(i))
         \/ Recoveries(i) = {} /\ UNCHANGED log /\ Skip({i})
         \/ /\ Recoveries(i) = {} /\ sweep.status[log[i].router] # "offline"
            /\ log' = Quieted({i}) /\ Skip({i})
  BY <1>2 DEF WalkQuietly
<1>5. IInv' /\ sweep \in Walking BY WalkInv
<1>6. \A rows : log' = Quieted(rows) => log' \in Seq(LogRows) /\ Len(log') = Len(log)
  BY <1>5, SameLength DEF Quieted
<1>7. PICK S : S \in {{i}, {i, i + 1}} /\ sweep' = [sweep EXCEPT !.pending = @ \ S]
               /\ (i < n => i + 1 \in S \/ Recoveries(i) = {})
               /\ (log' = log \/ log' = Quieted(S))
               /\ (i = n \/ S = {i, i + 1})
  <2>1. CASE Recoveries(i) # {} /\ log' = Quieted(Blip(i)) /\ Skip(Blip(i))
    <3>1. i < n BY <1>3, <2>1 DEF Recoveries
    <3>2. Blip(i) = {i, i + 1} BY <1>3, <1>4, <3>1, NextEnds DEF Blip
    <3> QED BY <2>1, <3>2 DEF Skip
  <2>2. CASE Recoveries(i) = {} /\ Skip({i}) /\ (log' = log \/ log' = Quieted({i}))
    <3>1. i = n BY <1>3, <1>4, <2>2, NextEnds
    <3> QED BY <2>2, <3>1 DEF Skip
  <2> QED BY <1>4, <2>1, <2>2
<1>8. /\ sweep'.at = "walk" /\ sweep'.status = sweep.status /\ sweep'.pending = sweep.pending \ S
  BY <1>1, <1>5, <1>7 DEF Walking
<1>9. /\ Grown(log')
      /\ \A k \in DOMAIN log : /\ log'[k].told = log[k].told
                               /\ k \notin S => log'[k] = log[k]
                               /\ k \in S /\ log' # log => log'[k].settled # "pending"
  <2>1. CASE log' = log BY <2>1, LogShape DEF Grown
  <2>2. CASE log' = Quieted(S) BY <1>6, <2>2, QuietGrown
  <2> QED BY <1>7, <2>1, <2>2
<1>10. Watching' /\ Reports' /\ Alternates' /\ InAge' BY <1>1, <1>8, <1>9, WalkReports
<1>11. Paired'
  <2> SUFFICES ASSUME NEW k \in 1..n, log[k].event = "offline", ~log'[k].told,
                      log[k].settled = "pending", log'[k].settled # "pending"
               PROVE  IF k < n THEN log'[k + 1].settled # "pending" ELSE n = MaxLog
    BY <1>3, <1>9, PairedKept
  <2>1. k \in S /\ log' # log BY <1>3, <1>9
  <2>2. k = i
    <3>1. CASE k = i + 1
      <4>1. k # 1 /\ k - 1 = i BY <1>3, <3>1
      <4>2. log[k].event # log[i].event BY <1>3, <4>1 DEF WatchInv, Alternates
      <4> QED BY <1>4, <4>2
    <3> QED BY <1>7, <2>1, <3>1
  <2>3. CASE i < n
    <3>1. i + 1 \in S /\ i + 1 \in 1..n BY <1>3, <1>7, <2>3
    <3> QED BY <1>3, <1>9, <2>1, <2>2, <2>3, <3>1
  <2>4. CASE i = n
    <3>1. Recoveries(i) = {} BY <1>3, <2>4 DEF Recoveries
    <3>2. sweep.status[log[i].router] # "offline" BY <1>4, <2>1, <3>1
    <3>3. log[i].router = open BY DEF WatchInv, Alternates
    <3>4. health[open].status # "offline" BY <1>1, <3>2, <3>3 DEF WatchInv, Watching
    <3>5. PICK e \in {"none", "online", "offline"} : Due(e) /\ Told(e) BY DEF WatchInv, Reports
    <3>6. e = "none" BY <1>1, <3>5 DEF Due
    <3>7. log # <<>> BY <1>3, LogShape
    <3>8. Last = "offline" BY <1>3, <1>4, <2>4, <3>7 DEF Last
    <3>9. ~(Len(log) < MaxLog) BY <3>4, <3>5, <3>6, <3>8 DEF Told
    <3> QED BY <1>3, <2>2, <2>4, <3>9, LogShape
  <2> QED BY <1>3, <2>3, <2>4
<1>12. Listed'
  <2>1. sweep'.pending \subseteq sweep.pending BY <1>8
  <2>2. ASSUME NEW k \in sweep'.pending PROVE k \in 1..n /\ k \notin S /\ log'[k] = log[k]
    <3>1. k \in 1..n BY <1>1, <1>3, <1>8 DEF WatchInv, Listed
    <3> QED BY <1>3, <1>8, <1>9, <3>1
  <2>3. ASSUME NEW k \in sweep'.pending, log[k].event = "online", k - 1 \in sweep.pending
        PROVE  k - 1 \in sweep'.pending
    <3>1. k \in 1..n /\ k \notin S BY <2>2, <2>3
    <3>2. k - 1 # i BY <1>3, <1>7, <3>1
    <3>3. k - 1 # i + 1
      <4>1. CASE k = i + 2
        <5>1. i + 1 \in 1..n /\ i + 2 \in 1..n /\ i + 2 # 1 /\ i + 1 # 1 /\ (i + 2) - 1 = i + 1 /\ (i + 1) - 1 = i
          BY <1>3, <3>1, <4>1
        <5>2. log[i + 2].event # log[i + 1].event /\ log[i + 1].event # log[i].event
          BY <1>3, <5>1 DEF WatchInv, Alternates
        <5>3. log[i + 1].event = "online" BY <1>3, <1>4, <5>1, <5>2, LogShape
        <5> QED BY <2>3, <4>1, <5>2, <5>3
      <4> QED BY <1>3, <3>1, <4>1
    <3> QED BY <1>7, <1>8, <2>3, <3>2, <3>3
  <2> QED BY <1>1, <1>8, <1>9, <2>1, <2>2, <2>3, ListedKept
<1> QED BY <1>10, <1>11, <1>12 DEF WatchInv

\* An entry found worth telling; an outage is the last event.
LEMMA LoudWatched == ASSUME IInv, WatchInv, WalkLoudly PROVE WatchInv'
<1>1. /\ sweep.at = "walk" /\ sweep.pending # {} /\ sweep' = [sweep EXCEPT !.at = "tell"]
      /\ UNCHANGED <<health, request, log>>
  BY DEF WalkLoudly
<1>2. sweep \in Walking BY WalkInv
<1>3. sweep'.at = "tell" /\ sweep'.pending = sweep.pending /\ sweep'.status = sweep.status
  BY <1>1, <1>2 DEF Walking
<1>4. PICK i \in DOMAIN log : i = Min(sweep.pending) BY <1>1, First
<1>5. log[i].event = "offline" => i = Len(log)
  <2>1. log[i].event = "offline" => Recoveries(i) = {} BY <1>4 DEF WalkLoudly
  <2> QED BY <2>1, NextEnds
<1>6. Grown(log') BY <1>1, LogShape DEF Grown
<1>7. Watching' /\ Reports' /\ Alternates' /\ InAge' BY <1>1, <1>3, <1>6, WalkReports
<1>8. Paired' BY <1>1 DEF WatchInv, Paired
<1>9. Listed' BY <1>1, <1>3, <1>4, <1>5 DEF WatchInv, Listed
<1> QED BY <1>7, <1>8, <1>9 DEF WatchInv

\* The entry is left: it was told, or it is the last, or no outage.
LEMMA TellWatched == ASSUME IInv, WatchInv, Tell \/ TellFails PROVE WatchInv'
<1>1. sweep.at = "tell" /\ UNCHANGED <<health, request>> BY DEF Tell, TellFails
<1>2. sweep.pending # {} BY <1>1 DEF WatchInv, Listed
<1>3. PICK i \in DOMAIN log : /\ i = Min(sweep.pending) /\ i \in sweep.pending
                              /\ log[i].settled = "pending"
  BY <1>1, <1>2, First
<1>4. PICK n \in Nat : Len(log) = n /\ DOMAIN log = 1..n BY LogShape
<1>5. log[i].event = "offline" => i = n BY <1>1, <1>3, <1>4 DEF WatchInv, Listed
<1>6. sweep \in Walking /\ IInv' BY WalkInv
<1>7. log \in [1..n -> LogRows] BY <1>4, LogShape
<1>8. CASE ~log[i].told /\ log' = [log EXCEPT ![i].told = TRUE] /\ UNCHANGED sweep
  <2>1. DOMAIN log' = DOMAIN log /\ \A k \in DOMAIN log :
          /\ log'[k].router = log[k].router /\ log'[k].event = log[k].event /\ log'[k].age = log[k].age
          /\ log'[k].settled = log[k].settled /\ (log[k].told => log'[k].told)
    BY <1>4, <1>7, <1>8 DEF LogRows
  <2>2. log' \in Seq(LogRows) /\ Len(log') = Len(log) BY <1>6, <2>1, SameLength
  <2>3. Grown(log') BY <2>1, <2>2 DEF Grown
  <2>4. Watching' /\ Reports' /\ Alternates' /\ InAge' BY <1>1, <1>8, <2>3, WalkReports
  <2>5. Paired' BY <2>1, <2>3, PairedKept
  <2>6. Listed'
    <3>1. ASSUME NEW k \in sweep.pending
          PROVE  /\ k \in DOMAIN log' /\ log'[k].settled = "pending"
                 /\ log'[k].event = "online" => log'[k - 1].told \/ k - 1 \in sweep.pending
      <4>1. /\ k \in DOMAIN log /\ log[k].settled = "pending"
            /\ log[k].event = "online" => log[k - 1].told \/ k - 1 \in sweep.pending
        BY <1>1 DEF WatchInv, Listed
      <4>2. log[k].event = "online" => k - 1 \in DOMAIN log
        <5>1. log[k].event = "online" => k # 1 BY <4>1 DEF WatchInv, Alternates
        <5> QED BY <1>4, <4>1, <5>1
      <4> QED BY <2>1, <4>1, <4>2
    <3>2. \A m \in {Min(sweep.pending)} : log'[m].event = "offline" => m = Len(log')
      BY <1>3, <1>4, <1>5, <2>1, <2>2
    <3> QED BY <1>2, <1>8, <3>1, <3>2 DEF Listed
  <2> QED BY <2>4, <2>5, <2>6 DEF WatchInv
<1>9. CASE /\ sweep' = [sweep EXCEPT !.at = "walk", !.pending = @ \ {Min(@)}]
           /\ log' = log \/ (log[i].told /\ log' = [log EXCEPT ![i].settled = "sent"])
  <2>1. /\ sweep'.at = "walk" /\ sweep'.status = sweep.status /\ sweep'.pending = sweep.pending \ {i}
    BY <1>3, <1>6, <1>9 DEF Walking
  <2>2. DOMAIN log' = DOMAIN log /\ \A k \in DOMAIN log :
          /\ log'[k].router = log[k].router /\ log'[k].event = log[k].event /\ log'[k].age = log[k].age
          /\ log'[k].told = log[k].told
          /\ k # i => log'[k] = log[k]
          /\ log[k].settled # "pending" => log'[k].settled # "pending"
          /\ log' # log => log[i].told
    BY <1>4, <1>7, <1>9 DEF LogRows
  <2>3. log' \in Seq(LogRows) /\ Len(log') = Len(log) BY <1>6, <2>2, SameLength
  <2>4. Grown(log') BY <2>2, <2>3 DEF Grown
  <2>5. Watching' /\ Reports' /\ Alternates' /\ InAge' BY <1>1, <2>1, <2>4, WalkReports
  <2>6. Paired'
    <3>1. \A k \in DOMAIN log : ~log'[k].told /\ log[k].settled = "pending" => log'[k].settled = "pending"
      BY <2>2
    <3> QED BY <2>4, <3>1, PairedKept
  <2>7. Listed'
    <3>1. \A k \in sweep'.pending : k \in DOMAIN log /\ k # i BY <1>1, <2>1 DEF WatchInv, Listed
    <3>2. ASSUME NEW k \in sweep'.pending, log[k].event = "online", k - 1 \in sweep.pending
          PROVE  k - 1 \in sweep'.pending
      <4>1. k \in 1..n BY <1>4, <3>1
      <4>2. k - 1 # i
        <5>1. CASE k = i + 1
          <6>1. i < n BY <1>4, <4>1, <5>1
          <6>2. log[i].event = "online" BY <1>3, <1>5, <6>1, LogShape
          <6>3. k # 1 /\ k - 1 = i BY <1>4, <5>1
          <6>4. log[k].event # log[i].event BY <3>1, <6>3 DEF WatchInv, Alternates
          <6> QED BY <3>2, <6>2, <6>4
        <5> QED BY <1>4, <4>1, <5>1
      <4> QED BY <2>1, <3>2, <4>2
    <3>3. \A k \in sweep'.pending : log'[k].settled = log[k].settled BY <2>2, <3>1
    <3> QED BY <1>1, <2>1, <2>4, <3>2, <3>3, ListedKept
  <2> QED BY <2>5, <2>6, <2>7 DEF WatchInv
<1>10. CASE Tell BY <1>3, <1>8, <1>9, <1>10 DEF Tell
<1>11. CASE TellFails BY <1>9, <1>11 DEF TellFails
<1> QED BY <1>10, <1>11

-----------------------------------------------------------------------------
(* The watched router                                                      *)

LEMMA InitWatched == ASSUME MCInit, scene = "watch" PROVE WatchInv
<1>1. /\ log = <<>> /\ sweep = Off /\ request = [r \in Routers |-> <<>>]
      /\ open \in Routers
  BY SceneAssumption DEF MCInit, Init
<1>2. sweep.at = "off" BY <1>1 DEF Off
<1>3. health[open].status = "online" /\ \A r \in Routers \ {open} : health[r].status = "pending"
  BY DEF MCInit, Watched
<1>4. Watching BY <1>1, <1>2, <1>3 DEF Watching
<1>5. Due("none") /\ Told("none") BY <1>1, <1>2, <1>3 DEF Due, Told, Last
<1>6. DOMAIN log = {} BY <1>1
<1>7. Alternates /\ InAge /\ Paired BY <1>6 DEF Alternates, InAge, Paired
<1>8. Listed BY <1>2 DEF Listed
<1> QED BY <1>4, <1>5, <1>7, <1>8 DEF WatchInv, Reports

LEMMA WatchSteps == ASSUME IInv, WatchInv, scene = "watch", Health PROVE WatchInv'
<1>1. Watched = open BY DEF Watched
<1>2. CASE CheckRouters
  BY <1>2, SaveWatched, InsertWatched, QuietWatched, LoudWatched, TellWatched, EndWatched DEF CheckRouters
<1>3. CASE TellFails BY <1>3, TellWatched
<1>4. CASE LogEvent(open) BY <1>4, LogWatched
<1>5. CASE Settled /\ SweepLoad BY <1>5, LoadWatched
<1>6. CASE Tunnel(open) \/ Stale(open) BY <1>6, WorldWatched
<1>7. CASE Settled /\ (Heartbeat(open) \/ Webhook(open)) BY <1>7, RequestWatched
<1>8. CASE \E i \in DOMAIN log : Settled /\ InTime(i) /\ Age(i) BY <1>8, AgeWatched DEF InTime
<1> QED BY <1>1, <1>2, <1>3, <1>4, <1>5, <1>6, <1>7, <1>8 DEF Health, Alone

LEMMA StillWatched == ASSUME IInv, WatchInv, UNCHANGED vars PROVE WatchInv'
<1>1. UNCHANGED <<log, sweep, request, health>> BY DEF vars
<1> QED BY <1>1, StatusStays

\* The outage that goes on is the last event.
LEMMA WatchTells == ASSUME IInv, WatchInv PROVE StatusFollowsLog
<1> SUFFICES ASSUME Settled, Len(log) < MaxLog, NEW r \in Routers
             PROVE  health[r].status = "offline" <=> OpenOutage(r)
  BY DEF StatusFollowsLog
<1>1. PICK n \in Nat : Len(log) = n /\ DOMAIN log = 1..n BY LogShape
<1>2. \A i \in DOMAIN log : log[i].router = open BY DEF WatchInv, Alternates
<1>3. CASE r # open
  <2>1. RowsOf(r) = {} BY <1>2, <1>3 DEF RowsOf
  <2> QED BY <1>3, <2>1 DEF WatchInv, Watching, OpenOutage
<1>4. CASE r = open
  <2>1. RowsOf(r) = 1..n BY <1>1, <1>2, <1>4 DEF RowsOf
  <2>2. health[r].status = Last BY <1>4, AtRest
  <2>3. CASE n = 0
    <3>1. log = <<>> BY <1>1, <2>3, LogShape
    <3> QED BY <2>1, <2>2, <2>3, <3>1 DEF Last, OpenOutage
  <2>4. CASE n # 0
    <3>1. n \in 1..n /\ \A m \in 1..n : n >= m BY <2>4
    <3>2. Max(1..n) = n BY <3>1 DEF Max
    <3>3. log # <<>> BY <1>1, <2>4
    <3>4. Last = log[n].event BY <1>1, <3>3 DEF Last
    <3> QED BY <2>1, <2>2, <3>1, <3>2, <3>4 DEF OpenOutage
  <2> QED BY <2>3, <2>4
<1> QED BY <1>3, <1>4

\* What is written behind the log leaves its rows as they are.
LEMMA RowsKept ==
  ASSUME IInv, NEW more \in Seq(LogRows), log' = Followed(log \o more)
  PROVE  \A k \in DOMAIN log : log'[k] = log[k]
<1>1. PICK n \in Nat : Len(log) = n /\ DOMAIN log = 1..n /\ n <= MaxLog BY LogShape
<1>2. PICK rows \in Seq(LogRows) : rows = log \o more
  <2>1. log \o more \in Seq(LogRows) BY LogShape
  <2> QED BY <2>1
<1>3. Len(rows) = n + Len(more) /\ \A k \in 1..n : rows[k] = log[k]
  <2>1. log \in Seq(LogRows) BY LogShape
  <2>2. Len(log \o more) = Len(log) + Len(more) BY <2>1
  <2>3. \A k \in 1..Len(log) : (log \o more)[k] = log[k] BY <2>1
  <2> QED BY <1>1, <1>2, <2>2, <2>3
<1>4. Len(more) \in Nat /\ Len(rows) \in Nat /\ Len(rows) >= n BY <1>1, <1>3
<1>5. PICK f : f = Followed(rows) /\ f = log' BY <1>2
<1>6. /\ f \in Seq(LogRows) /\ \A k \in DOMAIN f : f[k] = rows[k]
      /\ Len(rows) <= MaxLog => Len(f) = Len(rows)
      /\ Len(rows) >= MaxLog => Len(f) = MaxLog
  BY <1>5, Beginning
<1>7. Len(f) \in Nat /\ DOMAIN f = 1..Len(f) BY <1>6
<1>8. Len(f) >= n BY <1>1, <1>4, <1>6, LogShape
<1>9. \A k \in 1..n : k \in DOMAIN f BY <1>7, <1>8
<1> QED BY <1>1, <1>3, <1>5, <1>6, <1>9

\* Only Tell announces.
LEMMA ToldByTell ==
  ASSUME IInv, WatchInv, scene = "watch", Health, ~Tell, NEW i \in DOMAIN log
  PROVE  log'[i].told = log[i].told
<1>1. CASE UNCHANGED log BY <1>1
<1>2. CASE SweepInsert
  <2>1. sweep.found \in Seq(LogRows) /\ log' = Followed(log \o sweep.found)
    BY <1>2, Holding DEF SweepInsert, Saving
  <2> QED BY <2>1, RowsKept
<1>3. CASE WalkQuietly
  <2>1. \A rows : log' = Quieted(rows) => log'[i].told = log[i].told
    BY LogShape DEF Quieted, LogRows
  <2> QED BY <1>3, <2>1 DEF WalkQuietly
<1>4. CASE LogEvent(open)
  <2>1. PICK e \in {"online", "offline"} : e = Head(request[open])
    BY <1>4, SceneAssumption DEF LogEvent, IInv, TypeOK
  <2>2. PICK x \in LogRows : x = Event(open, e)
    <3>1. Event(open, e) \in LogRows BY EventType, SceneAssumption
    <3> QED BY <3>1
  <2>3. log' = Followed(Append(log, x)) BY <1>4, <2>1, <2>2 DEF LogEvent
  <2>4. Append(log, x) = log \o <<x>> /\ <<x>> \in Seq(LogRows) BY LogShape
  <2> QED BY <2>3, <2>4, RowsKept
<1>5. CASE \E k \in DOMAIN log : Age(k)
  <2>1. log \in [DOMAIN log -> LogRows] BY LogShape
  <2> QED BY <1>5, <2>1 DEF Age, LogRows
<1>6. Watched = open BY SMTT(30) DEF Watched
<1>7. SweepSave \/ WalkLoudly \/ SweepEnd \/ TellFails \/ SweepLoad \/ Tunnel(open) \/ Stale(open)
        \/ Heartbeat(open) \/ Webhook(open) => UNCHANGED log
  BY DEF SweepSave, SaveRouter, WalkLoudly, SweepEnd, TellFails, SweepLoad, Tunnel, Stale, Heartbeat, Webhook
<1> QED BY <1>1, <1>2, <1>3, <1>4, <1>5, <1>6, <1>7 DEF Health, CheckRouters

LEMMA StepEarned ==
  ASSUME IInv, WatchInv, scene = "watch", Health \/ UNCHANGED vars, NEW i \in DOMAIN log
  PROVE  RecoveryIsEarned(i)
<1> SUFFICES ASSUME ~log[i].told, log'[i].told, log[i].event = "online"
             PROVE  \E k \in RowsOf(log[i].router) : k < i /\ log[k].event = "offline" /\ log[k].told
  BY DEF RecoveryIsEarned, Announced
<1>1. log'[i].told # log[i].told OBVIOUS
<1>2. Tell BY <1>1, ToldByTell DEF vars
<1>3. PICK j \in DOMAIN log : /\ j = Min(sweep.pending) /\ j \in sweep.pending
                              /\ \A m \in sweep.pending : j <= m
  BY <1>2, First DEF Tell, WatchInv, Listed
<1>4. j = i
  <2>1. log \in [DOMAIN log -> LogRows] BY LogShape
  <2>2. log' = [log EXCEPT ![j].told = TRUE] \/ log' = [log EXCEPT ![j].settled = "sent"]
    BY <1>2, <1>3 DEF Tell
  <2> QED BY <1>1, <2>1, <2>2 DEF LogRows
<1>5. PICK n \in Nat : Len(log) = n /\ DOMAIN log = 1..n BY LogShape
<1>6. log[i - 1].told \/ i - 1 \in sweep.pending BY <1>2, <1>3, <1>4 DEF Tell, WatchInv, Listed
<1>7. log[i - 1].told BY <1>3, <1>4, <1>5, <1>6
<1>8. i # 1 /\ log[i - 1].event # "online" BY DEF WatchInv, Alternates
<1>9. i - 1 \in DOMAIN log /\ i - 1 < i BY <1>5, <1>8
<1>10. log[i - 1].event = "offline" /\ log[i - 1].router = open /\ log[i].router = open
  BY <1>8, <1>9, LogShape DEF WatchInv, Alternates
<1> QED BY <1>7, <1>9, <1>10 DEF RowsOf

LEMMA FleetNext == [MCNext]_all => [Next]_vars
<1> SUFFICES ASSUME Health PROVE Next BY DEF MCNext, all, vars
<1>1. Watched \in Routers BY SceneAssumption DEF Watched
<1>2. CASE CheckRouters \/ TellFails \/ SweepLoad \/ SweepCrash BY <1>2 DEF Next
<1>3. CASE LogEvent(Watched) \/ (\E i \in DOMAIN log : Age(i)) BY <1>1, <1>3 DEF Next
<1>4. CASE Tunnel(Watched) \/ Stale(Watched) BY <1>1, <1>4 DEF Next, World
<1>5. CASE Heartbeat(Watched) \/ Webhook(Watched) \/ MarkOffline(Watched) BY <1>1, <1>5 DEF Next, Requests
<1> QED BY <1>2, <1>3, <1>4, <1>5 DEF Health

FleetInv == IInv /\ (scene = "watch" => WatchInv)

LEMMA FleetStep == ASSUME FleetInv, [MCNext]_all PROVE FleetInv'
<1>1. IInv /\ IInv' BY FleetNext, NextInv DEF FleetInv
<1>2. ASSUME scene' = "watch" PROVE WatchInv'
  <2>1. scene = "watch" /\ (Health \/ UNCHANGED vars) BY <1>2 DEF MCNext, all
  <2>2. WatchInv BY <2>1 DEF FleetInv
  <2> QED BY <1>1, <2>1, <2>2, WatchSteps, StillWatched
<1> QED BY <1>1, <1>2 DEF FleetInv

\* Of a router that is watched, while check_routers is never late and nobody
\* else is in between: an outage goes on in RouterHealthLog exactly while the
\* status says offline, whatever checks, heartbeats and webhooks find; and
\* nobody is told that it is back who was not told that it was away, although
\* notifications fail (_dispatch_pending_notifications and router_outages).
THEOREM WatchIsKept == MCSpec => WatchedIsTold
<1>1. MCInit => FleetInv BY InitInv, InitWatched DEF MCInit, FleetInv
<1>2. FleetInv /\ [MCNext]_all => FleetInv' BY FleetStep
<1>3. FleetInv => TypeOK /\ (scene = "watch" => StatusFollowsLog) BY WatchTells DEF FleetInv, IInv
<1>4. FleetInv /\ [MCNext]_all =>
        [scene = "watch" => \A i \in DOMAIN log : RecoveryIsEarned(i)]_all
  <2> SUFFICES ASSUME FleetInv, MCNext, scene = "watch", NEW i \in DOMAIN log
               PROVE  RecoveryIsEarned(i)
    OBVIOUS
  <2>1. Health BY DEF MCNext
  <2> QED BY <2>1, StepEarned DEF FleetInv
<1>5. FleetInv /\ [][MCNext]_all => [](TypeOK /\ (scene = "watch" => StatusFollowsLog))
  BY <1>2, <1>3, PTL
<1>6. FleetInv /\ [][MCNext]_all =>
        [][scene = "watch" => \A i \in DOMAIN log : RecoveryIsEarned(i)]_all
  BY <1>2, <1>4, PTL
<1> QED BY <1>1, <1>5, <1>6, PTL DEF MCSpec, WatchedIsTold

-----------------------------------------------------------------------------
(* Ports: the wiring of a board                                            *)

\* One wired port is the WAN of explicit roles, and the platform knows their ports.
OneWan(roles) == Explicit(roles) => \E w \in DOMAIN roles \cap Ethers :
  /\ roles[w] = "wan"
  /\ \A p \in DOMAIN roles : roles[p] = "wan" => p = w
Sound(roles) == roles \in Assignments /\ DOMAIN roles \subseteq Entry /\ OneWan(roles)
\* Who phones home, or waits no more, has only its bootstrap.
Asker == fetch.at # "none" /\ (fetch.home \/ ~fetch.heard) => unit.phase = "boot"
WiringInv == WiringType /\ Sound(assigned) /\ Sound(fetch.roles) /\ Asker

LEMMA RolesType ==
  ASSUME NEW roles \in Assignments
  PROVE  DOMAIN roles \subseteq AllPorts /\ \A p \in DOMAIN roles : roles[p] \in Roles
<1> PICK S \in SUBSET AllPorts : roles \in [S -> Roles] BY DEF Assignments
<1> QED OBVIOUS

LEMMA NoRolesSound == Sound(NoRoles) /\ NoFetch \in Fetches /\ NoFetch.roles = NoRoles
<1>1. DOMAIN NoRoles = {} BY DEF NoRoles
<1>2. {} \in SUBSET AllPorts /\ NoRoles \in [{} -> Roles] BY DEF NoRoles
<1>3. NoRoles \in Assignments BY <1>2 DEF Assignments
<1> QED BY <1>1, <1>3 DEF Sound, OneWan, Explicit, NoFetch, Fetches, Modes

\* The ports of a role are those that have it; the WAN of a script is a wired port.
LEMMA TaggedPorts ==
  ASSUME NEW roles, Sound(roles), NEW role
  PROVE  Tagged(roles, role) = {e \in Ethers \cap DOMAIN roles : roles[e] = role}
BY DEF Tagged, Sound

LEMMA WanIsWired ==
  ASSUME WiringInv, NEW roles, Sound(roles)
  PROVE  /\ Wan(unit, roles) \in Ethers
         /\ Explicit(roles) => /\ Wan(unit, roles) = ExplicitWan(roles)
                               /\ \A p \in DOMAIN roles : roles[p] = "wan" => p = ExplicitWan(roles)
<1>1. CASE ~Explicit(roles) BY <1>1, PortAssumption DEF Wan, AutoWan, WiringInv, WiringType
<1>2. CASE Explicit(roles)
  <2>1. PICK w \in DOMAIN roles \cap Ethers :
          roles[w] = "wan" /\ \A p \in DOMAIN roles : roles[p] = "wan" => p = w
    BY <1>2 DEF Sound, OneWan
  <2>2. Tagged(roles, "wan") = {w} BY <2>1, TaggedPorts
  <2>3. ExplicitWan(roles) = w BY <2>2 DEF ExplicitWan
  <2> QED BY <1>2, <2>1, <2>3 DEF Wan
<1> QED BY <1>1, <1>2

LEMMA AppliedType ==
  ASSUME WiringInv, NEW roles, Sound(roles), NEW mode
  PROVE  /\ Applied(unit, roles, mode) \in Units
         /\ Applied(unit, roles, mode).wan = Wan(unit, roles)
<1> PICK u \in Units, w \in Ethers : u = unit /\ w = Wan(unit, roles)
  BY WanIsWired DEF WiringInv, WiringType
<1>1. u.dhcp \in SUBSET Ethers /\ u.bridge \in [AllPorts -> Bridges]
      /\ u.servers \in SUBSET {"hotspot", "pppoe"}
  BY DEF Units
<1> DEFINE B == [p \in AllPorts |->
     IF p = w THEN u.bridge[p]
     ELSE IF p \in Ethers /\ Explicit(roles) THEN ExplicitBridge(roles, p) ELSE AutoBridge(u, p)]
           V == IF mode = "hotspot" THEN u.servers ELSE u.servers \cup {PppoeBridge(roles)}
<1>2. B \in [AllPorts -> Bridges] BY <1>1 DEF AutoBridge, ExplicitBridge, Bridges
<1>3. V \in SUBSET {"hotspot", "pppoe"} BY <1>1 DEF PppoeBridge
<1>4. Applied(unit, roles, mode)
        = [phase |-> "running", wan |-> w, dhcp |-> u.dhcp \cap {w}, bridge |-> B, servers |-> V]
  BY DEF Applied
<1> HIDE DEF B, V
<1> QED BY <1>1, <1>2, <1>3, <1>4 DEF Units

LEMMA BootedType == Booted(Ethers) \in Units /\ Booted({ether1}) \in Units
BY PortAssumption DEF Booted, Units, Bridges

LEMMA WiringInit_Inv ==
  ASSUME WiringInit, unit \in {Booted(Ethers), Booted({ether1})}, cable \in Ethers PROVE WiringInv
<1>1. Sound(assigned) /\ fetch \in Fetches /\ Sound(fetch.roles) BY NoRolesSound DEF WiringInit
<1>2. fetch.at = "none" BY DEF WiringInit, NoFetch
<1> QED BY <1>1, <1>2, BootedType DEF WiringInit, WiringInv, WiringType, Asker, Modes, Sound

-----------------------------------------------------------------------------
(* The invariant is kept                                                   *)

LEMMA TopologyIsSound ==
  ASSUME NEW S, NEW a \in [S -> Roles], SetTopology(a) PROVE Sound(a)
<1>1. S \subseteq Entry /\ Entry \subseteq AllPorts BY PortAssumption DEF SetTopology, Entry, AllPorts
<1>2. a \in Assignments BY <1>1 DEF Assignments
<1>3. OneWan(a)
  <2> DEFINE W == {p \in S : a[p] = "wan"}
  <2>1. Cardinality(W) = 1 BY DEF SetTopology
  <2>2. IsFiniteSet(W) BY <1>1, PortAssumption, FS_Subset DEF AllPorts
  <2>3. PICK w : W = {w} BY <2>1, <2>2, FS_Singleton
  <2>4. w \in S /\ a[w] = "wan" /\ \A p \in S : a[p] = "wan" => p = w BY <2>3
  <2>5. w \in Ethers BY <1>1, <2>4 DEF SetTopology, AllPorts
  <2> QED BY <2>4, <2>5 DEF OneWan
<1> QED BY <1>1, <1>2, <1>3 DEF Sound

\* What is known of roles stays true while the platform learns of ports.
LEMMA SoundStays ==
  ASSUME NEW roles, Sound(roles), announced => announced' PROVE Sound(roles)'
<1>1. Entry \subseteq Entry' BY PortAssumption DEF Entry, AllPorts
<1> QED BY <1>1 DEF Sound, OneWan, Explicit

\* A step that writes the row, and leaves the device and its request.
LEMMA RowStep ==
  ASSUME WiringInv, UNCHANGED <<announced, fetch, unit, cable>>,
         assigned' = assigned \/ Sound(assigned'),
         service' \in Modes, flagged' \in BOOLEAN, tick' \in {{}, {TRUE}, {FALSE}}
  PROVE  WiringInv'
<1>1. Entry' = Entry BY DEF Entry
<1>2. Sound(assigned)' BY <1>1 DEF WiringInv, Sound, OneWan, Explicit
<1>3. Sound(fetch.roles)' BY <1>1 DEF WiringInv, Sound, OneWan, Explicit
<1> QED BY <1>2, <1>3 DEF WiringInv, WiringType, Asker, Sound

\* A step of the device or of its request.
LEMMA UnitStep ==
  ASSUME WiringInv, UNCHANGED <<tick>>, service' \in Modes, flagged' \in BOOLEAN,
         announced => announced', announced' \in BOOLEAN, unit' \in Units, cable' \in Ethers,
         fetch' \in Fetches, fetch'.roles \in {assigned, fetch.roles, NoRoles},
         assigned' \in {assigned, fetch.roles}, Asker'
  PROVE  WiringInv'
<1>1. Sound(assigned)'
  <2>1. CASE assigned' = assigned BY <2>1, SoundStays DEF WiringInv
  <2>2. CASE assigned' = fetch.roles
    <3> DEFINE r == fetch.roles
    <3>1. Entry \subseteq Entry' BY PortAssumption DEF Entry, AllPorts
    <3>2. Sound(r) BY DEF WiringInv
    <3> HIDE DEF r
    <3> QED BY <2>2, <3>1, <3>2 DEF Sound, OneWan, Explicit, r
  <2> QED BY <2>1, <2>2
<1>2. Sound(fetch.roles)'
  <2> PICK r : r = fetch'.roles /\ Sound(r) BY NoRolesSound DEF WiringInv
  <2>1. Entry \subseteq Entry' BY PortAssumption DEF Entry, AllPorts
  <2> QED BY <2>1 DEF Sound, OneWan, Explicit
<1> QED BY <1>1, <1>2 DEF WiringInv, WiringType, Sound

LEMMA ClearInv == ASSUME WiringInv, Clear PROVE WiringInv'
<1>1. PICK f \in Fetches : f = fetch BY DEF WiringInv, WiringType
<1>2. fetch' = [f EXCEPT !.at = "sent"] /\ f.at = "loaded" BY <1>1 DEF Clear
<1>3. fetch' \in Fetches /\ fetch'.roles = f.roles /\ fetch'.home = f.home /\ fetch'.heard = f.heard
      /\ fetch'.at # "none"
  BY <1>2 DEF Fetches
<1>4. Asker' BY <1>1, <1>2, <1>3 DEF Asker, Clear, WiringInv
<1>5. UNCHANGED <<tick, announced, unit, cable>> /\ assigned' \in {assigned, f.roles}
      /\ service' \in {service, f.service} /\ flagged' \in {FALSE, f.flagged}
  BY <1>1 DEF Clear
<1>6. f.service \in Modes /\ f.flagged \in BOOLEAN BY DEF Fetches
<1> QED BY <1>1, <1>3, <1>4, <1>5, <1>6, UnitStep DEF WiringInv, WiringType

LEMMA AskInv == ASSUME WiringInv, Ask PROVE WiringInv'
<1>1. fetch' = [at |-> "loaded", home |-> unit.phase = "boot", heard |-> TRUE,
                roles |-> assigned, service |-> service, flagged |-> flagged]
  BY DEF Ask
<1>2. fetch' \in Fetches /\ fetch'.roles = assigned /\ fetch'.heard /\ (fetch'.home => unit.phase = "boot")
  BY <1>1 DEF Fetches, WiringInv, WiringType
<1>3. UNCHANGED <<routerRow, tick, announced, unit, cable>> BY DEF Ask
<1>4. Asker' BY <1>2, <1>3 DEF Asker
<1> QED BY <1>2, <1>3, <1>4, UnitStep DEF WiringInv, WiringType, routerRow

LEMMA ArriveInv == ASSUME WiringInv, Arrive PROVE WiringInv'
<1>1. unit' \in Units BY AppliedType DEF Arrive, WiringInv
<1>2. fetch' \in Fetches /\ fetch'.roles = NoRoles /\ Asker'
  BY NoRolesSound DEF Arrive, NoFetch, Asker
<1> QED BY <1>1, <1>2, UnitStep DEF Arrive, WiringInv, WiringType, routerRow

LEMMA LostInv == ASSUME WiringInv, Lost PROVE WiringInv'
<1>1. fetch' \in Fetches /\ fetch'.roles = NoRoles /\ Asker'
  BY NoRolesSound DEF Lost, NoFetch, Asker
<1> QED BY <1>1, UnitStep DEF Lost, WiringInv, WiringType, routerRow

LEMMA ResetInv == ASSUME WiringInv, Reset PROVE WiringInv'
<1>1. PICK f \in Fetches : f = fetch BY DEF WiringInv, WiringType
<1>2. fetch' = [f EXCEPT !.heard = FALSE] BY <1>1 DEF Reset
<1>3. fetch' \in Fetches /\ fetch'.roles = f.roles BY <1>2 DEF Fetches
<1>4. unit' \in Units /\ unit'.phase = "boot" BY BootedType DEF Reset, Booted
<1>5. Asker' BY <1>4 DEF Asker
<1> QED BY <1>1, <1>3, <1>4, <1>5, UnitStep DEF Reset, WiringInv, WiringType, routerRow

LEMMA TickSaves == ASSUME WiringInv, TickSave PROVE flagged' = TRUE \/ (flagged' = FALSE /\ tick = {FALSE})
<1>1. tick = {TRUE} \/ tick = {FALSE} BY Zenon DEF TickSave, WiringInv, WiringType
<1>2. flagged' \in tick \cup {TRUE} BY Zenon DEF TickSave
<1>3. CASE tick = {TRUE} BY <1>2, <1>3, Zenon
<1>4. CASE tick = {FALSE} BY <1>2, <1>4, Zenon
<1> QED BY <1>1, <1>3, <1>4, Zenon

LEMMA WiringStep == ASSUME WiringInv, Wiring \/ UNCHANGED wiring PROVE WiringInv'
<1> USE DEF routerRow
<1>1. ASSUME NEW S \in Chosen, NEW a \in [S -> Roles], SetTopology(a) PROVE WiringInv'
  <2>1. Sound(a) /\ assigned' = a BY <1>1, TopologyIsSound DEF SetTopology
  <2> QED BY <1>1, <2>1, RowStep DEF SetTopology, WiringInv, WiringType
<1>2. ASSUME NEW mode \in Modes, SetServiceMode(mode) PROVE WiringInv'
  BY <1>2, RowStep DEF SetServiceMode, WiringInv, WiringType
<1>3. CASE Reflag BY <1>3, RowStep DEF Reflag, WiringInv, WiringType
<1>4. CASE TickLoad BY <1>4, RowStep DEF TickLoad, WiringInv, WiringType
<1>5. CASE TickSave
  <2>1. flagged' \in BOOLEAN BY <1>5, TickSaves, Zenon
  <2> QED BY <1>5, <2>1, RowStep DEF TickSave, WiringInv, WiringType
<1>6. CASE TickKilled BY <1>6, RowStep DEF TickKilled, WiringInv, WiringType
<1>7. ASSUME NEW p \in Ethers, Plug(p) PROVE WiringInv'
  BY <1>7, UnitStep DEF Plug, WiringInv, WiringType, Asker
<1>8. CASE Announce BY <1>8, UnitStep DEF Announce, WiringInv, WiringType, Asker
<1>9. CASE UNCHANGED wiring BY <1>9, RowStep DEF wiring, WiringInv, WiringType
<1> QED
  BY <1>1, <1>2, <1>3, <1>4, <1>5, <1>6, <1>7, <1>8, <1>9, ResetInv, AskInv, ClearInv, ArriveInv, LostInv
  DEF Wiring, Modes

-----------------------------------------------------------------------------
(* Roles that are asked for are delivered                                  *)

\* A device that applied a script runs the roles the script was made of.
LEMMA AppliedRuns ==
  ASSUME WiringInv, NEW roles, Sound(roles), Explicit(roles), NEW mode,
         unit' = Applied(unit, roles, mode)
  PROVE  Runs(roles)'
<1> SUFFICES ASSUME NEW e \in Ethers, e # unit'.wan
             PROVE  unit'.bridge[e] = IF e \in DOMAIN roles /\ roles[e] # "wan" THEN roles[e] ELSE "none"
  BY DEF Runs
<1>1. unit'.wan = Wan(unit, roles) BY AppliedType
<1>2. e \in AllPorts BY DEF AllPorts
<1>3. unit'.bridge[e] = ExplicitBridge(roles, e) BY <1>1, <1>2 DEF Applied
<1>4. e \in DOMAIN roles => roles[e] \in {"hotspot", "pppoe"}
  BY <1>1, WanIsWired, RolesType DEF Sound, Roles
<1>5. \A role : e \in Tagged(roles, role) <=> (e \in DOMAIN roles /\ roles[e] = role)
  BY TaggedPorts
<1> QED BY <1>3, <1>4, <1>5 DEF ExplicitBridge

LEMMA ClearDelivers == ASSUME WiringInv, Delivered, Clear PROVE Delivered' \/ Slip
<1>1. PICK f \in Fetches : f = fetch BY DEF WiringInv, WiringType
<1>2. fetch' = [f EXCEPT !.at = "sent"] /\ f.at = "loaded" BY <1>1 DEF Clear
<1>3. fetch'.at = "sent" /\ fetch'.heard = f.heard /\ fetch'.roles = f.roles BY <1>2 DEF Fetches
<1>4. unit' = unit /\ (~f.heard => unit.phase = "boot") BY <1>1, <1>2 DEF Clear, WiringInv, Asker
<1>5. CASE ~f.heard BY <1>3, <1>4, <1>5 DEF Delivered, Coming
<1>6. CASE f.heard
  <2>1. CASE f.home BY <1>1, <1>3, <1>6, <2>1 DEF Delivered, Coming, Clear
  <2>2. CASE ~f.home BY <1>1, <1>3, <1>6, <2>2 DEF Delivered, Coming, Clear, Slip
  <2> QED BY <2>1, <2>2
<1> QED BY <1>5, <1>6

LEMMA ArriveDelivers == ASSUME WiringInv, Delivered, Arrive PROVE Delivered'
<1>1. UNCHANGED <<assigned, flagged>> /\ fetch'.at = "none" BY DEF Arrive, routerRow, NoFetch
<1>2. CASE flagged \/ ~Explicit(assigned) BY <1>1, <1>2 DEF Delivered, Explicit
<1>3. CASE ~flagged /\ Explicit(assigned)
  <2>1. fetch.roles = assigned BY <1>3 DEF Delivered, Coming, Arrive
  <2>2. unit' = Applied(unit, assigned, fetch.service) BY <2>1 DEF Arrive
  <2>3. Sound(assigned) BY DEF WiringInv
  <2>4. Runs(assigned)' BY <1>1, <1>3, <2>2, <2>3, AppliedRuns DEF Runs
  <2> QED BY <1>1, <2>4 DEF Delivered, Coming
<1> QED BY <1>2, <1>3

LEMMA LostDelivers == ASSUME WiringInv, Delivered, Lost PROVE Delivered' \/ Slip
<1>1. UNCHANGED <<assigned, flagged, unit>> /\ fetch'.at = "none" BY DEF Lost, routerRow, NoFetch
<1>2. CASE fetch.home
  <2>1. unit'.phase = "boot" BY <1>1, <1>2 DEF Lost, WiringInv, Asker
  <2> QED BY <1>1, <2>1 DEF Delivered, Coming
<1>3. CASE ~fetch.home BY <1>1, <1>3 DEF Delivered, Slip
<1> QED BY <1>2, <1>3

LEMMA RolesStep == ASSUME WiringInv, Wiring \/ UNCHANGED wiring PROVE RolesDelivered
<1> SUFFICES ASSUME Delivered PROVE Delivered' \/ Slip BY DEF RolesDelivered
<1> USE DEF routerRow
<1>1. CASE (\E S \in Chosen : \E a \in [S -> Roles] : SetTopology(a)) \/ (\E mode \in Modes : SetServiceMode(mode)) \/ Reflag
  BY <1>1 DEF SetTopology, SetServiceMode, Reflag, Delivered
<1>2. CASE TickLoad \/ TickKilled \/ Announce \/ (\E p \in Ethers : Plug(p)) \/ UNCHANGED wiring
  BY <1>2 DEF TickLoad, TickKilled, Announce, Plug, wiring, Delivered, Coming, Runs, Explicit
<1>3. CASE TickSave
  <2>1. CASE flagged' = TRUE BY <2>1 DEF Delivered
  <2>2. CASE flagged' # TRUE
    <3>1. tick = {FALSE} BY <1>3, <2>2, TickSaves, Zenon
    <3>2. CASE flagged BY <1>3, <3>1, <3>2 DEF Slip
    <3>3. CASE ~flagged BY <1>3, <3>3 DEF TickSave, Delivered, Coming, Runs, Explicit
    <3> QED BY <3>2, <3>3
  <2> QED BY <2>1, <2>2
<1>4. CASE Reset
  <2>1. PICK f \in Fetches : f = fetch BY DEF WiringInv, WiringType
  <2>2. ~fetch'.heard /\ unit'.phase = "boot" BY <1>4, <2>1 DEF Reset, Booted, Fetches
  <2> QED BY <2>2 DEF Delivered, Coming
<1>5. CASE Ask
  <2>1. fetch'.at = "loaded" /\ fetch'.heard /\ fetch'.roles = assigned /\ assigned' = assigned
    BY <1>5 DEF Ask
  <2> QED BY <2>1 DEF Delivered, Coming
<1> QED BY <1>1, <1>2, <1>3, <1>4, <1>5, ClearDelivers, ArriveDelivers, LostDelivers DEF Wiring, Modes

LEMMA UplinkStep == ASSUME WiringInv PROVE UplinkKept
<1> DEFINE roles == fetch.roles
<1> SUFFICES ASSUME Arrive, Online(unit), ~Explicit(roles) \/ ExplicitWan(roles) = cable
             PROVE  Online(unit')
  BY DEF UplinkKept
<1>1. cable' = cable /\ unit' = Applied(unit, roles, fetch.service) /\ cable \in unit.dhcp
  BY DEF Arrive, Online
<1>2. Wan(unit, roles) = cable BY <1>1 DEF Wan, AutoWan, Online
<1>3. unit'.dhcp = unit.dhcp \cap {cable} BY <1>1, <1>2 DEF Applied
<1> QED BY <1>1, <1>3 DEF Online

\* Whatever roles a reseller gives the ports of a board, whatever the board ran
\* before, and wherever requests are cut off: from when a script is asked for, the
\* roles of the row stay asked for, on their way or run by the device, and it runs
\* them once the script arrived; only an answer that is lost or overtaken after its
\* flag was cleared, or the sweep's save of an old flag, comes between.
\* And no script cuts the connection it came over unless it was told to use another port
\* (router_heartbeat, router_provision, routers/views.py; generate_provision_rsc,
\* routers/provision.py).
THEOREM RolesReachTheBoard == MCSpec => WiringHolds
<1>1. MCInit => WiringInv /\ Delivered
  <2> SUFFICES ASSUME MCInit PROVE WiringInv /\ Delivered OBVIOUS
  <2>1. cable \in Ethers /\ unit \in {Booted(Ethers), Booted({ether1})} /\ WiringInit
    BY DEF MCInit, WiringInit
  <2>2. ~Explicit(assigned) BY <2>1 DEF WiringInit, NoRoles, Explicit
  <2> QED BY <2>1, <2>2, WiringInit_Inv DEF Delivered
<1>2. [MCNext]_all => Wiring \/ UNCHANGED wiring BY DEF MCNext, all, wiring
<1>3. WiringInv /\ [MCNext]_all => WiringInv' BY <1>2, WiringStep
<1>4. WiringInv /\ [MCNext]_all => RolesDelivered /\ UplinkKept BY <1>2, RolesStep, UplinkStep
<1>5. WiringInv => WiringType BY DEF WiringInv
<1>6. WiringInv /\ [][MCNext]_all => []WiringType BY <1>3, <1>5, PTL
<1>7. WiringInv /\ [][MCNext]_all => [][RolesDelivered /\ UplinkKept]_wiring BY <1>3, <1>4, PTL
<1> QED BY <1>1, <1>6, <1>7, PTL DEF MCSpec, WiringHolds
=============================================================================
