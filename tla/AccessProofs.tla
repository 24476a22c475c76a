---------------------------- MODULE AccessProofs ----------------------------
(***************************************************************************)
(* Theorems about Access for any subscribers, plans, requests and clock:   *)
(* its state keeps its types, and no order of statements puts a token into *)
(* radcheck where the PIN of a manually created subscriber must stay.      *)
(* While processes do not overlap a subscriber has one active subscription *)
(* at most, RADIUS follows the subscriptions and the tokens, no PIN is     *)
(* undone, and a login leaves RADIUS right for the customer.               *)
(***************************************************************************)
EXTENDS MCAccess, TLAPS, FiniteSetTheorems, SequenceTheorems

\* A statement that a process may still have to execute while there are n
\* subscription rows: it gives no manual subscriber a token.
Sound(n) == {o \in Statements :
  /\ o.op = "check" /\ o.user \in Manual => o.secret.kind = "pin"
  /\ o.op \in {"overdue", "lapse"} => o.row \in 1..n}
Scripts(n) == Seq(Sound(n))

Typed ==
  /\ alive \subseteq Subscribers
  /\ pin \in [Subscribers -> Secrets] /\ token \in [Subscribers -> Secrets]
  /\ subs \in Seq(SubscriptionRows)
  /\ group \in [Phones -> SUBSET Plans] /\ check \in [Phones -> SUBSET Secrets]
  /\ now \in 0..MaxTime /\ served \in 0..MaxRequests
OnlineTyped ==
  /\ online = [ph \in Phones |-> online[ph]]
  /\ \A ph \in Phones : \A x \in online[ph] : x.secret \in Secrets /\ x.groups \subseteq Plans
ScriptsSound == todo \in [Processes -> Scripts(Len(subs))]

IInv == Typed /\ OnlineTyped /\ ScriptsSound /\ ManualNeverToken

-----------------------------------------------------------------------------
(* Statements and scripts                                                  *)

LEMMA Joined == ASSUME NEW S, NEW a \in Seq(S), NEW b \in Seq(S) PROVE a \o b \in Seq(S)
OBVIOUS

LEMMA One == ASSUME NEW S, NEW o \in S PROVE <<o>> \in Seq(S)
OBVIOUS

LEMMA Widened == ASSUME NEW S, NEW T, S \subseteq T PROVE Seq(S) \subseteq Seq(T)
OBVIOUS

LEMMA SubSeqs ==
  ASSUME NEW S, NEW s \in Seq(S), NEW n \in 1..Len(s)
  PROVE  SubSeq(s, n + 1, Len(s)) \in Seq(S)
OBVIOUS

LEMMA Halves ==
  ASSUME NEW S, NEW s \in Seq(S), s # <<>> PROVE Head(s) \in S /\ Tail(s) \in Seq(S)
OBVIOUS

LEMMA MoreRows ==
  ASSUME NEW m \in Nat, NEW n \in Nat, m <= n PROVE Sound(m) \subseteq Sound(n)
BY DEF Sound

\* What the operation of a statement says of its arguments.
LEMMA Arguments ==
  ASSUME NEW n, NEW o \in Sound(n)
  PROVE  /\ o.op \in {"expire", "ungroup", "uncheck", "kick", "erase", "insert", "group", "check",
                      "login", "save", "buy"} => o.user \in Subscribers
         /\ o.op \in {"insert", "group", "buy"} => o.plan \in Plans
         /\ o.op \in {"check", "login", "buy", "overdue"} => o.secret \in Secrets
         /\ o.op = "save" => o.pin \in Secrets /\ o.token \in Secrets
         /\ o.op \in {"overdue", "lapse"} => o.row \in 1..n
         /\ o.op = "check" /\ o.user \in Manual => o.secret.kind = "pin"
BY DEF Sound, Statements

LEMMA SimpleScripts ==
  ASSUME NEW n, NEW u \in Subscribers
  PROVE  /\ Expire(u) \in Scripts(n) /\ Ungroup(u) \in Scripts(n) /\ Uncheck(u) \in Scripts(n)
         /\ Kick(u) \in Scripts(n) /\ <<[op |-> "erase", user |-> u]>> \in Scripts(n)
<1>1. ASSUME NEW op \in {"expire", "ungroup", "uncheck", "kick", "erase"}
      PROVE  <<[op |-> op, user |-> u]>> \in Scripts(n)
  <2>1. [op |-> op, user |-> u] \in Sound(n) BY DEF Sound, Statements
  <2> QED BY <2>1, One DEF Scripts
<1> QED BY <1>1 DEF Expire, Ungroup, Uncheck, Kick

LEMMA PlanScripts ==
  ASSUME NEW n, NEW u \in Subscribers, NEW p \in Plans
  PROVE  Insert(u, p) \in Scripts(n) /\ Group(u, p) \in Scripts(n)
<1>1. ASSUME NEW op \in {"insert", "group"}
      PROVE  <<[op |-> op, user |-> u, plan |-> p]>> \in Scripts(n)
  <2>1. [op |-> op, user |-> u, plan |-> p] \in Sound(n) BY DEF Sound, Statements
  <2> QED BY <2>1, One DEF Scripts
<1> QED BY <1>1 DEF Insert, Group

LEMMA SaveScript ==
  ASSUME NEW n, NEW u \in Subscribers, NEW s \in Secrets, NEW t \in Secrets
  PROVE  [op |-> "save", user |-> u, pin |-> s, token |-> t] \in Sound(n)
BY DEF Sound, Statements

LEMMA PasswordScript ==
  ASSUME NEW n, NEW u \in Subscribers, NEW s \in Secrets, u \in Manual => s.kind = "pin"
  PROVE  SetPassword(u, s) \in Scripts(n)
<1>1. [op |-> "check", user |-> u, secret |-> s] \in Sound(n) BY DEF Sound, Statements
<1>2. Check(u, s) \in Scripts(n) BY <1>1, One DEF Check, Scripts
<1> QED BY <1>2, SimpleScripts, Joined DEF SetPassword, Scripts

LEMMA AssignScript ==
  ASSUME NEW n, NEW u \in Subscribers, NEW p \in Plans, NEW t \in Secrets
  PROVE  /\ UpdateCheck(u, t) \in Scripts(n) /\ Assign(u, p, t) \in Scripts(n)
         /\ Activate(u, p, t) \in Scripts(n) /\ RemoveRadius(u) \in Scripts(n)
<1>1. UpdateCheck(u, t) \in Scripts(n) BY PasswordScript DEF UpdateCheck, Scripts
<1>2. Ungroup(u) \o Group(u, p) \in Scripts(n)
  BY SimpleScripts, PlanScripts, Joined DEF Scripts
<1>3. Assign(u, p, t) \in Scripts(n) BY <1>1, <1>2, Joined DEF Assign, Scripts
<1>4. Expire(u) \o Insert(u, p) \in Scripts(n)
  BY SimpleScripts, PlanScripts, Joined DEF Scripts
<1>5. Activate(u, p, t) \in Scripts(n) BY <1>3, <1>4, Joined DEF Activate, Scripts
<1>6. RemoveRadius(u) \in Scripts(n) BY SimpleScripts, Joined DEF RemoveRadius, Scripts
<1> QED BY <1>1, <1>3, <1>5, <1>6

LEMMA Fresh ==
  ASSUME Typed, NEW u \in Subscribers
  PROVE  /\ NewPin(u) \in Secrets /\ NewPin(u).kind = "pin" /\ NewToken(u) \in Secrets
         /\ pin[u] \in Secrets /\ token[u] \in Secrets
BY BoundsAssumption DEF Typed, NewPin, NewToken, Secret, Secrets

-----------------------------------------------------------------------------
(* radcheck and the processes                                              *)

\* A handler writes the password rows of one subscriber.
LEMMA CheckWritten ==
  ASSUME IInv, NEW v \in Subscribers, NEW X \in SUBSET Secrets,
         check' = [check EXCEPT ![Phone[v]] = X],
         v \in Manual /\ Alone(v) => \A s \in X : s.kind = "pin"
  PROVE  check' \in [Phones -> SUBSET Secrets] /\ ManualNeverToken'
<1>1. Phone[v] \in Phones BY PhoneAssumption
<1>2. check' \in [Phones -> SUBSET Secrets] BY <1>1 DEF IInv, Typed
<1>3. ASSUME NEW u \in Manual, Alone(u) PROVE \A s \in check'[Phone[u]] : s.kind = "pin"
  <2>1. u \in Subscribers /\ Phone[u] \in Phones BY PhoneAssumption, ManualAssumption
  <2>2. CASE Phone[v] = Phone[u]
    <3>1. v = u BY <2>2, <1>3 DEF Alone
    <3> QED BY <3>1, <1>1, <1>3 DEF IInv, Typed
  <2>3. CASE Phone[v] # Phone[u] BY <2>1, <2>3, <1>1, <1>3 DEF IInv, Typed, ManualNeverToken
  <2> QED BY <2>2, <2>3
<1> QED BY <1>2, <1>3 DEF ManualNeverToken, Alone

\* A process goes on, and the subscription table does not shrink.
LEMMA GoesOn ==
  ASSUME IInv, NEW q \in Processes, NEW s \in Scripts(Len(subs')),
         todo' = [todo EXCEPT ![q] = s],
         Len(subs') \in Nat, Len(subs') >= Len(subs)
  PROVE  ScriptsSound'
<1>1. Len(subs) \in Nat BY DEF IInv, Typed
<1>2. Scripts(Len(subs)) \subseteq Scripts(Len(subs')) BY <1>1, MoreRows, Widened DEF Scripts
<1> QED BY <1>2 DEF IInv, ScriptsSound

\* A process goes on while nothing but the named columns changes.
LEMMA Idles ==
  ASSUME IInv, UNCHANGED <<alive, pin, token, group, check, online>>,
         subs' \in Seq(SubscriptionRows), Len(subs') >= Len(subs),
         now' \in 0..MaxTime, served' \in 0..MaxRequests, ScriptsSound'
  PROVE  IInv'
BY DEF IInv, Typed, OnlineTyped, ManualNeverToken, Alone

-----------------------------------------------------------------------------
(* Requests                                                                *)

LEMMA ServeInv ==
  ASSUME IInv, NEW w \in Workers, NEW s \in Scripts(Len(subs)), Serve(w, s),
         alive' \in SUBSET Subscribers, token' \in [Subscribers -> Secrets],
         UNCHANGED <<pin, subs, radius, online, now>>
  PROVE  IInv'
<1>1. served' \in 0..MaxRequests BY BoundsAssumption DEF Serve, IInv, Typed
<1>2. subs' = subs /\ subs \in Seq(SubscriptionRows) /\ Len(subs) \in Nat BY DEF IInv, Typed
<1>3. s \in Scripts(Len(subs')) /\ Len(subs') \in Nat /\ Len(subs') >= Len(subs) BY <1>2
<1>4. w \in Processes /\ todo' = [todo EXCEPT ![w] = s] BY DEF Serve, Processes
<1>5. ScriptsSound' BY <1>3, <1>4, GoesOn
<1> QED BY <1>1, <1>2, <1>5 DEF IInv, Typed, OnlineTyped, ManualNeverToken, Alone, radius

LEMMA RequestInv == ASSUME IInv, NEW w \in Workers, Request(w) PROVE IInv'
<1> DEFINE n == Len(subs)
<1> PICK u \in Subscribers :
      \/ Login(w, u) \/ DisconnectAll(w, u) \/ DeleteAccount(w, u) \/ ChangePin(w, u)
      \/ CreateManual(w, u)
      \/ \E p \in Plans : \/ SignUp(w, u, p) \/ ChangePlan(w, u, p)
                          \/ RechargeComplete(w, u, p) \/ PurchaseFromWallet(w, u, p)
  BY DEF Request
<1>0. Typed /\ NewPin(u) \in Secrets /\ NewPin(u).kind = "pin" /\ NewToken(u) \in Secrets
      /\ pin[u] \in Secrets /\ token[u] \in Secrets
  BY Fresh DEF IInv
<1>k. Kick(u) \in Scripts(n) BY SimpleScripts
<1>s. \A s, t \in Secrets : Save(u, s, t) \in Scripts(n) BY SaveScript, One DEF Save, Scripts
<1>u. UpdateCheck(u, NewToken(u)) \in Scripts(n)
  BY <1>0, PasswordScript DEF UpdateCheck, Scripts
<1>1. CASE Login(w, u)
  <2>1. [op |-> "login", user |-> u, secret |-> NewToken(u)] \in Sound(n)
    BY <1>0 DEF Sound, Statements
  <2>2. <<[op |-> "login", user |-> u, secret |-> NewToken(u)]>> \in Scripts(n)
    BY <2>1, One DEF Scripts
  <2>3. Save(u, pin[u], NewToken(u))
        \o <<[op |-> "login", user |-> u, secret |-> NewToken(u)]>> \o Kick(u) \in Scripts(n)
    BY <1>0, <1>k, <1>s, <2>2, Joined DEF Scripts
  <2> QED BY <1>0, <1>1, <2>3, ServeInv DEF Login, account, Typed
<1>2. CASE DisconnectAll(w, u)
  <2>1. Kick(u) \o Save(u, pin[u], NewToken(u)) \o UpdateCheck(u, NewToken(u)) \in Scripts(n)
    BY <1>0, <1>k, <1>s, <1>u, Joined DEF Scripts
  <2> QED BY <1>0, <1>2, <2>1, ServeInv DEF DisconnectAll, account, Typed
<1>3. CASE DeleteAccount(w, u)
  <2>1. Kick(u) \o RemoveRadius(u) \o <<[op |-> "erase", user |-> u]>> \in Scripts(n)
    BY SimpleScripts, Joined DEF RemoveRadius, Scripts
  <2> QED BY <1>0, <1>3, <2>1, ServeInv DEF DeleteAccount, account, Typed
<1>4. CASE ChangePin(w, u)
  <2>1. Save(u, NewPin(u), NewToken(u)) \o UpdateCheck(u, NewToken(u)) \in Scripts(n)
    BY <1>0, <1>s, <1>u, Joined DEF Scripts
  <2> QED BY <1>0, <1>4, <2>1, ServeInv DEF ChangePin, account, Typed
<1>5. CASE CreateManual(w, u)
  <2>1. Save(u, NewPin(u), NewToken(u)) \o SetPassword(u, NewPin(u)) \in Scripts(n)
    BY <1>0, <1>s, PasswordScript, Joined DEF Scripts
  <2>2. \A plan \in {<<>>} \cup {Activate(u, p, NewToken(u)) : p \in Plans} :
          plan \in Scripts(n)
    <3>1. <<>> \in Scripts(n) BY DEF Scripts
    <3>2. \A p \in Plans : Activate(u, p, NewToken(u)) \in Scripts(n) BY <1>0, AssignScript
    <3> QED BY <3>1, <3>2
  <2>3. PICK plan \in {<<>>} \cup {Activate(u, p, NewToken(u)) : p \in Plans} :
          Serve(w, Save(u, NewPin(u), NewToken(u)) \o SetPassword(u, NewPin(u)) \o plan)
    BY <1>5 DEF CreateManual
  <2>4. Save(u, NewPin(u), NewToken(u)) \o SetPassword(u, NewPin(u)) \o plan \in Scripts(n)
    BY <2>1, <2>2, Joined DEF Scripts
  <2>5. alive' \in SUBSET Subscribers /\ UNCHANGED <<pin, token, subs, radius, online, now>>
    BY <1>0, <1>5 DEF CreateManual, Typed
  <2> QED BY <1>0, <2>3, <2>4, <2>5, ServeInv DEF Typed
<1>6. ASSUME NEW p \in Plans, SignUp(w, u, p) PROVE IInv'
  <2>1. Save(u, NewPin(u), NewToken(u)) \o Activate(u, p, NewToken(u)) \in Scripts(n)
    BY <1>0, <1>s, AssignScript, Joined DEF Scripts
  <2>2. alive' \in SUBSET Subscribers /\ UNCHANGED <<pin, token, subs, radius, online, now>>
    BY <1>0, <1>6 DEF SignUp, Typed
  <2> QED BY <1>0, <1>6, <2>1, <2>2, ServeInv DEF SignUp, Typed
<1>7. ASSUME NEW p \in Plans, ChangePlan(w, u, p) \/ RechargeComplete(w, u, p) PROVE IInv'
  <2>1. Activate(u, p, token[u]) \in Scripts(n) BY <1>0, AssignScript
  <2> QED BY <1>0, <1>7, <2>1, ServeInv DEF ChangePlan, RechargeComplete, account, Typed
<1>8. ASSUME NEW p \in Plans, PurchaseFromWallet(w, u, p) PROVE IInv'
  <2>1. [op |-> "buy", user |-> u, plan |-> p, secret |-> token[u]] \in Sound(n)
    BY <1>0 DEF Sound, Statements
  <2>2. <<[op |-> "buy", user |-> u, plan |-> p, secret |-> token[u]]>> \o Kick(u) \in Scripts(n)
    BY <2>1, <1>k, One, Joined DEF Scripts
  <2> QED BY <1>0, <1>8, <2>2, ServeInv DEF PurchaseFromWallet, account, Typed
<1> QED BY <1>1, <1>2, <1>3, <1>4, <1>5, <1>6, <1>7, <1>8

LEMMA TokenOnlyInv == ASSUME IInv, NEW w \in Workers, TokenOnly(w) PROVE IInv'
<1> DEFINE n == Len(subs)
<1>1. ASSUME NEW u \in Subscribers, RechargeVerify(w, u) PROVE IInv'
  <2>1. <<>> \in Scripts(n) BY DEF Scripts
  <2>2. NewToken(u) \in Secrets BY Fresh DEF IInv
  <2>3. token' \in [Subscribers -> Secrets] BY <1>1, <2>2 DEF RechargeVerify, IInv, Typed
  <2> QED BY <1>1, <2>1, <2>3, ServeInv DEF RechargeVerify, IInv, Typed
<1>2. ASSUME NEW ph \in Phones, ResetPin(w, ph) PROVE IInv'
  <2> DEFINE owners == {u \in alive : Phone[u] = ph}
             m == Cardinality(owners)
             saves(accounts) == [k \in DOMAIN accounts |->
                                  [op |-> "save", user |-> accounts[k],
                                   pin |-> NewPin(accounts[k]), token |-> NewToken(accounts[k])]]
  <2>1. owners \subseteq Subscribers /\ m \in Nat
    BY PhoneAssumption, FS_Subset, FS_CardinalityType DEF IInv, Typed
  <2>2. ASSUME NEW accounts \in [1..m -> owners] PROVE saves(accounts) \in Scripts(n)
    <3>1. \A k \in 1..m : saves(accounts)[k] \in Sound(n)
      <4> TAKE k \in 1..m
      <4>1. accounts[k] \in Subscribers BY <2>1
      <4>2. NewPin(accounts[k]) \in Secrets /\ NewToken(accounts[k]) \in Secrets
        BY <4>1, Fresh DEF IInv
      <4>3. saves(accounts)[k] = [op |-> "save", user |-> accounts[k],
                                  pin |-> NewPin(accounts[k]), token |-> NewToken(accounts[k])]
        OBVIOUS
      <4> QED BY <4>1, <4>2, <4>3, SaveScript
    <3> QED BY <2>1, <3>1 DEF Scripts
  <2>3. PICK accounts \in [1..m -> owners] : Serve(w, saves(accounts))
    BY <1>2 DEF ResetPin
  <2>4. UNCHANGED <<account, subs, radius, online, now>> BY <1>2 DEF ResetPin
  <2> HIDE DEF saves, owners, m
  <2> QED BY <2>2, <2>3, <2>4, ServeInv DEF account, IInv, Typed
<1> QED BY <1>1, <1>2 DEF TokenOnly

-----------------------------------------------------------------------------
(* Statements                                                              *)

\* A process that is at some statement.
LEMMA Heads ==
  ASSUME IInv, NEW q \in Processes, todo[q] # <<>>
  PROVE  /\ Now(q) \in Sound(Len(subs)) /\ Tail(todo[q]) \in Scripts(Len(subs))
         /\ Len(subs) \in Nat
<1>1. todo[q] \in Seq(Sound(Len(subs))) BY DEF IInv, ScriptsSound, Scripts
<1> QED BY <1>1, Halves DEF Now, Scripts, IInv, Typed

LEMMA ContinueInv ==
  ASSUME IInv, NEW q \in Processes, todo[q] # <<>>, NEW s \in Scripts(Len(subs')), Continue(q, s),
         subs' \in Seq(SubscriptionRows), Len(subs') >= Len(subs)
  PROVE  ScriptsSound'
<1>1. Len(subs) \in Nat /\ Len(subs') \in Nat BY DEF IInv, Typed
<1>2. Tail(todo[q]) \in Scripts(Len(subs'))
  BY <1>1, Heads, MoreRows, Widened DEF Scripts
<1>3. s \o Tail(todo[q]) \in Scripts(Len(subs')) BY <1>2, Joined DEF Scripts
<1>4. todo' = [todo EXCEPT ![q] = s \o Tail(todo[q])] BY DEF Continue
<1> QED BY <1>1, <1>3, <1>4, GoesOn

LEMMA DoneInv ==
  ASSUME IInv, NEW q \in Processes, todo[q] # <<>>, Done(q),
         subs' \in Seq(SubscriptionRows), Len(subs') >= Len(subs)
  PROVE  ScriptsSound'
<1>1. <<>> \in Scripts(Len(subs')) BY DEF Scripts
<1> QED BY <1>1, ContinueInv DEF Done

LEMMA RaiseInv ==
  ASSUME IInv, NEW q \in Processes, Raise(q), subs' = subs
  PROVE  ScriptsSound'
<1>1. todo[q] \in Seq(Sound(Len(subs))) /\ Len(subs) \in Nat
  BY DEF IInv, ScriptsSound, Scripts, Typed
<1>2. PICK n \in DOMAIN todo[q] :
        todo' = [todo EXCEPT ![q] = SubSeq(todo[q], n + 1, Len(todo[q]))]
  BY DEF Raise
<1>3. SubSeq(todo[q], n + 1, Len(todo[q])) \in Scripts(Len(subs'))
  BY <1>1, <1>2, SubSeqs DEF Scripts
<1>4. Len(subs') \in Nat /\ Len(subs') >= Len(subs) BY <1>1
<1> QED BY <1>2, <1>3, <1>4, GoesOn

\* Rows that change their status.
LEMMA RowsChange ==
  ASSUME subs \in Seq(SubscriptionRows), NEW t,
         t = [i \in DOMAIN subs |-> t[i]], \A i \in DOMAIN subs : t[i] \in SubscriptionRows
  PROVE  t \in Seq(SubscriptionRows) /\ Len(t) = Len(subs)
<1>1. DOMAIN subs = 1..Len(subs) /\ Len(subs) \in Nat OBVIOUS
<1>2. t \in [1..Len(subs) -> SubscriptionRows] BY <1>1
<1> QED BY <1>1, <1>2

LEMMA Restated ==
  ASSUME subs \in Seq(SubscriptionRows), NEW i \in DOMAIN subs,
         NEW s \in {"active", "expired", "deleted"}
  PROVE  [subs[i] EXCEPT !.status = s] \in SubscriptionRows
<1>1. subs[i] \in SubscriptionRows OBVIOUS
<1> QED BY <1>1 DEF SubscriptionRows

LEMMA ExpiredRows ==
  ASSUME IInv, NEW u
  PROVE  Expired(u) \in Seq(SubscriptionRows) /\ Len(Expired(u)) = Len(subs)
<1>1. \A i \in DOMAIN subs : Expired(u)[i] \in SubscriptionRows
  <2> TAKE i \in DOMAIN subs
  <2>1. subs \in Seq(SubscriptionRows) BY DEF IInv, Typed
  <2>2. Expired(u)[i] \in {subs[i], [subs[i] EXCEPT !.status = "expired"]} BY DEF Expired
  <2>3. subs[i] \in SubscriptionRows BY <2>1
  <2>4. [subs[i] EXCEPT !.status = "expired"] \in SubscriptionRows BY <2>1, Restated
  <2> QED BY <2>2, <2>3, <2>4
<1>2. Expired(u) = [i \in DOMAIN subs |-> Expired(u)[i]] BY DEF Expired
<1> QED BY <1>1, <1>2, RowsChange DEF IInv, Typed

LEMMA InsertedRows ==
  ASSUME IInv, NEW u \in Subscribers, NEW p \in Plans, NEW t \in Seq(SubscriptionRows)
  PROVE  Append(t, NewRow(u, p)) \in Seq(SubscriptionRows) /\ Len(Append(t, NewRow(u, p))) = Len(t) + 1
<1>1. NewRow(u, p) \in SubscriptionRows
  BY BoundsAssumption DEF IInv, Typed, NewRow, SubscriptionRows
<1> QED BY <1>1

\* What a statement leaves as it was.
LEMMA RadcheckKept ==
  ASSUME IInv, UNCHANGED check PROVE check' \in [Phones -> SUBSET Secrets] /\ ManualNeverToken'
BY DEF IInv, Typed, ManualNeverToken, Alone

LEMMA ExpireInv == ASSUME IInv, NEW q \in Processes, DoExpire(q) PROVE IInv'
<1>1. todo[q] # <<>> /\ Done(q) /\ subs' = Expired(Now(q).user)
      /\ UNCHANGED <<account, radius, online, now, served>>
  BY DEF DoExpire, At
<1>2. subs' \in Seq(SubscriptionRows) /\ Len(subs') >= Len(subs)
  BY <1>1, ExpiredRows DEF IInv, Typed
<1>3. ScriptsSound' BY <1>1, <1>2, DoneInv
<1> QED BY <1>1, <1>2, <1>3, Idles DEF account, radius, IInv, Typed

LEMMA InsertInv == ASSUME IInv, NEW q \in Processes, DoInsert(q) PROVE IInv'
<1> DEFINE u == Now(q).user
<1>1. /\ todo[q] # <<>> /\ Now(q).op = "insert"
      /\ UNCHANGED <<account, radius, online, now, served>>
  BY DEF DoInsert, At, Now
<1>2. Now(q) \in Sound(Len(subs)) BY <1>1, Heads
<1>3. u \in Subscribers /\ Now(q).plan \in Plans BY <1>1, <1>2, Arguments
<1>4. CASE subs' = Append(subs, NewRow(u, Now(q).plan)) /\ Done(q)
  <2>1. subs' \in Seq(SubscriptionRows) /\ Len(subs') = Len(subs) + 1 /\ Len(subs) \in Nat
    BY <1>3, <1>4, InsertedRows DEF IInv, Typed
  <2>2. ScriptsSound' BY <1>1, <1>4, <2>1, DoneInv
  <2> QED BY <1>1, <2>1, <2>2, Idles DEF account, radius, IInv, Typed
<1>5. CASE Raise(q) /\ subs' = subs
  <2>1. ScriptsSound' BY <1>5, RaiseInv
  <2> QED BY <1>1, <1>5, <2>1, Idles DEF account, radius, IInv, Typed
<1> QED BY <1>4, <1>5 DEF DoInsert

LEMMA GroupInv == ASSUME IInv, NEW q \in Processes, DoGroup(q) PROVE IInv'
<1> DEFINE ph == Phone[Now(q).user]
<1>1. /\ todo[q] # <<>> /\ Now(q).op \in {"ungroup", "group"} /\ Done(q)
      /\ UNCHANGED <<account, subs, check, online, now, served>>
  BY DEF DoGroup, At, Now
<1>2. Now(q) \in Sound(Len(subs)) BY <1>1, Heads
<1>3. ph \in Phones BY <1>1, <1>2, Arguments, PhoneAssumption
<1>4. group' \in [Phones -> SUBSET Plans]
  <2>1. CASE At(q, "ungroup") /\ group' = [group EXCEPT ![ph] = {}]
    BY <2>1, <1>3 DEF IInv, Typed
  <2>2. CASE At(q, "group") /\ group' = [group EXCEPT ![ph] = group[ph] \cup {Now(q).plan}]
    <3>1. Now(q).plan \in Plans BY <2>2, <1>2, Arguments DEF At, Now
    <3> QED BY <2>2, <3>1, <1>3 DEF IInv, Typed
  <2> QED BY <2>1, <2>2 DEF DoGroup
<1>5. subs' \in Seq(SubscriptionRows) /\ Len(subs') >= Len(subs) BY <1>1 DEF IInv, Typed
<1>6. ScriptsSound' BY <1>1, <1>5, DoneInv
<1> QED BY <1>1, <1>4, <1>6, RadcheckKept DEF IInv, Typed, OnlineTyped, account

LEMMA CheckInv == ASSUME IInv, NEW q \in Processes, DoCheck(q) PROVE IInv'
<1> DEFINE u == Now(q).user
<1>1. /\ todo[q] # <<>> /\ Now(q).op \in {"uncheck", "check"} /\ Done(q)
      /\ UNCHANGED <<account, subs, group, online, now, served>>
  BY DEF DoCheck, At, Now
<1>2. Now(q) \in Sound(Len(subs)) BY <1>1, Heads
<1>3. u \in Subscribers /\ Phone[u] \in Phones BY <1>1, <1>2, Arguments, PhoneAssumption
<1>4. check[Phone[u]] \in SUBSET Secrets BY <1>3 DEF IInv, Typed
<1>5. check' \in [Phones -> SUBSET Secrets] /\ ManualNeverToken'
  <2>1. CASE check' = [check EXCEPT ![Phone[u]] = {}]
    <3>1. {} \in SUBSET Secrets /\ \A s \in {} : s.kind = "pin" OBVIOUS
    <3> QED BY <2>1, <3>1, <1>3, CheckWritten
  <2>2. CASE /\ At(q, "check")
             /\ check' = [check EXCEPT ![Phone[u]] = check[Phone[u]] \cup {Now(q).secret}]
    <3> DEFINE X == check[Phone[u]] \cup {Now(q).secret}
    <3>1. Now(q).secret \in Secrets /\ (u \in Manual => Now(q).secret.kind = "pin")
      BY <2>2, <1>2, Arguments DEF At, Now
    <3>2. u \in Manual /\ Alone(u) => \A s \in X : s.kind = "pin"
      BY <3>1 DEF IInv, ManualNeverToken
    <3>3. X \in SUBSET Secrets BY <3>1, <1>4
    <3> HIDE DEF X
    <3> QED BY <2>2, <3>2, <3>3, <1>3, CheckWritten DEF X
  <2> QED BY <2>1, <2>2 DEF DoCheck
<1>6. subs' \in Seq(SubscriptionRows) /\ Len(subs') >= Len(subs) BY <1>1 DEF IInv, Typed
<1>7. ScriptsSound' BY <1>1, <1>6, DoneInv
<1> QED BY <1>1, <1>5, <1>7 DEF IInv, Typed, OnlineTyped, account

LEMMA KickInv == ASSUME IInv, NEW q \in Processes, DoKick(q) PROVE IInv'
<1>1. /\ todo[q] # <<>> /\ Done(q)
      /\ UNCHANGED <<account, subs, radius, now, served>>
      /\ online' = [online EXCEPT ![Phone[Now(q).user]] = {}]
  BY DEF DoKick, At
<1>2. OnlineTyped' BY <1>1 DEF IInv, OnlineTyped
<1>3. subs' \in Seq(SubscriptionRows) /\ Len(subs') >= Len(subs) BY <1>1 DEF IInv, Typed
<1>4. ScriptsSound' BY <1>1, <1>3, DoneInv
<1> QED BY <1>1, <1>2, <1>4, RadcheckKept DEF IInv, Typed, account, radius

LEMMA SaveInv == ASSUME IInv, NEW q \in Processes, DoSave(q) PROVE IInv'
<1>1. /\ todo[q] # <<>> /\ Now(q).op = "save" /\ Done(q)
      /\ UNCHANGED <<subs, radius, online, now, served>>
  BY DEF DoSave, At, Now
<1>2. /\ Now(q).user \in Subscribers /\ Now(q).pin \in Secrets /\ Now(q).token \in Secrets
  BY <1>1, Heads, Arguments
<1>3. /\ alive' \subseteq Subscribers /\ pin' \in [Subscribers -> Secrets]
      /\ token' \in [Subscribers -> Secrets]
  BY <1>2 DEF DoSave, IInv, Typed
<1>4. subs' \in Seq(SubscriptionRows) /\ Len(subs') >= Len(subs) BY <1>1 DEF IInv, Typed
<1>5. ScriptsSound' BY <1>1, <1>4, DoneInv
<1> QED BY <1>1, <1>3, <1>5, RadcheckKept DEF IInv, Typed, OnlineTyped, radius

LEMMA EraseInv == ASSUME IInv, NEW q \in Processes, DoErase(q) PROVE IInv'
<1> DEFINE u == Now(q).user
<1>1. /\ todo[q] # <<>> /\ Done(q) /\ alive' = alive \ {u}
      /\ UNCHANGED <<pin, token, radius, online, now, served>>
      /\ subs' = [i \in DOMAIN subs |-> IF subs[i].user = u
                                        THEN [subs[i] EXCEPT !.status = "deleted"] ELSE subs[i]]
  BY DEF DoErase, At
<1>2. subs \in Seq(SubscriptionRows) BY DEF IInv, Typed
<1>3. \A i \in DOMAIN subs : subs'[i] \in SubscriptionRows
  <2> TAKE i \in DOMAIN subs
  <2>1. subs[i] \in SubscriptionRows BY <1>2
  <2>2. [subs[i] EXCEPT !.status = "deleted"] \in SubscriptionRows BY <1>2, Restated
  <2> QED BY <1>1, <2>1, <2>2
<1>4. subs' = [i \in DOMAIN subs |-> subs'[i]] BY <1>1
<1>5. subs' \in Seq(SubscriptionRows) /\ Len(subs') = Len(subs) BY <1>2, <1>3, <1>4, RowsChange
<1>6. Len(subs') >= Len(subs) BY <1>2, <1>5
<1>7. ScriptsSound' BY <1>1, <1>5, <1>6, DoneInv
<1> QED BY <1>1, <1>5, <1>7, RadcheckKept DEF IInv, Typed, OnlineTyped, radius

LEMMA LoginInv == ASSUME IInv, NEW q \in Processes, DoLogin(q) PROVE IInv'
<1> DEFINE u == Now(q).user  t == Now(q).secret
<1>1. /\ todo[q] # <<>> /\ Now(q).op = "login"
      /\ UNCHANGED <<account, subs, radius, online, now, served>>
  BY DEF DoLogin, At, Now
<1>2. u \in Subscribers /\ t \in Secrets BY <1>1, Heads, Arguments
<1>3. \A i \in DOMAIN subs : subs[i].plan \in Plans
  <2> TAKE i \in DOMAIN subs
  <2>1. subs[i] \in SubscriptionRows BY DEF IInv, Typed
  <2> QED BY <2>1 DEF SubscriptionRows
<1>4. PICK s \in Scripts(Len(subs)) : Continue(q, s)
  <2>1. CASE \E i \in Newest(ActiveRows(u)) : Continue(q, Assign(u, subs[i].plan, t))
    <3>1. PICK i \in DOMAIN subs : Continue(q, Assign(u, subs[i].plan, t))
      BY <2>1 DEF Newest, ActiveRows
    <3> QED BY <3>1, <1>2, <1>3, AssignScript
  <2>2. CASE \E i \in DOMAIN subs : Continue(q, Activate(u, subs[i].plan, t))
    BY <2>2, <1>2, <1>3, AssignScript
  <2>3. CASE Continue(q, RemoveRadius(u))
    BY <2>3, <1>2, SimpleScripts, Joined DEF RemoveRadius, Scripts
  <2> QED BY <2>1, <2>2, <2>3 DEF DoLogin
<1>5. subs' \in Seq(SubscriptionRows) /\ Len(subs') >= Len(subs) /\ s \in Scripts(Len(subs'))
  BY <1>1 DEF IInv, Typed
<1>6. ScriptsSound' BY <1>1, <1>4, <1>5, ContinueInv
<1> QED BY <1>1, <1>5, <1>6, Idles DEF account, radius, IInv, Typed

LEMMA BoughtInv ==
  ASSUME IInv, NEW u \in Subscribers, NEW p \in Plans, NEW t \in Secrets, Bought(u, p, t)
  PROVE  /\ subs' \in Seq(SubscriptionRows) /\ Len(subs') >= Len(subs)
         /\ group' \in [Phones -> SUBSET Plans]
         /\ check' \in [Phones -> SUBSET Secrets] /\ ManualNeverToken'
<1>1. subs' \in Seq(SubscriptionRows) /\ Len(subs') = Len(subs) + 1 /\ Len(subs) \in Nat
  BY ExpiredRows, InsertedRows DEF Bought, IInv, Typed
<1>2. group' \in [Phones -> SUBSET Plans] BY PhoneAssumption DEF Bought, IInv, Typed
<1>3. CASE u \in Manual BY <1>1, <1>2, <1>3, RadcheckKept DEF Bought
<1>4. CASE u \notin Manual
  <2> DEFINE X == {t}
  <2>1. X \in SUBSET Secrets /\ check' = [check EXCEPT ![Phone[u]] = X]
    BY <1>4 DEF Bought
  <2>2. u \in Manual /\ Alone(u) => \A s \in X : s.kind = "pin" BY <1>4
  <2> HIDE DEF X
  <2>3. check' \in [Phones -> SUBSET Secrets] /\ ManualNeverToken' BY <2>1, <2>2, CheckWritten
  <2>4. subs' \in Seq(SubscriptionRows) /\ Len(subs') >= Len(subs) BY <1>1
  <2> QED BY <1>2, <2>3, <2>4
<1> QED BY <1>3, <1>4

LEMMA BuyInv == ASSUME IInv, NEW q \in Processes, DoBuy(q) PROVE IInv'
<1> DEFINE o == Now(q)
<1>1. todo[q] # <<>> /\ o.op = "buy" /\ UNCHANGED <<account, online, now, served>>
  BY DEF DoBuy, At, Now
<1>2. o.user \in Subscribers /\ o.plan \in Plans /\ o.secret \in Secrets
  BY <1>1, Heads, Arguments
<1>3. CASE Bought(o.user, o.plan, o.secret) /\ Done(q)
  <2>1. /\ subs' \in Seq(SubscriptionRows) /\ Len(subs') >= Len(subs)
        /\ group' \in [Phones -> SUBSET Plans]
        /\ check' \in [Phones -> SUBSET Secrets] /\ ManualNeverToken'
    BY <1>2, <1>3, BoughtInv
  <2>2. ScriptsSound' BY <1>1, <1>3, <2>1, DoneInv
  <2> QED BY <1>1, <2>1, <2>2 DEF IInv, Typed, OnlineTyped, account
<1>4. CASE Raise(q) /\ UNCHANGED <<subs, radius>>
  <2>1. ScriptsSound' BY <1>4, RaiseInv
  <2>2. subs' \in Seq(SubscriptionRows) /\ Len(subs') >= Len(subs) BY <1>4 DEF IInv, Typed
  <2> QED BY <1>1, <1>4, <2>1, <2>2, Idles DEF account, radius, IInv, Typed
<1> QED BY <1>3, <1>4 DEF DoBuy

-----------------------------------------------------------------------------
(* The timer                                                               *)

LEMMA ExpirePlansInv == ASSUME IInv, ExpirePlans PROVE IInv'
<1> DEFINE m == Cardinality(Overdue)
           rows(batch) == [k \in DOMAIN batch |->
                            [op |-> "overdue", row |-> batch[k],
                             secret |-> token[subs[batch[k]].user]]]
<1>1. UNCHANGED <<account, subs, radius, online, now, served>> BY DEF ExpirePlans
<1>2. subs \in Seq(SubscriptionRows) /\ Len(subs) \in Nat /\ Overdue \subseteq 1..Len(subs)
  BY DEF IInv, Typed, Overdue
<1>3. m \in Nat
  <2>1. IsFiniteSet(1..Len(subs)) BY <1>2, FS_Interval
  <2>2. IsFiniteSet(Overdue) BY <1>2, <2>1, FS_Subset
  <2> QED BY <2>2, FS_CardinalityType
<1>4. ASSUME NEW batch \in [1..m -> Overdue] PROVE rows(batch) \in Scripts(Len(subs))
  <2>1. \A k \in 1..m : rows(batch)[k] \in Sound(Len(subs))
    <3> TAKE k \in 1..m
    <3>1. batch[k] \in 1..Len(subs) BY <1>2
    <3>2. subs[batch[k]].user \in Subscribers
      <4>1. subs[batch[k]] \in SubscriptionRows BY <3>1, <1>2
      <4> QED BY <4>1 DEF SubscriptionRows
    <3>3. token[subs[batch[k]].user] \in Secrets BY <3>2 DEF IInv, Typed
    <3>4. rows(batch)[k] = [op |-> "overdue", row |-> batch[k],
                            secret |-> token[subs[batch[k]].user]]
      OBVIOUS
    <3> QED BY <3>1, <3>3, <3>4 DEF Sound, Statements
  <2> QED BY <1>3, <2>1 DEF Scripts
<1>5. PICK batch \in [1..m -> Overdue] : todo' = [todo EXCEPT ![Timer] = rows(batch)]
  BY DEF ExpirePlans
<1> HIDE DEF m, rows
<1>6. subs' \in Seq(SubscriptionRows) /\ Len(subs') >= Len(subs) /\ Len(subs') \in Nat
  BY <1>1, <1>2
<1>7. Timer \in Processes /\ rows(batch) \in Scripts(Len(subs')) BY <1>1, <1>4 DEF Processes
<1>8. ScriptsSound' BY <1>5, <1>6, <1>7, GoesOn
<1> QED BY <1>1, <1>6, <1>8, Idles DEF account, radius, IInv, Typed

\* The row a statement of the timer is about.
LEMMA RowOf ==
  ASSUME IInv, NEW q \in Processes, At(q, "overdue") \/ At(q, "lapse")
  PROVE  /\ todo[q] # <<>> /\ Now(q).row \in 1..Len(subs) /\ subs[Now(q).row] \in SubscriptionRows
         /\ At(q, "overdue") => Now(q).secret \in Secrets
<1>1. todo[q] # <<>> /\ Now(q).op \in {"overdue", "lapse"} BY DEF At, Now
<1>2. Now(q).row \in 1..Len(subs) BY <1>1, Heads, Arguments
<1>3. At(q, "overdue") => Now(q).secret \in Secrets BY <1>1, Heads, Arguments DEF At, Now
<1> QED BY <1>1, <1>2, <1>3 DEF IInv, Typed

LEMMA LapseScript ==
  ASSUME NEW n, NEW i \in 1..n, n \in Nat PROVE Lapse(i) \in Scripts(n)
<1>1. [op |-> "lapse", row |-> i] \in Sound(n) BY DEF Sound, Statements
<1> QED BY <1>1, One DEF Lapse, Scripts

LEMMA RenewInv == ASSUME IInv, NEW q \in Processes, RenewOverdue(q) PROVE IInv'
<1> DEFINE o == Now(q)  sub == subs[o.row]
<1>1. /\ At(q, "overdue") /\ sub.user \in alive /\ served < MaxRequests /\ served' = served + 1
      /\ Bought(sub.user, sub.plan, o.secret) /\ Continue(q, Lapse(o.row))
      /\ UNCHANGED <<account, online, now>>
  BY DEF RenewOverdue
<1>2. /\ todo[q] # <<>> /\ o.row \in 1..Len(subs) /\ sub \in SubscriptionRows
      /\ o.secret \in Secrets
  BY <1>1, RowOf
<1>3. sub.user \in Subscribers /\ sub.plan \in Plans BY <1>2 DEF SubscriptionRows
<1>4. /\ subs' \in Seq(SubscriptionRows) /\ Len(subs') >= Len(subs)
      /\ group' \in [Phones -> SUBSET Plans]
      /\ check' \in [Phones -> SUBSET Secrets] /\ ManualNeverToken'
  BY <1>1, <1>2, <1>3, BoughtInv
<1>5. Lapse(o.row) \in Scripts(Len(subs'))
  <2>1. Len(subs) \in Nat /\ Len(subs') \in Nat BY <1>4 DEF IInv, Typed
  <2>2. o.row \in 1..Len(subs') BY <1>2, <1>4, <2>1
  <2> QED BY <2>1, <2>2, LapseScript
<1>6. ScriptsSound' BY <1>1, <1>2, <1>4, <1>5, ContinueInv
<1>7. served' \in 0..MaxRequests BY <1>1, BoundsAssumption DEF IInv, Typed
<1> QED BY <1>1, <1>4, <1>6, <1>7 DEF IInv, Typed, OnlineTyped, account

LEMMA CutOffInv == ASSUME IInv, NEW q \in Processes, CutOffOverdue(q) PROVE IInv'
<1> DEFINE i == Now(q).row  u == subs[i].user
<1>1. /\ At(q, "overdue") /\ Continue(q, Lapse(i) \o Kick(u) \o RemoveRadius(u))
      /\ UNCHANGED <<account, subs, radius, online, now, served>>
  BY DEF CutOffOverdue
<1>2. todo[q] # <<>> /\ i \in 1..Len(subs) /\ subs[i] \in SubscriptionRows BY <1>1, RowOf
<1>3. u \in Subscribers /\ Len(subs) \in Nat BY <1>2 DEF SubscriptionRows, IInv, Typed
<1>4. Lapse(i) \o Kick(u) \o RemoveRadius(u) \in Scripts(Len(subs))
  BY <1>2, <1>3, LapseScript, SimpleScripts, Joined DEF RemoveRadius, Scripts
<1>5. subs' \in Seq(SubscriptionRows) /\ Len(subs') >= Len(subs)
      /\ Lapse(i) \o Kick(u) \o RemoveRadius(u) \in Scripts(Len(subs'))
  BY <1>1, <1>4 DEF IInv, Typed
<1>6. ScriptsSound' BY <1>1, <1>2, <1>5, ContinueInv
<1> QED BY <1>1, <1>5, <1>6, Idles DEF account, radius, IInv, Typed

LEMMA LapseInv == ASSUME IInv, NEW q \in Processes, DoLapse(q) PROVE IInv'
<1> DEFINE i == Now(q).row
<1>1. At(q, "lapse") /\ UNCHANGED <<account, radius, online, now, served>> BY DEF DoLapse
<1>2. todo[q] # <<>> /\ i \in 1..Len(subs) /\ subs[i] \in SubscriptionRows BY <1>1, RowOf
<1>3. CASE subs' = [subs EXCEPT ![i].status = "expired"] /\ Done(q)
  <2>1. [subs[i] EXCEPT !.status = "expired"] \in SubscriptionRows
    <3>1. subs \in Seq(SubscriptionRows) /\ i \in DOMAIN subs BY <1>2 DEF IInv, Typed
    <3> QED BY <3>1, Restated
  <2>2. subs' = [subs EXCEPT ![i] = [subs[i] EXCEPT !.status = "expired"]] BY <1>3
  <2>3. subs' \in Seq(SubscriptionRows) /\ Len(subs') = Len(subs) /\ Len(subs) \in Nat
    BY <1>2, <2>1, <2>2 DEF IInv, Typed
  <2>4. ScriptsSound' BY <1>2, <1>3, <2>3, DoneInv
  <2> QED BY <1>1, <2>3, <2>4, Idles DEF account, radius, IInv, Typed
<1>4. CASE Raise(q) /\ subs' = subs
  <2>1. ScriptsSound' BY <1>4, RaiseInv
  <2>2. subs' \in Seq(SubscriptionRows) /\ Len(subs') >= Len(subs) BY <1>4 DEF IInv, Typed
  <2> QED BY <1>1, <2>1, <2>2, Idles DEF account, radius, IInv, Typed
<1> QED BY <1>3, <1>4 DEF DoLapse

LEMMA StatementInv == ASSUME IInv, NEW q \in Processes, Statement(q) PROVE IInv'
BY ExpireInv, InsertInv, GroupInv, CheckInv, KickInv, SaveInv, EraseInv, LoginInv, BuyInv,
   RenewInv, CutOffInv, LapseInv DEF Statement

-----------------------------------------------------------------------------
(* The rest of the world, and the theorems                                 *)

LEMMA AdministerInv == ASSUME IInv, Administer PROVE IInv'
<1> PICK u \in Subscribers, i \in DOMAIN subs, status \in {"active", "expired"} :
      AdminSave(u, i, status)
  BY DEF Administer
<1> DEFINE edited == [subs EXCEPT ![i].status = status]
           single == [j \in DOMAIN subs |->
                       IF status = "active" /\ j # i /\ edited[j].user = u /\ edited[j].status = "active"
                       THEN [edited[j] EXCEPT !.status = "expired"] ELSE edited[j]]
           active == {j \in DOMAIN single : single[j].user = u /\ single[j].status = "active"}
<1>1. /\ subs' = single
      /\ group' = IF active = {} THEN group
                  ELSE [group EXCEPT ![Phone[u]] = {single[j].plan : j \in Newest(active)}]
      /\ check' = IF u \in Manual \/ token[u].kind = "none" THEN check
                  ELSE [check EXCEPT ![Phone[u]] = {token[u]}]
      /\ served < MaxRequests /\ served' = served + 1
      /\ UNCHANGED <<account, online, now, todo>>
  BY DEF AdminSave
<1>2. subs \in Seq(SubscriptionRows) /\ Len(subs) \in Nat /\ DOMAIN subs = 1..Len(subs)
  BY DEF IInv, Typed
<1>3. \A j \in DOMAIN subs : edited[j] \in SubscriptionRows
  <2> TAKE j \in DOMAIN subs
  <2>1. subs[j] \in SubscriptionRows BY <1>2
  <2>2. [subs[i] EXCEPT !.status = status] \in SubscriptionRows BY <1>2, Restated
  <2>3. edited[j] = IF j = i THEN [subs[i] EXCEPT !.status = status] ELSE subs[j] BY <1>2
  <2> QED BY <2>1, <2>2, <2>3
<1> HIDE DEF edited
<1>4. \A j \in DOMAIN subs : single[j] \in SubscriptionRows
  <2> TAKE j \in DOMAIN subs
  <2>1. edited[j] \in SubscriptionRows BY <1>3
  <2>2. [edited[j] EXCEPT !.status = "expired"] \in SubscriptionRows BY <2>1 DEF SubscriptionRows
  <2>3. single[j] \in {edited[j], [edited[j] EXCEPT !.status = "expired"]} OBVIOUS
  <2> QED BY <2>1, <2>2, <2>3
<1>5. single = [j \in DOMAIN subs |-> single[j]] /\ DOMAIN single = DOMAIN subs OBVIOUS
<1> HIDE DEF single
<1>6. subs' \in Seq(SubscriptionRows) /\ Len(subs') = Len(subs)
  BY <1>1, <1>2, <1>4, <1>5, RowsChange
<1>7. group' \in [Phones -> SUBSET Plans]
  <2>1. \A j \in Newest(active) : single[j].plan \in Plans
    BY <1>4, <1>5 DEF Newest, SubscriptionRows
  <2>2. {single[j].plan : j \in Newest(active)} \in SUBSET Plans BY <2>1
  <2> HIDE DEF active
  <2> QED BY <1>1, <2>2, PhoneAssumption DEF IInv, Typed
<1>8. check' \in [Phones -> SUBSET Secrets] /\ ManualNeverToken'
  <2>1. CASE check' = check BY <2>1, RadcheckKept
  <2>2. CASE u \notin Manual /\ check' = [check EXCEPT ![Phone[u]] = {token[u]}]
    <3> DEFINE X == {token[u]}
    <3>1. X \in SUBSET Secrets BY DEF IInv, Typed
    <3>2. u \in Manual /\ Alone(u) => \A s \in X : s.kind = "pin" BY <2>2
    <3>3. check' = [check EXCEPT ![Phone[u]] = X] BY <2>2
    <3> HIDE DEF X
    <3> QED BY <3>1, <3>2, <3>3, CheckWritten
  <2> QED BY <1>1, <2>1, <2>2
<1>9. ScriptsSound' BY <1>1, <1>6 DEF IInv, ScriptsSound
<1>10. served' \in 0..MaxRequests BY <1>1, BoundsAssumption DEF IInv, Typed
<1> QED BY <1>1, <1>6, <1>7, <1>8, <1>9, <1>10 DEF IInv, Typed, OnlineTyped, account

LEMMA EnvironmentInv == ASSUME IInv, Environment PROVE IInv'
<1>1. subs \in Seq(SubscriptionRows) /\ Len(subs) >= Len(subs) BY DEF IInv, Typed
<1>2. CASE Tick
  <2>1. now' \in 0..MaxTime BY <1>2, BoundsAssumption DEF Tick, IInv, Typed
  <2>2. UNCHANGED <<account, subs, radius, online, todo, served>> BY <1>2 DEF Tick
  <2> QED BY <2>1, <2>2, <1>1, Idles DEF account, radius, IInv, Typed, ScriptsSound
<1>3. ASSUME UNCHANGED <<account, subs, radius, now, todo, served>>, OnlineTyped' PROVE IInv'
  BY <1>3, RadcheckKept DEF account, radius, IInv, Typed, ScriptsSound
<1>4. ASSUME NEW ph \in Phones, Connect(ph) PROVE IInv'
  <2>1. PICK s \in check[ph] :
          online' = [online EXCEPT ![ph] = online[ph] \cup {[secret |-> s, groups |-> group[ph]]}]
    BY <1>4 DEF Connect
  <2>2. s \in Secrets /\ group[ph] \subseteq Plans BY DEF IInv, Typed
  <2> DEFINE X == online[ph] \cup {[secret |-> s, groups |-> group[ph]]}
  <2>3. \A x \in X : x.secret \in Secrets /\ x.groups \subseteq Plans
    BY <2>2 DEF IInv, OnlineTyped
  <2>4. online' = [online EXCEPT ![ph] = X] BY <2>1
  <2> HIDE DEF X
  <2>5. UNCHANGED <<account, subs, radius, now, todo, served>> BY <1>4 DEF Connect
  <2>6. OnlineTyped' BY <2>3, <2>4 DEF IInv, OnlineTyped
  <2> QED BY <1>3, <2>5, <2>6
<1>5. ASSUME NEW u \in Subscribers, DashboardKick(u) PROVE IInv'
  <2>1. OnlineTyped' BY <1>5 DEF DashboardKick, IInv, OnlineTyped
  <2> QED BY <1>3, <1>5, <2>1 DEF DashboardKick
<1> QED BY <1>2, <1>4, <1>5 DEF Environment

LEMMA CrashInv == ASSUME IInv, NEW q \in Processes, Crash(q) PROVE IInv'
<1>1. todo' = [todo EXCEPT ![q] = <<>>] /\ UNCHANGED <<account, subs, radius, online, now, served>>
  BY DEF Crash
<1>2. subs' \in Seq(SubscriptionRows) /\ Len(subs') >= Len(subs) /\ Len(subs') \in Nat
  BY <1>1 DEF IInv, Typed
<1>3. <<>> \in Scripts(Len(subs')) BY DEF Scripts
<1>4. ScriptsSound' BY <1>1, <1>2, <1>3, GoesOn
<1> QED BY <1>1, <1>2, <1>4, Idles DEF account, radius, IInv, Typed

LEMMA InitInv == Init => IInv
<1> SUFFICES ASSUME Init PROVE IInv OBVIOUS
<1>1. \A u \in Subscribers : Secret("none", u, 0) \in Secrets BY DEF Secret, Secrets
<1>2. Typed BY <1>1, BoundsAssumption DEF Init, Typed
<1>3. <<>> \in Scripts(Len(subs)) BY DEF Scripts
<1>4. OnlineTyped /\ ScriptsSound BY <1>3 DEF Init, OnlineTyped, ScriptsSound
<1>5. ManualNeverToken
  BY PhoneAssumption, ManualAssumption DEF Init, ManualNeverToken
<1> QED BY <1>2, <1>4, <1>5 DEF IInv

LEMMA StepInv == IInv /\ [Next]_vars => IInv'
<1> SUFFICES ASSUME IInv, [Next]_vars PROVE IInv' OBVIOUS
<1>1. CASE \E w \in Workers : Request(w) \/ TokenOnly(w) BY <1>1, RequestInv, TokenOnlyInv
<1>2. CASE \E q \in Processes : Statement(q) \/ Crash(q) BY <1>2, StatementInv, CrashInv
<1>3. CASE ExpirePlans BY <1>3, ExpirePlansInv
<1>4. CASE Administer BY <1>4, AdministerInv
<1>5. CASE Environment BY <1>5, EnvironmentInv
<1>6. CASE UNCHANGED vars
  <2>1. subs' \in Seq(SubscriptionRows) /\ Len(subs') >= Len(subs)
    BY <1>6 DEF vars, IInv, Typed
  <2> QED BY <1>6, <2>1, Idles DEF vars, account, radius, IInv, Typed, ScriptsSound
<1> QED BY <1>1, <1>2, <1>3, <1>4, <1>5, <1>6 DEF Next

\* Rows, secrets, sessions and what every process has still to execute keep
\* their types (the models' fields and their writers).
THEOREM AccessTypeCorrect == Spec => []TypeOK
<1>1. IInv => TypeOK
  <2> SUFFICES ASSUME IInv PROVE TypeOK OBVIOUS
  <2>1. Sound(Len(subs)) \subseteq Statements BY DEF Sound
  <2>2. Scripts(Len(subs)) \subseteq Seq(Statements) BY <2>1, Widened DEF Scripts
  <2> QED BY <2>2 DEF IInv, Typed, OnlineTyped, ScriptsSound, TypeOK
<1> QED BY <1>1, InitInv, StepInv, PTL DEF Spec

\* No order of statements puts a token where a manual subscriber's PIN must
\* stay (update_radcheck_password and its callers).
THEOREM ManualKeepsPin == Spec => []ManualNeverToken
<1>1. IInv => ManualNeverToken BY DEF IInv
<1> QED BY <1>1, InitInv, StepInv, PTL DEF Spec

-----------------------------------------------------------------------------
(* One process at a time: at most one active subscription                  *)

\* Only q is at work.
Works(q) == \A r \in Processes \ {q} : todo[r] = <<>>
OneEach == \A u \in Subscribers : \A i, j \in ActiveRows(u) : i = j
\* Every insertion comes right after an expiration for the same subscriber.
Led(s) == \A k \in DOMAIN s : s[k].op = "insert" =>
            k > 1 /\ s[k - 1].op = "expire" /\ s[k - 1].user = s[k].user
\* The same, when the expiration may have been executed already.
Guarded(s) ==
  \A k \in DOMAIN s : s[k].op = "insert" =>
    IF k = 1 THEN ActiveRows(s[1].user) = {} ELSE s[k - 1].op = "expire" /\ s[k - 1].user = s[k].user
\* The same, of what follows the statement o.
LedBy(o, s) ==
  \A k \in DOMAIN s : s[k].op = "insert" =>
    IF k = 1 THEN o.op = "expire" /\ o.user = s[1].user
    ELSE s[k - 1].op = "expire" /\ s[k - 1].user = s[k].user
OneActive == OneEach /\ \E q \in Processes : Works(q) /\ Guarded(todo[q])

LEMMA LedGuards == ASSUME NEW n, NEW s \in Scripts(n), Led(s) PROVE Guarded(s)
BY DEF Led, Guarded, Scripts

LEMMA GuardedJoin ==
  ASSUME NEW n, NEW m, NEW a \in Scripts(n), NEW b \in Scripts(m), Led(a), NEW o, LedBy(o, b),
         o.op # "expire"
  PROVE  Led(a \o b) /\ DOMAIN (a \o b) \subseteq Nat \ {0}
<1> DEFINE r == a \o b
<1>1. /\ Len(a) \in Nat /\ Len(b) \in Nat /\ DOMAIN a = 1..Len(a) /\ DOMAIN b = 1..Len(b)
      /\ DOMAIN r = 1..(Len(a) + Len(b))
      /\ \A k \in 1..Len(a) : r[k] = a[k]
      /\ \A k \in 1..Len(b) : r[Len(a) + k] = b[k]
  BY DEF Scripts
<1>2. ASSUME NEW k \in DOMAIN r, r[k].op = "insert"
      PROVE  k > 1 /\ r[k - 1].op = "expire" /\ r[k - 1].user = r[k].user
  <2>1. CASE k \in 1..Len(a) BY <1>1, <1>2, <2>1 DEF Led
  <2>2. CASE k \notin 1..Len(a)
    <3> DEFINE j == k - Len(a)
    <3>1. j \in 1..Len(b) /\ k = Len(a) + j BY <1>1, <2>2
    <3>2. r[k] = b[j] BY <1>1, <3>1
    <3>3. j # 1 BY <1>1, <1>2, <3>1, <3>2 DEF LedBy
    <3>4. b[j - 1].op = "expire" /\ b[j - 1].user = b[j].user BY <1>1, <1>2, <3>1, <3>2, <3>3 DEF LedBy
    <3>5. j - 1 \in 1..Len(b) /\ k - 1 = Len(a) + (j - 1) BY <1>1, <3>1, <3>3
    <3> QED BY <1>1, <3>1, <3>2, <3>4, <3>5
  <2> QED BY <2>1, <2>2
<1>3. DOMAIN r \subseteq Nat \ {0} BY <1>1
<1> HIDE DEF r
<1> QED BY <1>2, <1>3 DEF Led, r

\* What is left of a guarded script after its first statement.
LEMMA GuardedRest ==
  ASSUME NEW n, NEW s \in Scripts(n), s # <<>>, Guarded(s), NEW r, r = Tail(s)
  PROVE  LedBy(Head(s), r) /\ r \in Scripts(n)
<1>1. \A k \in DOMAIN r : k \in Nat \ {0} /\ k + 1 \in DOMAIN s /\ r[k] = s[k + 1] BY DEF Scripts
<1>2. ASSUME NEW k \in DOMAIN r, r[k].op = "insert"
      PROVE  IF k = 1 THEN s[1].op = "expire" /\ s[1].user = r[1].user
             ELSE r[k - 1].op = "expire" /\ r[k - 1].user = r[k].user
  <2>1. k \in Nat \ {0} /\ k + 1 \in DOMAIN s /\ k + 1 # 1 /\ r[k] = s[k + 1] /\ (k + 1) - 1 = k BY <1>1
  <2>2. s[k].op = "expire" /\ s[k].user = s[k + 1].user BY <1>2, <2>1 DEF Guarded
  <2>3. CASE k = 1 BY <2>1, <2>2, <2>3
  <2>4. CASE k # 1
    <3>1. k - 1 \in DOMAIN r /\ (k - 1) + 1 = k BY <2>1, <2>4 DEF Scripts
    <3>2. r[k - 1] = s[k] BY <1>1, <3>1
    <3> QED BY <2>1, <2>2, <2>4, <3>2
  <2> QED BY <2>3, <2>4
<1>3. r \in Scripts(n) /\ s[1] = Head(s) BY DEF Scripts
<1>4. PICK h : h = Head(s) OBVIOUS
<1>5. \A k \in DOMAIN r : r[k].op = "insert" =>
        IF k = 1 THEN h.op = "expire" /\ h.user = r[1].user
        ELSE r[k - 1].op = "expire" /\ r[k - 1].user = r[k].user
  BY <1>2, <1>3, <1>4
<1>6. LedBy(h, r) BY <1>5 DEF LedBy
<1> QED BY <1>3, <1>4, <1>6

\* What an exception leaves.
LEMMA LedCut ==
  ASSUME NEW n, NEW s \in Scripts(n), NEW m \in DOMAIN s, Guarded(s),
         m < Len(s) => s[m + 1].op = "overdue"
  PROVE  Led(SubSeq(s, m + 1, Len(s))) /\ DOMAIN SubSeq(s, m + 1, Len(s)) \subseteq Nat \ {0}
<1> DEFINE r == SubSeq(s, m + 1, Len(s))
<1>1. /\ Len(s) \in Nat /\ m \in 1..Len(s) /\ DOMAIN r = 1..(Len(s) - m) /\ DOMAIN s = 1..Len(s)
      /\ \A k \in DOMAIN r : k \in Nat \ {0} /\ k + m \in DOMAIN s /\ r[k] = s[k + m]
      /\ DOMAIN r \subseteq Nat \ {0}
  BY DEF Scripts
<1> HIDE DEF r
<1>2. ASSUME NEW k \in DOMAIN r, r[k].op = "insert"
      PROVE  k > 1 /\ r[k - 1].op = "expire" /\ r[k - 1].user = r[k].user
  <2>1. k \in Nat \ {0} /\ k + m \in DOMAIN s /\ r[k] = s[k + m] BY <1>1
  <2>2. k # 1 BY <1>1, <1>2, <2>1
  <2>3. s[(k + m) - 1].op = "expire" /\ s[(k + m) - 1].user = s[k + m].user
    <3>1. k + m # 1 /\ s[k + m].op = "insert" BY <1>1, <1>2, <2>1
    <3> QED BY <2>1, <3>1 DEF Guarded
  <2>4. k - 1 \in DOMAIN r /\ (k - 1) + m = (k + m) - 1 BY <1>1, <2>1, <2>2
  <2>5. r[k - 1] = s[(k + m) - 1] BY <1>1, <2>4
  <2>6. k > 1 BY <2>1, <2>2
  <2> QED BY <2>1, <2>3, <2>5, <2>6
<1> QED BY <1>1, <1>2 DEF Led, r

\* How the active rows change.
LEMMA RowsEnd ==
  ASSUME IInv, NEW u \in Subscribers, subs' = Expired(u)
  PROVE  /\ (ActiveRows(u) = {})' /\ \A v \in Subscribers \ {u} : (ActiveRows(v))' = ActiveRows(v)
         /\ DOMAIN subs' = DOMAIN subs
         /\ \A i \in DOMAIN subs : /\ subs'[i].user = subs[i].user /\ subs'[i].plan = subs[i].plan
                                   /\ subs'[i].status = IF i \in ActiveRows(u) THEN "expired" ELSE subs[i].status
<1>1. subs \in Seq(SubscriptionRows) BY DEF IInv, Typed
<1>2. DOMAIN subs' = DOMAIN subs BY DEF Expired
<1>3. ASSUME NEW i \in DOMAIN subs
      PROVE /\ subs'[i].user = subs[i].user /\ subs'[i].plan = subs[i].plan
            /\ subs'[i].status = IF i \in ActiveRows(u) THEN "expired" ELSE subs[i].status
  <2>1. subs[i] \in SubscriptionRows BY <1>1
  <2>2. subs'[i] = IF i \in ActiveRows(u) THEN [subs[i] EXCEPT !.status = "expired"] ELSE subs[i]
    BY DEF Expired
  <2> QED BY <2>1, <2>2 DEF SubscriptionRows
<1>4. (ActiveRows(u))' = {} BY <1>2, <1>3 DEF ActiveRows
<1>5. ASSUME NEW v \in Subscribers \ {u} PROVE (ActiveRows(v))' = ActiveRows(v)
  BY <1>2, <1>3 DEF ActiveRows
<1> QED BY <1>2, <1>3, <1>4, <1>5

LEMMA RowAdded ==
  ASSUME IInv, NEW u \in Subscribers, NEW p \in Plans, subs' = Append(subs, NewRow(u, p))
  PROVE  /\ (ActiveRows(u))' = ActiveRows(u) \cup {Len(subs) + 1} /\ Len(subs) + 1 \notin DOMAIN subs
         /\ \A v \in Subscribers \ {u} : (ActiveRows(v))' = ActiveRows(v)
         /\ DOMAIN subs' = DOMAIN subs \cup {Len(subs) + 1}
         /\ \A i \in DOMAIN subs : subs'[i] = subs[i]
         /\ subs'[Len(subs) + 1].plan = p
<1> DEFINE n == Len(subs)
<1>1. n \in Nat /\ DOMAIN subs = 1..n BY DEF IInv, Typed
<1>2. /\ DOMAIN subs' = 1..(n + 1) /\ \A i \in 1..n : subs'[i] = subs[i]
      /\ subs'[n + 1] = NewRow(u, p)
  BY DEF IInv, Typed
<1>3. NewRow(u, p).user = u /\ NewRow(u, p).plan = p /\ NewRow(u, p).status = "active" BY DEF NewRow
<1> HIDE DEF n
<1>4. n + 1 \notin 1..n /\ 1..(n + 1) = 1..n \cup {n + 1} BY <1>1
<1>5. (ActiveRows(u))' = ActiveRows(u) \cup {n + 1}
  <2>1. ASSUME NEW i \in DOMAIN subs'
        PROVE  (subs'[i].user = u /\ subs'[i].status = "active") <=> (i \in ActiveRows(u) \/ i = n + 1)
    BY <1>1, <1>2, <1>3, <1>4 DEF ActiveRows
  <2> QED BY <2>1, <1>1, <1>2, <1>4 DEF ActiveRows
<1>6. ASSUME NEW v \in Subscribers \ {u} PROVE (ActiveRows(v))' = ActiveRows(v)
  <2>1. ASSUME NEW i \in DOMAIN subs' PROVE (subs'[i].user = v /\ subs'[i].status = "active") <=> i \in ActiveRows(v)
    BY <1>1, <1>2, <1>3, <1>4 DEF ActiveRows
  <2> QED BY <2>1, <1>1, <1>2, <1>4 DEF ActiveRows
<1> QED BY <1>1, <1>2, <1>3, <1>4, <1>5, <1>6 DEF n

\* activate_subscription in a transaction.
LEMMA RowReplaced ==
  ASSUME IInv, NEW u \in Subscribers, NEW p \in Plans, subs' = Append(Expired(u), NewRow(u, p))
  PROVE  /\ (ActiveRows(u))' = {Len(subs) + 1} /\ Len(subs) + 1 \notin DOMAIN subs
         /\ \A v \in Subscribers \ {u} : (ActiveRows(v))' = ActiveRows(v)
         /\ DOMAIN subs' = DOMAIN subs \cup {Len(subs) + 1}
         /\ \A i \in DOMAIN subs : /\ subs'[i].user = subs[i].user /\ subs'[i].plan = subs[i].plan
                                   /\ subs'[i].status = IF i \in ActiveRows(u) THEN "expired" ELSE subs[i].status
         /\ subs'[Len(subs) + 1].plan = p
<1> DEFINE n == Len(subs)  t == Expired(u)
<1>1. n \in Nat /\ DOMAIN subs = 1..n /\ subs \in Seq(SubscriptionRows) BY DEF IInv, Typed
<1>2. t \in Seq(SubscriptionRows) /\ Len(t) = n /\ DOMAIN t = 1..n BY ExpiredRows, <1>1
<1>3. ASSUME NEW i \in DOMAIN subs
      PROVE /\ t[i].user = subs[i].user /\ t[i].plan = subs[i].plan
            /\ t[i].status = IF i \in ActiveRows(u) THEN "expired" ELSE subs[i].status
  <2>1. subs[i] \in SubscriptionRows BY <1>1
  <2>2. t[i] = IF i \in ActiveRows(u) THEN [subs[i] EXCEPT !.status = "expired"] ELSE subs[i]
    BY DEF Expired
  <2> QED BY <2>1, <2>2 DEF SubscriptionRows
<1> HIDE DEF t
<1>4. /\ DOMAIN subs' = 1..(n + 1) /\ \A i \in 1..n : subs'[i] = t[i]
      /\ subs'[n + 1] = NewRow(u, p)
  BY <1>2 DEF t
<1>5. NewRow(u, p).user = u /\ NewRow(u, p).plan = p /\ NewRow(u, p).status = "active" BY DEF NewRow
<1> HIDE DEF n
<1>6. n + 1 \notin 1..n /\ 1..(n + 1) = 1..n \cup {n + 1} BY <1>1
<1>7. ASSUME NEW i \in DOMAIN subs' PROVE (subs'[i].user = u /\ subs'[i].status = "active") <=> i = n + 1
  BY <1>1, <1>3, <1>4, <1>5, <1>6 DEF ActiveRows
<1>8. ASSUME NEW v \in Subscribers \ {u}, NEW i \in DOMAIN subs'
      PROVE  (subs'[i].user = v /\ subs'[i].status = "active") <=> i \in ActiveRows(v)
  BY <1>1, <1>3, <1>4, <1>5, <1>6 DEF ActiveRows
<1>9. (ActiveRows(u))' = {n + 1} BY <1>4, <1>6, <1>7 DEF ActiveRows
<1>10. ASSUME NEW v \in Subscribers \ {u} PROVE (ActiveRows(v))' = ActiveRows(v)
  BY <1>1, <1>4, <1>6, <1>8 DEF ActiveRows
<1>11. ASSUME NEW i \in DOMAIN subs
       PROVE  /\ subs'[i].user = subs[i].user /\ subs'[i].plan = subs[i].plan
              /\ subs'[i].status = IF i \in ActiveRows(u) THEN "expired" ELSE subs[i].status
  BY <1>1, <1>3, <1>4
<1> QED BY <1>1, <1>4, <1>5, <1>6, <1>9, <1>10, <1>11 DEF n

\* Rows whose status alone changes, none becoming active.
LEMMA RowsFewer ==
  ASSUME OneEach, \A u \in Subscribers : (ActiveRows(u))' \subseteq ActiveRows(u)
  PROVE  OneEach'
BY DEF OneEach

LEMMA Working ==
  ASSUME IInv, OneActive, NEW q \in Processes, todo[q] # <<>>
  PROVE  /\ Works(q) /\ Guarded(todo[q]) /\ OneEach
         /\ todo[q] \in Scripts(Len(subs)) /\ LedBy(Now(q), Tail(todo[q]))
         /\ Tail(todo[q]) \in Scripts(Len(subs))
<1>1. Works(q) /\ Guarded(todo[q]) /\ OneEach BY DEF OneActive, Works
<1>2. todo[q] \in Scripts(Len(subs)) BY DEF IInv, ScriptsSound
<1>3. LedBy(Now(q), Tail(todo[q])) /\ Tail(todo[q]) \in Scripts(Len(subs))
  BY <1>1, <1>2, GuardedRest DEF Now
<1> QED BY <1>1, <1>2, <1>3

\* One process goes on with s.
LEMMA GoesGuarded ==
  ASSUME IInv, NEW q \in Processes, Works(q), NEW s, todo' = [todo EXCEPT ![q] = s],
         \A k \in DOMAIN s : s[k].op = "insert" =>
           IF k = 1 THEN (ActiveRows(s[1].user))' = {} ELSE s[k - 1].op = "expire" /\ s[k - 1].user = s[k].user,
         OneEach'
  PROVE  OneActive'
<1>1. todo'[q] = s /\ \A r \in Processes \ {q} : todo'[r] = todo[r] BY DEF IInv, ScriptsSound
<1>2. Works(q)' BY <1>1 DEF Works
<1>3. Guarded(todo[q])' BY <1>1 DEF Guarded
<1> QED BY <1>2, <1>3 DEF OneActive

LEMMA GoesLed ==
  ASSUME IInv, NEW q \in Processes, Works(q), NEW s, Led(s), DOMAIN s \subseteq Nat \ {0},
         todo' = [todo EXCEPT ![q] = s], OneEach'
  PROVE  OneActive'
<1>1. \A k \in DOMAIN s : s[k].op = "insert" => k # 1 /\ s[k - 1].op = "expire" /\ s[k - 1].user = s[k].user
  BY DEF Led
<1> QED BY <1>1, GoesGuarded

\* After any statement but an expiration nothing is left to be guarded.
LEMMA ContinueLed ==
  ASSUME IInv, OneActive, NEW q \in Processes, todo[q] # <<>>, Now(q).op # "expire",
         NEW n, NEW a \in Scripts(n), Led(a), Continue(q, a), OneEach'
  PROVE  OneActive'
<1>1. /\ LedBy(Now(q), Tail(todo[q])) /\ Tail(todo[q]) \in Scripts(Len(subs)) /\ Works(q)
  BY Working
<1>2. PICK b : b = Tail(todo[q]) OBVIOUS
<1>3. PICK o : o = Now(q) OBVIOUS
<1>4. Led(a \o b) /\ DOMAIN (a \o b) \subseteq Nat \ {0} BY <1>1, <1>2, <1>3, GuardedJoin
<1>5. todo' = [todo EXCEPT ![q] = a \o b] BY <1>2 DEF Continue
<1> QED BY <1>1, <1>4, <1>5, GoesLed

LEMMA DoneLed ==
  ASSUME IInv, OneActive, NEW q \in Processes, todo[q] # <<>>, Now(q).op # "expire", Done(q), OneEach'
  PROVE  OneActive'
<1>1. Led(<<>>) /\ <<>> \in Scripts(0) BY DEF Led, Scripts
<1> QED BY <1>1, ContinueLed DEF Done

LEMMA RaiseLed ==
  ASSUME IInv, OneActive, NEW q \in Processes, todo[q] # <<>>, Raise(q), OneEach'
  PROVE  OneActive'
<1>1. todo[q] \in Scripts(Len(subs)) /\ Guarded(todo[q]) /\ Works(q) BY Working
<1>2. PICK n \in DOMAIN todo[q] :
        /\ n < Len(todo[q]) => todo[q][n + 1].op = "overdue"
        /\ todo' = [todo EXCEPT ![q] = SubSeq(todo[q], n + 1, Len(todo[q]))]
  BY DEF Raise
<1>3. /\ Led(SubSeq(todo[q], n + 1, Len(todo[q])))
      /\ DOMAIN SubSeq(todo[q], n + 1, Len(todo[q])) \subseteq Nat \ {0}
  BY <1>1, <1>2, LedCut
<1>4. PICK r : r = SubSeq(todo[q], n + 1, Len(todo[q])) OBVIOUS
<1> QED BY <1>1, <1>2, <1>3, <1>4, GoesLed

\* A process that was idle takes up a script of its own.
LEMMA StartLed ==
  ASSUME IInv, OneActive, Idle, NEW q \in Processes, NEW n, NEW s \in Scripts(n), Led(s),
         todo' = [todo EXCEPT ![q] = s], UNCHANGED subs
  PROVE  OneActive'
<1>1. Works(q) BY DEF Idle, Works
<1>2. OneEach' BY DEF OneActive, OneEach, ActiveRows
<1>3. DOMAIN s \subseteq Nat \ {0} BY DEF Scripts
<1> QED BY <1>1, <1>2, <1>3, GoesLed

-----------------------------------------------------------------------------
(* The scripts of the requests are led                                     *)

LEMMA LedJoin ==
  ASSUME NEW n, NEW a \in Scripts(n), NEW b \in Scripts(n), Led(a), Led(b)
  PROVE  a \o b \in Scripts(n) /\ Led(a \o b)
<1>1. PICK o : o = [op |-> "kick"] OBVIOUS
<1>2. \A k \in DOMAIN b : b[k].op = "insert" => k # 1 /\ b[k - 1].op = "expire" /\ b[k - 1].user = b[k].user
  BY DEF Led, Scripts
<1>3. LedBy(o, b) BY <1>2 DEF LedBy
<1>4. o.op # "expire" BY <1>1
<1>5. Led(a \o b) BY <1>3, <1>4, GuardedJoin
<1> QED BY <1>5, Joined DEF Scripts

LEMMA LedOne ==
  ASSUME NEW n, NEW o \in Sound(n), o.op # "insert" PROVE <<o>> \in Scripts(n) /\ Led(<<o>>)
BY DEF Scripts, Led

LEMMA LedSimple ==
  ASSUME NEW n, NEW u \in Subscribers
  PROVE  /\ Kick(u) \in Scripts(n) /\ Led(Kick(u)) /\ RemoveRadius(u) \in Scripts(n) /\ Led(RemoveRadius(u))
         /\ Ungroup(u) \in Scripts(n) /\ Led(Ungroup(u)) /\ Uncheck(u) \in Scripts(n) /\ Led(Uncheck(u))
         /\ <<[op |-> "erase", user |-> u]>> \in Scripts(n) /\ Led(<<[op |-> "erase", user |-> u]>>)
         /\ <<>> \in Scripts(n) /\ Led(<<>>)
<1>1. ASSUME NEW op \in {"ungroup", "uncheck", "kick", "erase"}
      PROVE  <<[op |-> op, user |-> u]>> \in Scripts(n) /\ Led(<<[op |-> op, user |-> u]>>)
  <2>1. [op |-> op, user |-> u] \in Sound(n) BY DEF Sound, Statements
  <2> QED BY <2>1, LedOne
<1>2. <<>> \in Scripts(n) /\ Led(<<>>) BY DEF Scripts, Led
<1>3. /\ Kick(u) \in Scripts(n) /\ Led(Kick(u)) /\ Ungroup(u) \in Scripts(n) /\ Led(Ungroup(u))
      /\ Uncheck(u) \in Scripts(n) /\ Led(Uncheck(u))
  BY <1>1 DEF Kick, Ungroup, Uncheck
<1>4. RemoveRadius(u) \in Scripts(n) /\ Led(RemoveRadius(u)) BY <1>3, LedJoin DEF RemoveRadius
<1> QED BY <1>1, <1>2, <1>3, <1>4

LEMMA LedAccount ==
  ASSUME NEW n, NEW u \in Subscribers, NEW s \in Secrets, NEW t \in Secrets
  PROVE  /\ Save(u, s, t) \in Scripts(n) /\ Led(Save(u, s, t))
         /\ u \notin Manual \/ s.kind = "pin" => SetPassword(u, s) \in Scripts(n) /\ Led(SetPassword(u, s))
         /\ UpdateCheck(u, t) \in Scripts(n) /\ Led(UpdateCheck(u, t))
<1>1. Save(u, s, t) \in Scripts(n) /\ Led(Save(u, s, t))
  <2>1. [op |-> "save", user |-> u, pin |-> s, token |-> t] \in Sound(n) BY SaveScript
  <2> QED BY <2>1, LedOne DEF Save
<1>2. ASSUME NEW x \in Secrets, u \notin Manual \/ x.kind = "pin"
      PROVE  SetPassword(u, x) \in Scripts(n) /\ Led(SetPassword(u, x))
  <2>1. [op |-> "check", user |-> u, secret |-> x] \in Sound(n) BY <1>2 DEF Sound, Statements
  <2>2. Check(u, x) \in Scripts(n) /\ Led(Check(u, x)) BY <2>1, LedOne DEF Check
  <2> QED BY <2>2, LedSimple, LedJoin DEF SetPassword
<1>3. UpdateCheck(u, t) \in Scripts(n) /\ Led(UpdateCheck(u, t))
  BY <1>2, LedSimple DEF UpdateCheck
<1> QED BY <1>1, <1>2, <1>3

LEMMA LedPlan ==
  ASSUME NEW n, NEW u \in Subscribers, NEW p \in Plans, NEW t \in Secrets
  PROVE  /\ Assign(u, p, t) \in Scripts(n) /\ Led(Assign(u, p, t))
         /\ Activate(u, p, t) \in Scripts(n) /\ Led(Activate(u, p, t))
<1>1. Group(u, p) \in Scripts(n) /\ Led(Group(u, p))
  <2>1. [op |-> "group", user |-> u, plan |-> p] \in Sound(n) BY DEF Sound, Statements
  <2> QED BY <2>1, LedOne DEF Group
<1>2. Ungroup(u) \o Group(u, p) \in Scripts(n) /\ Led(Ungroup(u) \o Group(u, p))
  BY <1>1, LedSimple, LedJoin
<1>3. UpdateCheck(u, t) \in Scripts(n) /\ Led(UpdateCheck(u, t)) BY LedAccount
<1>4. Assign(u, p, t) \in Scripts(n) /\ Led(Assign(u, p, t)) BY <1>2, <1>3, LedJoin DEF Assign
<1>5. Expire(u) \o Insert(u, p) \in Scripts(n)
  BY SimpleScripts, PlanScripts, Joined DEF Scripts
<1>6. Led(Expire(u) \o Insert(u, p))
  <2>1. PICK e, i : e = [op |-> "expire", user |-> u] /\ i = [op |-> "insert", user |-> u, plan |-> p]
    OBVIOUS
  <2>2. PICK r : r = <<e>> \o <<i>> OBVIOUS
  <2>3. <<e>> \in Seq({e, i}) /\ <<i>> \in Seq({e, i}) OBVIOUS
  <2>4. DOMAIN r = {1, 2} /\ r[1] = e /\ r[2] = i BY <2>2, <2>3
  <2>5. Led(r) BY <2>1, <2>4 DEF Led
  <2> QED BY <2>1, <2>2, <2>5 DEF Expire, Insert
<1> QED BY <1>4, <1>5, <1>6, LedJoin DEF Activate

-----------------------------------------------------------------------------
(* At most one active subscription: the steps                              *)

LEMMA RequestLed == ASSUME IInv, OneActive, Idle, Request(w1) PROVE OneActive'
<1> DEFINE n == Len(subs)
<1> PICK u \in Subscribers :
      \/ Login(w1, u) \/ DisconnectAll(w1, u) \/ DeleteAccount(w1, u) \/ ChangePin(w1, u)
      \/ CreateManual(w1, u)
      \/ \E p \in Plans : \/ SignUp(w1, u, p) \/ ChangePlan(w1, u, p)
                          \/ RechargeComplete(w1, u, p) \/ PurchaseFromWallet(w1, u, p)
  BY DEF Request
<1>0. /\ Typed /\ NewPin(u) \in Secrets /\ NewPin(u).kind = "pin" /\ NewToken(u) \in Secrets
      /\ pin[u] \in Secrets /\ token[u] \in Secrets
  BY Fresh DEF IInv
<1>1. /\ Kick(u) \in Scripts(n) /\ Led(Kick(u))
      /\ \A s \in Secrets : /\ Save(u, s, NewToken(u)) \in Scripts(n) /\ Led(Save(u, s, NewToken(u)))
      /\ UpdateCheck(u, NewToken(u)) \in Scripts(n) /\ Led(UpdateCheck(u, NewToken(u)))
      /\ SetPassword(u, NewPin(u)) \in Scripts(n) /\ Led(SetPassword(u, NewPin(u)))
  BY <1>0, LedSimple, LedAccount
<1>2. \A p \in Plans : /\ Activate(u, p, NewToken(u)) \in Scripts(n) /\ Led(Activate(u, p, NewToken(u)))
                       /\ Activate(u, p, token[u]) \in Scripts(n) /\ Led(Activate(u, p, token[u]))
  BY <1>0, LedPlan
<1>3. w1 \in Processes BY SceneAssumption DEF Processes
<1>s. ASSUME NEW s \in Scripts(n), Led(s), Serve(w1, s), UNCHANGED subs PROVE OneActive'
  BY <1>3, <1>s, StartLed DEF Serve
<1> HIDE DEF n
<1>4. CASE Login(w1, u)
  <2> DEFINE o == [op |-> "login", user |-> u, secret |-> NewToken(u)]
  <2>1. o \in Sound(n) BY <1>0 DEF Sound, Statements
  <2>2. <<o>> \in Scripts(n) /\ Led(<<o>>) BY <2>1, LedOne
  <2>3. Serve(w1, Save(u, pin[u], NewToken(u)) \o <<o>> \o Kick(u)) /\ UNCHANGED subs BY <1>4 DEF Login
  <2> HIDE DEF o
  <2>4. Save(u, pin[u], NewToken(u)) \o <<o>> \in Scripts(n) /\ Led(Save(u, pin[u], NewToken(u)) \o <<o>>)
    BY <1>0, <1>1, <2>2, LedJoin
  <2>5. /\ Save(u, pin[u], NewToken(u)) \o <<o>> \o Kick(u) \in Scripts(n)
        /\ Led(Save(u, pin[u], NewToken(u)) \o <<o>> \o Kick(u))
    BY <1>1, <2>4, LedJoin
  <2> QED BY <1>s, <2>3, <2>5
<1>5. CASE DisconnectAll(w1, u)
  <2>1. /\ Kick(u) \o Save(u, pin[u], NewToken(u)) \in Scripts(n)
        /\ Led(Kick(u) \o Save(u, pin[u], NewToken(u)))
    BY <1>0, <1>1, LedJoin
  <2>2. /\ Kick(u) \o Save(u, pin[u], NewToken(u)) \o UpdateCheck(u, NewToken(u)) \in Scripts(n)
        /\ Led(Kick(u) \o Save(u, pin[u], NewToken(u)) \o UpdateCheck(u, NewToken(u)))
    BY <1>1, <2>1, LedJoin
  <2> QED BY <1>s, <1>5, <2>2 DEF DisconnectAll
<1>6. CASE DeleteAccount(w1, u)
  <2> DEFINE e == <<[op |-> "erase", user |-> u]>>
  <2>1. e \in Scripts(n) /\ Led(e) /\ RemoveRadius(u) \in Scripts(n) /\ Led(RemoveRadius(u))
    BY LedSimple
  <2>2. Serve(w1, Kick(u) \o RemoveRadius(u) \o e) /\ UNCHANGED subs BY <1>6 DEF DeleteAccount
  <2> HIDE DEF e
  <2>3. Kick(u) \o RemoveRadius(u) \in Scripts(n) /\ Led(Kick(u) \o RemoveRadius(u))
    BY <1>1, <2>1, LedJoin
  <2>4. Kick(u) \o RemoveRadius(u) \o e \in Scripts(n) /\ Led(Kick(u) \o RemoveRadius(u) \o e)
    BY <2>1, <2>3, LedJoin
  <2> QED BY <1>s, <2>2, <2>4
<1>7. CASE ChangePin(w1, u)
  <2>1. /\ Save(u, NewPin(u), NewToken(u)) \o UpdateCheck(u, NewToken(u)) \in Scripts(n)
        /\ Led(Save(u, NewPin(u), NewToken(u)) \o UpdateCheck(u, NewToken(u)))
    BY <1>0, <1>1, LedJoin
  <2> QED BY <1>s, <1>7, <2>1 DEF ChangePin
<1>8. CASE CreateManual(w1, u)
  <2> DEFINE a == Save(u, NewPin(u), NewToken(u)) \o SetPassword(u, NewPin(u))
  <2>1. PICK b \in {<<>>} \cup {Activate(u, p, NewToken(u)) : p \in Plans} : Serve(w1, a \o b)
    BY <1>8 DEF CreateManual
  <2>2. a \in Scripts(n) /\ Led(a) BY <1>0, <1>1, LedJoin
  <2>3. b \in Scripts(n) /\ Led(b) BY <1>2, <2>1, LedSimple
  <2>4. UNCHANGED subs BY <1>8 DEF CreateManual
  <2> HIDE DEF a
  <2>5. a \o b \in Scripts(n) /\ Led(a \o b) BY <2>2, <2>3, LedJoin
  <2> QED BY <1>s, <2>1, <2>4, <2>5
<1>9. ASSUME NEW p \in Plans, SignUp(w1, u, p) PROVE OneActive'
  <2>1. /\ Save(u, NewPin(u), NewToken(u)) \o Activate(u, p, NewToken(u)) \in Scripts(n)
        /\ Led(Save(u, NewPin(u), NewToken(u)) \o Activate(u, p, NewToken(u)))
    BY <1>0, <1>1, <1>2, LedJoin
  <2> QED BY <1>s, <1>9, <2>1 DEF SignUp
<1>10. ASSUME NEW p \in Plans, ChangePlan(w1, u, p) \/ RechargeComplete(w1, u, p) PROVE OneActive'
  BY <1>s, <1>2, <1>10 DEF ChangePlan, RechargeComplete
<1>11. ASSUME NEW p \in Plans, PurchaseFromWallet(w1, u, p) PROVE OneActive'
  <2> DEFINE o == [op |-> "buy", user |-> u, plan |-> p, secret |-> token[u]]
  <2>1. o \in Sound(n) BY <1>0 DEF Sound, Statements
  <2>2. <<o>> \in Scripts(n) /\ Led(<<o>>) BY <2>1, LedOne
  <2>3. Serve(w1, <<o>> \o Kick(u)) /\ UNCHANGED subs BY <1>11 DEF PurchaseFromWallet
  <2> HIDE DEF o
  <2>4. <<o>> \o Kick(u) \in Scripts(n) /\ Led(<<o>> \o Kick(u)) BY <1>1, <2>2, LedJoin
  <2> QED BY <1>s, <2>3, <2>4
<1> QED BY <1>4, <1>5, <1>6, <1>7, <1>8, <1>9, <1>10, <1>11

LEMMA TokenOnlyLed == ASSUME IInv, OneActive, Idle, TokenOnly(w1) PROVE OneActive'
<1>3. w1 \in Processes BY SceneAssumption DEF Processes
<1>s. ASSUME NEW s, DOMAIN s \subseteq Nat \ {0}, \A k \in DOMAIN s : s[k].op # "insert",
             Serve(w1, s), UNCHANGED subs
      PROVE  OneActive'
  <2>1. Led(s) BY <1>s DEF Led
  <2>2. Works(w1) BY DEF Idle, Works
  <2>3. OneEach' BY <1>s DEF OneActive, OneEach, ActiveRows
  <2> QED BY <1>3, <1>s, <2>1, <2>2, <2>3, GoesLed DEF Serve
<1>1. ASSUME NEW u \in Subscribers, RechargeVerify(w1, u) PROVE OneActive'
  <2>1. DOMAIN <<>> \subseteq Nat \ {0} /\ \A k \in DOMAIN <<>> : <<>>[k].op # "insert" OBVIOUS
  <2> QED BY <1>s, <1>1, <2>1 DEF RechargeVerify
<1>2. ASSUME NEW ph \in Phones, ResetPin(w1, ph) PROVE OneActive'
  <2> DEFINE owners == {u \in alive : Phone[u] = ph}
             m == Cardinality(owners)
             saves(accounts) == [k \in DOMAIN accounts |->
                                  [op |-> "save", user |-> accounts[k],
                                   pin |-> NewPin(accounts[k]), token |-> NewToken(accounts[k])]]
  <2>1. PICK accounts \in [1..m -> owners] : Serve(w1, saves(accounts)) BY <1>2 DEF ResetPin
  <2>2. /\ DOMAIN saves(accounts) \subseteq Nat \ {0}
        /\ \A k \in DOMAIN saves(accounts) : saves(accounts)[k].op # "insert"
    <3>1. owners \subseteq Subscribers BY DEF IInv, Typed
    <3>2. m \in Nat BY <3>1, PhoneAssumption, FS_Subset, FS_CardinalityType
    <3> HIDE DEF m, owners
    <3> QED BY <3>2
  <2>3. UNCHANGED subs BY <1>2 DEF ResetPin
  <2> HIDE DEF saves
  <2> QED BY <1>s, <2>1, <2>2, <2>3
<1> QED BY <1>1, <1>2 DEF TokenOnly

\* The rows stay and the process goes on after any statement but an expiration.
LEMMA RowsKept == ASSUME OneEach, UNCHANGED subs PROVE OneEach'
BY DEF OneEach, ActiveRows

LEMMA ExpireLed == ASSUME IInv, OneActive, NEW q \in Processes, DoExpire(q) PROVE OneActive'
<1>1. todo[q] # <<>> /\ Now(q).op = "expire" /\ subs' = Expired(Now(q).user) /\ Done(q)
  BY DEF DoExpire, At, Now
<1>2. Now(q).user \in Subscribers BY <1>1, Heads, Arguments
<1>3. PICK u \in Subscribers, b \in {Tail(todo[q])} : u = Now(q).user BY <1>2
<1>4. /\ (ActiveRows(u))' = {} /\ \A v \in Subscribers \ {u} : (ActiveRows(v))' = ActiveRows(v)
  BY <1>1, <1>3, RowsEnd
<1>5. LedBy(Now(q), b) /\ b \in Scripts(Len(subs)) /\ Works(q) /\ OneEach BY <1>1, <1>3, Working
<1>6. <<>> \o b = b BY <1>5 DEF Scripts
<1>7. todo' = [todo EXCEPT ![q] = b] BY <1>1, <1>3, <1>6 DEF Done, Continue
<1>8. \A k \in DOMAIN b : b[k].op = "insert" =>
        IF k = 1 THEN (ActiveRows(b[1].user))' = {} ELSE b[k - 1].op = "expire" /\ b[k - 1].user = b[k].user
  <2> TAKE k \in DOMAIN b
  <2> HAVE b[k].op = "insert"
  <2>1. CASE k = 1
    <3>1. b[1].user = u BY <1>3, <1>5, <2>1 DEF LedBy
    <3> QED BY <1>4, <2>1, <3>1
  <2>2. CASE k # 1 BY <1>5, <2>2 DEF LedBy
  <2> QED BY <2>1, <2>2
<1>9. OneEach'
  <2>1. ASSUME NEW v \in Subscribers PROVE (ActiveRows(v))' \subseteq ActiveRows(v) BY <1>4
  <2> QED BY <1>5, <2>1, RowsFewer
<1> QED BY <1>5, <1>7, <1>8, <1>9, GoesGuarded

LEMMA InsertLed == ASSUME IInv, OneActive, NEW q \in Processes, DoInsert(q) PROVE OneActive'
<1>1. todo[q] # <<>> /\ Now(q).op = "insert" BY DEF DoInsert, At, Now
<1>2. Now(q).user \in Subscribers /\ Now(q).plan \in Plans BY <1>1, Heads, Arguments
<1>3. CASE subs' = Append(subs, NewRow(Now(q).user, Now(q).plan)) /\ Done(q)
  <2>1. PICK u \in Subscribers : u = Now(q).user BY <1>2
  <2>2. /\ (ActiveRows(u))' = ActiveRows(u) \cup {Len(subs) + 1}
        /\ \A v \in Subscribers \ {u} : (ActiveRows(v))' = ActiveRows(v)
    BY <1>2, <1>3, <2>1, RowAdded
  <2>3. ActiveRows(u) = {}
    <3>1. 1 \in DOMAIN todo[q] /\ todo[q][1] = Now(q) BY <1>1, Working DEF Scripts, Now
    <3> QED BY <1>1, <2>1, <3>1, Working DEF Guarded
  <2>4. OneEach'
    <3>1. OneEach BY DEF OneActive
    <3> QED BY <2>2, <2>3, <3>1 DEF OneEach
  <2> QED BY <1>1, <1>3, <2>4, DoneLed
<1>4. CASE Raise(q) /\ UNCHANGED subs
  <2>1. OneEach' BY <1>4, RowsKept DEF OneActive
  <2> QED BY <1>1, <1>4, <2>1, RaiseLed
<1> QED BY <1>3, <1>4 DEF DoInsert

LEMMA QuietLed ==
  ASSUME IInv, OneActive, NEW q \in Processes, DoGroup(q) \/ DoCheck(q) \/ DoKick(q) \/ DoSave(q)
  PROVE  OneActive'
<1>1. /\ todo[q] # <<>> /\ Now(q).op \in {"ungroup", "group", "uncheck", "check", "kick", "save"}
      /\ Done(q) /\ UNCHANGED subs
  BY DEF DoGroup, DoCheck, DoKick, DoSave, At, Now
<1>2. OneEach' BY <1>1, RowsKept DEF OneActive
<1> QED BY <1>1, <1>2, DoneLed

LEMMA EraseLed == ASSUME IInv, OneActive, NEW q \in Processes, DoErase(q) PROVE OneActive'
<1> DEFINE u == Now(q).user
<1>1. /\ todo[q] # <<>> /\ Now(q).op = "erase" /\ Done(q)
      /\ subs' = [i \in DOMAIN subs |-> IF subs[i].user = u
                                        THEN [subs[i] EXCEPT !.status = "deleted"] ELSE subs[i]]
  BY DEF DoErase, At, Now
<1>2. \A i \in DOMAIN subs : subs[i] \in SubscriptionRows BY DEF IInv, Typed
<1>3. ASSUME NEW v \in Subscribers PROVE (ActiveRows(v))' \subseteq ActiveRows(v)
  <2>1. ASSUME NEW i \in DOMAIN subs, subs'[i].user = v, subs'[i].status = "active"
        PROVE  subs[i].user = v /\ subs[i].status = "active"
    BY <1>1, <1>2, <2>1 DEF SubscriptionRows
  <2>2. DOMAIN subs' = DOMAIN subs BY <1>1
  <2> QED BY <2>1, <2>2 DEF ActiveRows
<1>4. OneEach' BY <1>3, RowsFewer DEF OneActive
<1> QED BY <1>1, <1>4, DoneLed

LEMMA LoginLed == ASSUME IInv, OneActive, NEW q \in Processes, DoLogin(q) PROVE OneActive'
<1> DEFINE u == Now(q).user  t == Now(q).secret  n == Len(subs)
<1>1. todo[q] # <<>> /\ Now(q).op = "login" /\ UNCHANGED subs BY DEF DoLogin, At, Now
<1>2. u \in Subscribers /\ t \in Secrets BY <1>1, Heads, Arguments
<1>3. \A i \in DOMAIN subs : subs[i].plan \in Plans
  <2> TAKE i \in DOMAIN subs
  <2>1. subs[i] \in SubscriptionRows BY DEF IInv, Typed
  <2> QED BY <2>1 DEF SubscriptionRows
<1>4. PICK s \in Scripts(n) : Continue(q, s) /\ Led(s)
  <2>1. CASE \E i \in Newest(ActiveRows(u)) : Continue(q, Assign(u, subs[i].plan, t))
    <3>1. PICK i \in DOMAIN subs : Continue(q, Assign(u, subs[i].plan, t))
      BY <2>1 DEF Newest, ActiveRows
    <3> QED BY <3>1, <1>2, <1>3, LedPlan
  <2>2. CASE \E i \in DOMAIN subs : Continue(q, Activate(u, subs[i].plan, t))
    BY <2>2, <1>2, <1>3, LedPlan
  <2>3. CASE Continue(q, RemoveRadius(u)) BY <2>3, <1>2, LedSimple
  <2> QED BY <2>1, <2>2, <2>3 DEF DoLogin
<1>5. OneEach' BY <1>1, RowsKept DEF OneActive
<1> QED BY <1>1, <1>4, <1>5, ContinueLed

LEMMA BoughtOne ==
  ASSUME IInv, OneEach, NEW u \in Subscribers, NEW p \in Plans, NEW t, Bought(u, p, t) PROVE OneEach'
<1>1. subs' = Append(Expired(u), NewRow(u, p)) BY DEF Bought
<1>2. /\ (ActiveRows(u))' = {Len(subs) + 1}
      /\ \A v \in Subscribers \ {u} : (ActiveRows(v))' = ActiveRows(v)
  BY <1>1, RowReplaced
<1> QED BY <1>2 DEF OneEach

LEMMA BuyLed == ASSUME IInv, OneActive, NEW q \in Processes, DoBuy(q) PROVE OneActive'
<1>1. todo[q] # <<>> /\ Now(q).op = "buy" /\ OneEach BY DEF DoBuy, At, Now, OneActive
<1>2. Now(q).user \in Subscribers /\ Now(q).plan \in Plans BY <1>1, Heads, Arguments
<1>3. CASE Bought(Now(q).user, Now(q).plan, Now(q).secret) /\ Done(q)
  <2>1. PICK u \in Subscribers, p \in Plans : u = Now(q).user /\ p = Now(q).plan BY <1>2
  <2>2. OneEach' BY <1>1, <1>3, <2>1, BoughtOne
  <2> QED BY <1>1, <1>3, <2>2, DoneLed
<1>4. CASE Raise(q) /\ UNCHANGED <<subs, radius>>
  <2>1. OneEach' BY <1>1, <1>4, RowsKept
  <2> QED BY <1>1, <1>4, <2>1, RaiseLed
<1> QED BY <1>3, <1>4 DEF DoBuy

LEMMA LapseLed ==
  ASSUME NEW n \in Nat, NEW i \in 1..n PROVE Lapse(i) \in Scripts(n) /\ Led(Lapse(i))
<1>1. [op |-> "lapse", row |-> i] \in Sound(n) BY DEF Sound, Statements
<1> QED BY <1>1, LedOne DEF Lapse

LEMMA RenewLed == ASSUME IInv, OneActive, NEW q \in Processes, RenewOverdue(q) PROVE OneActive'
<1> DEFINE o == Now(q)  sub == subs[o.row]
<1>1. At(q, "overdue") /\ Bought(sub.user, sub.plan, o.secret) /\ Continue(q, Lapse(o.row)) /\ OneEach
  BY DEF RenewOverdue, OneActive
<1>2. todo[q] # <<>> /\ o.row \in 1..Len(subs) /\ sub \in SubscriptionRows /\ o.op = "overdue"
  BY <1>1, RowOf DEF At, Now
<1>3. sub.user \in Subscribers /\ sub.plan \in Plans /\ Len(subs) \in Nat
  BY <1>2 DEF SubscriptionRows, IInv, Typed
<1>4. OneEach'
  <2>1. PICK u \in Subscribers, p \in Plans, t \in {o.secret} : u = sub.user /\ p = sub.plan BY <1>3
  <2> QED BY <1>1, <2>1, BoughtOne
<1>5. Lapse(o.row) \in Scripts(Len(subs)) /\ Led(Lapse(o.row)) BY <1>2, <1>3, LapseLed
<1> QED BY <1>1, <1>2, <1>4, <1>5, ContinueLed

LEMMA CutOffLed == ASSUME IInv, OneActive, NEW q \in Processes, CutOffOverdue(q) PROVE OneActive'
<1> DEFINE i == Now(q).row  u == subs[i].user
<1>1. At(q, "overdue") /\ Continue(q, Lapse(i) \o Kick(u) \o RemoveRadius(u)) /\ UNCHANGED subs
  BY DEF CutOffOverdue
<1>2. todo[q] # <<>> /\ i \in 1..Len(subs) /\ subs[i] \in SubscriptionRows /\ Now(q).op = "overdue"
  BY <1>1, RowOf DEF At, Now
<1>3. u \in Subscribers /\ Len(subs) \in Nat BY <1>2 DEF SubscriptionRows, IInv, Typed
<1>4. Lapse(i) \in Scripts(Len(subs)) /\ Led(Lapse(i)) BY <1>2, <1>3, LapseLed
<1>5. /\ Kick(u) \in Scripts(Len(subs)) /\ Led(Kick(u))
      /\ RemoveRadius(u) \in Scripts(Len(subs)) /\ Led(RemoveRadius(u))
  BY <1>3, LedSimple
<1>6. /\ Lapse(i) \o Kick(u) \o RemoveRadius(u) \in Scripts(Len(subs))
      /\ Led(Lapse(i) \o Kick(u) \o RemoveRadius(u))
  BY <1>4, <1>5, LedJoin
<1>7. OneEach' BY <1>1, RowsKept DEF OneActive
<1> QED BY <1>1, <1>2, <1>6, <1>7, ContinueLed

LEMMA DoLapseLed == ASSUME IInv, OneActive, NEW q \in Processes, DoLapse(q) PROVE OneActive'
<1> DEFINE i == Now(q).row
<1>1. At(q, "lapse") BY DEF DoLapse
<1>2. todo[q] # <<>> /\ i \in 1..Len(subs) /\ Now(q).op = "lapse" /\ OneEach
  BY <1>1, RowOf DEF At, Now, OneActive
<1>3. CASE subs' = [subs EXCEPT ![i].status = "expired"] /\ Done(q)
  <2>1. DOMAIN subs' = DOMAIN subs BY <1>3
  <2>2. ASSUME NEW j \in DOMAIN subs, subs'[j].status = "active" PROVE subs'[j] = subs[j]
    <3>1. subs[j] \in SubscriptionRows BY DEF IInv, Typed
    <3>2. subs'[j] = IF j = i THEN [subs[j] EXCEPT !.status = "expired"] ELSE subs[j] BY <1>3
    <3> QED BY <2>2, <3>1, <3>2 DEF SubscriptionRows
  <2>3. ASSUME NEW v \in Subscribers PROVE (ActiveRows(v))' \subseteq ActiveRows(v)
    BY <2>1, <2>2 DEF ActiveRows
  <2>4. OneEach' BY <1>2, <2>3, RowsFewer
  <2> QED BY <1>2, <1>3, <2>4, DoneLed
<1>4. CASE Raise(q) /\ UNCHANGED subs
  <2>1. OneEach' BY <1>2, <1>4, RowsKept
  <2> QED BY <1>2, <1>4, <2>1, RaiseLed
<1> QED BY <1>3, <1>4 DEF DoLapse

LEMMA StatementLed == ASSUME IInv, OneActive, NEW q \in Processes, Statement(q) PROVE OneActive'
BY ExpireLed, InsertLed, QuietLed, EraseLed, LoginLed, BuyLed, RenewLed, CutOffLed, DoLapseLed
   DEF Statement

LEMMA CrashLed == ASSUME IInv, OneActive, NEW q \in Processes, Crash(q) PROVE OneActive'
<1>1. todo[q] # <<>> /\ todo' = [todo EXCEPT ![q] = <<>>] /\ UNCHANGED subs BY DEF Crash
<1>2. Works(q) /\ OneEach' BY <1>1, Working, RowsKept
<1>3. Led(<<>>) /\ DOMAIN <<>> \subseteq Nat \ {0} BY DEF Led
<1> QED BY <1>1, <1>2, <1>3, GoesLed

LEMMA ExpirePlansLed == ASSUME IInv, OneActive, Idle, ExpirePlans PROVE OneActive'
<1> DEFINE m == Cardinality(Overdue)
           rows(batch) == [k \in DOMAIN batch |->
                            [op |-> "overdue", row |-> batch[k],
                             secret |-> token[subs[batch[k]].user]]]
<1>1. PICK batch \in [1..m -> Overdue] : todo' = [todo EXCEPT ![Timer] = rows(batch)] BY DEF ExpirePlans
<1>2. DOMAIN rows(batch) \subseteq Nat \ {0} /\ \A k \in DOMAIN rows(batch) : rows(batch)[k].op # "insert"
  <2>1. 1..m \subseteq Nat \ {0}
    <3>1. subs \in Seq(SubscriptionRows) /\ Len(subs) \in Nat /\ Overdue \subseteq 1..Len(subs)
      BY DEF IInv, Typed, Overdue
    <3>2. IsFiniteSet(1..Len(subs)) BY <3>1, FS_Interval
    <3>3. m \in Nat BY <3>1, <3>2, FS_Subset, FS_CardinalityType
    <3> HIDE DEF m
    <3> QED BY <3>3
  <2> HIDE DEF m
  <2> QED BY <2>1
<1> HIDE DEF rows, m
<1>3. Led(rows(batch)) BY <1>2 DEF Led
<1>4. Works(Timer) /\ Timer \in Processes BY DEF Idle, Works, Processes
<1>5. OneEach'
  <2>1. UNCHANGED subs BY DEF ExpirePlans
  <2> QED BY <2>1, RowsKept DEF OneActive
<1>6. PICK s : s = rows(batch) OBVIOUS
<1> QED BY <1>1, <1>2, <1>3, <1>4, <1>5, <1>6, GoesLed

\* The admin form: an edit that makes a row active expires the others.
LEMMA AdministerLed == ASSUME IInv, OneActive, Idle, Administer PROVE OneActive'
<1> PICK u \in Subscribers, i \in DOMAIN subs, status \in {"active", "expired"} : AdminSave(u, i, status)
  BY DEF Administer
<1> DEFINE edited == [subs EXCEPT ![i].status = status]
           single == [j \in DOMAIN subs |->
                       IF status = "active" /\ j # i /\ edited[j].user = u /\ edited[j].status = "active"
                       THEN [edited[j] EXCEPT !.status = "expired"] ELSE edited[j]]
<1>1. subs' = single /\ UNCHANGED todo /\ subs[i].user = u BY DEF AdminSave
<1>2. ASSUME NEW j \in DOMAIN subs
      PROVE  /\ edited[j].user = subs[j].user
             /\ edited[j].status = IF j = i THEN status ELSE subs[j].status
             /\ edited[j] \in SubscriptionRows
  <2>1. subs[j] \in SubscriptionRows BY DEF IInv, Typed
  <2>2. edited[j] = IF j = i THEN [subs[j] EXCEPT !.status = status] ELSE subs[j] OBVIOUS
  <2> QED BY <2>1, <2>2 DEF SubscriptionRows
<1> HIDE DEF edited
<1>3. ASSUME NEW j \in DOMAIN subs
      PROVE  /\ single[j].user = subs[j].user
             /\ single[j].status = "active" =>
                  IF j = i THEN status = "active"
                  ELSE subs[j].status = "active" /\ (status = "active" => subs[j].user # u)
  BY <1>2 DEF SubscriptionRows
<1>4. DOMAIN single = DOMAIN subs OBVIOUS
<1> HIDE DEF single
<1>5. ASSUME NEW v \in Subscribers, NEW j \in (ActiveRows(v))', NEW k \in (ActiveRows(v))' PROVE j = k
  <2>1. /\ j \in DOMAIN subs /\ k \in DOMAIN subs /\ subs[j].user = v /\ subs[k].user = v
        /\ single[j].status = "active" /\ single[k].status = "active"
    BY <1>1, <1>3, <1>4 DEF ActiveRows
  <2>2. OneEach BY DEF OneActive
  <2>3. CASE j = i \/ k = i BY <1>1, <1>3, <2>1, <2>3
  <2>4. CASE j # i /\ k # i BY <1>3, <2>1, <2>2, <2>4 DEF OneEach, ActiveRows
  <2> QED BY <2>3, <2>4
<1>6. OneEach' BY <1>5 DEF OneEach
<1>7. PICK q \in Processes : q = Timer BY DEF Processes
<1>8. \A r \in Processes : todo'[r] = <<>> BY <1>1 DEF Idle
<1>9. Works(q)' /\ Guarded(todo[q])' BY <1>8 DEF Works, Guarded
<1> QED BY <1>6, <1>9 DEF OneActive

\* What the scenes add to Access.
LEMMA SceneStep == MCNext => Next
<1> SUFFICES ASSUME MCNext PROVE Next OBVIOUS
<1>1. Runs => Next BY Zenon DEF Runs, Next
<1>2. Tick => Next BY Zenon DEF Environment, Next
<1>3. (\E q \in Processes : Crash(q)) => Next BY Zenon DEF Next
<1>4. Starts => Next BY Zenon, SceneAssumption DEF Starts, Next
<1> QED BY <1>1, <1>2, <1>3, <1>4 DEF MCNext

LEMMA OneActiveStep ==
  IInv /\ (scene # "all" => OneActive) /\ [MCNext]_scenic => (scene # "all" => OneActive)'
<1> SUFFICES ASSUME IInv, scene # "all" => OneActive, [MCNext]_scenic, scene' # "all" PROVE OneActive'
  OBVIOUS
<1>1. UNCHANGED scene BY DEF MCNext, scenic
<1>2. OneActive BY <1>1
<1>3. CASE Runs BY <1>2, <1>3, StatementLed DEF Runs
<1>4. CASE Idle /\ Starts
  <2>1. CASE ExpirePlans BY <1>2, <1>4, <2>1, ExpirePlansLed
  <2>2. CASE Request(w1) BY <1>2, <1>4, <2>2, RequestLed
  <2>3. CASE TokenOnly(w1) BY <1>2, <1>4, <2>3, TokenOnlyLed
  <2>4. CASE Administer BY <1>2, <1>4, <2>4, AdministerLed
  <2> QED BY <1>4, <2>1, <2>2, <2>3, <2>4 DEF Starts
<1>5. CASE Tick \/ UNCHANGED scenic
  <2>1. UNCHANGED <<subs, todo>> BY <1>5 DEF Tick, scenic, vars
  <2> QED BY <1>2, <2>1 DEF OneActive, OneEach, ActiveRows, Works, Guarded
<1>6. CASE \E q \in Processes : Crash(q) BY <1>2, <1>6, CrashLed
<1>7. Runs \/ (Idle /\ Starts) \/ Tick \/ UNCHANGED scenic \/ \E q \in Processes : Crash(q)
  BY <1>1 DEF MCNext
<1> QED BY <1>3, <1>4, <1>5, <1>6, <1>7

-----------------------------------------------------------------------------
(* The customers' requests and the timer: RADIUS follows the rows          *)

Erase(u) == <<[op |-> "erase", user |-> u]>>
LogsIn(u, t) == <<[op |-> "login", user |-> u, secret |-> t]>> \o Kick(u)
ActivePlans(u) == {subs[i].plan : i \in ActiveRows(u)}

\* What RADIUS holds for a subscriber who has the phone number alone.
Grouped(u) == Alone(u) => group[Phone[u]] = ActivePlans(u)
Ungrouped(u) == Alone(u) => group[Phone[u]] = {}
Opens(u) == Alone(u) /\ u \notin Manual /\ ActiveRows(u) # {} => check[Phone[u]] = {token[u]}
Right(u) == Grouped(u) /\ Opens(u)
OthersRight(u) == \A v \in Subscribers \ {u} : Right(v)

\* What ends a request of u that has given out the token t.
Ends(u, t) == {<<>>, Kick(u)} \cup {Activate(u, p, t) : p \in Plans}
\* The password a request may write: the token, or a manual subscriber's PIN.
Password(u, t, x) == u \notin Manual => x = t

\* A request of u is about to execute o, and r after it.
Serves(u, t, o, r) ==
  \/ /\ token[u] = t
     /\ \E K \in Ends(u, t) :
          \/ o.op = "expire" /\ \E p \in Plans : r = Insert(u, p) \o (Assign(u, p, t) \o K)
          \/ o.op = "insert" /\ ActiveRows(u) = {} /\ r = Assign(u, o.plan, t) \o K
          \/ o.op = "ungroup" /\ \E p \in Plans : /\ ActivePlans(u) = {p}
                                                  /\ r = Group(u, p) \o (UpdateCheck(u, t) \o K)
          \/ o.op = "group" /\ ActivePlans(u) = {o.plan} /\ Ungrouped(u) /\ r = UpdateCheck(u, t) \o K
          \/ o.op = "uncheck" /\ Grouped(u) /\ \E x \in Secrets : Password(u, t, x) /\ r = Check(u, x) \o K
          \/ /\ o.op = "check" /\ Grouped(u) /\ (Alone(u) => check[Phone[u]] = {})
             /\ Password(u, t, o.secret) /\ r = K
          \/ o.op = "kick" /\ Right(u) /\ r = <<>>
          \/ o.op = "buy" /\ o.secret = t /\ Right(u) /\ r = Kick(u)
          \/ o.op = "login" /\ o.secret = t /\ Grouped(u) /\ r = Kick(u)
          \/ o.op = "ungroup" /\ ActiveRows(u) = {} /\ r = Uncheck(u) \o K
          \/ o.op = "uncheck" /\ ActiveRows(u) = {} /\ Ungrouped(u) /\ r = K
  \* the new token is not saved yet
  \/ /\ o.op = "save" /\ o.token = t /\ Grouped(u)
     /\ \/ r = UpdateCheck(u, t) \/ r = LogsIn(u, t) \/ \E p \in Plans : r = Activate(u, p, t)
        \/ \E x \in Secrets, K \in Ends(u, t) : u \in Manual /\ x.kind = "pin" /\ r = SetPassword(u, x) \o K
  \/ o.op = "kick" /\ Right(u) /\ \E x \in Secrets : r = Save(u, x, t) \o UpdateCheck(u, t)
  \* the account goes
  \/ o.op = "kick" /\ r = RemoveRadius(u) \o Erase(u)
  \/ o.op = "ungroup" /\ r = Uncheck(u) \o Erase(u)
  \/ o.op = "uncheck" /\ Ungrouped(u) /\ r = Erase(u)
  \/ o.op = "erase" /\ Ungrouped(u) /\ r = <<>>

\* What the timer has still to look at.
Batch(b) ==
  \A k \in DOMAIN b : /\ b[k].op = "overdue" /\ subs[b[k].row].status = "active"
                      /\ b[k].secret = token[subs[b[k].row].user]
                      /\ \A j \in DOMAIN b : b[j].row = b[k].row => j = k
Spares(b, i) == \A k \in DOMAIN b : b[k].row # i

\* The timer is at row i, of u, about to execute o and then r.
Times(i, b, o, r) ==
  LET u == subs[i].user IN
  /\ Batch(b) /\ Spares(b, i) /\ OthersRight(u)
  /\ \/ o.op = "lapse" /\ o.row = i /\ subs[i].status = "expired" /\ Right(u) /\ r = b
     \/ o.op = "lapse" /\ o.row = i /\ ActiveRows(u) = {i} /\ r = Kick(u) \o (RemoveRadius(u) \o b)
     \/ /\ o.op \in {"kick", "ungroup", "uncheck"} /\ o.user = u /\ ActiveRows(u) = {}
        /\ o.op = "kick" => r = RemoveRadius(u) \o b
        /\ o.op = "ungroup" => r = Uncheck(u) \o b
        /\ o.op = "uncheck" => Ungrouped(u) /\ r = b

Stage(s) ==
  \/ Batch(s) /\ \A u \in Subscribers : Right(u)
  \/ /\ s # <<>>
     /\ \/ \E u \in alive, t \in Secrets : /\ Head(s).user = u /\ OthersRight(u)
                                           /\ Serves(u, t, Head(s), Tail(s))
        \/ \E i \in DOMAIN subs, b \in Scripts(Len(subs)) : Times(i, b, Head(s), Tail(s))
InTurn == \E q \in Processes : Works(q) /\ \E s \in {todo[q]} : Stage(s)

LEMMA Parts ==
  ASSUME NEW n, NEW o \in Sound(n), NEW r \in Scripts(n), NEW s, s = <<o>> \o r
  PROVE  s \in Scripts(n) /\ s # <<>> /\ Head(s) = o /\ Tail(s) = r
BY DEF Scripts

\* Four scripts one after the other.
Chain(a, b, c, d) == ((a \o b) \o c) \o d
After(b, c, d) == b \o (c \o d)
Linked(a, r) == a \o r

LEMMA Regrouped ==
  ASSUME NEW S, NEW x \in Seq(S), NEW y \in Seq(S), NEW z \in Seq(S)
  PROVE  Linked(Linked(x, y), z) = Linked(x, Linked(y, z)) /\ Linked(x, y) \in Seq(S)
BY ConcatAssociative, Joined DEF Linked

LEMMA Chained ==
  ASSUME NEW n, NEW a \in Scripts(n), NEW b \in Scripts(n), NEW c \in Scripts(n), NEW d \in Scripts(n)
  PROVE  Chain(a, b, c, d) = Linked(a, After(b, c, d)) /\ After(b, c, d) \in Scripts(n)
<1>1. PICK S : S = Seq(Sound(n)) OBVIOUS
<1>2. \A x, y, z \in S : Linked(Linked(x, y), z) = Linked(x, Linked(y, z)) /\ Linked(x, y) \in S
  BY <1>1, Regrouped
<1>3. a \in S /\ b \in S /\ c \in S /\ d \in S BY <1>1 DEF Scripts
<1>4. Linked(Linked(Linked(a, b), c), d) = Linked(a, Linked(b, Linked(c, d))) BY <1>2, <1>3
<1>5. Linked(b, Linked(c, d)) \in S BY <1>2, <1>3
<1>6. After(b, c, d) = Linked(b, Linked(c, d)) BY Zenon DEF After, Linked
<1>7. Chain(a, b, c, d) = Linked(Linked(Linked(a, b), c), d) BY Zenon DEF Chain, Linked
<1> QED BY <1>1, <1>4, <1>5, <1>6, <1>7 DEF Scripts

LEMMA Nested ==
  ASSUME NEW n, NEW a \in Scripts(n), NEW b \in Scripts(n), NEW c \in Scripts(n)
  PROVE  (a \o b) \o c = a \o (b \o c) /\ a \o b \in Scripts(n)
<1>1. a \in Seq(Sound(n)) /\ b \in Seq(Sound(n)) /\ c \in Seq(Sound(n)) BY DEF Scripts
<1> QED BY <1>1, ConcatAssociative, Joined DEF Scripts

LEMMA OneLeft ==
  ASSUME NEW S, NEW s \in Seq(S), s # <<>>, NEW k \in S, NEW r, r = Tail(s), r = <<k>>
  PROVE  Len(s) = 2 /\ s[2] = k /\ DOMAIN s = 1..2
<1>1. Len(<<k>>) = 1 /\ <<k>>[1] = k OBVIOUS
<1>2. Len(r) = Len(s) - 1 /\ Len(s) \in Nat /\ DOMAIN s = 1..Len(s) OBVIOUS
<1>3. \A j \in 1..(Len(s) - 1) : r[j] = s[j + 1] BY <1>2
<1>4. Len(r) = 1 /\ r[1] = k BY <1>1
<1>5. Len(s) = 2 BY <1>2, <1>4
<1>6. r[1] = s[1 + 1] BY <1>3, <1>5
<1> QED BY <1>2, <1>4, <1>5, <1>6

LEMMA NoMore ==
  ASSUME NEW n, NEW a \in Scripts(n) PROVE a \o <<>> = a /\ <<>> \o a = a /\ <<>> \in Scripts(n)
BY DEF Scripts

\* The statements of a request.
LEMMA Words ==
  ASSUME NEW n, NEW u \in Subscribers, NEW t \in Secrets
  PROVE  /\ [op |-> "expire", user |-> u] \in Sound(n) /\ [op |-> "ungroup", user |-> u] \in Sound(n)
         /\ [op |-> "uncheck", user |-> u] \in Sound(n) /\ [op |-> "kick", user |-> u] \in Sound(n)
         /\ [op |-> "erase", user |-> u] \in Sound(n)
         /\ [op |-> "login", user |-> u, secret |-> t] \in Sound(n)
         /\ \A p \in Plans : /\ [op |-> "insert", user |-> u, plan |-> p] \in Sound(n)
                             /\ [op |-> "group", user |-> u, plan |-> p] \in Sound(n)
                             /\ [op |-> "buy", user |-> u, plan |-> p, secret |-> t] \in Sound(n)
         /\ \A x \in Secrets : /\ [op |-> "save", user |-> u, pin |-> x, token |-> t] \in Sound(n)
                               /\ u \notin Manual \/ x.kind = "pin" => [op |-> "check", user |-> u, secret |-> x] \in Sound(n)
<1>1. ASSUME NEW op \in {"expire", "ungroup", "uncheck", "kick", "erase"}
      PROVE  [op |-> op, user |-> u] \in Sound(n)
  BY DEF Sound, Statements
<1>2. [op |-> "login", user |-> u, secret |-> t] \in Sound(n) BY DEF Sound, Statements
<1>3. ASSUME NEW p \in Plans
      PROVE  /\ [op |-> "insert", user |-> u, plan |-> p] \in Sound(n)
             /\ [op |-> "group", user |-> u, plan |-> p] \in Sound(n)
             /\ [op |-> "buy", user |-> u, plan |-> p, secret |-> t] \in Sound(n)
  BY DEF Sound, Statements
<1>4. ASSUME NEW x \in Secrets
      PROVE  [op |-> "save", user |-> u, pin |-> x, token |-> t] \in Sound(n)
  BY DEF Sound, Statements
<1>5. ASSUME NEW x \in Secrets, u \notin Manual \/ x.kind = "pin"
      PROVE  [op |-> "check", user |-> u, secret |-> x] \in Sound(n)
  BY <1>5 DEF Sound, Statements
<1> QED BY <1>1, <1>2, <1>3, <1>4, <1>5

LEMMA EndScripts ==
  ASSUME NEW n, NEW u \in Subscribers, NEW t \in Secrets, NEW K \in Ends(u, t) PROVE K \in Scripts(n)
BY LedSimple, LedPlan DEF Ends

-----------------------------------------------------------------------------
(* What a statement leaves as it was                                       *)

LEMMA PlansKept ==
  ASSUME UNCHANGED subs, NEW v PROVE ActiveRows(v)' = ActiveRows(v) /\ ActivePlans(v)' = ActivePlans(v)
BY DEF ActiveRows, ActivePlans

\* Only what belongs to u changes.
Apart(u) ==
  /\ \A v \in Subscribers \ {u} : /\ token'[v] = token[v] /\ ActiveRows(v)' = ActiveRows(v)
                                  /\ ActivePlans(v)' = ActivePlans(v)
  /\ \A ph \in Phones \ {Phone[u]} : group'[ph] = group[ph] /\ check'[ph] = check[ph]

LEMMA ApartStays == ASSUME NEW u \in Subscribers, Apart(u), OthersRight(u) PROVE OthersRight(u)'
<1> SUFFICES ASSUME NEW v \in Subscribers \ {u} PROVE Right(v)' BY DEF OthersRight
<1>1. Right(v) BY DEF OthersRight
<1>2. Alone(v) => Phone[v] \in Phones \ {Phone[u]} BY PhoneAssumption DEF Alone
<1>3. Alone(v)' <=> Alone(v) BY DEF Alone
<1> QED BY <1>1, <1>2, <1>3 DEF Apart, Right, Grouped, Opens

-----------------------------------------------------------------------------
(* How a process goes on                                                   *)

LEMMA GoesInTurn ==
  ASSUME IInv, NEW q \in Processes, Works(q), NEW s, todo' = [todo EXCEPT ![q] = s], Stage(s)'
  PROVE  InTurn'
<1>1. todo'[q] = s /\ \A r \in Processes \ {q} : todo'[r] = todo[r] BY DEF IInv, ScriptsSound
<1>2. Works(q)' BY <1>1 DEF Works
<1> QED BY <1>1, <1>2 DEF InTurn

LEMMA ServesOn ==
  ASSUME IInv, NEW q \in Processes, Works(q), NEW n, NEW o \in Sound(n), NEW r \in Scripts(n),
         todo' = [todo EXCEPT ![q] = <<o>> \o r],
         NEW u \in Subscribers, u \in alive', NEW t \in Secrets, o.user = u, OthersRight(u)', Serves(u, t, o, r)'
  PROVE  InTurn'
<1>1. PICK s : s = <<o>> \o r OBVIOUS
<1>2. s # <<>> /\ Head(s) = o /\ Tail(s) = r BY <1>1, Parts
<1>3. Stage(s)' BY <1>2 DEF Stage
<1> QED BY <1>1, <1>3, GoesInTurn

LEMMA TimesOn ==
  ASSUME IInv, NEW q \in Processes, Works(q), NEW n, NEW o \in Sound(n), NEW r \in Scripts(n),
         todo' = [todo EXCEPT ![q] = <<o>> \o r],
         NEW i, i \in DOMAIN subs', NEW b, b \in Scripts(Len(subs')), Times(i, b, o, r)'
  PROVE  InTurn'
<1>1. PICK s : s = <<o>> \o r OBVIOUS
<1>2. s # <<>> /\ Head(s) = o /\ Tail(s) = r BY <1>1, Parts
<1>3. Stage(s)' BY <1>2 DEF Stage
<1> QED BY <1>1, <1>3, GoesInTurn

\* Nothing is left to do, but for the rows the timer still has before it.
LEMMA RestsOn ==
  ASSUME IInv, NEW q \in Processes, Works(q), NEW b, todo' = [todo EXCEPT ![q] = b], Batch(b)',
         NEW u \in Subscribers, Right(u)', OthersRight(u)'
  PROVE  InTurn'
<1>1. \A v \in Subscribers : Right(v)' BY DEF OthersRight
<1>2. Stage(b)' BY <1>1 DEF Stage
<1> QED BY <1>2, GoesInTurn

LEMMA NothingLeft ==
  ASSUME IInv, NEW q \in Processes, Works(q), todo' = [todo EXCEPT ![q] = <<>>],
         NEW u \in Subscribers, Right(u)', OthersRight(u)'
  PROVE  InTurn'
<1>1. Batch(<<>>)' BY DEF Batch
<1> QED BY <1>1, RestsOn

\* activate_subscription is about to begin.
LEMMA ActivatesOn ==
  ASSUME IInv, NEW q \in Processes, Works(q), NEW u \in Subscribers, u \in alive', NEW t \in Secrets,
         NEW p \in Plans, NEW K \in Ends(u, t), todo' = [todo EXCEPT ![q] = Activate(u, p, t) \o K],
         token'[u] = t, OthersRight(u)'
  PROVE  InTurn'
<1>1. PICK o : o = [op |-> "expire", user |-> u] OBVIOUS
<1>2. PICK a : a = Assign(u, p, t) OBVIOUS
<1>3. PICK i : i = Insert(u, p) OBVIOUS
<1>4. /\ o \in Sound(0) /\ <<o>> \in Scripts(0) /\ i \in Scripts(0) /\ a \in Scripts(0) /\ K \in Scripts(0)
      /\ o.op = "expire" /\ o.user = u
  BY <1>1, <1>2, <1>3, Words, One, PlanScripts, AssignScript, EndScripts DEF Scripts
<1>5. PICK e : e = <<o>> OBVIOUS
<1>6. ((e \o i) \o a) \o K = e \o (i \o (a \o K)) /\ i \o (a \o K) \in Scripts(0)
  <2>1. Chain(e, i, a, K) = Linked(e, After(i, a, K)) /\ After(i, a, K) \in Scripts(0)
    BY <1>4, <1>5, Chained
  <2> QED BY <2>1, Zenon DEF Chain, After, Linked
<1>7. todo' = [todo EXCEPT ![q] = <<o>> \o (i \o (a \o K))]
  BY <1>1, <1>2, <1>3, <1>5, <1>6 DEF Activate, Expire
<1>8. PICK r : r = i \o (a \o K) OBVIOUS
<1>9. Serves(u, t, o, r)' BY <1>2, <1>3, <1>4, <1>8 DEF Serves
<1> QED BY <1>4, <1>6, <1>7, <1>8, <1>9, ServesOn

LEMMA EndsOn ==
  ASSUME IInv, NEW q \in Processes, Works(q), NEW u \in Subscribers, u \in alive', NEW t \in Secrets,
         NEW K \in Ends(u, t), todo' = [todo EXCEPT ![q] = K],
         token'[u] = t, Right(u)', OthersRight(u)'
  PROVE  InTurn'
<1>1. CASE K = <<>> BY <1>1, NothingLeft
<1>2. CASE K = Kick(u)
  <2>1. PICK o : o = [op |-> "kick", user |-> u] OBVIOUS
  <2>2. o \in Sound(0) /\ <<o>> \in Scripts(0) /\ <<>> \in Scripts(0) /\ K = <<o>> /\ o.op = "kick" /\ o.user = u
    BY <1>2, <2>1, Words, One, NoMore DEF Scripts, Kick
  <2>3. <<o>> \o <<>> = <<o>> BY <2>2, NoMore
  <2>4. <<>> \in Ends(u, t) BY DEF Ends
  <2>5. Serves(u, t, o, <<>>)' BY <2>2, <2>4 DEF Serves
  <2> QED BY <2>2, <2>3, <2>5, ServesOn
<1>3. ASSUME NEW p \in Plans, K = Activate(u, p, t) PROVE InTurn'
  <2>1. <<>> \in Ends(u, t) BY DEF Ends
  <2>2. Activate(u, p, t) \o <<>> = Activate(u, p, t)
    <3>1. Activate(u, p, t) \in Scripts(0) BY AssignScript
    <3> QED BY <3>1, NoMore
  <2> QED BY <1>3, <2>1, <2>2, ActivatesOn
<1> QED BY <1>1, <1>2, <1>3 DEF Ends

LEMMA PasswordsOn ==
  ASSUME IInv, NEW q \in Processes, Works(q), NEW u \in Subscribers, u \in alive', NEW t \in Secrets,
         NEW x \in Secrets, u \notin Manual \/ x.kind = "pin", Password(u, t, x), NEW K \in Ends(u, t),
         todo' = [todo EXCEPT ![q] = SetPassword(u, x) \o K],
         token'[u] = t, Grouped(u)', OthersRight(u)'
  PROVE  InTurn'
<1>1. PICK o : o = [op |-> "uncheck", user |-> u] OBVIOUS
<1>2. PICK c : c = Check(u, x) OBVIOUS
<1>3. [op |-> "check", user |-> u, secret |-> x] \in Sound(0) BY Words
<1>4. PICK e : e = <<o>> OBVIOUS
<1>5. /\ o \in Sound(0) /\ e \in Scripts(0) /\ c \in Scripts(0) /\ K \in Scripts(0)
      /\ o.op = "uncheck" /\ o.user = u
  BY <1>1, <1>2, <1>3, <1>4, Words, One, EndScripts DEF Scripts, Check
<1>6. (e \o c) \o K = e \o (c \o K) /\ c \o K \in Scripts(0) BY <1>5, Nested DEF Scripts
<1>7. todo' = [todo EXCEPT ![q] = <<o>> \o (c \o K)]
  BY <1>1, <1>2, <1>4, <1>6 DEF SetPassword, Uncheck
<1>8. PICK r : r = c \o K OBVIOUS
<1>9. Serves(u, t, o, r)' BY <1>2, <1>5, <1>8 DEF Serves
<1> QED BY <1>5, <1>6, <1>7, <1>8, <1>9, ServesOn

LEMMA UpdatesOn ==
  ASSUME IInv, NEW q \in Processes, Works(q), NEW u \in Subscribers, u \in alive', NEW t \in Secrets,
         NEW K \in Ends(u, t), todo' = [todo EXCEPT ![q] = UpdateCheck(u, t) \o K],
         token'[u] = t, Grouped(u)', OthersRight(u)'
  PROVE  InTurn'
<1>1. CASE u \in Manual
  <2>1. UpdateCheck(u, t) = <<>> /\ K \in Scripts(0) BY <1>1, EndScripts DEF UpdateCheck
  <2>2. <<>> \o K = K BY <2>1, NoMore
  <2>3. Right(u)' BY <1>1 DEF Right, Opens
  <2> QED BY <2>1, <2>2, <2>3, EndsOn
<1>2. CASE u \notin Manual BY <1>2, PasswordsOn DEF UpdateCheck, Password
<1> QED BY <1>1, <1>2

LEMMA AssignsOn ==
  ASSUME IInv, NEW q \in Processes, Works(q), NEW u \in Subscribers, u \in alive', NEW t \in Secrets,
         NEW p \in Plans, NEW K \in Ends(u, t), todo' = [todo EXCEPT ![q] = Assign(u, p, t) \o K],
         token'[u] = t, ActivePlans(u)' = {p}, OthersRight(u)'
  PROVE  InTurn'
<1>1. PICK o : o = [op |-> "ungroup", user |-> u] OBVIOUS
<1>2. PICK e, g, c : e = <<o>> /\ g = Group(u, p) /\ c = UpdateCheck(u, t) OBVIOUS
<1>3. /\ o \in Sound(0) /\ e \in Scripts(0) /\ g \in Scripts(0) /\ c \in Scripts(0) /\ K \in Scripts(0)
      /\ o.op = "ungroup" /\ o.user = u
  BY <1>1, <1>2, Words, One, PlanScripts, AssignScript, EndScripts DEF Scripts
<1>4. ((e \o g) \o c) \o K = e \o (g \o (c \o K)) /\ g \o (c \o K) \in Scripts(0)
  <2>1. Chain(e, g, c, K) = Linked(e, After(g, c, K)) /\ After(g, c, K) \in Scripts(0) BY <1>3, Chained
  <2> QED BY <2>1, Zenon DEF Chain, After, Linked
<1>5. todo' = [todo EXCEPT ![q] = <<o>> \o (g \o (c \o K))]
  BY <1>1, <1>2, <1>4 DEF Assign, Ungroup
<1>6. PICK r : r = g \o (c \o K) OBVIOUS
<1>7. Serves(u, t, o, r)' BY <1>2, <1>3, <1>6 DEF Serves
<1> QED BY <1>3, <1>4, <1>5, <1>6, <1>7, ServesOn

\* remove_subscriber_from_radius, before what follows it.
LEMMA Removal ==
  ASSUME NEW n, NEW u \in Subscribers, NEW K \in Scripts(n)
  PROVE  /\ RemoveRadius(u) \o K = <<[op |-> "ungroup", user |-> u]>> \o (Uncheck(u) \o K)
         /\ Uncheck(u) \o K = <<[op |-> "uncheck", user |-> u]>> \o K
         /\ Uncheck(u) \o K \in Scripts(n) /\ RemoveRadius(u) \o K \in Scripts(n)
<1>1. PICK e, c : e = Ungroup(u) /\ c = Uncheck(u) OBVIOUS
<1>2. e \in Scripts(n) /\ c \in Scripts(n) BY <1>1, SimpleScripts
<1>3. (e \o c) \o K = e \o (c \o K) /\ c \o K \in Scripts(n) /\ e \o (c \o K) \in Scripts(n)
  BY <1>2, Nested DEF Scripts
<1> QED BY <1>1, <1>3 DEF RemoveRadius, Ungroup, Uncheck

\* What clearing the RADIUS rows is: the group row's delete, then the check row's.
Struck(n, u, K) ==
  \E w, s : /\ w = [op |-> "ungroup", user |-> u] /\ s = Uncheck(u) \o K
           /\ s \in Scripts(n) /\ RemoveRadius(u) \o K = <<w>> \o s

LEMMA RemovalStep == ASSUME NEW n, NEW u \in Subscribers, NEW K \in Scripts(n) PROVE Struck(n, u, K)
<1>1. RemoveRadius(u) \o K = <<[op |-> "ungroup", user |-> u]>> \o (Uncheck(u) \o K) BY Removal
<1>2. Uncheck(u) \o K \in Scripts(n) BY Removal
<1> QED BY <1>1, <1>2, Zenon DEF Struck

-----------------------------------------------------------------------------
(* The statements                                                          *)

\* What a process at work is doing.
LEMMA Turn ==
  ASSUME IInv, InTurn, NEW q \in Processes, todo[q] # <<>>
  PROVE  /\ Works(q) /\ Now(q) \in Sound(Len(subs)) /\ Tail(todo[q]) \in Scripts(Len(subs))
         /\ \/ Batch(todo[q]) /\ Now(q).op = "overdue" /\ \A u \in Subscribers : Right(u)
            \/ \E u \in alive, t \in Secrets : /\ u \in Subscribers /\ Now(q).user = u /\ OthersRight(u)
                                               /\ Serves(u, t, Now(q), Tail(todo[q]))
            \/ \E i \in DOMAIN subs, b \in Scripts(Len(subs)) : Times(i, b, Now(q), Tail(todo[q]))
<1>1. Works(q) /\ Stage(todo[q]) BY DEF InTurn, Works
<1>2. Now(q) \in Sound(Len(subs)) /\ Tail(todo[q]) \in Scripts(Len(subs)) BY Heads
<1>3. alive \subseteq Subscribers BY DEF IInv, Typed
<1>4. Batch(todo[q]) => Now(q).op = "overdue"
  <2>1. todo[q] \in Scripts(Len(subs)) BY DEF IInv, ScriptsSound
  <2>2. 1 \in DOMAIN todo[q] /\ todo[q][1] = Now(q) BY <2>1 DEF Scripts, Now
  <2> QED BY <2>2 DEF Batch
<1> QED BY <1>1, <1>2, <1>3, <1>4 DEF Stage, Now

LEMMA RowOwner ==
  ASSUME IInv, NEW i \in DOMAIN subs
  PROVE  subs[i].user \in Subscribers /\ subs[i].plan \in Plans /\ token[subs[i].user] \in Secrets
<1>1. subs[i] \in SubscriptionRows BY DEF IInv, Typed
<1> QED BY <1>1 DEF SubscriptionRows, IInv, Typed

\* The process goes on with what is left.
LEMMA DoneLeaves ==
  ASSUME IInv, NEW q \in Processes, todo[q] # <<>>, Done(q)
  PROVE  todo' = [todo EXCEPT ![q] = Tail(todo[q])]
<1>1. Tail(todo[q]) \in Scripts(Len(subs)) BY Heads
<1>2. <<>> \o Tail(todo[q]) = Tail(todo[q]) BY <1>1, NoMore
<1> QED BY <1>2 DEF Done, Continue

\* RADIUS rows of one phone number.
LEMMA CellsApart ==
  ASSUME IInv, NEW u \in Subscribers, NEW g, NEW c, UNCHANGED <<subs, token>>,
         group' = group \/ group' = [group EXCEPT ![Phone[u]] = g],
         check' = check \/ check' = [check EXCEPT ![Phone[u]] = c]
  PROVE  /\ Apart(u) /\ (ActiveRows(u))' = ActiveRows(u) /\ (ActivePlans(u))' = ActivePlans(u)
         /\ group' = group \/ group'[Phone[u]] = g
         /\ check' = check \/ check'[Phone[u]] = c
<1>1. Phone[u] \in Phones BY PhoneAssumption
<1>2. \A v \in Subscribers : (ActiveRows(v))' = ActiveRows(v) /\ (ActivePlans(v))' = ActivePlans(v)
  BY PlansKept
<1> QED BY <1>1, <1>2 DEF Apart, IInv, Typed

LEMMA UngroupTurn ==
  ASSUME IInv, InTurn, NEW q \in Processes, DoGroup(q), Now(q).op = "ungroup" PROVE InTurn'
<1>1. /\ todo[q] # <<>> /\ Done(q) /\ group' = [group EXCEPT ![Phone[Now(q).user]] = {}]
      /\ UNCHANGED <<account, subs, check>>
  BY DEF DoGroup, At, Now
<1> DEFINE n == Len(subs)
<1>2. PICK o \in Sound(n), r \in Scripts(n) : o = Now(q) /\ r = Tail(todo[q]) BY <1>1, Turn
<1>3. Works(q) /\ o.op = "ungroup" /\ todo' = [todo EXCEPT ![q] = r] BY <1>1, <1>2, Turn, DoneLeaves
<1>4. ASSUME NEW u \in Subscribers, o.user = u, OthersRight(u)
      PROVE  /\ OthersRight(u)' /\ Apart(u) /\ Ungrouped(u)' /\ (ActiveRows(u))' = ActiveRows(u)
             /\ (ActivePlans(u))' = ActivePlans(u)
  <2>1. group' = [group EXCEPT ![Phone[u]] = {}] BY <1>1, <1>2, <1>4
  <2>2. PICK g, c : g = {} /\ c = {} OBVIOUS
  <2>3. /\ Apart(u) /\ (ActiveRows(u))' = ActiveRows(u) /\ (ActivePlans(u))' = ActivePlans(u)
    BY <1>1, <2>1, <2>2, CellsApart DEF account
  <2>4. group'[Phone[u]] = {} BY <2>1, PhoneAssumption DEF IInv, Typed
  <2> QED BY <1>4, <2>3, <2>4, ApartStays DEF Ungrouped
<1>5. ASSUME NEW u \in Subscribers, u \in alive, NEW t \in Secrets, o.user = u, OthersRight(u), Serves(u, t, o, r)
      PROVE  InTurn'
  <2>0. /\ OthersRight(u)' /\ Ungrouped(u)' /\ (ActiveRows(u))' = ActiveRows(u)
        /\ (ActivePlans(u))' = ActivePlans(u) /\ u \in alive' /\ token' = token
    BY <1>1, <1>4, <1>5 DEF account
  <2>1. ASSUME NEW K \in Ends(u, t), NEW p \in Plans, token[u] = t, ActivePlans(u) = {p},
               r = Group(u, p) \o (UpdateCheck(u, t) \o K)
        PROVE  InTurn'
    <3>1. PICK w, s : w = [op |-> "group", user |-> u, plan |-> p] /\ s = UpdateCheck(u, t) \o K OBVIOUS
    <3>2. w \in Sound(0) /\ s \in Scripts(0) /\ w.op = "group" /\ w.user = u /\ w.plan = p
      BY <3>1, Words, AssignScript, EndScripts, Joined DEF Scripts
    <3>3. todo' = [todo EXCEPT ![q] = <<w>> \o s] BY <1>3, <2>1, <3>1 DEF Group
    <3>4. Serves(u, t, w, s)' BY <2>0, <2>1, <3>1, <3>2 DEF Serves
    <3> QED BY <1>3, <2>0, <3>2, <3>3, <3>4, ServesOn
  <2>2. ASSUME NEW K \in Scripts(0), r = Uncheck(u) \o K,
               \/ token[u] = t /\ K \in Ends(u, t) /\ ActiveRows(u) = {}
               \/ K = Erase(u)
        PROVE  InTurn'
    <3>1. PICK w : w = [op |-> "uncheck", user |-> u] OBVIOUS
    <3>2. w \in Sound(0) /\ w.op = "uncheck" /\ w.user = u BY <3>1, Words
    <3>3. todo' = [todo EXCEPT ![q] = <<w>> \o K] BY <1>3, <2>2, <3>1 DEF Uncheck
    <3>4. Serves(u, t, w, K)' BY <2>0, <2>2, <3>2 DEF Serves
    <3> QED BY <1>3, <2>0, <3>2, <3>3, <3>4, ServesOn
  <2>3. Erase(u) \in Scripts(0) /\ \A K \in Ends(u, t) : K \in Scripts(0)
    BY SimpleScripts, EndScripts DEF Erase
  <2> QED BY <1>3, <1>5, <2>1, <2>2, <2>3 DEF Serves
<1>6. ASSUME NEW i \in DOMAIN subs, NEW b \in Scripts(n), Times(i, b, o, r) PROVE InTurn'
  <2>1. PICK u \in Subscribers : u = subs[i].user BY RowOwner
  <2>2. /\ Batch(b) /\ Spares(b, i) /\ OthersRight(u) /\ o.user = u /\ ActiveRows(u) = {}
        /\ r = Uncheck(u) \o b
    BY <1>3, <1>6, <2>1 DEF Times
  <2>3. /\ OthersRight(u)' /\ Ungrouped(u)' /\ (ActiveRows(u))' = {} /\ UNCHANGED <<subs, token>>
    BY <1>1, <1>4, <2>2 DEF account
  <2>4. PICK w : w = [op |-> "uncheck", user |-> u] OBVIOUS
  <2>5. w \in Sound(n) /\ w.op = "uncheck" /\ w.user = u
    <3>1. token[u] \in Secrets BY DEF IInv, Typed
    <3> QED BY <2>4, <3>1, Words
  <2>6. todo' = [todo EXCEPT ![q] = <<w>> \o b] BY <1>3, <2>2, <2>4 DEF Uncheck
  <2>7. Batch(b)' /\ Spares(b, i)' BY <2>2, <2>3 DEF Batch, Spares
  <2>8. Times(i, b, w, b)' BY <2>1, <2>3, <2>5, <2>7 DEF Times
  <2> QED BY <1>3, <2>3, <2>5, <2>6, <2>8, TimesOn
<1> HIDE DEF n
<1> QED BY <1>1, <1>2, <1>3, <1>5, <1>6, Turn DEF n

LEMMA GroupTurn ==
  ASSUME IInv, InTurn, NEW q \in Processes, DoGroup(q), Now(q).op = "group" PROVE InTurn'
<1> DEFINE n == Len(subs)
<1>1. /\ todo[q] # <<>> /\ Done(q) /\ UNCHANGED <<account, subs, check>>
      /\ group' = [group EXCEPT ![Phone[Now(q).user]] = group[Phone[Now(q).user]] \cup {Now(q).plan}]
  BY DEF DoGroup, At, Now
<1>2. PICK o \in Sound(n), r \in Scripts(n) : o = Now(q) /\ r = Tail(todo[q]) BY <1>1, Turn
<1>3. Works(q) /\ o.op = "group" /\ todo' = [todo EXCEPT ![q] = r] BY <1>1, <1>2, Turn, DoneLeaves
<1>4. PICK u \in Subscribers, t \in Secrets : u \in alive /\ o.user = u /\ OthersRight(u) /\ Serves(u, t, o, r)
  BY <1>1, <1>2, <1>3, Turn DEF Times
<1>5. PICK K \in Ends(u, t) : /\ token[u] = t /\ ActivePlans(u) = {o.plan} /\ Ungrouped(u)
                              /\ r = UpdateCheck(u, t) \o K
  BY <1>3, <1>4 DEF Serves
<1>6. PICK g, c : g = group[Phone[u]] \cup {o.plan} /\ c = {} OBVIOUS
<1>7. group' = [group EXCEPT ![Phone[u]] = g] BY <1>1, <1>2, <1>4, <1>6
<1>8. Apart(u) /\ (ActivePlans(u))' = ActivePlans(u) BY <1>1, <1>7, CellsApart DEF account
<1>9. group'[Phone[u]] = g BY <1>7, PhoneAssumption DEF IInv, Typed
<1>10. Grouped(u)'
  <2>1. Alone(u) => g = {o.plan} BY <1>5, <1>6 DEF Ungrouped
  <2> QED BY <1>5, <1>8, <1>9, <2>1 DEF Grouped, Alone
<1>11. OthersRight(u)' /\ token'[u] = t /\ u \in alive'
  BY <1>1, <1>4, <1>5, <1>8, ApartStays DEF account
<1> QED BY <1>3, <1>5, <1>10, <1>11, UpdatesOn

LEMMA UncheckTurn ==
  ASSUME IInv, InTurn, NEW q \in Processes, DoCheck(q), Now(q).op = "uncheck" PROVE InTurn'
<1> DEFINE n == Len(subs)
<1>1. /\ todo[q] # <<>> /\ Done(q) /\ check' = [check EXCEPT ![Phone[Now(q).user]] = {}]
      /\ UNCHANGED <<account, subs, group>>
  BY DEF DoCheck, At, Now
<1>2. PICK o \in Sound(n), r \in Scripts(n) : o = Now(q) /\ r = Tail(todo[q]) BY <1>1, Turn
<1>3. Works(q) /\ o.op = "uncheck" /\ todo' = [todo EXCEPT ![q] = r] BY <1>1, <1>2, Turn, DoneLeaves
<1>4. ASSUME NEW u \in Subscribers, o.user = u, OthersRight(u)
      PROVE  /\ OthersRight(u)' /\ check'[Phone[u]] = {} /\ (ActiveRows(u))' = ActiveRows(u)
             /\ (ActivePlans(u))' = ActivePlans(u) /\ (Grouped(u) => Grouped(u)')
             /\ (Ungrouped(u) => Ungrouped(u)')
  <2>1. check' = [check EXCEPT ![Phone[u]] = {}] BY <1>1, <1>2, <1>4
  <2>2. PICK g, c : g = {} /\ c = {} OBVIOUS
  <2>3. /\ Apart(u) /\ (ActiveRows(u))' = ActiveRows(u) /\ (ActivePlans(u))' = ActivePlans(u)
    BY <1>1, <2>1, <2>2, CellsApart DEF account
  <2>4. check'[Phone[u]] = {} BY <2>1, PhoneAssumption DEF IInv, Typed
  <2> QED BY <1>1, <1>4, <2>3, <2>4, ApartStays DEF Ungrouped, Grouped, Alone
<1>5. ASSUME NEW u \in Subscribers, Ungrouped(u)', (ActiveRows(u))' = {} PROVE Right(u)'
  BY <1>5 DEF Ungrouped, Right, Grouped, Opens, ActivePlans
<1>6. ASSUME NEW u \in Subscribers, u \in alive, NEW t \in Secrets, o.user = u, OthersRight(u), Serves(u, t, o, r)
      PROVE  InTurn'
  <2>0. /\ OthersRight(u)' /\ check'[Phone[u]] = {} /\ (ActiveRows(u))' = ActiveRows(u)
        /\ (Grouped(u) => Grouped(u)') /\ (Ungrouped(u) => Ungrouped(u)') /\ u \in alive' /\ token' = token
    BY <1>1, <1>4, <1>6 DEF account
  <2>1. ASSUME NEW K \in Ends(u, t), NEW x \in Secrets, token[u] = t, Grouped(u), Password(u, t, x),
               r = Check(u, x) \o K
        PROVE  InTurn'
    <3>1. PICK w : w = [op |-> "check", user |-> u, secret |-> x] OBVIOUS
    <3>2. K \in Scripts(n) /\ w.op = "check" /\ w.user = u /\ w.secret = x BY <3>1, EndScripts
    <3>3. r = <<w>> \o K BY <2>1, <3>1 DEF Check
    <3>4. w \in Sound(n)
      <4>1. r[1] = w /\ 1 \in DOMAIN r
        <5>1. <<w>> \o K \in Seq(Sound(n) \cup {w})
          BY <3>2, Widened, Joined, One DEF Scripts
        <5> QED BY <3>2, <3>3 DEF Scripts
      <4> QED BY <4>1 DEF Scripts
    <3>5. todo' = [todo EXCEPT ![q] = <<w>> \o K] BY <1>3, <3>3
    <3>6. Serves(u, t, w, K)' BY <2>0, <2>1, <3>2 DEF Serves
    <3> QED BY <1>3, <2>0, <3>2, <3>4, <3>5, <3>6, ServesOn
  <2>2. ASSUME token[u] = t, r \in Ends(u, t), ActiveRows(u) = {}, Ungrouped(u) PROVE InTurn'
    BY <1>3, <1>5, <2>0, <2>2, EndsOn
  <2>3. ASSUME Ungrouped(u), r = Erase(u) PROVE InTurn'
    <3>1. PICK w : w = [op |-> "erase", user |-> u] OBVIOUS
    <3>2. w \in Sound(0) /\ <<>> \in Scripts(0) /\ <<w>> \in Scripts(0) /\ w.op = "erase" /\ w.user = u
      BY <3>1, Words, NoMore, One DEF Scripts
    <3>3. <<w>> \o <<>> = r BY <2>3, <3>1, <3>2, NoMore DEF Erase
    <3>4. Serves(u, t, w, <<>>)' BY <2>0, <2>3, <3>2 DEF Serves
    <3> QED BY <1>3, <2>0, <3>2, <3>3, <3>4, ServesOn
  <2> QED BY <1>3, <1>6, <2>1, <2>2, <2>3 DEF Serves
<1>7. ASSUME NEW i \in DOMAIN subs, NEW b \in Scripts(n), Times(i, b, o, r) PROVE InTurn'
  <2>1. PICK u \in Subscribers : u = subs[i].user BY RowOwner
  <2>2. Batch(b) /\ OthersRight(u) /\ o.user = u /\ ActiveRows(u) = {} /\ Ungrouped(u) /\ r = b
    BY <1>3, <1>7, <2>1 DEF Times
  <2>3. OthersRight(u)' /\ Right(u)' BY <1>4, <1>5, <2>2
  <2>4. Batch(b)' BY <1>1, <2>2 DEF Batch, account
  <2> QED BY <1>3, <2>2, <2>3, <2>4, RestsOn
<1> HIDE DEF n
<1> QED BY <1>1, <1>2, <1>3, <1>6, <1>7, Turn DEF n

LEMMA CheckTurn ==
  ASSUME IInv, InTurn, NEW q \in Processes, DoCheck(q), Now(q).op = "check" PROVE InTurn'
<1> DEFINE n == Len(subs)
<1>1. /\ todo[q] # <<>> /\ Done(q) /\ UNCHANGED <<account, subs, group>>
      /\ check' = [check EXCEPT ![Phone[Now(q).user]] = check[Phone[Now(q).user]] \cup {Now(q).secret}]
  BY DEF DoCheck, At, Now
<1>2. PICK o \in Sound(n), r \in Scripts(n) : o = Now(q) /\ r = Tail(todo[q]) BY <1>1, Turn
<1>3. Works(q) /\ o.op = "check" /\ todo' = [todo EXCEPT ![q] = r] BY <1>1, <1>2, Turn, DoneLeaves
<1>4. PICK u \in Subscribers, t \in Secrets : u \in alive /\ o.user = u /\ OthersRight(u) /\ Serves(u, t, o, r)
  BY <1>1, <1>2, <1>3, Turn DEF Times
<1>5. /\ r \in Ends(u, t) /\ token[u] = t /\ Grouped(u) /\ (Alone(u) => check[Phone[u]] = {})
      /\ Password(u, t, o.secret)
  BY <1>3, <1>4 DEF Serves
<1>6. PICK g, c : g = {} /\ c = check[Phone[u]] \cup {o.secret} OBVIOUS
<1>7. check' = [check EXCEPT ![Phone[u]] = c] BY <1>1, <1>2, <1>4, <1>6
<1>8. Apart(u) /\ (ActivePlans(u))' = ActivePlans(u) BY <1>1, <1>7, CellsApart DEF account
<1>9. check'[Phone[u]] = c BY <1>7, PhoneAssumption DEF IInv, Typed
<1>10. OthersRight(u)' /\ token'[u] = t /\ u \in alive'
  BY <1>1, <1>4, <1>5, <1>8, ApartStays DEF account
<1>11. Right(u)'
  <2>1. Alone(u) => c = {o.secret} BY <1>5, <1>6
  <2>2. Grouped(u)' BY <1>1, <1>5, <1>8 DEF Grouped, Alone
  <2>3. Opens(u)' BY <1>5, <1>9, <1>10, <2>1 DEF Opens, Password, Alone
  <2> QED BY <2>2, <2>3 DEF Right
<1> QED BY <1>3, <1>5, <1>10, <1>11, EndsOn

\* Nothing but scripts and sessions changes.
LEMMA AllKept ==
  ASSUME UNCHANGED <<token, subs, radius>>, NEW u
  PROVE  /\ (ActiveRows(u))' = ActiveRows(u) /\ (ActivePlans(u))' = ActivePlans(u)
         /\ OthersRight(u) => OthersRight(u)'
         /\ Right(u) => Right(u)'
         /\ Grouped(u) => Grouped(u)'
<1>1. \A v : (ActiveRows(v))' = ActiveRows(v) /\ (ActivePlans(v))' = ActivePlans(v) BY PlansKept
<1>2. \A v : /\ Grouped(v) => Grouped(v)'
             /\ Right(v) => Right(v)'
  BY <1>1 DEF Right, Grouped, Opens, Alone, radius
<1> QED BY <1>1, <1>2 DEF OthersRight

LEMMA KickTurn == ASSUME IInv, InTurn, NEW q \in Processes, DoKick(q) PROVE InTurn'
<1> DEFINE n == Len(subs)
<1>1. /\ todo[q] # <<>> /\ Now(q).op = "kick" /\ Done(q) /\ UNCHANGED <<account, subs, radius>>
  BY DEF DoKick, At, Now
<1>2. PICK o \in Sound(n), r \in Scripts(n) : o = Now(q) /\ r = Tail(todo[q]) BY <1>1, Turn
<1>3. Works(q) /\ o.op = "kick" /\ todo' = [todo EXCEPT ![q] = r] BY <1>1, <1>2, Turn, DoneLeaves
<1>4. UNCHANGED <<token, subs, radius, alive>> BY <1>1 DEF account
<1>5. ASSUME NEW u \in Subscribers, u \in alive, NEW t \in Secrets, o.user = u, OthersRight(u), Serves(u, t, o, r)
      PROVE  InTurn'
  <2>0. OthersRight(u)' /\ u \in alive' BY <1>4, <1>5, AllKept
  <2>1. ASSUME Right(u), r = <<>> PROVE InTurn' BY <1>3, <1>4, <2>0, <2>1, AllKept, NothingLeft
  <2>2. ASSUME Right(u), NEW x \in Secrets, r = Save(u, x, t) \o UpdateCheck(u, t) PROVE InTurn'
    <3>1. PICK w, s : w = [op |-> "save", user |-> u, pin |-> x, token |-> t] /\ s = UpdateCheck(u, t)
      OBVIOUS
    <3>2. w \in Sound(n) /\ s \in Scripts(n) /\ w.op = "save" /\ w.user = u /\ w.token = t
      BY <3>1, Words, LedAccount
    <3>3. todo' = [todo EXCEPT ![q] = <<w>> \o s] BY <1>3, <2>2, <3>1 DEF Save
    <3>4. Grouped(u)' BY <1>4, <2>2, AllKept DEF Right
    <3>5. Serves(u, t, w, s)' BY <3>1, <3>2, <3>4 DEF Serves
    <3> QED BY <1>3, <2>0, <3>2, <3>3, <3>5, ServesOn
  <2>3. ASSUME r = RemoveRadius(u) \o Erase(u) PROVE InTurn'
    <3>1. PICK w, s : w = [op |-> "ungroup", user |-> u] /\ s = Uncheck(u) \o Erase(u) OBVIOUS
    <3>2. PICK k : k = Erase(u) OBVIOUS
    <3>3. k \in Scripts(n) BY <3>2, SimpleScripts DEF Erase
    <3>4. w \in Sound(n) /\ w.op = "ungroup" /\ w.user = u BY <3>1, Words
    <3>5. s \in Scripts(n) /\ r = <<w>> \o s BY <2>3, <3>1, <3>2, <3>3, Removal
    <3>6. Serves(u, t, w, s)' BY <3>1, <3>4 DEF Serves
    <3> QED BY <1>3, <2>0, <3>4, <3>5, <3>6, ServesOn
  <2> QED BY <1>3, <1>5, <2>1, <2>2, <2>3 DEF Serves
<1>6. ASSUME NEW i \in DOMAIN subs, NEW b \in Scripts(n), Times(i, b, o, r) PROVE InTurn'
  <2>1. PICK u \in Subscribers : u = subs[i].user BY RowOwner
  <2>2. /\ Batch(b) /\ Spares(b, i) /\ OthersRight(u) /\ o.user = u /\ ActiveRows(u) = {}
        /\ r = RemoveRadius(u) \o b
    BY <1>3, <1>6, <2>1 DEF Times
  <2>3. OthersRight(u)' /\ (ActiveRows(u))' = {} BY <1>4, <2>2, AllKept
  <2>4. PICK w, s : /\ w = [op |-> "ungroup", user |-> u] /\ s = Uncheck(u) \o b
                    /\ s \in Scripts(n) /\ RemoveRadius(u) \o b = <<w>> \o s
    <3>1. Struck(n, u, b) BY RemovalStep
    <3> QED BY <3>1, Zenon DEF Struck
  <2>5. w \in Sound(n) /\ s \in Scripts(n) /\ r = <<w>> \o s /\ w.op = "ungroup" /\ w.user = u
    <3>1. token[u] \in Secrets BY DEF IInv, Typed
    <3>2. w \in Sound(n) /\ w.op = "ungroup" /\ w.user = u BY <2>4, <3>1, Words
    <3> QED BY <2>2, <2>4, <3>2
  <2>6. Batch(b)' /\ Spares(b, i)' BY <1>4, <2>2 DEF Batch, Spares
  <2>7. Times(i, b, w, s)' BY <1>4, <2>1, <2>3, <2>4, <2>5, <2>6 DEF Times
  <2> QED BY <1>3, <1>4, <2>5, <2>7, TimesOn
<1> HIDE DEF n
<1> QED BY <1>1, <1>2, <1>3, <1>5, <1>6, Turn DEF n

LEMMA SaveTurn == ASSUME IInv, InTurn, NEW q \in Processes, DoSave(q) PROVE InTurn'
<1> DEFINE n == Len(subs)
<1>1. /\ todo[q] # <<>> /\ Now(q).op = "save" /\ Done(q) /\ UNCHANGED <<subs, radius>>
      /\ alive' = alive \cup {Now(q).user} /\ token' = [token EXCEPT ![Now(q).user] = Now(q).token]
  BY DEF DoSave, At, Now
<1>2. PICK o \in Sound(n), r \in Scripts(n) : o = Now(q) /\ r = Tail(todo[q]) BY <1>1, Turn
<1>3. Works(q) /\ o.op = "save" /\ todo' = [todo EXCEPT ![q] = r] BY <1>1, <1>2, Turn, DoneLeaves
<1>4. PICK u \in Subscribers, t \in Secrets : u \in alive /\ o.user = u /\ OthersRight(u) /\ Serves(u, t, o, r)
  BY <1>1, <1>2, <1>3, Turn DEF Times
<1>5. /\ o.token = t /\ Grouped(u)
      /\ \/ r = UpdateCheck(u, t) \/ r = LogsIn(u, t) \/ \E p \in Plans : r = Activate(u, p, t)
         \/ \E x \in Secrets, K \in Ends(u, t) : u \in Manual /\ x.kind = "pin" /\ r = SetPassword(u, x) \o K
  BY <1>3, <1>4 DEF Serves
<1>6. \A v \in Subscribers : (ActiveRows(v))' = ActiveRows(v) /\ (ActivePlans(v))' = ActivePlans(v)
  BY <1>1, PlansKept
<1>7. token'[u] = t /\ \A v \in Subscribers \ {u} : token'[v] = token[v]
  BY <1>1, <1>2, <1>4, <1>5 DEF IInv, Typed
<1>8. Apart(u) BY <1>1, <1>6, <1>7 DEF Apart, radius
<1>9. OthersRight(u)' /\ Grouped(u)' /\ u \in alive'
  BY <1>1, <1>4, <1>5, <1>6, <1>8, ApartStays DEF Grouped, Alone, radius
<1>10. <<>> \in Ends(u, t) BY DEF Ends
<1>11. CASE r = UpdateCheck(u, t)
  <2>1. UpdateCheck(u, t) \o <<>> = UpdateCheck(u, t) BY <1>2, <1>11, NoMore
  <2> QED BY <1>3, <1>7, <1>9, <1>10, <1>11, <2>1, UpdatesOn
<1>12. CASE r = LogsIn(u, t)
  <2>1. PICK w : w = [op |-> "login", user |-> u, secret |-> t] OBVIOUS
  <2>2. w \in Sound(n) /\ Kick(u) \in Scripts(n) /\ w.op = "login" /\ w.user = u /\ w.secret = t
    BY <2>1, Words, SimpleScripts
  <2>3. todo' = [todo EXCEPT ![q] = <<w>> \o Kick(u)] BY <1>3, <1>12, <2>1 DEF LogsIn
  <2>4. PICK k : k = Kick(u) OBVIOUS
  <2>5. Serves(u, t, w, k)' BY <1>7, <1>9, <1>10, <2>2, <2>4 DEF Serves
  <2> QED BY <1>3, <1>9, <2>2, <2>3, <2>4, <2>5, ServesOn
<1>13. ASSUME NEW p \in Plans, r = Activate(u, p, t) PROVE InTurn'
  <2>1. Activate(u, p, t) \o <<>> = Activate(u, p, t) BY <1>2, <1>13, NoMore
  <2> QED BY <1>3, <1>7, <1>9, <1>10, <1>13, <2>1, ActivatesOn
<1>14. ASSUME NEW x \in Secrets, NEW K \in Ends(u, t), u \in Manual, x.kind = "pin", r = SetPassword(u, x) \o K
       PROVE  InTurn'
  BY <1>3, <1>7, <1>9, <1>14, PasswordsOn DEF Password
<1> QED BY <1>5, <1>11, <1>12, <1>13, <1>14

LEMMA EraseTurn == ASSUME IInv, InTurn, NEW q \in Processes, DoErase(q) PROVE InTurn'
<1> DEFINE n == Len(subs)
<1>1. /\ todo[q] # <<>> /\ Now(q).op = "erase" /\ Done(q) /\ UNCHANGED <<token, radius>>
      /\ subs' = [i \in DOMAIN subs |-> IF subs[i].user = Now(q).user
                                        THEN [subs[i] EXCEPT !.status = "deleted"] ELSE subs[i]]
  BY DEF DoErase, At, Now
<1>2. PICK o \in Sound(n), r \in Scripts(n) : o = Now(q) /\ r = Tail(todo[q]) BY <1>1, Turn
<1>3. Works(q) /\ o.op = "erase" /\ todo' = [todo EXCEPT ![q] = r] BY <1>1, <1>2, Turn, DoneLeaves
<1>4. PICK u \in Subscribers, t \in Secrets : u \in alive /\ o.user = u /\ OthersRight(u) /\ Serves(u, t, o, r)
  BY <1>1, <1>2, <1>3, Turn DEF Times
<1>5. r = <<>> /\ Ungrouped(u) BY <1>3, <1>4 DEF Serves
<1>6. DOMAIN subs' = DOMAIN subs BY <1>1
<1>7. ASSUME NEW i \in DOMAIN subs
      PROVE  /\ subs'[i].user = subs[i].user /\ subs'[i].plan = subs[i].plan
             /\ subs'[i].status = IF subs[i].user = u THEN "deleted" ELSE subs[i].status
  <2>1. subs[i] \in SubscriptionRows BY DEF IInv, Typed
  <2>2. subs'[i] = IF subs[i].user = u THEN [subs[i] EXCEPT !.status = "deleted"] ELSE subs[i]
    BY <1>1, <1>2, <1>4
  <2> QED BY <2>1, <2>2 DEF SubscriptionRows
<1>8. (ActiveRows(u))' = {} BY <1>6, <1>7 DEF ActiveRows
<1>9. ASSUME NEW v \in Subscribers \ {u}
      PROVE  (ActiveRows(v))' = ActiveRows(v) /\ (ActivePlans(v))' = ActivePlans(v)
  <2>1. (ActiveRows(v))' = ActiveRows(v) BY <1>6, <1>7 DEF ActiveRows
  <2>2. ActiveRows(v) \subseteq DOMAIN subs BY DEF ActiveRows
  <2> QED BY <1>7, <2>1, <2>2 DEF ActivePlans
<1>10. Apart(u) BY <1>1, <1>9 DEF Apart, radius
<1>11. Right(u)' BY <1>1, <1>5, <1>8 DEF Right, Grouped, Ungrouped, Opens, ActivePlans, Alone, radius
<1> QED BY <1>3, <1>4, <1>5, <1>10, <1>11, ApartStays, NothingLeft

LEMMA ExpireTurn == ASSUME IInv, InTurn, NEW q \in Processes, DoExpire(q) PROVE InTurn'
<1> DEFINE n == Len(subs)
<1>1. /\ todo[q] # <<>> /\ Now(q).op = "expire" /\ Done(q) /\ UNCHANGED <<account, radius>>
      /\ subs' = Expired(Now(q).user)
  BY DEF DoExpire, At, Now
<1>2. PICK o \in Sound(n), r \in Scripts(n) : o = Now(q) /\ r = Tail(todo[q]) BY <1>1, Turn
<1>3. Works(q) /\ o.op = "expire" /\ todo' = [todo EXCEPT ![q] = r] BY <1>1, <1>2, Turn, DoneLeaves
<1>4. PICK u \in Subscribers, t \in Secrets : u \in alive /\ o.user = u /\ OthersRight(u) /\ Serves(u, t, o, r)
  BY <1>1, <1>2, <1>3, Turn DEF Times
<1>5. PICK K \in Ends(u, t), p \in Plans : token[u] = t /\ r = Insert(u, p) \o (Assign(u, p, t) \o K)
  BY <1>3, <1>4 DEF Serves
<1>6. /\ (ActiveRows(u))' = {} /\ DOMAIN subs' = DOMAIN subs
      /\ \A v \in Subscribers \ {u} : (ActiveRows(v))' = ActiveRows(v)
      /\ \A i \in DOMAIN subs : subs'[i].plan = subs[i].plan
  BY <1>1, <1>2, <1>4, RowsEnd
<1>7. ASSUME NEW v \in Subscribers \ {u} PROVE (ActivePlans(v))' = ActivePlans(v)
  <2>1. ActiveRows(v) \subseteq DOMAIN subs BY DEF ActiveRows
  <2> QED BY <1>6, <2>1 DEF ActivePlans
<1>8. Apart(u) BY <1>1, <1>6, <1>7 DEF Apart, account, radius
<1>9. OthersRight(u)' /\ u \in alive' /\ token'[u] = t BY <1>1, <1>4, <1>5, <1>8, ApartStays DEF account
<1>10. PICK w, s : w = [op |-> "insert", user |-> u, plan |-> p] /\ s = Assign(u, p, t) \o K OBVIOUS
<1>11. w \in Sound(n) /\ s \in Scripts(n) /\ w.op = "insert" /\ w.user = u /\ w.plan = p
  BY <1>10, Words, AssignScript, EndScripts, Joined DEF Scripts
<1>12. todo' = [todo EXCEPT ![q] = <<w>> \o s] BY <1>3, <1>5, <1>10 DEF Insert
<1>13. Serves(u, t, w, s)' BY <1>6, <1>9, <1>10, <1>11 DEF Serves
<1> QED BY <1>3, <1>9, <1>11, <1>12, <1>13, ServesOn

LEMMA InsertTurn == ASSUME IInv, InTurn, NEW q \in Processes, DoInsert(q) PROVE InTurn'
<1> DEFINE n == Len(subs)
<1>1. todo[q] # <<>> /\ Now(q).op = "insert" /\ UNCHANGED <<account, radius>> BY DEF DoInsert, At, Now
<1>2. PICK o \in Sound(n), r \in Scripts(n) : o = Now(q) /\ r = Tail(todo[q]) BY <1>1, Turn
<1>3. Works(q) /\ o.op = "insert" BY <1>1, <1>2, Turn
<1>4. PICK u \in Subscribers, t \in Secrets : u \in alive /\ o.user = u /\ OthersRight(u) /\ Serves(u, t, o, r)
  BY <1>1, <1>2, <1>3, Turn DEF Times
<1>5. PICK K \in Ends(u, t) : token[u] = t /\ ActiveRows(u) = {} /\ r = Assign(u, o.plan, t) \o K
  BY <1>3, <1>4 DEF Serves
<1>6. PICK p \in Plans : p = o.plan BY <1>3, Arguments
<1>7. subs' = Append(subs, NewRow(u, p)) /\ Done(q) BY <1>2, <1>4, <1>6 DEF DoInsert
<1>8. /\ (ActiveRows(u))' = {Len(subs) + 1} /\ \A v \in Subscribers \ {u} : (ActiveRows(v))' = ActiveRows(v)
      /\ \A i \in DOMAIN subs : subs'[i] = subs[i]
      /\ subs'[Len(subs) + 1].plan = p
  BY <1>5, <1>7, RowAdded
<1>9. ASSUME NEW v \in Subscribers \ {u} PROVE (ActivePlans(v))' = ActivePlans(v)
  <2>1. ActiveRows(v) \subseteq DOMAIN subs BY DEF ActiveRows
  <2> QED BY <1>8, <2>1 DEF ActivePlans
<1>10. (ActivePlans(u))' = {p} BY <1>8 DEF ActivePlans
<1>11. Apart(u) BY <1>1, <1>8, <1>9 DEF Apart, account, radius
<1>12. OthersRight(u)' /\ u \in alive' /\ token'[u] = t BY <1>1, <1>4, <1>5, <1>11, ApartStays DEF account
<1>13. todo' = [todo EXCEPT ![q] = Assign(u, p, t) \o K] BY <1>1, <1>2, <1>5, <1>6, <1>7, DoneLeaves
<1> QED BY <1>3, <1>10, <1>12, <1>13, AssignsOn

\* The last row inserted is the only active one.
LEMMA NewestPlan ==
  ASSUME OneEach, NEW u \in Subscribers, NEW i \in Newest(ActiveRows(u))
  PROVE  ActivePlans(u) = {subs[i].plan} /\ i \in DOMAIN subs
<1>1. ActiveRows(u) = {i} /\ i \in DOMAIN subs BY DEF OneEach, Newest, ActiveRows
<1> QED BY <1>1 DEF ActivePlans

LEMMA LoginTurn == ASSUME IInv, InTurn, OneEach, NEW q \in Processes, DoLogin(q) PROVE InTurn'
<1> DEFINE n == Len(subs)
<1>1. todo[q] # <<>> /\ Now(q).op = "login" /\ UNCHANGED <<account, subs, radius>> BY DEF DoLogin, At, Now
<1>2. PICK o \in Sound(n), r \in Scripts(n) : o = Now(q) /\ r = Tail(todo[q]) BY <1>1, Turn
<1>3. Works(q) /\ o.op = "login" BY <1>1, <1>2, Turn
<1>4. PICK u \in Subscribers, t \in Secrets : u \in alive /\ o.user = u /\ OthersRight(u) /\ Serves(u, t, o, r)
  BY <1>1, <1>2, <1>3, Turn DEF Times
<1>5. token[u] = t /\ o.secret = t /\ Grouped(u) /\ r = Kick(u) BY <1>3, <1>4 DEF Serves
<1>6. OthersRight(u)' /\ u \in alive' /\ token'[u] = t BY <1>1, <1>4, <1>5, AllKept DEF account
<1>7. PICK K \in Ends(u, t) : K = Kick(u) BY DEF Ends
<1>8. \A s : Continue(q, s) => todo' = [todo EXCEPT ![q] = s \o K] BY <1>2, <1>5, <1>7 DEF Continue
<1>9. ASSUME NEW i \in Newest(ActiveRows(u)), Continue(q, Assign(u, subs[i].plan, t)) PROVE InTurn'
  <2>1. PICK p \in Plans : p = subs[i].plan BY NewestPlan, RowOwner
  <2>2. (ActivePlans(u))' = {p} BY <1>1, <2>1, NewestPlan, PlansKept
  <2>3. todo' = [todo EXCEPT ![q] = Assign(u, p, t) \o K] BY <1>8, <1>9, <2>1
  <2> QED BY <1>3, <1>6, <2>2, <2>3, AssignsOn
<1>10. ASSUME NEW i \in DOMAIN subs, Continue(q, Activate(u, subs[i].plan, t)) PROVE InTurn'
  <2>1. PICK p \in Plans : p = subs[i].plan BY RowOwner
  <2>2. todo' = [todo EXCEPT ![q] = Activate(u, p, t) \o K] BY <1>8, <1>10, <2>1
  <2> QED BY <1>3, <1>6, <2>2, ActivatesOn
<1>11. ASSUME ActiveRows(u) = {}, Continue(q, RemoveRadius(u)) PROVE InTurn'
  <2>1. PICK w, s : w = [op |-> "ungroup", user |-> u] /\ s = Uncheck(u) \o K OBVIOUS
  <2>2. K \in Scripts(n) BY EndScripts
  <2>3. w \in Sound(n) /\ w.op = "ungroup" /\ w.user = u BY <2>1, Words
  <2>4. s \in Scripts(n) /\ RemoveRadius(u) \o K = <<w>> \o s BY <2>1, <2>2, Removal
  <2>5. todo' = [todo EXCEPT ![q] = <<w>> \o s] BY <1>8, <1>11, <2>4
  <2>6. (ActiveRows(u))' = {} BY <1>1, <1>11, PlansKept
  <2>7. Serves(u, t, w, s)' BY <1>6, <2>1, <2>3, <2>6 DEF Serves
  <2> QED BY <1>3, <1>6, <2>3, <2>4, <2>5, <2>7, ServesOn
<1> HIDE DEF n
<1> QED BY <1>2, <1>4, <1>5, <1>9, <1>10, <1>11 DEF DoLogin

\* activate_subscription in a transaction leaves everything right.
LEMMA BoughtRight ==
  ASSUME IInv, NEW u \in Subscribers, NEW p \in Plans, NEW t \in Secrets, Bought(u, p, t), UNCHANGED token,
         token[u] = t \/ u \in Manual, OthersRight(u)
  PROVE  Right(u)' /\ OthersRight(u)'
<1>1. subs' = Append(Expired(u), NewRow(u, p)) /\ group' = [group EXCEPT ![Phone[u]] = {p}]
  BY DEF Bought
<1>2. /\ (ActiveRows(u))' = {Len(subs) + 1} /\ \A v \in Subscribers \ {u} : (ActiveRows(v))' = ActiveRows(v)
      /\ \A i \in DOMAIN subs : subs'[i].plan = subs[i].plan
      /\ subs'[Len(subs) + 1].plan = p
  BY <1>1, RowReplaced
<1>3. ASSUME NEW v \in Subscribers \ {u} PROVE (ActivePlans(v))' = ActivePlans(v)
  <2>1. ActiveRows(v) \subseteq DOMAIN subs BY DEF ActiveRows
  <2> QED BY <1>2, <2>1 DEF ActivePlans
<1>4. Phone[u] \in Phones /\ (ActivePlans(u))' = {p} BY <1>2, PhoneAssumption DEF ActivePlans
<1>5. /\ group'[Phone[u]] = {p} /\ \A ph \in Phones \ {Phone[u]} : group'[ph] = group[ph]
      /\ u \notin Manual => check'[Phone[u]] = {t}
      /\ \A ph \in Phones \ {Phone[u]} : check'[ph] = check[ph]
  BY <1>1, <1>4 DEF Bought, IInv, Typed
<1>6. Apart(u) BY <1>2, <1>3, <1>5 DEF Apart
<1>7. Right(u)' BY <1>4, <1>5 DEF Right, Grouped, Opens
<1> QED BY <1>6, <1>7, ApartStays

LEMMA BuyTurn == ASSUME IInv, InTurn, NEW q \in Processes, DoBuy(q) PROVE InTurn'
<1> DEFINE n == Len(subs)
<1>1. todo[q] # <<>> /\ Now(q).op = "buy" /\ UNCHANGED account BY DEF DoBuy, At, Now
<1>2. PICK o \in Sound(n), r \in Scripts(n) : o = Now(q) /\ r = Tail(todo[q]) BY <1>1, Turn
<1>3. Works(q) /\ o.op = "buy" BY <1>1, <1>2, Turn
<1>4. PICK u \in Subscribers, t \in Secrets : u \in alive /\ o.user = u /\ OthersRight(u) /\ Serves(u, t, o, r)
  BY <1>1, <1>2, <1>3, Turn DEF Times
<1>5. token[u] = t /\ o.secret = t /\ Right(u) /\ r = Kick(u) BY <1>3, <1>4 DEF Serves
<1>6. CASE Bought(o.user, o.plan, o.secret) /\ Done(q)
  <2>1. PICK p \in Plans : p = o.plan BY <1>3, Arguments
  <2>2. Right(u)' /\ OthersRight(u)'
    BY <1>1, <1>4, <1>5, <1>6, <2>1, BoughtRight DEF account
  <2>3. todo' = [todo EXCEPT ![q] = r] BY <1>1, <1>2, <1>6, DoneLeaves
  <2>4. r \in Ends(u, t) /\ u \in alive' /\ token'[u] = t BY <1>1, <1>4, <1>5 DEF Ends, account
  <2> QED BY <1>3, <2>2, <2>3, <2>4, EndsOn
<1>7. CASE Raise(q) /\ UNCHANGED <<subs, radius>>
  <2>1. todo[q] \in Scripts(n) BY DEF IInv, ScriptsSound
  <2>2. PICK s, k : s = todo[q] /\ k = [op |-> "kick", user |-> u] OBVIOUS
  <2>3. r = Tail(s) /\ r = <<k>> BY <1>2, <1>5, <2>2 DEF Kick
  <2>4. Len(s) = 2 /\ s[2] = k /\ DOMAIN s = 1..2
    <3>1. s \in Seq(Sound(n)) /\ s # <<>> BY <1>1, <2>1, <2>2 DEF Scripts
    <3>2. k \in Sound(n) BY <2>2, Words
    <3> QED BY <2>3, <3>1, <3>2, OneLeft
  <2>5. PICK m \in DOMAIN s : /\ m < Len(s) => s[m + 1].op = "overdue"
                              /\ todo' = [todo EXCEPT ![q] = SubSeq(s, m + 1, Len(s))]
    BY <1>7, <2>2 DEF Raise
  <2>6. m = 2 BY <2>2, <2>4, <2>5
  <2>7. SubSeq(s, m + 1, Len(s)) = <<>> BY <2>4, <2>6
  <2>8. OthersRight(u)' /\ Right(u)' BY <1>1, <1>4, <1>5, <1>7, AllKept DEF account
  <2> QED BY <1>3, <2>5, <2>7, <2>8, NothingLeft
<1> HIDE DEF n
<1> QED BY <1>2, <1>6, <1>7 DEF DoBuy

-----------------------------------------------------------------------------
(* The timer                                                               *)

\* The row the timer comes to, and the rest of its list.
LEMMA OverdueRow ==
  ASSUME IInv, InTurn, OneEach, NEW q \in Processes, At(q, "overdue")
  PROVE  /\ todo[q] # <<>> /\ Works(q) /\ \A u \in Subscribers : Right(u)
         /\ \E i \in DOMAIN subs, b \in Scripts(Len(subs)) :
              /\ Now(q).row = i /\ Tail(todo[q]) = b /\ ActiveRows(subs[i].user) = {i}
              /\ Now(q).secret = token[subs[i].user] /\ Batch(b) /\ Spares(b, i)
<1>1. todo[q] # <<>> /\ Now(q).op = "overdue" BY DEF At, Now
<1>2. PICK s : s = todo[q] OBVIOUS
<1>3. Works(q) /\ Batch(s) /\ (\A u \in Subscribers : Right(u)) /\ Tail(s) \in Scripts(Len(subs))
  BY <1>1, <1>2, Turn DEF Serves, Times
<1>4. PICK b \in Scripts(Len(subs)) : b = Tail(s) BY <1>3
<1>5. s \in Scripts(Len(subs)) /\ s # <<>> BY <1>1, <1>2 DEF IInv, ScriptsSound
<1>6. /\ 1 \in DOMAIN s /\ s[1] = Now(q)
      /\ \A k \in DOMAIN b : k \in Nat \ {0} /\ k + 1 \in DOMAIN s /\ b[k] = s[k + 1]
  BY <1>2, <1>4, <1>5 DEF Scripts, Now
<1>7. PICK i \in DOMAIN subs : i = Now(q).row
  <2>1. Now(q).row \in 1..Len(subs) /\ Len(subs) \in Nat BY RowOf DEF IInv, Typed
  <2> QED BY <2>1 DEF IInv, Typed
<1>8. PICK u \in Subscribers : u = subs[i].user BY RowOwner
<1>9. ActiveRows(u) = {i}
  <2>1. i \in ActiveRows(u) BY <1>3, <1>6, <1>7, <1>8 DEF Batch, ActiveRows
  <2> QED BY <2>1 DEF OneEach
<1>10. Batch(b)
  <2>1. \A k, j \in DOMAIN b : b[j].row = b[k].row => j = k
    <3> TAKE k, j \in DOMAIN b
    <3> HAVE b[j].row = b[k].row
    <3>1. s[j + 1].row = s[k + 1].row /\ j + 1 \in DOMAIN s /\ k + 1 \in DOMAIN s BY <1>6
    <3>2. j + 1 = k + 1 BY <1>3, <3>1 DEF Batch
    <3> QED BY <1>6, <3>2
  <2>2. \A k \in DOMAIN b : /\ b[k].op = "overdue" /\ subs[b[k].row].status = "active"
                            /\ b[k].secret = token[subs[b[k].row].user]
    BY <1>3, <1>6 DEF Batch
  <2> QED BY <2>1, <2>2 DEF Batch
<1>11. Spares(b, i)
  <2> SUFFICES ASSUME NEW k \in DOMAIN b, b[k].row = i PROVE FALSE BY DEF Spares
  <2>1. s[k + 1].row = s[1].row /\ k + 1 \in DOMAIN s /\ k + 1 # 1 BY <1>6, <1>7
  <2> QED BY <1>3, <1>6, <2>1 DEF Batch
<1>12. Now(q).secret = token[u] BY <1>3, <1>6, <1>7, <1>8 DEF Batch
<1> QED BY <1>1, <1>2, <1>3, <1>4, <1>7, <1>8, <1>9, <1>10, <1>11, <1>12

\* The rows the timer has before it are of other subscribers.
LEMMA BatchApart ==
  ASSUME IInv, NEW i \in DOMAIN subs, ActiveRows(subs[i].user) \subseteq {i},
         NEW b \in Scripts(Len(subs)), Batch(b), Spares(b, i), UNCHANGED token,
         \A j \in DOMAIN subs : /\ subs'[j].user = subs[j].user
                                /\ j # i /\ j \notin ActiveRows(subs[i].user) => subs'[j].status = subs[j].status
  PROVE  Batch(b)' /\ Spares(b, i)'
<1>1. ASSUME NEW k \in DOMAIN b
      PROVE  b[k].row \in DOMAIN subs /\ b[k].row # i /\ b[k].row \notin ActiveRows(subs[i].user)
  <2>1. b[k] \in Sound(Len(subs)) /\ b[k].op = "overdue" BY DEF Scripts, Batch
  <2>2. b[k].row \in DOMAIN subs BY <2>1, Arguments DEF IInv, Typed
  <2> QED BY <2>2 DEF Spares
<1> QED BY <1>1 DEF Batch, Spares

LEMMA RenewTurn == ASSUME IInv, InTurn, OneEach, NEW q \in Processes, RenewOverdue(q) PROVE InTurn'
<1> DEFINE n == Len(subs)
<1>1. /\ At(q, "overdue") /\ Continue(q, Lapse(Now(q).row)) /\ UNCHANGED <<alive, token>>
      /\ Bought(subs[Now(q).row].user, subs[Now(q).row].plan, Now(q).secret)
  BY DEF RenewOverdue, account
<1>2. PICK i \in DOMAIN subs, b \in Scripts(n) :
        /\ Now(q).row = i /\ Tail(todo[q]) = b /\ ActiveRows(subs[i].user) = {i}
        /\ Now(q).secret = token[subs[i].user] /\ Batch(b) /\ Spares(b, i)
  BY <1>1, OverdueRow
<1>3. Works(q) /\ \A v \in Subscribers : Right(v) BY <1>1, OverdueRow
<1>4. PICK u \in Subscribers, p \in Plans, t \in Secrets : u = subs[i].user /\ p = subs[i].plan /\ t = token[u]
  BY RowOwner
<1>5. Bought(u, p, t) BY <1>1, <1>2, <1>4
<1>6. Right(u)' /\ OthersRight(u)' BY <1>1, <1>3, <1>4, <1>5, BoughtRight DEF OthersRight
<1>7. subs' = Append(Expired(u), NewRow(u, p)) BY <1>5 DEF Bought
<1>8. /\ DOMAIN subs \subseteq DOMAIN subs'
      /\ \A j \in DOMAIN subs : /\ subs'[j].user = subs[j].user
                                /\ subs'[j].status = IF j \in ActiveRows(u) THEN "expired" ELSE subs[j].status
  BY <1>7, RowReplaced
<1>9. Batch(b)' /\ Spares(b, i)' BY <1>1, <1>2, <1>4, <1>8, BatchApart
<1>10. PICK m \in Nat : m = Len(subs') /\ i \in 1..m /\ b \in Scripts(m)
  <2>1. n \in Nat /\ DOMAIN subs = 1..n BY DEF IInv, Typed
  <2>2. Expired(u) \in Seq(SubscriptionRows) /\ Len(Expired(u)) = n BY ExpiredRows
  <2>3. Len(subs') = n + 1 BY <1>4, <1>7, <2>2, InsertedRows
  <2>4. b \in Scripts(n + 1) BY <1>2, <2>1, MoreRows, Widened DEF Scripts
  <2> QED BY <1>2, <2>1, <2>3, <2>4
<1>11. PICK w : w = [op |-> "lapse", row |-> i] OBVIOUS
<1>12. w \in Sound(m) /\ w.op = "lapse" /\ w.row = i BY <1>10, <1>11 DEF Sound, Statements
<1>13. todo' = [todo EXCEPT ![q] = <<w>> \o b] BY <1>1, <1>2, <1>11 DEF Continue, Lapse
<1>14. subs'[i].user = u /\ subs'[i].status = "expired" BY <1>2, <1>4, <1>8
<1>15. Times(i, b, w, b)' BY <1>6, <1>9, <1>12, <1>14 DEF Times
<1> QED BY <1>2, <1>3, <1>8, <1>10, <1>12, <1>13, <1>15, TimesOn

LEMMA CutOffTurn == ASSUME IInv, InTurn, OneEach, NEW q \in Processes, CutOffOverdue(q) PROVE InTurn'
<1> DEFINE n == Len(subs)
<1>1. /\ At(q, "overdue") /\ UNCHANGED <<account, subs, radius>>
      /\ Continue(q, Lapse(Now(q).row) \o Kick(subs[Now(q).row].user) \o RemoveRadius(subs[Now(q).row].user))
  BY DEF CutOffOverdue
<1>2. PICK i \in DOMAIN subs, b \in Scripts(n) :
        /\ Now(q).row = i /\ Tail(todo[q]) = b /\ ActiveRows(subs[i].user) = {i}
        /\ Now(q).secret = token[subs[i].user] /\ Batch(b) /\ Spares(b, i)
  BY <1>1, OverdueRow
<1>3. Works(q) /\ \A v \in Subscribers : Right(v) BY <1>1, OverdueRow
<1>4. PICK u \in Subscribers : u = subs[i].user BY RowOwner
<1>5. UNCHANGED <<token, subs, radius>> BY <1>1 DEF account
<1>6. OthersRight(u)' BY <1>3, <1>5, AllKept DEF OthersRight
<1>7. (ActiveRows(u))' = {i} BY <1>2, <1>4, <1>5, AllKept
<1>8. Batch(b)' /\ Spares(b, i)' BY <1>2, <1>5 DEF Batch, Spares
<1>9. PICK w, l, k, z : w = [op |-> "lapse", row |-> i] /\ l = <<w>> /\ k = Kick(u) /\ z = RemoveRadius(u)
  OBVIOUS
<1>10. w \in Sound(n) /\ l \in Scripts(n) /\ w.op = "lapse" /\ w.row = i
  <2>1. n \in Nat /\ i \in 1..n BY DEF IInv, Typed
  <2>2. Lapse(i) \in Scripts(n) BY <2>1, LapseLed
  <2>3. w \in Sound(n) BY <1>9, <2>1 DEF Sound, Statements
  <2> QED BY <1>9, <2>2, <2>3 DEF Lapse
<1>11. k \in Scripts(n) /\ z \in Scripts(n) BY <1>9, LedSimple
<1>12. PICK r : r = k \o (z \o b) OBVIOUS
<1>13. r \in Scripts(n) /\ ((l \o k) \o z) \o b = l \o r
  <2>1. Chain(l, k, z, b) = Linked(l, After(k, z, b)) /\ After(k, z, b) \in Scripts(n)
    BY <1>10, <1>11, Chained
  <2> QED BY <1>12, <2>1, Zenon DEF Chain, After, Linked
<1>14. todo' = [todo EXCEPT ![q] = <<w>> \o r]
  BY <1>1, <1>2, <1>4, <1>9, <1>13 DEF Continue, Lapse
<1>15. Times(i, b, w, r)' BY <1>4, <1>5, <1>6, <1>7, <1>8, <1>9, <1>10, <1>12 DEF Times
<1> QED BY <1>2, <1>3, <1>5, <1>10, <1>13, <1>14, <1>15, TimesOn

LEMMA LapseTurn == ASSUME IInv, InTurn, NEW q \in Processes, DoLapse(q) PROVE InTurn'
<1> DEFINE n == Len(subs)
<1>1. todo[q] # <<>> /\ Now(q).op = "lapse" /\ UNCHANGED <<token, radius>> BY DEF DoLapse, At, Now, account
<1>2. PICK o \in Sound(n), r \in Scripts(n) : o = Now(q) /\ r = Tail(todo[q]) BY <1>1, Turn
<1>3. Works(q) /\ o.op = "lapse" BY <1>1, <1>2, Turn
<1>4. PICK i \in DOMAIN subs, b \in Scripts(n) : Times(i, b, o, r)
  BY <1>1, <1>2, <1>3, Turn DEF Serves
<1>5. PICK u \in Subscribers : u = subs[i].user BY RowOwner
<1>6. /\ Batch(b) /\ Spares(b, i) /\ OthersRight(u) /\ o.row = i
      /\ \/ subs[i].status = "expired" /\ Right(u) /\ r = b
         \/ ActiveRows(u) = {i} /\ r = Kick(u) \o (RemoveRadius(u) \o b)
  BY <1>3, <1>4, <1>5 DEF Times
<1>7. subs[i] \in SubscriptionRows /\ n \in Nat /\ DOMAIN subs = 1..n BY DEF IInv, Typed
<1>8. subs[i].status # "deleted" BY <1>6 DEF ActiveRows
<1>9. subs' = [subs EXCEPT ![i].status = "expired"] /\ Done(q) BY <1>2, <1>6, <1>8 DEF DoLapse
<1>10. todo' = [todo EXCEPT ![q] = r] BY <1>1, <1>2, <1>9, DoneLeaves
<1>11. /\ DOMAIN subs' = DOMAIN subs
       /\ \A j \in DOMAIN subs : /\ subs'[j].user = subs[j].user /\ subs'[j].plan = subs[j].plan
                                 /\ subs'[j].status = IF j = i THEN "expired" ELSE subs[j].status
  <2> SUFFICES ASSUME NEW j \in DOMAIN subs
               PROVE  /\ subs'[j].user = subs[j].user /\ subs'[j].plan = subs[j].plan
                      /\ subs'[j].status = IF j = i THEN "expired" ELSE subs[j].status
    BY <1>9
  <2>1. subs[j] \in SubscriptionRows BY DEF IInv, Typed
  <2>2. subs'[j] = IF j = i THEN [subs[j] EXCEPT !.status = "expired"] ELSE subs[j] BY <1>9
  <2> QED BY <2>1, <2>2 DEF SubscriptionRows
<1>12. ASSUME NEW v \in Subscribers, v # u
       PROVE  (ActiveRows(v))' = ActiveRows(v) /\ (ActivePlans(v))' = ActivePlans(v)
  <2>1. (ActiveRows(v))' = ActiveRows(v) BY <1>5, <1>11, <1>12 DEF ActiveRows
  <2>2. ActiveRows(v) \subseteq DOMAIN subs BY DEF ActiveRows
  <2> QED BY <1>11, <2>1, <2>2 DEF ActivePlans
<1>13. Apart(u) BY <1>1, <1>12 DEF Apart, radius
<1>14. OthersRight(u)' BY <1>6, <1>13, ApartStays
<1>15. CASE subs[i].status = "expired" /\ Right(u) /\ r = b
  <2>1. (ActiveRows(u))' = ActiveRows(u) BY <1>11, <1>15 DEF ActiveRows
  <2>2. (ActivePlans(u))' = ActivePlans(u)
    <3>1. ActiveRows(u) \subseteq DOMAIN subs BY DEF ActiveRows
    <3> QED BY <1>11, <2>1, <3>1 DEF ActivePlans
  <2>3. Right(u)' BY <1>1, <1>15, <2>1, <2>2 DEF Right, Grouped, Opens, Alone, radius
  <2>4. Batch(b)'
    <3>1. \A k \in DOMAIN b : b[k].row \in DOMAIN subs
      <4> TAKE k \in DOMAIN b
      <4>1. b[k] \in Sound(n) /\ b[k].op = "overdue" BY <1>6 DEF Scripts, Batch
      <4> QED BY <1>7, <4>1, Arguments
    <3> QED BY <1>1, <1>6, <1>11, <3>1 DEF Batch, Spares
  <2> QED BY <1>3, <1>10, <1>14, <1>15, <2>3, <2>4, RestsOn
<1>16. CASE ActiveRows(u) = {i} /\ r = Kick(u) \o (RemoveRadius(u) \o b)
  <2>1. (ActiveRows(u))' = {}
    <3>1. \A j \in DOMAIN subs : ~(subs'[j].user = u /\ subs'[j].status = "active")
      BY <1>11, <1>16 DEF ActiveRows
    <3> QED BY <1>11, <3>1 DEF ActiveRows
  <2>2. Batch(b)' /\ Spares(b, i)' BY <1>1, <1>5, <1>6, <1>11, <1>16, BatchApart
  <2>3. PICK w, z : w = [op |-> "kick", user |-> u] /\ z = RemoveRadius(u) \o b OBVIOUS
  <2>4. w \in Sound(n) /\ z \in Scripts(n) /\ w.op = "kick" /\ w.user = u
    <3>1. token[u] \in Secrets BY DEF IInv, Typed
    <3>2. w \in Sound(n) /\ w.op = "kick" /\ w.user = u BY <2>3, <3>1, Words
    <3>3. z \in Scripts(n) BY <2>3, Removal
    <3> QED BY <3>2, <3>3
  <2>5. todo' = [todo EXCEPT ![q] = <<w>> \o z] BY <1>10, <1>16, <2>3 DEF Kick
  <2>6. Times(i, b, w, z)' BY <1>5, <1>11, <1>14, <2>1, <2>2, <2>3, <2>4 DEF Times
  <2>7. Len(subs') = n BY <1>7, <1>9
  <2> QED BY <1>3, <1>11, <2>4, <2>5, <2>6, <2>7, TimesOn
<1> QED BY <1>6, <1>15, <1>16

LEMMA StatementTurn == ASSUME IInv, InTurn, OneEach, NEW q \in Processes, Statement(q) PROVE InTurn'
<1>1. CASE DoGroup(q)
  <2>1. Now(q).op = "ungroup" \/ Now(q).op = "group" BY <1>1 DEF DoGroup, At, Now
  <2> QED BY <1>1, <2>1, UngroupTurn, GroupTurn
<1>2. CASE DoCheck(q)
  <2>1. Now(q).op = "uncheck" \/ Now(q).op = "check" BY <1>2 DEF DoCheck, At, Now
  <2> QED BY <1>2, <2>1, UncheckTurn, CheckTurn
<1> QED BY <1>1, <1>2, ExpireTurn, InsertTurn, KickTurn, SaveTurn, EraseTurn, LoginTurn, BuyTurn,
           RenewTurn, CutOffTurn, LapseTurn
        DEF Statement

-----------------------------------------------------------------------------
(* A request or a run of the timer begins                                  *)

LEMMA AllRight == ASSUME InTurn, Idle PROVE \A u \in Subscribers : Right(u)
<1>1. PICK q \in Processes, s \in {<<>>} : Stage(s) BY DEF InTurn, Idle
<1> QED BY <1>1 DEF Stage

LEMMA Begins ==
  ASSUME IInv, InTurn, Idle, NEW w \in Workers, NEW s, Serve(w, s), UNCHANGED <<token, subs, radius>>,
         NEW u \in Subscribers
  PROVE  /\ w \in Processes /\ Works(w) /\ todo' = [todo EXCEPT ![w] = s]
         /\ Right(u)' /\ Grouped(u)' /\ OthersRight(u)'
<1>1. Right(u) /\ OthersRight(u) BY AllRight DEF OthersRight
<1>2. Right(u)' /\ OthersRight(u)' BY <1>1, AllKept
<1> QED BY <1>2 DEF Serve, Processes, Idle, Works, Right

\* What a request says of the account it is about.
LEMMA NewSecrets ==
  ASSUME IInv, NEW u \in Subscribers
  PROVE  /\ \E t \in Secrets : t = NewToken(u)
         /\ \E t \in Secrets : t = token[u]
         /\ \E x \in Secrets : x = pin[u]
         /\ \E x \in Secrets : x = NewPin(u) /\ x.kind = "pin"
BY Fresh DEF IInv

\* A request that saves the account first.
LEMMA SavesOn ==
  ASSUME IInv, InTurn, Idle, NEW w \in Workers, NEW u \in Subscribers, u \in alive', NEW t \in Secrets,
         NEW x \in Secrets, NEW r \in Scripts(0), Serve(w, Save(u, x, t) \o r), UNCHANGED <<token, subs, radius>>,
         \/ r = UpdateCheck(u, t) \/ r = LogsIn(u, t) \/ \E p \in Plans : r = Activate(u, p, t)
         \/ \E y \in Secrets, K \in Ends(u, t) : u \in Manual /\ y.kind = "pin" /\ r = SetPassword(u, y) \o K
  PROVE  InTurn'
<1>1. PICK o : o = [op |-> "save", user |-> u, pin |-> x, token |-> t] OBVIOUS
<1>2. o \in Sound(0) /\ o.op = "save" /\ o.user = u /\ o.token = t BY <1>1, Words
<1>3. PICK s : s = <<o>> \o r /\ Serve(w, s) BY <1>1 DEF Save
<1>4. /\ w \in Processes /\ Works(w) /\ todo' = [todo EXCEPT ![w] = s] /\ Grouped(u)' /\ OthersRight(u)'
  BY <1>3, Begins
<1>5. Serves(u, t, o, r)' BY <1>2, <1>4 DEF Serves
<1> QED BY <1>2, <1>3, <1>4, <1>5, ServesOn

LEMMA LoginBegins == ASSUME IInv, InTurn, Idle, NEW w \in Workers, NEW u \in Subscribers, Login(w, u) PROVE InTurn'
<1>1. PICK t \in Secrets : t = NewToken(u) BY NewSecrets
<1>2. PICK x \in Secrets : x = pin[u] BY NewSecrets
<1>3. PICK a, l, k : a = Save(u, x, t) /\ l = <<[op |-> "login", user |-> u, secret |-> t]>> /\ k = Kick(u)
  OBVIOUS
<1>4. a \in Scripts(0) /\ l \in Scripts(0) /\ k \in Scripts(0)
  BY <1>3, LedAccount, LedSimple, Words, One DEF Scripts
<1>5. PICK r : r = l \o k OBVIOUS
<1>6. (a \o l) \o k = a \o r /\ r \in Scripts(0) BY <1>4, <1>5, Nested DEF Scripts
<1>7. r = LogsIn(u, t) BY <1>3, <1>5 DEF LogsIn
<1>8. Serve(w, Save(u, x, t) \o r) /\ UNCHANGED <<token, subs, radius>> /\ u \in alive'
  BY <1>1, <1>2, <1>3, <1>6 DEF Login, account
<1> QED BY <1>6, <1>7, <1>8, SavesOn

LEMMA ChangePinBegins ==
  ASSUME IInv, InTurn, Idle, NEW w \in Workers, NEW u \in Subscribers, ChangePin(w, u) PROVE InTurn'
<1>1. PICK t \in Secrets : t = NewToken(u) BY NewSecrets
<1>2. PICK x \in Secrets : x = NewPin(u) BY NewSecrets
<1>3. UpdateCheck(u, t) \in Scripts(0) BY LedAccount
<1>4. Serve(w, Save(u, x, t) \o UpdateCheck(u, t)) /\ UNCHANGED <<token, subs, radius>> /\ u \in alive'
  BY <1>1, <1>2 DEF ChangePin, account
<1> QED BY <1>3, <1>4, SavesOn

LEMMA SignUpBegins ==
  ASSUME IInv, InTurn, Idle, NEW w \in Workers, NEW u \in Subscribers, NEW p \in Plans, SignUp(w, u, p)
  PROVE  InTurn'
<1>1. PICK t \in Secrets : t = NewToken(u) BY NewSecrets
<1>2. PICK x \in Secrets : x = NewPin(u) BY NewSecrets
<1>3. Activate(u, p, t) \in Scripts(0) BY AssignScript
<1>4. Serve(w, Save(u, x, t) \o Activate(u, p, t)) /\ UNCHANGED <<token, subs, radius>> /\ u \in alive'
  BY <1>1, <1>2 DEF SignUp
<1> QED BY <1>3, <1>4, SavesOn

LEMMA CreateManualBegins ==
  ASSUME IInv, InTurn, Idle, NEW w \in Workers, NEW u \in Subscribers, CreateManual(w, u) PROVE InTurn'
<1>1. PICK t \in Secrets : t = NewToken(u) BY NewSecrets
<1>2. PICK x \in Secrets : x = NewPin(u) /\ x.kind = "pin" BY NewSecrets
<1>3. PICK plan \in {<<>>} \cup {Activate(u, p, t) : p \in Plans} :
        Serve(w, Save(u, x, t) \o SetPassword(u, x) \o plan)
  BY <1>1, <1>2 DEF CreateManual
<1>4. PICK K \in Ends(u, t) : K = plan BY DEF Ends
<1>5. PICK a, b : a = Save(u, x, t) /\ b = SetPassword(u, x) OBVIOUS
<1>6. a \in Scripts(0) /\ b \in Scripts(0) /\ K \in Scripts(0) BY <1>2, <1>5, LedAccount, EndScripts
<1>7. PICK r : r = b \o K OBVIOUS
<1>8. (a \o b) \o K = a \o r /\ r \in Scripts(0) BY <1>6, <1>7, Nested DEF Scripts
<1>9. Serve(w, Save(u, x, t) \o r) BY <1>3, <1>4, <1>5, <1>8
<1>10. u \in Manual /\ UNCHANGED <<token, subs, radius>> /\ u \in alive' BY DEF CreateManual
<1> QED BY <1>2, <1>5, <1>7, <1>8, <1>9, <1>10, SavesOn

LEMMA DisconnectAllBegins ==
  ASSUME IInv, InTurn, Idle, NEW w \in Workers, NEW u \in Subscribers, DisconnectAll(w, u) PROVE InTurn'
<1>1. PICK t \in Secrets : t = NewToken(u) BY NewSecrets
<1>2. PICK x \in Secrets : x = pin[u] BY NewSecrets
<1>3. PICK o : o = [op |-> "kick", user |-> u] OBVIOUS
<1>4. PICK k, a, b : k = <<o>> /\ a = Save(u, x, t) /\ b = UpdateCheck(u, t) OBVIOUS
<1>5. o \in Sound(0) /\ o.op = "kick" /\ o.user = u BY <1>3, Words
<1>6. k \in Scripts(0) /\ a \in Scripts(0) /\ b \in Scripts(0) BY <1>4, <1>5, LedAccount, One DEF Scripts
<1>7. PICK r : r = a \o b OBVIOUS
<1>8. (k \o a) \o b = k \o r /\ r \in Scripts(0) BY <1>6, <1>7, Nested DEF Scripts
<1>9. PICK s : s = <<o>> \o r OBVIOUS
<1>10. Serve(w, s) /\ UNCHANGED <<token, subs, radius>> /\ u \in alive'
  BY <1>1, <1>2, <1>3, <1>4, <1>8, <1>9 DEF DisconnectAll, account, Kick
<1>11. /\ w \in Processes /\ Works(w) /\ todo' = [todo EXCEPT ![w] = s] /\ Right(u)' /\ OthersRight(u)'
  BY <1>10, Begins
<1>12. Serves(u, t, o, r)' BY <1>4, <1>5, <1>7, <1>11 DEF Serves
<1> QED BY <1>5, <1>8, <1>9, <1>10, <1>11, <1>12, ServesOn

LEMMA DeleteAccountBegins ==
  ASSUME IInv, InTurn, Idle, NEW w \in Workers, NEW u \in Subscribers, DeleteAccount(w, u) PROVE InTurn'
<1>1. PICK t \in Secrets : t = token[u] BY NewSecrets
<1>2. PICK o : o = [op |-> "kick", user |-> u] OBVIOUS
<1>3. PICK k, a, b : k = <<o>> /\ a = RemoveRadius(u) /\ b = Erase(u) OBVIOUS
<1>4. o \in Sound(0) /\ o.op = "kick" /\ o.user = u BY <1>2, Words
<1>5. k \in Scripts(0) /\ a \in Scripts(0) /\ b \in Scripts(0)
  BY <1>3, <1>4, LedSimple, One DEF Scripts, Erase
<1>6. PICK r : r = a \o b OBVIOUS
<1>7. (k \o a) \o b = k \o r /\ r \in Scripts(0) BY <1>5, <1>6, Nested DEF Scripts
<1>8. PICK s : s = <<o>> \o r OBVIOUS
<1>9. Serve(w, s) /\ UNCHANGED <<token, subs, radius>> /\ u \in alive'
  BY <1>2, <1>3, <1>7, <1>8 DEF DeleteAccount, account, Kick, Erase
<1>10. /\ w \in Processes /\ Works(w) /\ todo' = [todo EXCEPT ![w] = s] /\ OthersRight(u)'
  BY <1>9, Begins
<1>11. Serves(u, t, o, r)' BY <1>3, <1>4, <1>6 DEF Serves
<1> QED BY <1>4, <1>7, <1>8, <1>9, <1>10, <1>11, ServesOn

LEMMA PlanBegins ==
  ASSUME IInv, InTurn, Idle, NEW w \in Workers, NEW u \in Subscribers, NEW p \in Plans,
         ChangePlan(w, u, p) \/ RechargeComplete(w, u, p)
  PROVE  InTurn'
<1>1. PICK t \in Secrets : t = token[u] BY NewSecrets
<1>2. PICK s : s = Activate(u, p, t) \o <<>> OBVIOUS
<1>3. s = Activate(u, p, t)
  <2>1. Activate(u, p, t) \in Scripts(0) BY AssignScript
  <2> QED BY <1>2, <2>1, NoMore
<1>4. Serve(w, s) /\ UNCHANGED <<token, subs, radius>> /\ u \in alive'
  BY <1>1, <1>3 DEF ChangePlan, RechargeComplete, account
<1>5. w \in Processes /\ Works(w) /\ todo' = [todo EXCEPT ![w] = s] /\ OthersRight(u)' BY <1>4, Begins
<1>6. <<>> \in Ends(u, t) /\ token'[u] = t BY <1>1, <1>4 DEF Ends
<1> QED BY <1>2, <1>4, <1>5, <1>6, ActivatesOn

LEMMA PurchaseBegins ==
  ASSUME IInv, InTurn, Idle, NEW w \in Workers, NEW u \in Subscribers, NEW p \in Plans,
         PurchaseFromWallet(w, u, p)
  PROVE  InTurn'
<1>1. PICK t \in Secrets : t = token[u] BY NewSecrets
<1>2. PICK o : o = [op |-> "buy", user |-> u, plan |-> p, secret |-> t] OBVIOUS
<1>3. o \in Sound(0) /\ o.op = "buy" /\ o.user = u /\ o.secret = t BY <1>2, Words
<1>4. PICK k : k = Kick(u) OBVIOUS
<1>5. k \in Scripts(0) BY <1>4, LedSimple
<1>6. PICK s : s = <<o>> \o k OBVIOUS
<1>7. Serve(w, s) /\ UNCHANGED <<token, subs, radius>> /\ u \in alive'
  BY <1>1, <1>2, <1>4, <1>6 DEF PurchaseFromWallet, account
<1>8. /\ w \in Processes /\ Works(w) /\ todo' = [todo EXCEPT ![w] = s] /\ Right(u)' /\ OthersRight(u)'
  BY <1>7, Begins
<1>9. <<>> \in Ends(u, t) /\ token'[u] = t BY <1>1, <1>7 DEF Ends
<1>10. Serves(u, t, o, k)' BY <1>3, <1>4, <1>8, <1>9 DEF Serves
<1> QED BY <1>3, <1>5, <1>6, <1>7, <1>8, <1>10, ServesOn

LEMMA RequestTurn == ASSUME IInv, InTurn, Idle, NEW w \in Workers, Request(w) PROVE InTurn'
BY LoginBegins, ChangePinBegins, SignUpBegins, CreateManualBegins, DisconnectAllBegins,
   DeleteAccountBegins, PlanBegins, PurchaseBegins
   DEF Request

LEMMA ExpirePlansTurn == ASSUME IInv, InTurn, Idle, ExpirePlans PROVE InTurn'
<1> DEFINE m == Cardinality(Overdue)
<1>1. PICK batch \in [1..m -> Overdue] :
        /\ \A j, k \in DOMAIN batch : j < k => batch[j] > batch[k]
        /\ todo' = [todo EXCEPT ![Timer] =
             [k \in DOMAIN batch |-> [op |-> "overdue", row |-> batch[k],
                                      secret |-> token[subs[batch[k]].user]]]]
  BY DEF ExpirePlans
<1>2. m \in Nat /\ Overdue \subseteq Nat
  <2>1. Len(subs) \in Nat /\ Overdue \subseteq 1..Len(subs) BY DEF IInv, Typed, Overdue
  <2>2. IsFiniteSet(1..Len(subs)) BY <2>1, FS_Interval
  <2>3. m \in Nat BY <2>1, <2>2, FS_Subset, FS_CardinalityType
  <2>4. 1..Len(subs) \subseteq Nat BY <2>1
  <2> QED BY <2>1, <2>3, <2>4
<1> HIDE DEF m
<1>3. PICK b : b = [k \in DOMAIN batch |-> [op |-> "overdue", row |-> batch[k],
                                            secret |-> token[subs[batch[k]].user]]]
  OBVIOUS
<1>4. /\ DOMAIN b = 1..m
      /\ \A k \in 1..m : /\ b[k].op = "overdue" /\ b[k].row = batch[k] /\ batch[k] \in Overdue
                         /\ b[k].secret = token[subs[batch[k]].user]
  BY <1>3
<1>5. \A k, j \in 1..m : batch[j] = batch[k] => j = k
  <2> SUFFICES ASSUME NEW k \in 1..m, NEW j \in 1..m, j < k PROVE batch[j] # batch[k] BY <1>2
  <2>1. batch[j] \in Nat /\ batch[k] \in Nat /\ batch[j] > batch[k] BY <1>1, <1>2
  <2> QED BY <2>1
<1>6. UNCHANGED <<token, subs, radius>> BY DEF ExpirePlans, account
<1>7. Batch(b)' BY <1>4, <1>5, <1>6 DEF Batch, Overdue
<1>8. \A u \in Subscribers : Right(u)' BY <1>6, AllRight, AllKept
<1>9. Stage(b)' BY <1>7, <1>8 DEF Stage
<1>10. Timer \in Processes /\ Works(Timer) BY DEF Processes, Idle, Works
<1> QED BY <1>1, <1>3, <1>9, <1>10, GoesInTurn

\* The clock alone disturbs nothing.
LEMMA TurnKept == ASSUME IInv, InTurn, UNCHANGED <<alive, token, subs, radius, todo>> PROVE InTurn'
<1>0. PICK q \in Processes : Works(q) /\ \E s \in {todo[q]} : Stage(s) BY DEF InTurn
<1>1. PICK s : s = todo[q] /\ Stage(s) BY <1>0
<1>2. \A u : (Right(u) => Right(u)') /\ (OthersRight(u) => OthersRight(u)') BY AllKept
<1>3. ASSUME NEW b, Batch(b) PROVE Batch(b)' BY <1>3 DEF Batch
<1>4. ASSUME NEW u \in alive, NEW t \in Secrets, NEW o, NEW r, Serves(u, t, o, r) PROVE Serves(u, t, o, r)'
  <2>1. /\ (ActiveRows(u))' = ActiveRows(u) /\ (ActivePlans(u))' = ActivePlans(u)
        /\ (Right(u) => Right(u)') /\ (Grouped(u) => Grouped(u)')
    BY AllKept
  <2>2. Ungrouped(u) => Ungrouped(u)' BY DEF Ungrouped, Alone, radius
  <2> QED BY <1>4, <2>1, <2>2 DEF Serves, Alone, radius
<1>5. ASSUME NEW i \in DOMAIN subs, NEW b, NEW o, NEW r, Times(i, b, o, r) PROVE Times(i, b, o, r)'
  <2>1. PICK u : u = subs[i].user OBVIOUS
  <2>2. /\ (ActiveRows(u))' = ActiveRows(u) /\ (Right(u) => Right(u)') /\ (OthersRight(u) => OthersRight(u)')
        /\ subs'[i].user = u
    BY <2>1, AllKept
  <2>3. Ungrouped(u) => Ungrouped(u)' BY DEF Ungrouped, Alone, radius
  <2>4. Batch(b)' /\ Spares(b, i)' BY <1>3, <1>5 DEF Times, Spares
  <2> QED BY <1>5, <2>1, <2>2, <2>3, <2>4 DEF Times
<1>6. Stage(s)'
  <2>1. CASE Batch(s) /\ \A u \in Subscribers : Right(u) BY <1>2, <1>3, <2>1 DEF Stage
  <2>2. CASE s # <<>> /\ \E u \in alive, t \in Secrets : /\ Head(s).user = u /\ OthersRight(u)
                                                         /\ Serves(u, t, Head(s), Tail(s))
    BY <1>2, <1>4, <2>2 DEF Stage
  <2>3. CASE s # <<>> /\ \E i \in DOMAIN subs, b \in Scripts(Len(subs)) : Times(i, b, Head(s), Tail(s))
    BY <1>5, <2>3 DEF Stage
  <2> QED BY <1>1, <2>1, <2>2, <2>3 DEF Stage
<1> QED BY <1>0, <1>1, <1>6 DEF InTurn, Works

LEMMA InTurnStep ==
  IInv /\ (scene # "all" => OneActive) /\ (scene = "customers" => InTurn) /\ [MCNext]_scenic
    => (scene = "customers" => InTurn)'
<1> SUFFICES ASSUME IInv, scene # "all" => OneActive, scene = "customers" => InTurn, [MCNext]_scenic,
                    scene' = "customers"
             PROVE  InTurn'
  OBVIOUS
<1>1. scene = "customers" BY DEF MCNext, scenic
<1>2. InTurn /\ OneEach BY <1>1 DEF OneActive
<1>3. CASE Runs BY <1>2, <1>3, StatementTurn DEF Runs
<1>4. CASE Idle /\ Starts
  <2>1. ExpirePlans \/ Request(w1) BY <1>1, <1>4 DEF Starts
  <2> QED BY <1>2, <1>4, <2>1, SceneAssumption, ExpirePlansTurn, RequestTurn
<1>5. CASE Tick \/ UNCHANGED scenic
  <2>1. UNCHANGED <<alive, token, subs, radius, todo>> BY <1>5 DEF Tick, scenic, vars, account
  <2> QED BY <1>2, <2>1, TurnKept
<1> QED BY <1>1, <1>3, <1>4, <1>5 DEF MCNext

LEMMA SceneInit == MCInit => IInv /\ OneActive /\ InTurn
<1> SUFFICES ASSUME MCInit PROVE IInv /\ OneActive /\ InTurn OBVIOUS
<1>1. IInv BY InitInv DEF MCInit
<1>2. \A u : ActiveRows(u) = {} BY DEF MCInit, Init, ActiveRows
<1>3. PICK q \in Processes : q = Timer BY DEF Processes
<1>4. todo = [r \in Processes |-> <<>>] BY DEF MCInit, Init
<1>5. Works(q) /\ Guarded(todo[q]) BY <1>4 DEF Works, Guarded
<1>6. OneActive BY <1>2, <1>5 DEF OneActive, OneEach
<1>7. \A u \in Subscribers : Right(u)
  BY <1>2, PhoneAssumption DEF MCInit, Init, Right, Grouped, Opens, ActivePlans
<1>8. PICK s : s = <<>> /\ s = todo[q] BY <1>4
<1>9. Batch(s) BY <1>8 DEF Batch
<1>10. Stage(s) BY <1>7, <1>9 DEF Stage
<1>11. InTurn BY <1>5, <1>8, <1>10 DEF InTurn
<1> QED BY <1>1, <1>6, <1>11

\* One subscription of a subscriber is active while a request or a run of
\* expire_plans ends before the next begins, wherever they are killed and
\* whatever the admin edits; and when nothing but customers' requests and the
\* timer has run, radusergroup and radcheck are those of the active
\* subscription and the last token (plans/services.py, radius/utils.py,
\* accounts/views.py and expire_plans.py).
THEOREM RowsAndRadiusAgree == MCSpec => []PlansInStep
<1> DEFINE I == IInv /\ (scene # "all" => OneActive) /\ (scene = "customers" => InTurn)
<1>1. MCInit => I BY SceneInit
<1>2. I /\ [MCNext]_scenic => I'
  <2> SUFFICES ASSUME I, [MCNext]_scenic PROVE I' OBVIOUS
  <2>1. [Next]_vars BY SceneStep DEF scenic
  <2>2. IInv' BY <2>1, StepInv
  <2> QED BY <2>2, OneActiveStep, InTurnStep
<1>3. I => PlansInStep
  <2> SUFFICES ASSUME I PROVE PlansInStep OBVIOUS
  <2>1. TypeOK
    <3>1. Sound(Len(subs)) \subseteq Statements BY DEF Sound
    <3>2. Scripts(Len(subs)) \subseteq Seq(Statements) BY <3>1, Widened DEF Scripts
    <3> QED BY <3>2 DEF IInv, Typed, OnlineTyped, ScriptsSound, TypeOK
  <2>2. ASSUME scene # "all" PROVE AtMostOneActive
    <3> SUFFICES ASSUME NEW u \in Subscribers PROVE Cardinality(ActiveRows(u)) <= 1 BY DEF AtMostOneActive
    <3>1. \A i, j \in ActiveRows(u) : i = j BY <2>2 DEF OneActive, OneEach
    <3>2. CASE ActiveRows(u) = {} BY <3>2, FS_EmptySet
    <3>3. ASSUME NEW i \in ActiveRows(u) PROVE Cardinality(ActiveRows(u)) <= 1
      <4>1. ActiveRows(u) = {i} BY <3>1
      <4>2. Cardinality({i}) = 1 BY FS_Singleton
      <4> QED BY <4>1, <4>2
    <3> QED BY <3>2, <3>3
  <2>3. ASSUME scene = "customers" PROVE GroupFollowsPlan /\ TokenOpensPortal
    <3> SUFFICES ASSUME Idle PROVE /\ \A u \in alive : Alone(u) => group[Phone[u]] = ActivePlans(u)
                                   /\ \A u \in alive \ Manual : Alone(u) /\ ActiveRows(u) # {}
                                                                  => check[Phone[u]] = {token[u]}
      BY DEF GroupFollowsPlan, TokenOpensPortal, ActivePlans
    <3>1. alive \subseteq Subscribers BY DEF IInv, Typed
    <3>2. \A u \in Subscribers : Right(u) BY <2>3, AllRight
    <3> QED BY <3>1, <3>2 DEF Right, Grouped, Opens
  <2> QED BY <2>1, <2>2, <2>3 DEF PlansInStep
<1> HIDE DEF I
<1>4. I /\ [][MCNext]_scenic => []PlansInStep BY <1>2, <1>3, PTL
<1> QED BY <1>1, <1>4, PTL DEF MCSpec

-----------------------------------------------------------------------------
(* One process at a time: no PIN is undone                                 *)

\* The account rows a script has still to write.
Saves(s) == {s[k] : k \in {i \in DOMAIN s : s[i].op = "save"}}
\* They hold no older PIN than the row has, and one for each subscriber.
Newer(S) == \A o \in S : /\ pin[o.user].n <= o.pin.n /\ o.pin.n <= served
                         /\ \A p \in S : p.user = o.user => p.pin.n = o.pin.n
PinsOrdered ==
  /\ \A u \in Subscribers : pin[u].n <= served
  /\ \E q \in Processes : Works(q) /\ Newer(Saves(todo[q]))
\* Statements that leave the accounts alone.
Plain(n) == {o \in Sound(n) : o.op # "save"}

LEMMA PlainSaves == ASSUME NEW n, NEW s \in Seq(Plain(n)) PROVE Saves(s) = {} /\ s \in Scripts(n)
<1>1. Plain(n) \subseteq Sound(n) BY DEF Plain
<1>2. s \in Scripts(n) BY <1>1, Widened DEF Scripts
<1>3. \A k \in DOMAIN s : s[k] \in Plain(n) OBVIOUS
<1> QED BY <1>2, <1>3 DEF Saves, Plain

LEMMA SavesJoin ==
  ASSUME NEW n, NEW a \in Scripts(n), NEW m, NEW b \in Scripts(m), NEW r, r = a \o b
  PROVE  Saves(r) \subseteq Saves(a) \cup Saves(b)
<1>1. /\ Len(a) \in Nat /\ Len(b) \in Nat /\ DOMAIN a = 1..Len(a) /\ DOMAIN b = 1..Len(b)
      /\ DOMAIN r = 1..(Len(a) + Len(b))
      /\ \A k \in 1..Len(a) : r[k] = a[k]
      /\ \A k \in 1..Len(b) : r[Len(a) + k] = b[k]
  BY DEF Scripts
<1>2. ASSUME NEW k \in DOMAIN r, r[k].op = "save" PROVE r[k] \in Saves(a) \cup Saves(b)
  <2>1. CASE k \in 1..Len(a) BY <1>1, <1>2, <2>1 DEF Saves
  <2>2. CASE k \notin 1..Len(a)
    <3>1. k - Len(a) \in 1..Len(b) /\ Len(a) + (k - Len(a)) = k BY <1>1, <2>2
    <3>2. r[k] = b[k - Len(a)] BY <1>1, <3>1
    <3> QED BY <1>1, <1>2, <3>1, <3>2 DEF Saves
  <2> QED BY <2>1, <2>2
<1> QED BY <1>2 DEF Saves

LEMMA SavesLeft ==
  ASSUME NEW n, NEW s \in Scripts(n), s # <<>>, NEW r, r = Tail(s)
  PROVE  Saves(r) \subseteq Saves(s) /\ (Head(s).op = "save" => Head(s) \in Saves(s))
<1>1. \A k \in DOMAIN r : k + 1 \in DOMAIN s /\ r[k] = s[k + 1] BY DEF Scripts
<1>2. 1 \in DOMAIN s /\ s[1] = Head(s) BY DEF Scripts
<1> QED BY <1>1, <1>2 DEF Saves

LEMMA SavesCut ==
  ASSUME NEW n, NEW s \in Scripts(n), NEW m \in DOMAIN s, NEW r, r = SubSeq(s, m + 1, Len(s))
  PROVE  Saves(r) \subseteq Saves(s)
<1>1. \A k \in DOMAIN r : k + m \in DOMAIN s /\ r[k] = s[k + m] BY DEF Scripts
<1> QED BY <1>1 DEF Saves

\* The helpers of radius/utils.py and plans/services.py leave accounts alone.
LEMMA PlainSimple ==
  ASSUME NEW n, NEW u \in Subscribers
  PROVE  /\ Expire(u) \in Seq(Plain(n)) /\ Ungroup(u) \in Seq(Plain(n)) /\ Uncheck(u) \in Seq(Plain(n))
         /\ Kick(u) \in Seq(Plain(n)) /\ Erase(u) \in Seq(Plain(n)) /\ RemoveRadius(u) \in Seq(Plain(n))
<1>1. ASSUME NEW op \in {"expire", "ungroup", "uncheck", "kick", "erase"}
      PROVE  <<[op |-> op, user |-> u]>> \in Seq(Plain(n))
  <2>1. [op |-> op, user |-> u] \in Plain(n) BY DEF Plain, Sound, Statements
  <2> QED BY <2>1, One
<1>2. /\ Expire(u) \in Seq(Plain(n)) /\ Ungroup(u) \in Seq(Plain(n)) /\ Uncheck(u) \in Seq(Plain(n))
      /\ Kick(u) \in Seq(Plain(n)) /\ Erase(u) \in Seq(Plain(n))
  BY <1>1 DEF Expire, Ungroup, Uncheck, Kick, Erase
<1>3. RemoveRadius(u) \in Seq(Plain(n)) BY <1>2, Joined DEF RemoveRadius
<1> QED BY <1>2, <1>3

LEMMA PlainPassword ==
  ASSUME NEW n, NEW u \in Subscribers, NEW t \in Secrets
  PROVE  /\ u \notin Manual \/ t.kind = "pin" => SetPassword(u, t) \in Seq(Plain(n))
         /\ UpdateCheck(u, t) \in Seq(Plain(n))
<1>1. ASSUME u \notin Manual \/ t.kind = "pin" PROVE SetPassword(u, t) \in Seq(Plain(n))
  <2>1. [op |-> "check", user |-> u, secret |-> t] \in Plain(n) BY <1>1 DEF Plain, Sound, Statements
  <2>2. Check(u, t) \in Seq(Plain(n)) BY <2>1, One DEF Check
  <2> QED BY <2>2, PlainSimple, Joined DEF SetPassword
<1>2. <<>> \in Seq(Plain(n)) OBVIOUS
<1> QED BY <1>1, <1>2 DEF UpdateCheck

LEMMA PlainPlan ==
  ASSUME NEW n, NEW u \in Subscribers, NEW p \in Plans, NEW t \in Secrets
  PROVE  Assign(u, p, t) \in Seq(Plain(n)) /\ Activate(u, p, t) \in Seq(Plain(n))
<1>1. ASSUME NEW op \in {"insert", "group"}
      PROVE  <<[op |-> op, user |-> u, plan |-> p]>> \in Seq(Plain(n))
  <2>1. [op |-> op, user |-> u, plan |-> p] \in Plain(n) BY DEF Plain, Sound, Statements
  <2> QED BY <2>1, One
<1>2. Insert(u, p) \in Seq(Plain(n)) /\ Group(u, p) \in Seq(Plain(n)) BY <1>1 DEF Insert, Group
<1>3. Assign(u, p, t) \in Seq(Plain(n)) BY <1>2, PlainSimple, PlainPassword, Joined DEF Assign
<1> QED BY <1>2, <1>3, PlainSimple, Joined DEF Activate

LEMMA PlainLapse ==
  ASSUME IInv, NEW q \in Processes, At(q, "overdue")
  PROVE  Lapse(Now(q).row) \in Seq(Plain(Len(subs)))
<1>1. PICK i \in Nat : i = Now(q).row /\ i \in 1..Len(subs) BY RowOf DEF IInv, Typed
<1>2. [op |-> "lapse", row |-> i] \in Plain(Len(subs)) BY <1>1 DEF Plain, Sound, Statements
<1> QED BY <1>1, <1>2, One DEF Lapse

\* A statement adds nothing to what its process has still to save.
Fewer(q) == \E s : todo' = [todo EXCEPT ![q] = s] /\ Saves(s) \subseteq Saves(todo[q])

LEMMA ContinueFewer ==
  ASSUME IInv, NEW q \in Processes, todo[q] # <<>>, NEW n, NEW x \in Seq(Plain(n)), Continue(q, x)
  PROVE  Fewer(q)
<1>1. PICK b : b = Tail(todo[q]) OBVIOUS
<1>2. b \in Scripts(Len(subs)) /\ todo[q] \in Scripts(Len(subs)) BY <1>1, Heads DEF IInv, ScriptsSound
<1>3. PICK s : s = x \o b OBVIOUS
<1>4. Saves(x) = {} /\ x \in Scripts(n) BY PlainSaves
<1>5. Saves(s) \subseteq Saves(b) BY <1>2, <1>3, <1>4, SavesJoin
<1>6. Saves(b) \subseteq Saves(todo[q]) BY <1>1, <1>2, SavesLeft
<1>7. todo' = [todo EXCEPT ![q] = s] BY <1>1, <1>3 DEF Continue
<1> QED BY <1>5, <1>6, <1>7 DEF Fewer

LEMMA DoneFewer == ASSUME IInv, NEW q \in Processes, todo[q] # <<>>, Done(q) PROVE Fewer(q)
<1>1. <<>> \in Seq(Plain(0)) OBVIOUS
<1> QED BY <1>1, ContinueFewer DEF Done

LEMMA RaiseFewer == ASSUME IInv, NEW q \in Processes, Raise(q) PROVE Fewer(q)
<1>1. PICK m \in DOMAIN todo[q] : todo' = [todo EXCEPT ![q] = SubSeq(todo[q], m + 1, Len(todo[q]))]
  BY DEF Raise
<1>2. PICK s : s = SubSeq(todo[q], m + 1, Len(todo[q])) OBVIOUS
<1>3. todo[q] \in Scripts(Len(subs)) BY DEF IInv, ScriptsSound
<1>4. Saves(s) \subseteq Saves(todo[q]) BY <1>2, <1>3, SavesCut
<1> QED BY <1>1, <1>2, <1>4 DEF Fewer

LEMMA StatementFewer ==
  ASSUME IInv, NEW q \in Processes, Statement(q)
  PROVE  Fewer(q) /\ (DoSave(q) \/ UNCHANGED pin) /\ served' \in {served, served + 1}
<1> DEFINE n == Len(subs)
<1>1. CASE DoExpire(q) \/ DoGroup(q) \/ DoCheck(q) \/ DoKick(q) \/ DoErase(q)
  <2>1. todo[q] # <<>> /\ Done(q) /\ UNCHANGED <<pin, served>>
    BY <1>1 DEF DoExpire, DoGroup, DoCheck, DoKick, DoErase, At, account
  <2> QED BY <2>1, DoneFewer
<1>2. CASE DoSave(q)
  <2>1. todo[q] # <<>> /\ Done(q) /\ UNCHANGED served BY <1>2 DEF DoSave, At
  <2> QED BY <1>2, <2>1, DoneFewer
<1>3. CASE DoInsert(q) \/ DoBuy(q)
  <2>1. todo[q] # <<>> /\ (Done(q) \/ Raise(q)) /\ UNCHANGED <<pin, served>>
    BY <1>3 DEF DoInsert, DoBuy, At, account
  <2> QED BY <2>1, DoneFewer, RaiseFewer
<1>4. CASE DoLapse(q)
  <2>1. todo[q] # <<>> /\ (Done(q) \/ Raise(q)) /\ UNCHANGED <<pin, served>>
    BY <1>4 DEF DoLapse, At, account
  <2> QED BY <2>1, DoneFewer, RaiseFewer
<1>5. CASE DoLogin(q)
  <2>1. todo[q] # <<>> /\ Now(q).op = "login" /\ UNCHANGED <<pin, served>> BY <1>5 DEF DoLogin, At, Now, account
  <2>2. PICK u \in Subscribers, t \in Secrets : u = Now(q).user /\ t = Now(q).secret
    BY <2>1, Heads, Arguments
  <2>3. ASSUME NEW i \in DOMAIN subs,
               Continue(q, Assign(u, subs[i].plan, t)) \/ Continue(q, Activate(u, subs[i].plan, t))
        PROVE  Fewer(q)
    <3>1. PICK p \in Plans : p = subs[i].plan BY RowOwner
    <3>2. Assign(u, p, t) \in Seq(Plain(n)) /\ Activate(u, p, t) \in Seq(Plain(n)) BY PlainPlan
    <3> QED BY <2>1, <2>3, <3>1, <3>2, ContinueFewer
  <2>4. ASSUME Continue(q, RemoveRadius(u)) PROVE Fewer(q)
    BY <2>1, <2>4, PlainSimple, ContinueFewer
  <2>5. Newest(ActiveRows(u)) \subseteq DOMAIN subs BY DEF Newest, ActiveRows
  <2>6. Fewer(q) BY <1>5, <2>2, <2>3, <2>4, <2>5 DEF DoLogin
  <2> QED BY <2>1, <2>6
<1>6. CASE RenewOverdue(q)
  <2>1. At(q, "overdue") /\ Continue(q, Lapse(Now(q).row)) /\ UNCHANGED pin /\ served' = served + 1
    BY <1>6 DEF RenewOverdue, account
  <2>2. todo[q] # <<>> /\ Lapse(Now(q).row) \in Seq(Plain(n)) BY <2>1, PlainLapse DEF At
  <2> QED BY <2>1, <2>2, ContinueFewer
<1>7. CASE CutOffOverdue(q)
  <2>1. /\ At(q, "overdue") /\ UNCHANGED <<pin, served>>
        /\ Continue(q, Lapse(Now(q).row) \o Kick(subs[Now(q).row].user) \o RemoveRadius(subs[Now(q).row].user))
    BY <1>7 DEF CutOffOverdue, account
  <2>2. PICK u \in Subscribers : u = subs[Now(q).row].user BY <2>1, RowOf DEF SubscriptionRows
  <2>4. Lapse(Now(q).row) \in Seq(Plain(n)) /\ Kick(u) \in Seq(Plain(n)) /\ RemoveRadius(u) \in Seq(Plain(n))
    BY <2>1, PlainLapse, PlainSimple
  <2>5. Lapse(Now(q).row) \o Kick(u) \o RemoveRadius(u) \in Seq(Plain(n)) BY <2>4, Joined
  <2> QED BY <2>1, <2>2, <2>5, ContinueFewer DEF At
<1> HIDE DEF n
<1> QED BY <1>1, <1>2, <1>3, <1>4, <1>5, <1>6, <1>7 DEF Statement

\* What a save holds.
LEMMA SaveHolds ==
  ASSUME IInv, NEW q \in Processes, NEW o \in Saves(todo[q])
  PROVE  o.op = "save" /\ o.user \in Subscribers /\ o.pin \in Secrets /\ o.pin.n \in Nat
<1>1. todo[q] \in Scripts(Len(subs)) BY DEF IInv, ScriptsSound
<1>2. o \in Sound(Len(subs)) /\ o.op = "save" BY <1>1 DEF Saves, Scripts
<1> QED BY <1>2, Arguments DEF Secrets

LEMMA PinNumbers ==
  ASSUME IInv PROVE served \in Nat /\ \A u \in Subscribers : pin[u] \in Secrets /\ pin[u].n \in Nat
BY BoundsAssumption DEF IInv, Typed, Secrets

LEMMA StatementPins ==
  ASSUME IInv, PinsOrdered, NEW q \in Processes, Statement(q) PROVE PinsOrdered' /\ PinStep
<1>1. PICK s : todo' = [todo EXCEPT ![q] = s] /\ Saves(s) \subseteq Saves(todo[q])
  BY StatementFewer DEF Fewer
<1>2. todo[q] # <<>>
  BY DEF Statement, DoExpire, DoInsert, DoGroup, DoCheck, DoKick, DoSave, DoErase, DoLogin, DoBuy,
         RenewOverdue, CutOffOverdue, DoLapse, At
<1>3. Works(q) /\ Newer(Saves(todo[q])) BY <1>2 DEF PinsOrdered, Works
<1>4. todo'[q] = s /\ Works(q)' BY <1>1, <1>3 DEF IInv, ScriptsSound, Works
<1>5. served \in Nat /\ served <= served' /\ served' \in Nat BY PinNumbers, StatementFewer
<1>6. CASE UNCHANGED pin
  <2>1. Newer(Saves(s))'
    <3> SUFFICES ASSUME NEW o \in Saves(s)
                 PROVE  /\ pin[o.user].n <= o.pin.n /\ o.pin.n <= served'
                        /\ \A p \in Saves(s) : p.user = o.user => p.pin.n = o.pin.n
      BY <1>6 DEF Newer
    <3>1. o \in Saves(todo[q]) /\ o.pin.n \in Nat BY <1>1, SaveHolds
    <3>2. o.pin.n <= served BY <1>3, <3>1 DEF Newer
    <3>3. o.pin.n <= served' BY <1>5, <3>1, <3>2
    <3> QED BY <1>1, <1>3, <3>1, <3>3 DEF Newer
  <2>2. \A u \in Subscribers : pin'[u].n <= served'
    <3> TAKE u \in Subscribers
    <3>1. pin[u].n <= served /\ pin[u].n \in Nat BY PinNumbers DEF PinsOrdered
    <3> QED BY <1>5, <1>6, <3>1
  <2>3. PinStep BY <1>6, PinNumbers DEF PinStep
  <2> QED BY <1>4, <2>1, <2>2, <2>3 DEF PinsOrdered
<1>7. CASE DoSave(q)
  <2>1. PICK o : o = Now(q) OBVIOUS
  <2>2. pin' = [pin EXCEPT ![o.user] = o.pin] /\ UNCHANGED served BY <1>7, <2>1 DEF DoSave
  <2>3. o \in Saves(todo[q])
    <3>1. todo[q] \in Scripts(Len(subs)) BY DEF IInv, ScriptsSound
    <3>2. Now(q).op = "save" BY <1>7 DEF DoSave, At, Now
    <3> QED BY <1>2, <2>1, <3>1, <3>2, SavesLeft DEF Now
  <2>4. o.user \in Subscribers /\ o.pin.n \in Nat BY <2>3, SaveHolds
  <2>5. /\ pin'[o.user] = o.pin /\ \A u \in Subscribers \ {o.user} : pin'[u] = pin[u]
    BY <2>2, <2>4 DEF IInv, Typed
  <2>6. pin[o.user].n <= o.pin.n /\ o.pin.n <= served BY <1>3, <2>3 DEF Newer
  <2>7. Newer(Saves(s))'
    <3> SUFFICES ASSUME NEW p \in Saves(s)
                 PROVE  /\ pin'[p.user].n <= p.pin.n /\ p.pin.n <= served'
                        /\ \A r \in Saves(s) : r.user = p.user => r.pin.n = p.pin.n
      BY DEF Newer
    <3>1. p \in Saves(todo[q]) /\ p.user \in Subscribers /\ p.pin.n \in Nat BY <1>1, SaveHolds
    <3>2. p.pin.n <= served' /\ \A r \in Saves(s) : r.user = p.user => r.pin.n = p.pin.n
      BY <1>1, <1>3, <2>2, <3>1 DEF Newer
    <3>3. CASE p.user = o.user
      <4>1. p.pin.n = o.pin.n BY <1>3, <2>3, <3>1, <3>3 DEF Newer
      <4> QED BY <2>4, <2>5, <3>2, <3>3, <4>1
    <3>4. CASE p.user # o.user BY <1>3, <2>5, <3>1, <3>2, <3>4 DEF Newer
    <3> QED BY <3>3, <3>4
  <2>8. ASSUME NEW u \in Subscribers PROVE pin'[u].n <= served' /\ pin'[u].n >= pin[u].n
    <3>1. pin[u].n <= served /\ pin[u].n \in Nat BY PinNumbers DEF PinsOrdered
    <3>2. CASE u = o.user BY <2>2, <2>4, <2>5, <2>6, <3>1, <3>2
    <3>3. CASE u # o.user BY <2>2, <2>5, <3>1, <3>3
    <3> QED BY <3>2, <3>3
  <2> QED BY <1>4, <2>7, <2>8 DEF PinsOrdered, PinStep
<1> QED BY <1>6, <1>7, StatementFewer

\* A request begins, of accounts as they are or with new PINs.
LEMMA BeginsPins ==
  ASSUME IInv, PinsOrdered, Idle, NEW w \in Workers, NEW s, Serve(w, s), UNCHANGED pin,
         NEW X \in SUBSET Secrets,
         \A x \in X : x.n = served + 1 \/ X = {x},
         \A o \in Saves(s) : o.user \in Subscribers /\ o.pin \in X /\ o.pin.n \in {pin[o.user].n, served + 1}
  PROVE  PinsOrdered' /\ PinStep
<1>1. served \in Nat /\ served' = served + 1 BY PinNumbers DEF Serve
<1>2. w \in Processes /\ todo' = [todo EXCEPT ![w] = s] BY DEF Serve, Processes
<1>3. todo'[w] = s /\ Works(w)' BY <1>2 DEF IInv, ScriptsSound, Works, Idle
<1>4. \A u \in Subscribers : pin[u].n \in Nat /\ pin[u].n <= served BY PinNumbers DEF PinsOrdered
<1>5. Newer(Saves(s))'
  <2> SUFFICES ASSUME NEW o \in Saves(s)
               PROVE  /\ pin[o.user].n <= o.pin.n /\ o.pin.n <= served'
                      /\ \A p \in Saves(s) : p.user = o.user => p.pin.n = o.pin.n
    BY DEF Newer
  <2>1. o.user \in Subscribers /\ o.pin \in X /\ o.pin.n \in {pin[o.user].n, served + 1} OBVIOUS
  <2>2. pin[o.user].n <= o.pin.n /\ o.pin.n <= served' BY <1>1, <1>4, <2>1
  <2>3. ASSUME NEW p \in Saves(s) PROVE p.pin.n = o.pin.n
    <3>1. p.pin \in X OBVIOUS
    <3> QED BY <2>1, <3>1
  <2> QED BY <2>2, <2>3
<1>6. PinStep BY <1>4 DEF PinStep
<1>7. \A u \in Subscribers : pin'[u].n <= served' BY <1>1, <1>4
<1> QED BY <1>2, <1>3, <1>5, <1>6, <1>7 DEF PinsOrdered

\* A request that writes one account row at most.
LEMMA BeginsPin ==
  ASSUME IInv, PinsOrdered, Idle, NEW w \in Workers, NEW s, Serve(w, s), UNCHANGED pin,
         NEW u \in Subscribers, NEW x \in Secrets, x.n \in {pin[u].n, served + 1},
         \A o \in Saves(s) : o.user = u /\ o.pin = x
  PROVE  PinsOrdered' /\ PinStep
<1>1. PICK X \in SUBSET Secrets : X = {x} OBVIOUS
<1> QED BY <1>1, BeginsPins

LEMMA PlainAfter ==
  ASSUME NEW n, NEW a \in Scripts(n), NEW b \in Seq(Plain(n))
  PROVE  a \o b \in Scripts(n) /\ Saves(a \o b) \subseteq Saves(a)
<1>1. Saves(b) = {} /\ b \in Scripts(n) BY PlainSaves
<1>2. PICK r : r = a \o b OBVIOUS
<1>3. Saves(r) \subseteq Saves(a) BY <1>1, <1>2, SavesJoin
<1>4. r \in Scripts(n) BY <1>1, <1>2, Joined DEF Scripts
<1> QED BY <1>2, <1>3, <1>4

LEMMA OneSave ==
  ASSUME NEW n, NEW u \in Subscribers, NEW x \in Secrets, NEW t \in Secrets
  PROVE  Save(u, x, t) \in Scripts(n) /\ \A o \in Saves(Save(u, x, t)) : o.user = u /\ o.pin = x
<1>1. PICK r, o : r = <<o>> /\ o = [op |-> "save", user |-> u, pin |-> x, token |-> t] OBVIOUS
<1>2. r \in Scripts(n) /\ r \in Seq({o}) BY <1>1, SaveScript, One DEF Scripts
<1>3. \A k \in DOMAIN r : r[k] = o BY <1>2
<1>4. Saves(r) \subseteq {o} BY <1>3 DEF Saves
<1> QED BY <1>1, <1>2, <1>4 DEF Save

LEMMA RequestPins ==
  ASSUME IInv, PinsOrdered, Idle, NEW w \in Workers, Request(w) PROVE PinsOrdered' /\ PinStep
<1> PICK u \in Subscribers :
      \/ Login(w, u) \/ DisconnectAll(w, u) \/ DeleteAccount(w, u) \/ ChangePin(w, u)
      \/ CreateManual(w, u)
      \/ \E p \in Plans : \/ SignUp(w, u, p) \/ ChangePlan(w, u, p)
                          \/ RechargeComplete(w, u, p) \/ PurchaseFromWallet(w, u, p)
  BY DEF Request
<1>1. PICK t \in Secrets : t = NewToken(u) BY NewSecrets
<1>2. PICK old \in Secrets : old = pin[u] /\ old.n \in {pin[u].n, served + 1} BY NewSecrets
<1>3. PICK new \in Secrets : new = NewPin(u) /\ new.kind = "pin" /\ new.n \in {pin[u].n, served + 1}
  <2>1. NewPin(u).n = served + 1 BY DEF NewPin, Secret
  <2> QED BY <2>1, NewSecrets
<1>4. PICK z \in Secrets : z = token[u] BY NewSecrets
<1>5. ASSUME NEW x \in Secrets, x.n \in {pin[u].n, served + 1}, NEW a \in Scripts(0), NEW b \in Seq(Plain(0)),
             NEW c \in Seq(Plain(0)), \A o \in Saves(a) : o.user = u /\ o.pin = x,
             Serve(w, (a \o b) \o c) \/ Serve(w, a \o b), UNCHANGED pin
      PROVE  PinsOrdered' /\ PinStep
  <2>1. PICK d, e : d = a \o b /\ e = d \o c OBVIOUS
  <2>2. d \in Scripts(0) /\ Saves(d) \subseteq Saves(a) BY <2>1, PlainAfter
  <2>3. Saves(e) \subseteq Saves(a) BY <2>1, <2>2, PlainAfter
  <2>4. CASE Serve(w, e) BY <1>5, <2>3, <2>4, BeginsPin
  <2>5. CASE Serve(w, d) BY <1>5, <2>2, <2>5, BeginsPin
  <2> QED BY <1>5, <2>1, <2>4, <2>5
<1>6. ASSUME NEW a \in Seq(Plain(0)), Serve(w, a), UNCHANGED pin PROVE PinsOrdered' /\ PinStep
  <2>1. Saves(a) = {} BY PlainSaves
  <2> QED BY <1>2, <1>6, <2>1, BeginsPin
<1>7. /\ Kick(u) \in Seq(Plain(0)) /\ RemoveRadius(u) \in Seq(Plain(0)) /\ Erase(u) \in Seq(Plain(0))
      /\ UpdateCheck(u, t) \in Seq(Plain(0)) /\ SetPassword(u, new) \in Seq(Plain(0))
      /\ \A p \in Plans, s \in Secrets : Activate(u, p, s) \in Seq(Plain(0))
  BY <1>3, PlainSimple, PlainPassword, PlainPlan
<1>8. CASE Login(w, u)
  <2>1. PICK l : l = <<[op |-> "login", user |-> u, secret |-> t]>> OBVIOUS
  <2>2. l \in Seq(Plain(0))
    <3>1. [op |-> "login", user |-> u, secret |-> t] \in Plain(0) BY Words DEF Plain
    <3> QED BY <2>1, <3>1, One
  <2>3. Serve(w, (Save(u, old, t) \o l) \o Kick(u)) /\ UNCHANGED pin
    BY <1>1, <1>2, <1>8, <2>1 DEF Login, account
  <2>4. PICK s, k : s = Save(u, old, t) /\ k = Kick(u) OBVIOUS
  <2>5. s \in Scripts(0) /\ \A o \in Saves(s) : o.user = u /\ o.pin = old BY <2>4, OneSave
  <2>6. k \in Seq(Plain(0)) /\ Serve(w, (s \o l) \o k) BY <1>7, <2>3, <2>4
  <2> QED BY <1>2, <1>5, <2>2, <2>3, <2>5, <2>6
<1>9. CASE DisconnectAll(w, u)
  <2>1. PICK a : a = Kick(u) \o Save(u, old, t) OBVIOUS
  <2>2. Kick(u) \in Scripts(0) /\ Saves(Kick(u)) = {} BY <1>7, PlainSaves
  <2>3. PICK k, s : k = Kick(u) /\ s = Save(u, old, t) OBVIOUS
  <2>4. a \in Scripts(0) BY <2>1, <2>2, OneSave, Joined DEF Scripts
  <2>5. Saves(a) \subseteq Saves(s)
    <3>1. k \in Scripts(0) /\ s \in Scripts(0) /\ a = k \o s /\ Saves(k) = {} BY <2>1, <2>2, <2>3, OneSave
    <3> QED BY <3>1, SavesJoin
  <2>6. Serve(w, a \o UpdateCheck(u, t)) /\ UNCHANGED pin
    BY <1>1, <1>2, <1>9, <2>1 DEF DisconnectAll, account
  <2>7. \A o \in Saves(a) : o.user = u /\ o.pin = old BY <2>3, <2>5, OneSave
  <2> QED BY <1>2, <1>5, <1>7, <2>4, <2>6, <2>7
<1>10. CASE DeleteAccount(w, u)
  <2>1. (Kick(u) \o RemoveRadius(u)) \o Erase(u) \in Seq(Plain(0)) BY <1>7, Joined
  <2> QED BY <1>6, <1>10, <2>1 DEF DeleteAccount, account, Erase
<1>11. CASE ChangePin(w, u)
  <2>1. Serve(w, Save(u, new, t) \o UpdateCheck(u, t)) /\ UNCHANGED pin
    BY <1>1, <1>3, <1>11 DEF ChangePin, account
  <2>2. PICK s, k : s = Save(u, new, t) /\ k = UpdateCheck(u, t) OBVIOUS
  <2>3. s \in Scripts(0) /\ \A o \in Saves(s) : o.user = u /\ o.pin = new BY <2>2, OneSave
  <2>4. k \in Seq(Plain(0)) /\ Serve(w, s \o k) BY <1>7, <2>1, <2>2
  <2> QED BY <1>3, <1>5, <2>1, <2>3, <2>4
<1>12. CASE CreateManual(w, u)
  <2>1. PICK plan \in {<<>>} \cup {Activate(u, p, t) : p \in Plans} :
          Serve(w, (Save(u, new, t) \o SetPassword(u, new)) \o plan)
    BY <1>1, <1>3, <1>12 DEF CreateManual
  <2>2. plan \in Seq(Plain(0))
    <3>1. CASE plan = <<>> BY <3>1
    <3>2. CASE plan # <<>> BY <1>7, <2>1, <3>2
    <3> QED BY <3>1, <3>2
  <2>3. UNCHANGED pin BY <1>12 DEF CreateManual
  <2>4. PICK s, k : s = Save(u, new, t) /\ k = SetPassword(u, new) OBVIOUS
  <2>5. s \in Scripts(0) /\ \A o \in Saves(s) : o.user = u /\ o.pin = new BY <2>4, OneSave
  <2>6. k \in Seq(Plain(0)) /\ Serve(w, (s \o k) \o plan) BY <1>7, <2>1, <2>4
  <2> QED BY <1>3, <1>5, <2>2, <2>3, <2>5, <2>6
<1>13. ASSUME NEW p \in Plans, SignUp(w, u, p) PROVE PinsOrdered' /\ PinStep
  <2>1. Serve(w, Save(u, new, t) \o Activate(u, p, t)) /\ UNCHANGED pin
    BY <1>1, <1>3, <1>13 DEF SignUp
  <2>2. PICK s, k : s = Save(u, new, t) /\ k = Activate(u, p, t) OBVIOUS
  <2>3. s \in Scripts(0) /\ \A o \in Saves(s) : o.user = u /\ o.pin = new BY <2>2, OneSave
  <2>4. k \in Seq(Plain(0)) /\ Serve(w, s \o k) BY <1>7, <2>1, <2>2
  <2> QED BY <1>3, <1>5, <2>1, <2>3, <2>4
<1>14. ASSUME NEW p \in Plans, ChangePlan(w, u, p) \/ RechargeComplete(w, u, p) PROVE PinsOrdered' /\ PinStep
  <2>1. Serve(w, Activate(u, p, z)) /\ UNCHANGED pin
    BY <1>4, <1>14 DEF ChangePlan, RechargeComplete, account
  <2> QED BY <1>6, <1>7, <2>1
<1>15. ASSUME NEW p \in Plans, PurchaseFromWallet(w, u, p) PROVE PinsOrdered' /\ PinStep
  <2>1. PICK b : b = <<[op |-> "buy", user |-> u, plan |-> p, secret |-> z]>> OBVIOUS
  <2>2. b \in Seq(Plain(0))
    <3>1. [op |-> "buy", user |-> u, plan |-> p, secret |-> z] \in Plain(0) BY Words DEF Plain
    <3> QED BY <2>1, <3>1, One
  <2>3. Serve(w, b \o Kick(u)) /\ UNCHANGED pin BY <1>4, <1>15, <2>1 DEF PurchaseFromWallet, account
  <2>4. b \o Kick(u) \in Seq(Plain(0)) BY <1>7, <2>2, Joined
  <2> QED BY <1>6, <2>3, <2>4
<1> QED BY <1>8, <1>9, <1>10, <1>11, <1>12, <1>13, <1>14, <1>15

LEMMA TokenOnlyPins ==
  ASSUME IInv, PinsOrdered, Idle, NEW w \in Workers, TokenOnly(w) PROVE PinsOrdered' /\ PinStep
<1>1. ASSUME NEW u \in Subscribers, RechargeVerify(w, u) PROVE PinsOrdered' /\ PinStep
  <2>1. <<>> \in Seq(Plain(0)) OBVIOUS
  <2>2. Saves(<<>>) = {} BY <2>1, PlainSaves
  <2>3. PICK x \in Secrets : x = pin[u] BY NewSecrets
  <2>4. Serve(w, <<>>) /\ UNCHANGED pin BY <1>1 DEF RechargeVerify
  <2> QED BY <2>2, <2>3, <2>4, BeginsPin
<1>2. ASSUME NEW ph \in Phones, ResetPin(w, ph) PROVE PinsOrdered' /\ PinStep
  <2> DEFINE owners == {u \in alive : Phone[u] = ph}
             m == Cardinality(owners)
  <2>1. PICK accounts \in [1..m -> owners] :
          Serve(w, [k \in DOMAIN accounts |->
                     [op |-> "save", user |-> accounts[k],
                      pin |-> NewPin(accounts[k]), token |-> NewToken(accounts[k])]])
    BY <1>2 DEF ResetPin
  <2>2. owners \subseteq Subscribers BY DEF IInv, Typed
  <2> HIDE DEF m, owners
  <2>3. PICK s : s = [k \in DOMAIN accounts |->
                       [op |-> "save", user |-> accounts[k],
                        pin |-> NewPin(accounts[k]), token |-> NewToken(accounts[k])]]
    OBVIOUS
  <2>4. PICK X : X = {NewPin(u) : u \in Subscribers} OBVIOUS
  <2>5. X \in SUBSET Secrets BY <2>4, Fresh DEF IInv
  <2>6. \A x \in X : x.n = served + 1 BY <2>4 DEF NewPin, Secret
  <2>7. ASSUME NEW o \in Saves(s) PROVE o.user \in Subscribers /\ o.pin \in X
    <3>1. PICK k \in 1..m : o = s[k] BY <2>3 DEF Saves
    <3>2. accounts[k] \in Subscribers BY <2>2
    <3> QED BY <2>3, <2>4, <3>1, <3>2
  <2>8. UNCHANGED pin /\ Serve(w, s) BY <1>2, <2>1, <2>3 DEF ResetPin, account
  <2> QED BY <2>5, <2>6, <2>7, <2>8, BeginsPins
<1> QED BY <1>1, <1>2 DEF TokenOnly

\* Nothing is written and the clock of requests goes on at most.
LEMMA PinsKept ==
  ASSUME IInv, PinsOrdered, NEW q \in Processes, Works(q), Newer(Saves(todo[q])),
         NEW s, todo' = [todo EXCEPT ![q] = s], Saves(s) \subseteq Saves(todo[q]), UNCHANGED pin,
         served' \in {served, served + 1}
  PROVE  PinsOrdered' /\ PinStep
<1>1. served \in Nat /\ served <= served' /\ served' \in Nat BY PinNumbers
<1>2. todo'[q] = s /\ Works(q)' BY DEF IInv, ScriptsSound, Works
<1>3. \A u \in Subscribers : pin[u].n \in Nat /\ pin[u].n <= served BY PinNumbers DEF PinsOrdered
<1>4. \A u \in Subscribers : pin'[u].n <= served' BY <1>1, <1>3
<1>5. ASSUME NEW o \in Saves(s)
      PROVE  /\ pin[o.user].n <= o.pin.n /\ o.pin.n <= served'
             /\ \A p \in Saves(s) : p.user = o.user => p.pin.n = o.pin.n
  <2>1. o \in Saves(todo[q]) /\ o.pin.n \in Nat BY SaveHolds
  <2>2. o.pin.n <= served BY <2>1 DEF Newer
  <2>3. o.pin.n <= served' BY <1>1, <2>1, <2>2
  <2> QED BY <2>1, <2>3 DEF Newer
<1>6. Newer(Saves(s))' BY <1>5 DEF Newer
<1>7. PinStep BY <1>3 DEF PinStep
<1> QED BY <1>2, <1>4, <1>6, <1>7 DEF PinsOrdered

LEMMA CrashPins == ASSUME IInv, PinsOrdered, NEW q \in Processes, Crash(q) PROVE PinsOrdered' /\ PinStep
<1>1. todo[q] # <<>> /\ todo' = [todo EXCEPT ![q] = <<>>] /\ UNCHANGED <<pin, served>>
  BY DEF Crash, account
<1>2. Works(q) /\ Newer(Saves(todo[q])) BY <1>1 DEF PinsOrdered, Works
<1>3. PICK s : s = <<>> OBVIOUS
<1>4. Saves(s) \subseteq Saves(todo[q]) BY <1>3 DEF Saves
<1> QED BY <1>1, <1>2, <1>3, <1>4, PinsKept

LEMMA ExpirePlansPins == ASSUME IInv, PinsOrdered, Idle, ExpirePlans PROVE PinsOrdered' /\ PinStep
<1> DEFINE m == Cardinality(Overdue)
           rows(batch) == [k \in DOMAIN batch |->
                            [op |-> "overdue", row |-> batch[k],
                             secret |-> token[subs[batch[k]].user]]]
<1>1. PICK batch \in [1..m -> Overdue] : todo' = [todo EXCEPT ![Timer] = rows(batch)] BY DEF ExpirePlans
<1>2. \A k \in DOMAIN rows(batch) : rows(batch)[k].op = "overdue" OBVIOUS
<1>3. PICK s : s = rows(batch) OBVIOUS
<1>4. Saves(s) = {} BY <1>2, <1>3 DEF Saves
<1>5. Works(Timer) /\ Timer \in Processes /\ todo[Timer] = <<>> BY DEF Idle, Works, Processes
<1>6. PICK e : e = <<>> /\ e = todo[Timer] BY <1>5
<1>7. Saves(e) = {} BY <1>6 DEF Saves
<1>8. Newer(Saves(todo[Timer])) BY <1>6, <1>7 DEF Newer
<1>9. UNCHANGED <<pin, served>> BY DEF ExpirePlans, account
<1> QED BY <1>1, <1>3, <1>4, <1>5, <1>8, <1>9, PinsKept

LEMMA AdministerPins == ASSUME IInv, PinsOrdered, Idle, Administer PROVE PinsOrdered' /\ PinStep
<1>1. UNCHANGED <<pin, todo>> /\ served' = served + 1 BY DEF Administer, AdminSave, account
<1>2. PICK q \in Processes : Works(q) /\ Newer(Saves(todo[q])) BY DEF PinsOrdered
<1>3. PICK s : s = todo[q] OBVIOUS
<1>4. todo' = [todo EXCEPT ![q] = s] BY <1>1, <1>3 DEF IInv, ScriptsSound
<1> QED BY <1>1, <1>2, <1>3, <1>4, PinsKept

LEMMA PinsStep ==
  ASSUME IInv, PinsOrdered, [MCNext]_scenic, scene # "all" PROVE PinsOrdered' /\ PinStep
<1>1. CASE Runs BY <1>1, StatementPins DEF Runs
<1>2. CASE Idle /\ Starts
  <2>1. CASE ExpirePlans BY <1>2, <2>1, ExpirePlansPins
  <2>2. CASE Request(w1) BY <1>2, <2>2, RequestPins, SceneAssumption
  <2>3. CASE TokenOnly(w1) BY <1>2, <2>3, TokenOnlyPins, SceneAssumption
  <2>4. CASE Administer BY <1>2, <2>4, AdministerPins
  <2> QED BY <1>2, <2>1, <2>2, <2>3, <2>4 DEF Starts
<1>3. CASE Tick \/ UNCHANGED scenic
  <2>1. UNCHANGED <<pin, served, todo>> BY <1>3 DEF Tick, scenic, vars, account
  <2>2. PICK q \in Processes : Works(q) /\ Newer(Saves(todo[q])) BY DEF PinsOrdered
  <2>3. PICK s : s = todo[q] OBVIOUS
  <2>4. todo' = [todo EXCEPT ![q] = s] BY <2>1, <2>3 DEF IInv, ScriptsSound
  <2> QED BY <2>1, <2>2, <2>3, <2>4, PinsKept
<1>4. CASE \E q \in Processes : Crash(q) BY <1>4, CrashPins
<1> QED BY <1>1, <1>2, <1>3, <1>4 DEF MCNext

LEMMA PinsInit == MCInit => PinsOrdered
<1> SUFFICES ASSUME MCInit PROVE PinsOrdered OBVIOUS
<1>1. \A u \in Subscribers : pin[u].n <= served BY DEF MCInit, Init, Secret
<1>2. PICK q \in Processes : q = Timer BY DEF Processes
<1>3. todo = [r \in Processes |-> <<>>] BY DEF MCInit, Init
<1>4. PICK e : e = <<>> /\ e = todo[q] BY <1>3
<1>5. Saves(e) = {} BY <1>4 DEF Saves
<1>6. Works(q) /\ Newer(Saves(todo[q])) BY <1>3, <1>4, <1>5 DEF Works, Newer
<1> QED BY <1>1, <1>6 DEF PinsOrdered

\* A subscriber's PIN is never replaced by an older one while a request or a run
\* of expire_plans ends before the next begins: what a handler has still to
\* save was loaded after the last save, whatever the admin edits and wherever a
\* process is killed (set_pin and Subscriber.save in accounts/models.py and
\* the portal's views).
THEOREM NoPinUndone == MCSpec => PinSticks
<1> DEFINE I == IInv /\ (scene # "all" => PinsOrdered)
<1>1. MCInit => I BY InitInv, PinsInit DEF MCInit
<1>2. I /\ [MCNext]_scenic => I' /\ [scene # "all" => PinStep]_scenic
  <2> SUFFICES ASSUME I, [MCNext]_scenic PROVE I' /\ (scene # "all" => PinStep) OBVIOUS
  <2>1. [Next]_vars BY SceneStep DEF scenic
  <2>2. IInv' BY <2>1, StepInv
  <2>3. UNCHANGED scene BY DEF MCNext, scenic
  <2> QED BY <2>2, <2>3, PinsStep
<1> HIDE DEF I
<1>3. I /\ [][MCNext]_scenic => [][scene # "all" => PinStep]_scenic BY <1>2, PTL
<1> QED BY <1>1, <1>3, PTL DEF MCSpec, PinSticks

-----------------------------------------------------------------------------
(* One process at a time: a login repairs RADIUS                           *)

\* A subscriber with a plan is in its group.
Filled(u) == ActiveRows(u) # {} /\ group[Phone[u]] = ActivePlans(u)
\* A request that will leave RADIUS right for u is about to execute o, then r.
Mends(u, o, r) ==
  \/ o.op = "save" /\ r = LogsIn(u, o.token)
  \/ o.op \in {"login", "buy"} /\ o.secret = token[u] /\ r = Kick(u)
  \/ o.op = "expire" /\ \E p \in Plans : r = Insert(u, p) \o (Assign(u, p, token[u]) \o Kick(u))
  \/ o.op = "insert" /\ ActiveRows(u) = {} /\ r = Assign(u, o.plan, token[u]) \o Kick(u)
  \/ o.op = "ungroup" /\ \E p \in Plans : /\ ActivePlans(u) = {p}
                                          /\ r = Group(u, p) \o (UpdateCheck(u, token[u]) \o Kick(u))
  \/ /\ o.op = "group" /\ ActivePlans(u) = {o.plan} /\ group[Phone[u]] = {}
     /\ r = UpdateCheck(u, token[u]) \o Kick(u)
  \/ o.op = "uncheck" /\ u \notin Manual /\ Filled(u) /\ r = Check(u, token[u]) \o Kick(u)
  \/ /\ o.op = "check" /\ u \notin Manual /\ Filled(u) /\ check[Phone[u]] = {}
     /\ o.secret = token[u] /\ r = Kick(u)
  \/ o.op = "ungroup" /\ ActiveRows(u) = {} /\ r = Uncheck(u) \o Kick(u)
  \/ o.op = "uncheck" /\ ActiveRows(u) = {} /\ group[Phone[u]] = {} /\ r = Kick(u)
  \/ o.op = "kick" /\ RadiusRight(u) /\ r = <<>>

\* What the other requests execute, but for the devices they may disconnect
\* before anything else.
Quiet == {o \in Statements : o.op \notin {"kick", "login", "buy", "overdue"}}
Unlisted == {o \in Statements : o.op # "overdue"}
Repairs(s) ==
  \/ s \in Seq(Quiet)
  \/ /\ s # <<>>
     /\ \/ Head(s).op = "kick" /\ Tail(s) \in Seq(Quiet) \ {<<>>}
        \/ \E u \in Subscribers : Head(s).user = u /\ Mends(u, Head(s), Tail(s))
Repairing == \E q \in Processes : Works(q) /\ (q \in Workers => Repairs(todo[q]))

LEMMA QuietScripts ==
  ASSUME NEW u \in Subscribers, NEW t \in Secrets
  PROVE  /\ Expire(u) \in Seq(Quiet) /\ Ungroup(u) \in Seq(Quiet) /\ Uncheck(u) \in Seq(Quiet)
         /\ Erase(u) \in Seq(Quiet) /\ RemoveRadius(u) \in Seq(Quiet)
         /\ SetPassword(u, t) \in Seq(Quiet) /\ UpdateCheck(u, t) \in Seq(Quiet)
         /\ \A x \in Secrets : Save(u, x, t) \in Seq(Quiet)
         /\ \A p \in Plans : Assign(u, p, t) \in Seq(Quiet) /\ Activate(u, p, t) \in Seq(Quiet)
<1>1. ASSUME NEW op \in {"expire", "ungroup", "uncheck", "erase"}
      PROVE  <<[op |-> op, user |-> u]>> \in Seq(Quiet)
  <2>1. [op |-> op, user |-> u] \in Quiet BY DEF Quiet, Statements
  <2> QED BY <2>1, One
<1>2. /\ Expire(u) \in Seq(Quiet) /\ Ungroup(u) \in Seq(Quiet) /\ Uncheck(u) \in Seq(Quiet)
      /\ Erase(u) \in Seq(Quiet)
  BY <1>1 DEF Expire, Ungroup, Uncheck, Erase
<1>3. RemoveRadius(u) \in Seq(Quiet) BY <1>2, Joined DEF RemoveRadius
<1>4. Check(u, t) \in Seq(Quiet)
  <2>1. [op |-> "check", user |-> u, secret |-> t] \in Quiet BY DEF Quiet, Statements
  <2> QED BY <2>1, One DEF Check
<1>5. SetPassword(u, t) \in Seq(Quiet) BY <1>2, <1>4, Joined DEF SetPassword
<1>6. <<>> \in Seq(Quiet) OBVIOUS
<1>7. UpdateCheck(u, t) \in Seq(Quiet) BY <1>5, <1>6 DEF UpdateCheck
<1>8. ASSUME NEW x \in Secrets PROVE Save(u, x, t) \in Seq(Quiet)
  <2>1. [op |-> "save", user |-> u, pin |-> x, token |-> t] \in Quiet BY DEF Quiet, Statements
  <2> QED BY <2>1, One DEF Save
<1>9. ASSUME NEW p \in Plans PROVE Assign(u, p, t) \in Seq(Quiet) /\ Activate(u, p, t) \in Seq(Quiet)
  <2>1. ASSUME NEW op \in {"insert", "group"} PROVE <<[op |-> op, user |-> u, plan |-> p]>> \in Seq(Quiet)
    <3>1. [op |-> op, user |-> u, plan |-> p] \in Quiet BY DEF Quiet, Statements
    <3> QED BY <3>1, One
  <2>2. Insert(u, p) \in Seq(Quiet) /\ Group(u, p) \in Seq(Quiet) BY <2>1 DEF Insert, Group
  <2>3. Assign(u, p, t) \in Seq(Quiet) BY <1>2, <1>7, <2>2, Joined DEF Assign
  <2> QED BY <1>2, <2>2, <2>3, Joined DEF Activate
<1> QED BY <1>2, <1>3, <1>5, <1>7, <1>8, <1>9

LEMMA QuietWide == Quiet \subseteq Unlisted /\ Seq(Quiet) \subseteq Seq(Unlisted)
<1>1. Quiet \subseteq Unlisted BY DEF Quiet, Unlisted
<1> QED BY <1>1, Widened

\* An exception ends a request.
LEMMA RaiseEnds ==
  ASSUME NEW q, NEW s \in Seq(Unlisted), s = todo[q], Raise(q)
  PROVE  todo' = [todo EXCEPT ![q] = <<>>]
<1>1. PICK n \in DOMAIN s : /\ n < Len(s) => s[n + 1].op = "overdue"
                            /\ todo' = [todo EXCEPT ![q] = SubSeq(s, n + 1, Len(s))]
  BY DEF Raise
<1>2. Len(s) \in Nat /\ n \in 1..Len(s) /\ \A k \in 1..Len(s) : s[k].op # "overdue"
  <2>1. \A k \in 1..Len(s) : s[k] \in Unlisted OBVIOUS
  <2> QED BY <2>1 DEF Unlisted
<1>3. n = Len(s)
  <2> SUFFICES ASSUME n < Len(s) PROVE FALSE BY <1>2
  <2>1. n + 1 \in 1..Len(s) BY <1>2
  <2> QED BY <1>1, <1>2, <2>1
<1>4. SubSeq(s, n + 1, Len(s)) = <<>> BY <1>2, <1>3
<1> QED BY <1>1, <1>4

-----------------------------------------------------------------------------
(* How a request goes on to its last statement                             *)

LEMMA GoesMending ==
  ASSUME IInv, NEW q \in Processes, Works(q), NEW s, todo' = [todo EXCEPT ![q] = s],
         q \in Workers => Repairs(s)'
  PROVE  Repairing'
<1>1. todo'[q] = s /\ \A r \in Processes \ {q} : todo'[r] = todo[r] BY DEF IInv, ScriptsSound
<1>2. Works(q)' BY <1>1 DEF Works
<1>3. q \in Workers => Repairs(todo[q])' BY <1>1 DEF Repairs
<1> QED BY <1>2, <1>3 DEF Repairing

LEMMA QuietGoesOn ==
  ASSUME IInv, NEW q \in Processes, Works(q), NEW s \in Seq(Quiet), todo' = [todo EXCEPT ![q] = s]
  PROVE  Repairing'
<1>1. Repairs(s)' BY DEF Repairs
<1> QED BY <1>1, GoesMending

LEMMA MendsOn ==
  ASSUME IInv, NEW q \in Processes, Works(q), NEW n, NEW o \in Sound(n), NEW r \in Scripts(n),
         todo' = [todo EXCEPT ![q] = <<o>> \o r],
         NEW u \in Subscribers, o.user = u, Mends(u, o, r)'
  PROVE  Repairing'
<1>1. PICK s : s = <<o>> \o r OBVIOUS
<1>2. s # <<>> /\ Head(s) = o /\ Tail(s) = r BY <1>1, Parts
<1>3. Repairs(s)' BY <1>2 DEF Repairs
<1> QED BY <1>1, <1>3, GoesMending

LEMMA KicksLast ==
  ASSUME IInv, NEW q \in Processes, Works(q), NEW u \in Subscribers, todo' = [todo EXCEPT ![q] = Kick(u)],
         RadiusRight(u)'
  PROVE  Repairing'
<1>1. PICK o : o = [op |-> "kick", user |-> u] OBVIOUS
<1>2. o.op = "kick" /\ o.user = u /\ Kick(u) = <<o>> BY <1>1 DEF Kick
<1>3. o \in Sound(0) /\ <<>> \in Scripts(0) /\ Kick(u) = <<o>> \o <<>>
  <2>1. Kick(u) \in Scripts(0) BY SimpleScripts
  <2>2. o \in Sound(0)
    <3>1. token[u] \in Secrets BY DEF IInv, Typed
    <3> QED BY <1>1, <3>1, Words
  <2> QED BY <1>2, <2>1, <2>2, NoMore
<1>4. Mends(u, o, <<>>)' BY <1>2 DEF Mends
<1> QED BY <1>2, <1>3, <1>4, MendsOn

\* update_radcheck_password, before the devices are disconnected.
LEMMA UpdateMends ==
  ASSUME IInv, NEW q \in Processes, Works(q), NEW u \in Subscribers, NEW t \in Secrets,
         todo' = [todo EXCEPT ![q] = UpdateCheck(u, t) \o Kick(u)],
         token'[u] = t, Filled(u)'
  PROVE  Repairing'
<1>1. Kick(u) \in Scripts(0) BY SimpleScripts
<1>2. CASE u \in Manual
  <2>1. UpdateCheck(u, t) \o Kick(u) = Kick(u) BY <1>1, <1>2, NoMore DEF UpdateCheck
  <2>2. RadiusRight(u)' BY <1>2 DEF RadiusRight, Filled, ActivePlans
  <2> QED BY <2>1, <2>2, KicksLast
<1>3. CASE u \notin Manual
  <2>1. PICK o, e, c, k : /\ o = [op |-> "uncheck", user |-> u] /\ e = <<o>>
                          /\ c = Check(u, t) /\ k = Kick(u)
    OBVIOUS
  <2>2. o \in Sound(0) /\ o.op = "uncheck" /\ o.user = u /\ [op |-> "check", user |-> u, secret |-> t] \in Sound(0)
    BY <1>3, <2>1, Words
  <2>3. e \in Scripts(0) /\ c \in Scripts(0) /\ k \in Scripts(0)
    BY <1>1, <2>1, <2>2, One DEF Scripts, Check
  <2>4. (e \o c) \o k = e \o (c \o k) /\ c \o k \in Scripts(0) BY <2>3, Nested DEF Scripts
  <2>5. todo' = [todo EXCEPT ![q] = <<o>> \o (c \o k)]
    BY <1>3, <2>1, <2>4 DEF UpdateCheck, SetPassword, Uncheck
  <2>6. PICK r : r = c \o k OBVIOUS
  <2>7. Mends(u, o, r)' BY <1>3, <2>1, <2>2, <2>6 DEF Mends
  <2> QED BY <2>2, <2>4, <2>5, <2>6, <2>7, MendsOn
<1> QED BY <1>2, <1>3

\* assign_subscriber_to_plan.
LEMMA AssignMends ==
  ASSUME IInv, NEW q \in Processes, Works(q), NEW u \in Subscribers, NEW t \in Secrets, NEW p \in Plans,
         todo' = [todo EXCEPT ![q] = Assign(u, p, t) \o Kick(u)],
         token'[u] = t, ActivePlans(u)' = {p}
  PROVE  Repairing'
<1>1. PICK o : o = [op |-> "ungroup", user |-> u] OBVIOUS
<1>2. PICK e, g, c, k : e = <<o>> /\ g = Group(u, p) /\ c = UpdateCheck(u, t) /\ k = Kick(u) OBVIOUS
<1>3. /\ o \in Sound(0) /\ e \in Scripts(0) /\ g \in Scripts(0) /\ c \in Scripts(0) /\ k \in Scripts(0)
      /\ o.op = "ungroup" /\ o.user = u
  BY <1>1, <1>2, Words, One, PlanScripts, AssignScript, SimpleScripts DEF Scripts
<1>4. Chain(e, g, c, k) = Linked(e, After(g, c, k)) /\ After(g, c, k) \in Scripts(0)
  BY <1>3, Chained
<1>5. PICK r : r = After(g, c, k) OBVIOUS
<1>6. todo' = [todo EXCEPT ![q] = <<o>> \o r]
  <2>1. todo' = [todo EXCEPT ![q] = Chain(e, g, c, k)] BY <1>1, <1>2 DEF Assign, Ungroup, Chain
  <2> QED BY <1>2, <1>4, <1>5, <2>1 DEF Linked
<1>7. Mends(u, o, r)' BY <1>2, <1>3, <1>5 DEF Mends, After
<1> QED BY <1>3, <1>4, <1>5, <1>6, <1>7, MendsOn

\* activate_subscription.
LEMMA ActivateMends ==
  ASSUME IInv, NEW q \in Processes, Works(q), NEW u \in Subscribers, NEW t \in Secrets, NEW p \in Plans,
         todo' = [todo EXCEPT ![q] = Activate(u, p, t) \o Kick(u)],
         token'[u] = t
  PROVE  Repairing'
<1>1. PICK o : o = [op |-> "expire", user |-> u] OBVIOUS
<1>2. PICK e, a, i, k : e = <<o>> /\ a = Assign(u, p, t) /\ i = Insert(u, p) /\ k = Kick(u) OBVIOUS
<1>3. /\ o \in Sound(0) /\ e \in Scripts(0) /\ i \in Scripts(0) /\ a \in Scripts(0) /\ k \in Scripts(0)
      /\ o.op = "expire" /\ o.user = u
  BY <1>1, <1>2, Words, One, PlanScripts, AssignScript, SimpleScripts DEF Scripts
<1>4. Chain(e, i, a, k) = Linked(e, After(i, a, k)) /\ After(i, a, k) \in Scripts(0)
  BY <1>3, Chained
<1>5. PICK r : r = After(i, a, k) OBVIOUS
<1>6. todo' = [todo EXCEPT ![q] = <<o>> \o r]
  <2>1. todo' = [todo EXCEPT ![q] = Chain(e, i, a, k)] BY <1>1, <1>2 DEF Activate, Expire, Chain
  <2> QED BY <1>2, <1>4, <1>5, <2>1 DEF Linked
<1>7. Mends(u, o, r)' BY <1>2, <1>3, <1>5 DEF Mends, After
<1> QED BY <1>3, <1>4, <1>5, <1>6, <1>7, MendsOn

-----------------------------------------------------------------------------
(* The statements of a login or a purchase                                 *)

\* Process q serves u and is about to execute o, then r.
Mending(q, u, o, r) ==
  /\ Works(q) /\ todo[q] # <<>> /\ o = Now(q) /\ r = Tail(todo[q])
  /\ u \in Subscribers /\ o \in Sound(Len(subs)) /\ r \in Scripts(Len(subs))
  /\ o.user = u /\ Mends(u, o, r)

LEMMA KickUnlisted == ASSUME NEW u \in Subscribers PROVE Kick(u) \in Seq(Unlisted)
<1>1. [op |-> "kick", user |-> u] \in Unlisted BY DEF Unlisted, Statements
<1> QED BY <1>1, One DEF Kick

LEMMA Unlists ==
  ASSUME IInv, NEW q \in Processes, todo[q] # <<>>, Now(q).op # "overdue", Tail(todo[q]) \in Seq(Unlisted)
  PROVE  todo[q] \in Seq(Unlisted)
<1>1. PICK s, r : s = todo[q] /\ r = Tail(s) OBVIOUS
<1>2. s \in Seq(Sound(Len(subs))) BY <1>1 DEF IInv, ScriptsSound, Scripts
<1>3. ASSUME NEW k \in 1..Len(s) PROVE s[k] \in Unlisted
  <2>1. CASE k = 1
    <3>1. s[1] = Now(q) /\ s[1] \in Sound(Len(subs)) BY <1>1, <1>2, <1>3, <2>1 DEF Now
    <3> QED BY <2>1, <3>1 DEF Sound, Unlisted
  <2>2. CASE k # 1
    <3>1. k - 1 \in 1..Len(r) /\ r[k - 1] = s[k] BY <1>1, <1>2, <1>3, <2>2
    <3> QED BY <1>1, <3>1
  <2> QED BY <2>1, <2>2
<1> QED BY <1>1, <1>2, <1>3

LEMMA SaveMends ==
  ASSUME IInv, NEW q \in Processes, NEW u, NEW o, NEW r, Mending(q, u, o, r), DoSave(q)
  PROVE  Repairing'
<1> DEFINE n == Len(subs)
<1>1. /\ todo[q] # <<>> /\ Now(q).op = "save" /\ Done(q)
      /\ token' = [token EXCEPT ![Now(q).user] = Now(q).token]
  BY DEF DoSave, At, Now
<1>2. u \in Subscribers /\ o \in Sound(n) /\ o = Now(q) /\ r = Tail(todo[q]) /\ o.user = u BY DEF Mending
<1>3. PICK t \in Secrets : t = o.token BY <1>1, <1>2, Arguments
<1>4. r = LogsIn(u, t) BY <1>1, <1>2, <1>3 DEF Mending, Mends
<1>5. todo' = [todo EXCEPT ![q] = r] /\ token'[u] = t
  BY <1>1, <1>2, <1>3, DoneLeaves DEF IInv, Typed
<1>6. PICK w, k : w = [op |-> "login", user |-> u, secret |-> t] /\ k = Kick(u) OBVIOUS
<1>7. w \in Sound(n) /\ k \in Scripts(n) /\ w.op = "login" /\ w.user = u /\ w.secret = t
  BY <1>2, <1>6, Words, SimpleScripts
<1>8. todo' = [todo EXCEPT ![q] = <<w>> \o k] BY <1>4, <1>5, <1>6 DEF LogsIn
<1>9. Mends(u, w, k)' BY <1>5, <1>6, <1>7 DEF Mends
<1> HIDE DEF n
<1> QED BY <1>2, <1>7, <1>8, <1>9, MendsOn DEF Mending

LEMMA LoginMends ==
  ASSUME IInv, OneEach, NEW q \in Processes, NEW u, NEW o, NEW r, Mending(q, u, o, r), DoLogin(q)
  PROVE  Repairing'
<1> DEFINE n == Len(subs)
<1>1. todo[q] # <<>> /\ Now(q).op = "login" /\ UNCHANGED <<account, subs, radius>> BY DEF DoLogin, At, Now
<1>2. /\ u \in Subscribers /\ o \in Sound(n) /\ o = Now(q) /\ r = Tail(todo[q]) /\ o.user = u /\ Works(q)
  BY DEF Mending
<1>3. PICK t \in Secrets : t = o.secret BY <1>1, <1>2, Arguments
<1>4. r = Kick(u) /\ token[u] = t /\ token'[u] = t BY <1>1, <1>2, <1>3 DEF Mending, Mends, account
<1>5. \A s : Continue(q, s) => todo' = [todo EXCEPT ![q] = s \o Kick(u)] BY <1>2, <1>4 DEF Continue
<1>6. ASSUME NEW i \in Newest(ActiveRows(u)), Continue(q, Assign(u, subs[i].plan, t)) PROVE Repairing'
  <2>1. PICK p \in Plans : p = subs[i].plan BY <1>2, NewestPlan, RowOwner
  <2>2. (ActivePlans(u))' = {p} BY <1>1, <1>2, <2>1, NewestPlan, PlansKept
  <2>3. todo' = [todo EXCEPT ![q] = Assign(u, p, t) \o Kick(u)] BY <1>5, <1>6, <2>1
  <2> QED BY <1>2, <1>4, <2>2, <2>3, AssignMends
<1>7. ASSUME NEW i \in DOMAIN subs, Continue(q, Activate(u, subs[i].plan, t)) PROVE Repairing'
  <2>1. PICK p \in Plans : p = subs[i].plan BY RowOwner
  <2>2. todo' = [todo EXCEPT ![q] = Activate(u, p, t) \o Kick(u)] BY <1>5, <1>7, <2>1
  <2> QED BY <1>2, <1>4, <2>2, ActivateMends
<1>8. ASSUME ActiveRows(u) = {}, Continue(q, RemoveRadius(u)) PROVE Repairing'
  <2>0. PICK K : K = Kick(u) OBVIOUS
  <2>1. K \in Scripts(n) BY <1>2, <2>0, SimpleScripts
  <2>2. Struck(n, u, K) BY <1>2, <2>1, RemovalStep
  <2>3. PICK w, s : /\ w = [op |-> "ungroup", user |-> u] /\ s = Uncheck(u) \o K
                    /\ s \in Scripts(n) /\ RemoveRadius(u) \o K = <<w>> \o s
    BY <2>2, Zenon DEF Struck
  <2>4. w \in Sound(n) /\ w.op = "ungroup" /\ w.user = u BY <1>2, <2>3, Words
  <2>5. todo' = [todo EXCEPT ![q] = <<w>> \o s] BY <1>5, <1>8, <2>0, <2>3
  <2>6. (ActiveRows(u))' = {} BY <1>1, <1>8, PlansKept
  <2>7. Mends(u, w, s)' BY <2>0, <2>4, <2>3, <2>6 DEF Mends
  <2>8. s \in Scripts(n) BY <2>3
  <2> QED BY <1>2, <2>4, <2>5, <2>7, <2>8, MendsOn
<1> HIDE DEF n
<1> QED BY <1>2, <1>3, <1>6, <1>7, <1>8 DEF DoLogin

LEMMA BoughtMends ==
  ASSUME IInv, NEW u \in Subscribers, NEW p \in Plans, NEW t \in Secrets, Bought(u, p, t), token'[u] = t
  PROVE  RadiusRight(u)'
<1>1. subs' = Append(Expired(u), NewRow(u, p)) /\ group' = [group EXCEPT ![Phone[u]] = {p}]
  BY DEF Bought
<1>2. (ActiveRows(u))' = {Len(subs) + 1} /\ subs'[Len(subs) + 1].plan = p BY <1>1, RowReplaced
<1>3. Phone[u] \in Phones /\ (ActivePlans(u))' = {p} BY <1>2, PhoneAssumption DEF ActivePlans
<1>4. group'[Phone[u]] = {p} /\ (u \notin Manual => check'[Phone[u]] = {t})
  BY <1>1, <1>3 DEF Bought, IInv, Typed
<1> QED BY <1>2, <1>3, <1>4 DEF RadiusRight, ActivePlans

LEMMA BuyMends ==
  ASSUME IInv, NEW q \in Processes, NEW u, NEW o, NEW r, Mending(q, u, o, r), DoBuy(q)
  PROVE  Repairing'
<1> DEFINE n == Len(subs)
<1>1. todo[q] # <<>> /\ Now(q).op = "buy" /\ UNCHANGED account BY DEF DoBuy, At, Now
<1>2. /\ u \in Subscribers /\ o \in Sound(n) /\ o = Now(q) /\ r = Tail(todo[q]) /\ o.user = u /\ Works(q)
  BY DEF Mending
<1>3. PICK t \in Secrets, p \in Plans : t = o.secret /\ p = o.plan BY <1>1, <1>2, Arguments
<1>4. r = Kick(u) /\ token[u] = t /\ token'[u] = t BY <1>1, <1>2, <1>3 DEF Mending, Mends, account
<1>5. CASE Bought(u, p, t) /\ Done(q)
  <2>1. todo' = [todo EXCEPT ![q] = Kick(u)] BY <1>1, <1>2, <1>4, <1>5, DoneLeaves
  <2>2. RadiusRight(u)' BY <1>2, <1>4, <1>5, BoughtMends
  <2> QED BY <1>2, <2>1, <2>2, KicksLast
<1>6. CASE Raise(q)
  <2>1. todo[q] \in Seq(Unlisted) BY <1>1, <1>2, <1>4, KickUnlisted, Unlists
  <2>2. todo' = [todo EXCEPT ![q] = <<>>] BY <1>6, <2>1, RaiseEnds
  <2>3. <<>> \in Seq(Quiet) OBVIOUS
  <2> QED BY <1>2, <2>2, <2>3, QuietGoesOn
<1> HIDE DEF n
<1> QED BY <1>2, <1>3, <1>5, <1>6 DEF DoBuy

LEMMA ExpireMends ==
  ASSUME IInv, NEW q \in Processes, NEW u, NEW o, NEW r, Mending(q, u, o, r), DoExpire(q)
  PROVE  Repairing'
<1> DEFINE n == Len(subs)
<1>1. todo[q] # <<>> /\ Now(q).op = "expire" /\ Done(q) /\ UNCHANGED account /\ subs' = Expired(Now(q).user)
  BY DEF DoExpire, At, Now
<1>2. /\ u \in Subscribers /\ o \in Sound(n) /\ o = Now(q) /\ r = Tail(todo[q]) /\ o.user = u /\ Works(q)
  BY DEF Mending
<1>3. PICK p \in Plans : r = Insert(u, p) \o (Assign(u, p, token[u]) \o Kick(u))
  BY <1>1, <1>2 DEF Mending, Mends
<1>4. PICK t \in Secrets : t = token[u] /\ t = token'[u] BY <1>1, <1>2, NewSecrets DEF account
<1>5. (ActiveRows(u))' = {} BY <1>1, <1>2, RowsEnd
<1>6. PICK w, s : w = [op |-> "insert", user |-> u, plan |-> p] /\ s = Assign(u, p, t) \o Kick(u) OBVIOUS
<1>7. w \in Sound(n) /\ s \in Scripts(n) /\ w.op = "insert" /\ w.user = u /\ w.plan = p
  BY <1>2, <1>6, Words, AssignScript, SimpleScripts, Joined DEF Scripts
<1>8. todo' = [todo EXCEPT ![q] = r] BY <1>1, <1>2, DoneLeaves
<1>9. todo' = [todo EXCEPT ![q] = <<w>> \o s] BY <1>3, <1>4, <1>6, <1>8 DEF Insert
<1>10. Mends(u, w, s)' BY <1>4, <1>5, <1>6, <1>7 DEF Mends
<1> HIDE DEF n
<1> QED BY <1>2, <1>7, <1>9, <1>10, MendsOn

LEMMA InsertMends ==
  ASSUME IInv, NEW q \in Processes, NEW u, NEW o, NEW r, Mending(q, u, o, r), DoInsert(q)
  PROVE  Repairing'
<1> DEFINE n == Len(subs)
<1>1. todo[q] # <<>> /\ Now(q).op = "insert" /\ UNCHANGED account BY DEF DoInsert, At, Now
<1>2. /\ u \in Subscribers /\ o \in Sound(n) /\ o = Now(q) /\ r = Tail(todo[q]) /\ o.user = u /\ Works(q)
  BY DEF Mending
<1>3. PICK p \in Plans : p = o.plan BY <1>1, <1>2, Arguments
<1>4. PICK t \in Secrets : t = token[u] /\ t = token'[u] BY <1>1, <1>2, NewSecrets DEF account
<1>5. ActiveRows(u) = {} /\ r = Assign(u, p, t) \o Kick(u) BY <1>1, <1>2, <1>3, <1>4 DEF Mending, Mends
<1>6. CASE subs' = Append(subs, NewRow(u, p)) /\ Done(q)
  <2>1. (ActiveRows(u))' = {n + 1} /\ subs'[n + 1].plan = p BY <1>2, <1>5, <1>6, RowAdded
  <2>2. (ActivePlans(u))' = {p} BY <2>1 DEF ActivePlans
  <2>3. todo' = [todo EXCEPT ![q] = r] BY <1>1, <1>2, <1>6, DoneLeaves
  <2> QED BY <1>2, <1>4, <1>5, <2>2, <2>3, AssignMends
<1>7. CASE Raise(q)
  <2>1. Assign(u, p, t) \in Seq(Unlisted) BY <1>2, QuietScripts, QuietWide
  <2>2. r \in Seq(Unlisted) BY <1>2, <1>5, <2>1, KickUnlisted, Joined
  <2>3. todo[q] \in Seq(Unlisted) BY <1>1, <1>2, <2>2, Unlists
  <2>4. todo' = [todo EXCEPT ![q] = <<>>] BY <1>7, <2>3, RaiseEnds
  <2>5. <<>> \in Seq(Quiet) OBVIOUS
  <2> QED BY <1>2, <2>4, <2>5, QuietGoesOn
<1> HIDE DEF n
<1> QED BY <1>2, <1>3, <1>6, <1>7 DEF DoInsert

LEMMA UngroupMends ==
  ASSUME IInv, NEW q \in Processes, NEW u, NEW o, NEW r, Mending(q, u, o, r), o.op = "ungroup", DoGroup(q)
  PROVE  Repairing'
<1> DEFINE n == Len(subs)
<1>1. /\ u \in Subscribers /\ o \in Sound(n) /\ o = Now(q) /\ r = Tail(todo[q]) /\ o.user = u /\ Works(q)
      /\ todo[q] # <<>>
  BY DEF Mending
<1>2. Done(q) /\ UNCHANGED <<account, subs, check>> /\ group' = [group EXCEPT ![Phone[u]] = {}]
  BY <1>1 DEF DoGroup, At, Now
<1>3. PICK t \in Secrets : t = token[u] /\ t = token'[u] BY <1>1, <1>2, NewSecrets DEF account
<1>4. group'[Phone[u]] = {} BY <1>1, <1>2, PhoneAssumption DEF IInv, Typed
<1>5. (ActiveRows(u))' = ActiveRows(u) /\ (ActivePlans(u))' = ActivePlans(u) BY <1>2, PlansKept
<1>6. todo' = [todo EXCEPT ![q] = r] BY <1>1, <1>2, DoneLeaves
<1>7. PICK K : K = Kick(u) /\ K \in Scripts(n) BY <1>1, SimpleScripts
<1>8. ASSUME NEW p \in Plans, ActivePlans(u) = {p}, r = Group(u, p) \o (UpdateCheck(u, t) \o K)
      PROVE  Repairing'
  <2>1. PICK w, s : w = [op |-> "group", user |-> u, plan |-> p] /\ s = UpdateCheck(u, t) \o K OBVIOUS
  <2>2. w \in Sound(n) /\ s \in Scripts(n) /\ w.op = "group" /\ w.user = u /\ w.plan = p
    BY <1>1, <1>7, <2>1, Words, AssignScript, Joined DEF Scripts
  <2>3. todo' = [todo EXCEPT ![q] = <<w>> \o s] BY <1>6, <1>8, <2>1 DEF Group
  <2>4. Mends(u, w, s)' BY <1>3, <1>4, <1>5, <1>7, <1>8, <2>1, <2>2 DEF Mends
  <2> QED BY <1>1, <2>2, <2>3, <2>4, MendsOn
<1>9. ASSUME ActiveRows(u) = {}, r = Uncheck(u) \o K PROVE Repairing'
  <2>1. PICK w : w = [op |-> "uncheck", user |-> u] OBVIOUS
  <2>2. w \in Sound(n) /\ w.op = "uncheck" /\ w.user = u BY <1>1, <1>3, <2>1, Words
  <2>3. todo' = [todo EXCEPT ![q] = <<w>> \o K] BY <1>6, <1>9, <2>1 DEF Uncheck
  <2>4. Mends(u, w, K)' BY <1>4, <1>5, <1>7, <1>9, <2>2 DEF Mends
  <2> QED BY <1>1, <1>7, <2>2, <2>3, <2>4, MendsOn
<1>10. \/ \E p \in Plans : ActivePlans(u) = {p} /\ r = Group(u, p) \o (UpdateCheck(u, t) \o K)
       \/ ActiveRows(u) = {} /\ r = Uncheck(u) \o K
  BY <1>3, <1>7 DEF Mending, Mends
<1> HIDE DEF n
<1> QED BY <1>8, <1>9, <1>10

LEMMA GroupMends ==
  ASSUME IInv, NEW q \in Processes, NEW u, NEW o, NEW r, Mending(q, u, o, r), o.op = "group", DoGroup(q)
  PROVE  Repairing'
<1>1. /\ u \in Subscribers /\ o \in Sound(Len(subs)) /\ o = Now(q) /\ r = Tail(todo[q]) /\ o.user = u /\ Works(q)
      /\ todo[q] # <<>>
  BY DEF Mending
<1>2. PICK p \in Plans : p = o.plan BY <1>1, Arguments
<1>3. /\ Done(q) /\ UNCHANGED <<account, subs, check>>
      /\ group' = [group EXCEPT ![Phone[u]] = group[Phone[u]] \cup {p}]
  BY <1>1, <1>2 DEF DoGroup, At, Now
<1>4. PICK t \in Secrets : t = token[u] /\ t = token'[u] BY <1>1, <1>3, NewSecrets DEF account
<1>5. ActivePlans(u) = {p} /\ group[Phone[u]] = {} /\ r = UpdateCheck(u, t) \o Kick(u)
  BY <1>2, <1>4 DEF Mending, Mends
<1>6. group'[Phone[u]] = {p} BY <1>1, <1>3, <1>5, PhoneAssumption DEF IInv, Typed
<1>7. (ActiveRows(u))' = ActiveRows(u) /\ (ActivePlans(u))' = {p} BY <1>3, <1>5, PlansKept
<1>8. ActiveRows(u) # {} BY <1>5 DEF ActivePlans
<1>9. Filled(u)' BY <1>6, <1>7, <1>8 DEF Filled
<1>10. todo' = [todo EXCEPT ![q] = r] BY <1>1, <1>3, DoneLeaves
<1> QED BY <1>1, <1>4, <1>5, <1>9, <1>10, UpdateMends

LEMMA UncheckMends ==
  ASSUME IInv, NEW q \in Processes, NEW u, NEW o, NEW r, Mending(q, u, o, r), o.op = "uncheck", DoCheck(q)
  PROVE  Repairing'
<1> DEFINE n == Len(subs)
<1>1. /\ u \in Subscribers /\ o \in Sound(n) /\ o = Now(q) /\ r = Tail(todo[q]) /\ o.user = u /\ Works(q)
      /\ todo[q] # <<>>
  BY DEF Mending
<1>2. Done(q) /\ UNCHANGED <<account, subs, group>> /\ check' = [check EXCEPT ![Phone[u]] = {}]
  BY <1>1 DEF DoCheck, At, Now
<1>3. PICK t \in Secrets : t = token[u] /\ t = token'[u] BY <1>1, <1>2, NewSecrets DEF account
<1>4. check'[Phone[u]] = {} BY <1>1, <1>2, PhoneAssumption DEF IInv, Typed
<1>5. (ActiveRows(u))' = ActiveRows(u) /\ (ActivePlans(u))' = ActivePlans(u) BY <1>2, PlansKept
<1>6. todo' = [todo EXCEPT ![q] = r] BY <1>1, <1>2, DoneLeaves
<1>7. ASSUME u \notin Manual, Filled(u), r = Check(u, t) \o Kick(u) PROVE Repairing'
  <2>1. PICK w, K : w = [op |-> "check", user |-> u, secret |-> t] /\ K = Kick(u) OBVIOUS
  <2>2. w \in Sound(n) /\ K \in Scripts(n) /\ w.op = "check" /\ w.user = u /\ w.secret = t
    BY <1>1, <1>7, <2>1, Words, SimpleScripts
  <2>3. todo' = [todo EXCEPT ![q] = <<w>> \o K] BY <1>6, <1>7, <2>1 DEF Check
  <2>4. Filled(u)' BY <1>2, <1>5, <1>7 DEF Filled
  <2>5. Mends(u, w, K)' BY <1>3, <1>4, <1>7, <2>1, <2>2, <2>4 DEF Mends
  <2> QED BY <1>1, <2>2, <2>3, <2>5, MendsOn
<1>8. ASSUME ActiveRows(u) = {}, group[Phone[u]] = {}, r = Kick(u) PROVE Repairing'
  <2>1. RadiusRight(u)' BY <1>2, <1>4, <1>5, <1>8 DEF RadiusRight
  <2> QED BY <1>1, <1>6, <1>8, <2>1, KicksLast
<1>9. \/ u \notin Manual /\ Filled(u) /\ r = Check(u, t) \o Kick(u)
      \/ ActiveRows(u) = {} /\ group[Phone[u]] = {} /\ r = Kick(u)
  BY <1>3 DEF Mending, Mends
<1> HIDE DEF n
<1> QED BY <1>7, <1>8, <1>9

LEMMA CheckMends ==
  ASSUME IInv, NEW q \in Processes, NEW u, NEW o, NEW r, Mending(q, u, o, r), o.op = "check", DoCheck(q)
  PROVE  Repairing'
<1>1. /\ u \in Subscribers /\ o \in Sound(Len(subs)) /\ o = Now(q) /\ r = Tail(todo[q]) /\ o.user = u /\ Works(q)
      /\ todo[q] # <<>>
  BY DEF Mending
<1>2. PICK t \in Secrets : t = o.secret BY <1>1, Arguments
<1>3. Filled(u) /\ check[Phone[u]] = {} /\ t = token[u] /\ r = Kick(u) BY <1>2 DEF Mending, Mends
<1>4. /\ Done(q) /\ UNCHANGED <<account, subs, group>>
      /\ check' = [check EXCEPT ![Phone[u]] = check[Phone[u]] \cup {t}]
  BY <1>1, <1>2 DEF DoCheck, At, Now
<1>5. check'[Phone[u]] = {t} BY <1>1, <1>3, <1>4, PhoneAssumption DEF IInv, Typed
<1>6. (ActiveRows(u))' = ActiveRows(u) /\ (ActivePlans(u))' = ActivePlans(u) /\ token'[u] = t
  BY <1>3, <1>4, PlansKept DEF account
<1>7. RadiusRight(u)' BY <1>3, <1>4, <1>5, <1>6 DEF RadiusRight, Filled, ActivePlans
<1>8. todo' = [todo EXCEPT ![q] = r] BY <1>1, <1>4, DoneLeaves
<1> QED BY <1>1, <1>3, <1>7, <1>8, KicksLast

-----------------------------------------------------------------------------
(* The other statements, and the requests                                  *)

LEMMA QuietStatement ==
  ASSUME IInv, NEW q \in Processes, Works(q), todo[q] \in Seq(Quiet), Statement(q)
  PROVE  Repairing'
<1>1. todo[q] # <<>> /\ (Done(q) \/ Raise(q))
  <2>1. todo[q] # <<>>
    BY DEF Statement, DoExpire, DoInsert, DoGroup, DoCheck, DoKick, DoSave, DoErase, DoLogin, DoBuy,
           RenewOverdue, CutOffOverdue, DoLapse, At
  <2>2. Now(q) \in Quiet BY <2>1, Halves DEF Now
  <2>3. Now(q).op \notin {"kick", "login", "buy", "overdue"} BY <2>2 DEF Quiet
  <2>4. ~DoLogin(q) /\ ~RenewOverdue(q) /\ ~CutOffOverdue(q)
    BY <2>3 DEF DoLogin, RenewOverdue, CutOffOverdue, At, Now
  <2> QED BY <2>1, <2>4
          DEF Statement, DoExpire, DoInsert, DoGroup, DoCheck, DoKick, DoSave, DoErase, DoBuy, DoLapse
<1>2. CASE Done(q)
  <2>1. todo' = [todo EXCEPT ![q] = Tail(todo[q])] BY <1>1, <1>2, DoneLeaves
  <2>2. Tail(todo[q]) \in Seq(Quiet) BY <1>1, Halves
  <2> QED BY <2>1, <2>2, QuietGoesOn
<1>3. CASE Raise(q)
  <2>1. todo' = [todo EXCEPT ![q] = <<>>] BY <1>3, QuietWide, RaiseEnds
  <2>2. <<>> \in Seq(Quiet) OBVIOUS
  <2> QED BY <2>1, <2>2, QuietGoesOn
<1> QED BY <1>1, <1>2, <1>3

\* The statement is the one that the first record names.
LEMMA Named ==
  ASSUME NEW q, Statement(q)
  PROVE  /\ todo[q] # <<>>
         /\ Now(q).op \in {"ungroup", "group"} => DoGroup(q)
         /\ Now(q).op \in {"uncheck", "check"} => DoCheck(q)
         /\ Now(q).op = "kick" => DoKick(q)
         /\ Now(q).op = "save" => DoSave(q)
         /\ Now(q).op = "login" => DoLogin(q)
         /\ Now(q).op = "buy" => DoBuy(q)
         /\ Now(q).op = "expire" => DoExpire(q)
         /\ Now(q).op = "insert" => DoInsert(q)
<1>1. /\ DoExpire(q) => At(q, "expire")
      /\ DoInsert(q) => At(q, "insert")
      /\ DoGroup(q) => At(q, "ungroup") \/ At(q, "group")
      /\ DoCheck(q) => At(q, "uncheck") \/ At(q, "check")
      /\ DoKick(q) => At(q, "kick")
      /\ DoSave(q) => At(q, "save")
      /\ DoErase(q) => At(q, "erase")
      /\ DoLogin(q) => At(q, "login")
      /\ DoBuy(q) => At(q, "buy")
      /\ RenewOverdue(q) \/ CutOffOverdue(q) => At(q, "overdue")
      /\ DoLapse(q) => At(q, "lapse")
  BY Zenon DEF DoExpire, DoInsert, DoGroup, DoCheck, DoKick, DoSave, DoErase, DoLogin, DoBuy, RenewOverdue,
               CutOffOverdue, DoLapse
<1>2. \A op : At(q, op) => todo[q] # <<>> /\ Now(q).op = op BY DEF At, Now
<1> QED BY <1>1, <1>2 DEF Statement

LEMMA MendsStatement ==
  ASSUME IInv, OneEach, NEW q \in Processes, NEW u, NEW o, NEW r, Mending(q, u, o, r), Statement(q)
  PROVE  Repairing'
<1>1. CASE o.op = "kick"
  <2>1. DoKick(q) /\ r = <<>> BY <1>1, Named DEF Mending, Mends
  <2>2. todo' = [todo EXCEPT ![q] = r] BY <2>1, DoneLeaves DEF DoKick, Mending
  <2>3. <<>> \in Seq(Quiet) OBVIOUS
  <2> QED BY <2>1, <2>2, <2>3, QuietGoesOn DEF Mending
<1>2. CASE o.op = "uncheck" BY <1>2, Named, UncheckMends DEF Mending
<1>3. CASE o.op = "check" BY <1>3, Named, CheckMends DEF Mending
<1>4. CASE o.op = "ungroup" BY <1>4, Named, UngroupMends DEF Mending
<1>5. CASE o.op = "group" BY <1>5, Named, GroupMends DEF Mending
<1>6. CASE o.op = "save" BY <1>6, Named, SaveMends DEF Mending
<1>7. CASE o.op = "login" BY <1>7, Named, LoginMends DEF Mending
<1>8. CASE o.op = "buy" BY <1>8, Named, BuyMends DEF Mending
<1>9. CASE o.op = "expire" BY <1>9, Named, ExpireMends DEF Mending
<1>10. CASE o.op = "insert" BY <1>10, Named, InsertMends DEF Mending
<1> QED BY <1>1, <1>2, <1>3, <1>4, <1>5, <1>6, <1>7, <1>8, <1>9, <1>10 DEF Mending, Mends

LEMMA StatementRepairs ==
  ASSUME IInv, OneEach, Repairing, NEW q \in Processes, Statement(q)
  PROVE  Repairing'
<1>1. todo[q] # <<>> BY Named
<1>2. Works(q) /\ (q \in Workers => Repairs(todo[q])) BY <1>1 DEF Repairing, Works
<1>3. CASE q \notin Workers
  <2>1. PICK s : todo' = [todo EXCEPT ![q] = s] BY StatementFewer DEF Fewer
  <2> QED BY <1>2, <1>3, <2>1, GoesMending
<1>4. CASE todo[q] \in Seq(Quiet) BY <1>2, <1>4, QuietStatement
<1>5. CASE Head(todo[q]).op = "kick" /\ Tail(todo[q]) \in Seq(Quiet)
  <2>1. Done(q) BY <1>5, Named DEF Now, DoKick
  <2>2. todo' = [todo EXCEPT ![q] = Tail(todo[q])] BY <1>1, <2>1, DoneLeaves
  <2> QED BY <1>2, <1>5, <2>2, QuietGoesOn
<1>6. ASSUME NEW u \in Subscribers, Head(todo[q]).user = u, Mends(u, Head(todo[q]), Tail(todo[q]))
      PROVE  Repairing'
  <2>1. PICK o, r : o = Now(q) /\ r = Tail(todo[q]) OBVIOUS
  <2>2. Mending(q, u, o, r) BY <1>1, <1>2, <1>6, <2>1, Heads DEF Mending, Now
  <2> QED BY <2>2, MendsStatement
<1> QED BY <1>2, <1>3, <1>4, <1>5, <1>6 DEF Repairs

LEMMA WorkerBegins ==
  ASSUME Idle, NEW w \in Workers, NEW s, Serve(w, s)
  PROVE  w \in Processes /\ Works(w) /\ todo' = [todo EXCEPT ![w] = s]
BY DEF Serve, Processes, Idle, Works

LEMMA QuietBegins ==
  ASSUME IInv, Idle, NEW w \in Workers, NEW s \in Seq(Quiet), Serve(w, s)
  PROVE  Repairing'
BY WorkerBegins, QuietGoesOn

\* The devices are disconnected before anything else.
LEMMA KickBegins ==
  ASSUME IInv, Idle, NEW w \in Workers, NEW u \in Subscribers,
         NEW a \in Seq(Quiet), NEW b \in Seq(Quiet), a # <<>>, Serve(w, (Kick(u) \o a) \o b)
  PROVE  Repairing'
<1>1. PICK o : o = [op |-> "kick", user |-> u] OBVIOUS
<1>2. o \in Statements /\ o.op = "kick" BY <1>1 DEF Statements
<1>3. PICK r \in Seq(Quiet) : r = a \o b BY Joined
<1>4. r # <<>> BY <1>3
<1>5. PICK e : e = <<o>> /\ e = Kick(u) BY <1>1 DEF Kick
<1>6. a \in Seq(Statements) /\ b \in Seq(Statements) /\ r \in Seq(Statements)
  <2>1. Quiet \subseteq Statements BY DEF Quiet
  <2> QED BY <2>1, Widened
<1>7. e \in Seq(Statements) BY <1>2, <1>5, One
<1>8. (e \o a) \o b = e \o (a \o b) BY <1>6, <1>7, ConcatAssociative
<1>9. PICK s : s = <<o>> \o r OBVIOUS
<1>10. s # <<>> /\ Head(s) = o /\ Tail(s) = r BY <1>2, <1>6, <1>9
<1>11. Repairs(s)' BY <1>2, <1>4, <1>10 DEF Repairs
<1>12. Serve(w, s) BY <1>3, <1>5, <1>8, <1>9
<1> QED BY <1>11, <1>12, WorkerBegins, GoesMending

LEMMA LoginRepairs ==
  ASSUME IInv, Idle, NEW w \in Workers, NEW u \in Subscribers, Login(w, u) PROVE Repairing'
<1>1. PICK t \in Secrets : t = NewToken(u) BY NewSecrets
<1>2. PICK x \in Secrets : x = pin[u] BY NewSecrets
<1>3. PICK o : o = [op |-> "save", user |-> u, pin |-> x, token |-> t] OBVIOUS
<1>4. PICK a, l, k : a = <<o>> /\ l = <<[op |-> "login", user |-> u, secret |-> t]>> /\ k = Kick(u)
  OBVIOUS
<1>5. /\ o \in Sound(0) /\ o.op = "save" /\ o.user = u /\ o.token = t
      /\ a \in Scripts(0) /\ l \in Scripts(0) /\ k \in Scripts(0)
  BY <1>3, <1>4, SimpleScripts, Words, One DEF Scripts
<1>6. PICK r : r = l \o k OBVIOUS
<1>7. (a \o l) \o k = a \o r /\ r \in Scripts(0) BY <1>5, <1>6, Nested DEF Scripts
<1>8. Mends(u, o, r)' BY <1>4, <1>5, <1>6 DEF Mends, LogsIn
<1>9. PICK s : s = <<o>> \o r OBVIOUS
<1>10. Serve(w, s) BY <1>1, <1>2, <1>3, <1>4, <1>7, <1>9 DEF Login, Save
<1> QED BY <1>5, <1>7, <1>8, <1>9, <1>10, WorkerBegins, MendsOn

LEMMA PurchaseRepairs ==
  ASSUME IInv, Idle, NEW w \in Workers, NEW u \in Subscribers, NEW p \in Plans, PurchaseFromWallet(w, u, p)
  PROVE  Repairing'
<1>1. PICK t \in Secrets : t = token[u] BY NewSecrets
<1>2. PICK o : o = [op |-> "buy", user |-> u, plan |-> p, secret |-> t] OBVIOUS
<1>3. o \in Sound(0) /\ o.op = "buy" /\ o.user = u /\ o.secret = t BY <1>2, Words
<1>4. PICK k : k = Kick(u) OBVIOUS
<1>5. k \in Scripts(0) BY <1>4, SimpleScripts
<1>6. PICK s : s = <<o>> \o k OBVIOUS
<1>7. Serve(w, s) /\ UNCHANGED token BY <1>1, <1>2, <1>4, <1>6 DEF PurchaseFromWallet, account
<1>8. Mends(u, o, k)' BY <1>1, <1>3, <1>4, <1>7 DEF Mends
<1> QED BY <1>3, <1>5, <1>6, <1>7, <1>8, WorkerBegins, MendsOn

LEMMA RequestRepairs == ASSUME IInv, Idle, NEW w \in Workers, Request(w) PROVE Repairing'
<1>1. PICK u \in Subscribers :
        \/ Login(w, u) \/ DisconnectAll(w, u) \/ DeleteAccount(w, u) \/ ChangePin(w, u)
        \/ CreateManual(w, u)
        \/ \E p \in Plans : \/ SignUp(w, u, p) \/ ChangePlan(w, u, p)
                            \/ RechargeComplete(w, u, p) \/ PurchaseFromWallet(w, u, p)
  BY DEF Request
<1>2. PICK t \in Secrets : t = NewToken(u) BY NewSecrets
<1>3. PICK x \in Secrets : x = NewPin(u) BY NewSecrets
<1>4. PICK y \in Secrets : y = pin[u] BY NewSecrets
<1>5. PICK z \in Secrets : z = token[u] BY NewSecrets
<1>6. CASE DisconnectAll(w, u)
  <2>1. Serve(w, (Kick(u) \o Save(u, y, t)) \o UpdateCheck(u, t)) BY <1>2, <1>4, <1>6 DEF DisconnectAll
  <2>2. Save(u, y, t) \in Seq(Quiet) /\ UpdateCheck(u, t) \in Seq(Quiet) BY QuietScripts
  <2>3. Save(u, y, t) # <<>> BY DEF Save
  <2> QED BY <2>1, <2>2, <2>3, KickBegins
<1>7. CASE DeleteAccount(w, u)
  <2>1. Serve(w, (Kick(u) \o RemoveRadius(u)) \o Erase(u)) BY <1>7 DEF DeleteAccount, Erase
  <2>2. RemoveRadius(u) \in Seq(Quiet) /\ Erase(u) \in Seq(Quiet) BY <1>2, QuietScripts
  <2>3. RemoveRadius(u) # <<>> BY DEF RemoveRadius, Ungroup, Uncheck
  <2> QED BY <2>1, <2>2, <2>3, KickBegins
<1>8. CASE ChangePin(w, u)
  <2>1. Serve(w, Save(u, x, t) \o UpdateCheck(u, t)) BY <1>2, <1>3, <1>8 DEF ChangePin
  <2>2. Save(u, x, t) \o UpdateCheck(u, t) \in Seq(Quiet) BY QuietScripts, Joined
  <2> QED BY <2>1, <2>2, QuietBegins
<1>9. CASE CreateManual(w, u)
  <2>1. PICK plan \in {<<>>} \cup {Activate(u, p, t) : p \in Plans} :
          Serve(w, (Save(u, x, t) \o SetPassword(u, x)) \o plan)
    BY <1>2, <1>3, <1>9 DEF CreateManual
  <2>2. <<>> \in Seq(Quiet) OBVIOUS
  <2>3. plan \in Seq(Quiet) BY <2>1, <2>2, QuietScripts
  <2>4. Save(u, x, t) \o SetPassword(u, x) \in Seq(Quiet) BY QuietScripts, Joined
  <2>5. (Save(u, x, t) \o SetPassword(u, x)) \o plan \in Seq(Quiet) BY <2>3, <2>4, Joined
  <2> QED BY <2>1, <2>5, QuietBegins
<1>10. ASSUME NEW p \in Plans, SignUp(w, u, p) PROVE Repairing'
  <2>1. Serve(w, Save(u, x, t) \o Activate(u, p, t)) BY <1>2, <1>3, <1>10 DEF SignUp
  <2>2. Save(u, x, t) \o Activate(u, p, t) \in Seq(Quiet) BY QuietScripts, Joined
  <2> QED BY <2>1, <2>2, QuietBegins
<1>11. ASSUME NEW p \in Plans, ChangePlan(w, u, p) \/ RechargeComplete(w, u, p) PROVE Repairing'
  <2>1. Serve(w, Activate(u, p, z)) BY <1>5, <1>11 DEF ChangePlan, RechargeComplete
  <2> QED BY <2>1, QuietScripts, QuietBegins
<1> QED BY <1>1, <1>6, <1>7, <1>8, <1>9, <1>10, <1>11, LoginRepairs, PurchaseRepairs

LEMMA TokenOnlyRepairs == ASSUME IInv, Idle, NEW w \in Workers, TokenOnly(w) PROVE Repairing'
<1>1. ASSUME NEW u \in Subscribers, RechargeVerify(w, u) PROVE Repairing'
  <2>1. Serve(w, <<>>) BY <1>1 DEF RechargeVerify
  <2>2. <<>> \in Seq(Quiet) OBVIOUS
  <2> QED BY <2>1, <2>2, QuietBegins
<1>2. ASSUME NEW ph \in Phones, ResetPin(w, ph) PROVE Repairing'
  <2>1. PICK owners \in SUBSET alive : owners = {u \in alive : Phone[u] = ph} OBVIOUS
  <2>2. PICK accounts \in [1..Cardinality(owners) -> owners] :
          Serve(w, [k \in DOMAIN accounts |->
                     [op |-> "save", user |-> accounts[k],
                      pin |-> NewPin(accounts[k]), token |-> NewToken(accounts[k])]])
    BY <1>2, <2>1 DEF ResetPin
  <2>3. Cardinality(owners) \in Nat
    <3>1. IsFiniteSet(owners) BY <2>1, FS_Subset, PhoneAssumption DEF IInv, Typed
    <3> QED BY <3>1, FS_CardinalityType
  <2>4. PICK s : s = [k \in DOMAIN accounts |->
                     [op |-> "save", user |-> accounts[k],
                      pin |-> NewPin(accounts[k]), token |-> NewToken(accounts[k])]]
    OBVIOUS
  <2>5. ASSUME NEW k \in DOMAIN accounts PROVE s[k] \in Quiet
    <3>1. PICK u \in Subscribers : u = accounts[k] BY <2>1, <2>2 DEF IInv, Typed
    <3>2. NewPin(u) \in Secrets /\ NewToken(u) \in Secrets BY Fresh DEF IInv
    <3>3. s[k] = [op |-> "save", user |-> u, pin |-> NewPin(u), token |-> NewToken(u)] BY <2>4, <3>1
    <3> QED BY <3>2, <3>3 DEF Quiet, Statements
  <2>6. s \in Seq(Quiet) BY <2>2, <2>3, <2>4, <2>5
  <2> QED BY <2>2, <2>4, <2>6, QuietBegins
<1> QED BY <1>1, <1>2 DEF TokenOnly

LEMMA RepairingStep ==
  IInv /\ (scene # "all" => OneActive) /\ (scene = "serial" => Repairing) /\ [MCNext]_scenic
    => (scene = "serial" => Repairing)'
<1> SUFFICES ASSUME IInv, scene # "all" => OneActive, scene = "serial" => Repairing, [MCNext]_scenic,
                    scene' = "serial"
             PROVE  Repairing'
  OBVIOUS
<1>1. scene = "serial" BY DEF MCNext, scenic
<1>2. Repairing /\ OneEach BY <1>1 DEF OneActive
<1>3. CASE Runs BY <1>2, <1>3, StatementRepairs DEF Runs
<1>4. CASE Idle /\ Starts
  <2>1. CASE ExpirePlans
    <3>1. PICK s : todo' = [todo EXCEPT ![Timer] = s] BY <2>1 DEF ExpirePlans
    <3>2. Timer \in Processes /\ Works(Timer) BY <1>4 DEF Processes, Idle, Works
    <3> QED BY <3>1, <3>2, TimerAssumption, GoesMending
  <2>2. CASE Request(w1) BY <1>4, <2>2, SceneAssumption, RequestRepairs
  <2>3. CASE TokenOnly(w1) BY <1>4, <2>3, SceneAssumption, TokenOnlyRepairs
  <2>4. CASE Administer
    <3>1. todo' = todo BY <2>4 DEF Administer, AdminSave
    <3>2. Timer \in Processes /\ Works(Timer)' BY <1>4, <3>1 DEF Processes, Idle, Works
    <3> QED BY <3>2, TimerAssumption DEF Repairing
  <2> QED BY <1>4, <2>1, <2>2, <2>3, <2>4 DEF Starts
<1>5. CASE Tick \/ UNCHANGED scenic
  <2>1. UNCHANGED <<token, subs, group, check, todo>> BY <1>5 DEF Tick, scenic, vars, account, radius
  <2>2. \A u : (ActiveRows(u))' = ActiveRows(u) /\ (ActivePlans(u))' = ActivePlans(u) BY <2>1, PlansKept
  <2>3. ASSUME NEW u, NEW o, NEW r, Mends(u, o, r) PROVE Mends(u, o, r)'
    <3>1. (Filled(u) => Filled(u)') /\ (RadiusRight(u) => RadiusRight(u)')
      BY <2>1, <2>2 DEF Filled, RadiusRight
    <3>2. (ActiveRows(u))' = ActiveRows(u) /\ (ActivePlans(u))' = ActivePlans(u) BY <2>2
    <3> QED BY <2>1, <2>3, <3>1, <3>2 DEF Mends
  <2>4. \A s : Repairs(s) => Repairs(s)' BY <2>3 DEF Repairs
  <2>5. PICK q \in Processes : Works(q) /\ (q \in Workers => Repairs(todo[q])) BY <1>2 DEF Repairing
  <2>6. q \in Workers => Repairs(todo[q])'
    <3>1. PICK s : s = todo[q] /\ s = todo'[q] BY <2>1
    <3>2. q \in Workers => Repairs(s)' BY <2>4, <2>5, <3>1
    <3> QED BY <3>1, <3>2 DEF Repairs
  <2> QED BY <2>1, <2>5, <2>6 DEF Repairing, Works
<1>6. ASSUME NEW q \in Processes, Crash(q) PROVE Repairing'
  <2>1. Works(q) /\ todo' = [todo EXCEPT ![q] = <<>>] BY <1>2, <1>6 DEF Repairing, Works, Crash
  <2>2. <<>> \in Seq(Quiet) OBVIOUS
  <2> QED BY <2>1, <2>2, QuietGoesOn
<1> QED BY <1>1, <1>3, <1>4, <1>5, <1>6 DEF MCNext

\* The step that ends a login or a purchase.
LEMMA LastKick ==
  ASSUME IInv, Repairing, scene = "serial", [MCNext]_scenic
  PROVE  RepairStep
<1> SUFFICES ASSUME NEW w \in Workers, NEW u \in Subscribers, todo[w] = Kick(u), todo'[w] = <<>>, Idle'
             PROVE  RadiusRight(u)'
  BY DEF RepairStep
<1>1. PICK o, s : o = [op |-> "kick", user |-> u] /\ s = <<o>> OBVIOUS
<1>2. todo[w] = s /\ s # <<>> /\ Head(s) = o /\ Tail(s) = <<>> /\ o.op = "kick" /\ o.user = u
  BY <1>1 DEF Kick
<1>3. w \in Processes BY DEF Processes
<1>4. Works(w) /\ Repairs(s)
  <2>1. PICK q \in Processes : Works(q) /\ (q \in Workers => Repairs(todo[q])) BY DEF Repairing
  <2>2. q = w BY <1>2, <1>3, <2>1 DEF Works
  <2> QED BY <1>2, <2>1, <2>2
<1>5. RadiusRight(u)
  <2>1. s \notin Seq(Quiet)
    <3> SUFFICES ASSUME s \in Seq(Quiet) PROVE FALSE OBVIOUS
    <3>1. o \in Quiet BY <1>2, Halves
    <3> QED BY <1>2, <3>1 DEF Quiet
  <2>2. Mends(u, o, <<>>) BY <1>2, <1>4, <2>1 DEF Repairs
  <2> QED BY <1>2, <2>2 DEF Mends
<1>6. UNCHANGED <<token, subs, group, check>>
  <2>1. ASSUME NEW q \in Processes, Statement(q) PROVE UNCHANGED <<token, subs, group, check>>
    <3>1. todo[q] # <<>> BY <2>1, Named
    <3>2. q = w BY <1>4, <3>1 DEF Works
    <3>3. Now(q).op = "kick" BY <1>2, <3>2 DEF Now
    <3>4. DoKick(q) BY <2>1, <3>3, Named
    <3> QED BY <3>4 DEF DoKick, account, radius
  <2>2. CASE Idle BY <1>2, <1>3, <2>2 DEF Idle
  <2>3. CASE Tick \/ UNCHANGED scenic BY <1>2, <2>3 DEF Tick, scenic, vars
  <2>4. ASSUME NEW q \in Processes, Crash(q) PROVE UNCHANGED <<token, subs, group, check>>
    BY <2>4 DEF Crash, account, radius
  <2> QED BY <2>1, <2>2, <2>3, <2>4 DEF MCNext, Runs
<1> QED BY <1>5, <1>6, PlansKept DEF RadiusRight

LEMMA RepairingInit == MCInit => Repairing
<1> SUFFICES ASSUME MCInit PROVE Repairing OBVIOUS
<1>1. todo = [q \in Processes |-> <<>>] BY DEF MCInit, Init
<1>2. Timer \in Processes /\ Works(Timer) BY <1>1 DEF Processes, Works
<1> QED BY <1>2, TimerAssumption DEF Repairing

\* While processes do not overlap, a login or a wallet purchase that runs to its
\* end leaves radusergroup and radcheck right for the customer, whatever crashes,
\* admin edits and token rotations had made of them (accounts/views.py
\* portal_login_api, billing/services.py and radius/utils.py).
THEOREM LoginLeavesRadiusRight == MCSpec => LoginRepairsRadius
<1> DEFINE I == IInv /\ (scene # "all" => OneActive) /\ (scene = "serial" => Repairing)
<1>1. MCInit => I BY SceneInit, RepairingInit
<1>2. I /\ [MCNext]_scenic => I'
  <2> SUFFICES ASSUME I, [MCNext]_scenic PROVE I' OBVIOUS
  <2>1. [Next]_vars BY SceneStep DEF scenic
  <2>2. IInv' BY <2>1, StepInv
  <2> QED BY <2>2, OneActiveStep, RepairingStep
<1>3. I /\ [MCNext]_scenic => [scene = "serial" => RepairStep]_scenic
  <2> SUFFICES ASSUME I, [MCNext]_scenic, scene = "serial" PROVE RepairStep OBVIOUS
  <2> QED BY LastKick
<1> HIDE DEF I
<1> QED BY <1>1, <1>2, <1>3, PTL DEF MCSpec, LoginRepairsRadius
=============================================================================
