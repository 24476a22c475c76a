------------------------------ MODULE Access ------------------------------
(***************************************************************************)
(* What lets a subscriber on the network: subscription rows, the PIN and   *)
(* auth token of the Subscriber row, the radcheck / radusergroup rows that *)
(* FreeRADIUS reads, and the sessions open on the routers.                 *)
(*                                                                         *)
(* A request handler or the expire_plans timer is a process.  Each of its  *)
(* SQL statements commits by itself (no ATOMIC_REQUESTS), so a process is  *)
(* the sequence of statements it has still to execute, with what it read   *)
(* before in their arguments; the wallet transaction and the admin save    *)
(* are one step.  RADIUS rows are keyed by the phone number, as in code.   *)
(***************************************************************************)
EXTENDS Integers, Sequences, FiniteSets

CONSTANTS Subscribers,  \* accounts.Subscriber rows that may come to exist
          Phones,       \* RADIUS user names
          Phone,        \* Subscriber.phone
          Manual,       \* subscribers a reseller or the staff create
          Plans,        \* plans.ServicePlan rows
          Free,         \* plans of price 0; they are also the trial plans
          AutoRenew,    \* plans with allow_auto_renew
          Workers,      \* threads that serve requests
          Timer,        \* the systemd unit that runs expire_plans
          Fragile,      \* the processes that may be killed
          MaxRequests,  \* bound: requests that create rows or secrets
          MaxTime       \* bound: the clock

ASSUME PhoneAssumption == Phone \in [Subscribers -> Phones] /\ IsFiniteSet(Subscribers)
ASSUME ManualAssumption == Manual \subseteq Subscribers
ASSUME TimerAssumption == Timer \notin Workers
ASSUME BoundsAssumption == MaxRequests \in Nat /\ MaxTime \in Nat

VARIABLES alive,    \* the Subscriber rows that exist
          pin,      \* Subscriber.pin_hash
          token,    \* Subscriber.auth_token
          subs,     \* plans.Subscription rows by start_date
          group,    \* radusergroup rows of a phone
          check,    \* radcheck Cleartext-Password rows of a phone
          online,   \* open sessions: credential used, groups it got
          now,      \* the clock
          todo,     \* the statements each process has still to execute
          served    \* requests served so far; numbers PINs and tokens

account == <<alive, pin, token>>
radius == <<group, check>>
vars == <<account, subs, radius, online, now, todo, served>>

Processes == Workers \cup {Timer}

\* A PIN or a token: whose, and the number of the request that made it.
Secret(kind, u, n) == [kind |-> kind, of |-> u, n |-> n]
Secrets == [kind : {"pin", "token", "none"}, of : Subscribers, n : Nat]
SubscriptionRows == [user : Subscribers, plan : Plans, expires : Nat,
                     status : {"active", "expired", "deleted"}]
Statements ==
  [op : {"expire", "ungroup", "uncheck", "kick", "erase"}, user : Subscribers]
  \cup [op : {"insert", "group"}, user : Subscribers, plan : Plans]
  \cup [op : {"check", "login"}, user : Subscribers, secret : Secrets]
  \cup [op : {"save"}, user : Subscribers, pin : Secrets, token : Secrets]
  \cup [op : {"buy"}, user : Subscribers, plan : Plans, secret : Secrets]
  \cup [op : {"overdue"}, row : Nat, secret : Secrets]
  \cup [op : {"lapse"}, row : Nat]

Init ==
  /\ alive = {}
  /\ pin = [u \in Subscribers |-> Secret("none", u, 0)]
  /\ token = [u \in Subscribers |-> Secret("none", u, 0)]
  /\ subs = <<>>
  /\ group = [ph \in Phones |-> {}]
  /\ check = [ph \in Phones |-> {}]
  /\ online = [ph \in Phones |-> {}]
  /\ now = 0
  /\ todo = [q \in Processes |-> <<>>]
  /\ served = 0

ActiveRows(u) == {i \in DOMAIN subs : subs[i].user = u /\ subs[i].status = "active"}
\* Meta.ordering is -start_date: first() is the row inserted last.
Newest(rows) == {i \in rows : \A j \in rows : j <= i}

-----------------------------------------------------------------------------
(* The statements of radius/utils.py and plans/services.py                 *)

Expire(u)        == <<[op |-> "expire", user |-> u]>>
Insert(u, p)     == <<[op |-> "insert", user |-> u, plan |-> p]>>
Ungroup(u)       == <<[op |-> "ungroup", user |-> u]>>
Group(u, p)      == <<[op |-> "group", user |-> u, plan |-> p]>>
Uncheck(u)       == <<[op |-> "uncheck", user |-> u]>>
Check(u, s)      == <<[op |-> "check", user |-> u, secret |-> s]>>
Kick(u)          == <<[op |-> "kick", user |-> u]>>
Save(u, s, t)    == <<[op |-> "save", user |-> u, pin |-> s, token |-> t]>>
Lapse(i)         == <<[op |-> "lapse", row |-> i]>>

\* set_subscriber_radius_password; with a token, update_radcheck_password.
SetPassword(u, s) == Uncheck(u) \o Check(u, s)
\* Fault for mutation: the PIN of a manual subscriber is overwritten.
UpdateCheck_Manual(u, t) == SetPassword(u, t)
\* Manually created subscribers keep their PIN in radcheck.
UpdateCheck(u, t) == IF u \in Manual THEN <<>> ELSE SetPassword(u, t)
\* Fault for mutation: the old group row is left behind.
Assign_KeepsGroup(u, p, t) == Group(u, p) \o UpdateCheck(u, t)
\* assign_subscriber_to_plan with the token the caller loaded.
Assign(u, p, t) == Ungroup(u) \o Group(u, p) \o UpdateCheck(u, t)
RemoveRadius(u) == Ungroup(u) \o Uncheck(u)
\* activate_subscription outside a transaction.
Activate(u, p, t) == Expire(u) \o Insert(u, p) \o Assign(u, p, t)

\* calculate_plan_expiry: one tick of the clock.
NewRow(u, p) == [user |-> u, plan |-> p, expires |-> now + 1, status |-> "active"]
Expired(u) == [i \in DOMAIN subs |-> IF i \in ActiveRows(u)
                                     THEN [subs[i] EXCEPT !.status = "expired"]
                                     ELSE subs[i]]

-----------------------------------------------------------------------------
(* Requests: what a handler loads first and the statements that follow     *)

Serve(w, statements) ==
  /\ todo[w] = <<>>
  /\ served < MaxRequests
  /\ served' = served + 1
  /\ todo' = [todo EXCEPT ![w] = statements]

NewPin(u) == Secret("pin", u, served + 1)
NewToken(u) == Secret("token", u, served + 1)

\* portal_set_pin: get_or_create, PIN and token, the chosen or trial plan.
SignUp(w, u, p) ==
  /\ u \notin alive \cup Manual
  /\ Serve(w, Save(u, NewPin(u), NewToken(u)) \o Activate(u, p, NewToken(u)))
  /\ alive' = alive \cup {u}
  /\ UNCHANGED <<pin, token, subs, radius, online, now>>

\* subscriber_create, staff_subscriber_create: the plan is optional.
CreateManual(w, u) ==
  LET account_(plan) == Save(u, NewPin(u), NewToken(u)) \o SetPassword(u, NewPin(u)) \o plan
  IN  /\ u \in Manual \ alive
      /\ \E plan \in {<<>>} \cup {Activate(u, p, NewToken(u)) : p \in Plans} :
           Serve(w, account_(plan))
      /\ alive' = alive \cup {u}
      /\ UNCHANGED <<pin, token, subs, radius, online, now>>

\* portal_login_api: the PIN matched; the row is saved with a new token.
Login(w, u) ==
  /\ u \in alive /\ pin[u].kind = "pin"
  /\ Serve(w, Save(u, pin[u], NewToken(u))
              \o <<[op |-> "login", user |-> u, secret |-> NewToken(u)]>> \o Kick(u))
  /\ UNCHANGED <<account, subs, radius, online, now>>

\* Fault for mutation: the token is rotated on a copy loaded before set_pin.
ChangePin_TwoCopies(w, u) ==
  /\ u \in alive /\ token[u].kind = "token"
  /\ Serve(w, Save(u, NewPin(u), token[u]) \o Save(u, pin[u], NewToken(u))
              \o UpdateCheck(u, NewToken(u)))
  /\ UNCHANGED <<account, subs, radius, online, now>>

ChangePin(w, u) ==
  /\ u \in alive /\ token[u].kind = "token"
  /\ Serve(w, Save(u, NewPin(u), NewToken(u)) \o UpdateCheck(u, NewToken(u)))
  /\ UNCHANGED <<account, subs, radius, online, now>>

\* portal_disconnect: kick, rotate the token, rewrite radcheck.
DisconnectAll(w, u) ==
  /\ u \in alive /\ token[u].kind = "token"
  /\ Serve(w, Kick(u) \o Save(u, pin[u], NewToken(u)) \o UpdateCheck(u, NewToken(u)))
  /\ UNCHANGED <<account, subs, radius, online, now>>

DeleteAccount(w, u) ==
  /\ u \in alive /\ token[u].kind = "token"
  /\ Serve(w, Kick(u) \o RemoveRadius(u) \o <<[op |-> "erase", user |-> u]>>)
  /\ UNCHANGED <<account, subs, radius, online, now>>

\* portal_change_plan, recharge_initiate_payment: a free plan, at once.
ChangePlan(w, u, p) ==
  /\ u \in alive /\ token[u].kind = "token" /\ p \in Free
  /\ Serve(w, Activate(u, p, token[u]))
  /\ UNCHANGED <<account, subs, radius, online, now>>

\* recharge_complete: Paystack has confirmed the charge of a paid plan.
RechargeComplete(w, u, p) ==
  /\ u \in alive /\ token[u].kind = "token" /\ p \notin Free
  /\ Serve(w, Activate(u, p, token[u]))
  /\ UNCHANGED <<account, subs, radius, online, now>>

PurchaseFromWallet(w, u, p) ==
  /\ u \in alive /\ token[u].kind = "token" /\ p \notin Free
  /\ Serve(w, <<[op |-> "buy", user |-> u, plan |-> p, secret |-> token[u]]>> \o Kick(u))
  /\ UNCHANGED <<account, subs, radius, online, now>>

\* recharge_verify: save(update_fields) of the token alone.
RechargeVerify(w, u) ==
  /\ u \in alive
  /\ Serve(w, <<>>)
  /\ token' = [token EXCEPT ![u] = NewToken(u)]
  /\ UNCHANGED <<alive, pin, subs, radius, online, now>>

\* portal_reset_pin_confirm: every account with the phone, whole rows.
ResetPin(w, ph) ==
  LET owners == {u \in alive : Phone[u] = ph}
  IN  /\ owners # {}
      /\ \E accounts \in [1..Cardinality(owners) -> owners] :
           /\ owners = {accounts[k] : k \in DOMAIN accounts}
           /\ Serve(w, [k \in DOMAIN accounts |->
                         [op |-> "save", user |-> accounts[k],
                          pin |-> NewPin(accounts[k]), token |-> NewToken(accounts[k])]])
      /\ UNCHANGED <<account, subs, radius, online, now>>

-----------------------------------------------------------------------------
(* One statement of a process                                              *)

At(q, op) == todo[q] # <<>> /\ Head(todo[q]).op = op
Now(q) == Head(todo[q])
Continue(q, statements) == todo' = [todo EXCEPT ![q] = statements \o Tail(@)]
Done(q) == Continue(q, <<>>)
\* An exception ends a request; expire_plans goes on with its next row.
Raise(q) ==
  \E n \in DOMAIN todo[q] :
    /\ \A i \in 2..n : todo[q][i].op # "overdue"
    /\ n < Len(todo[q]) => todo[q][n + 1].op = "overdue"
    /\ todo' = [todo EXCEPT ![q] = SubSeq(@, n + 1, Len(@))]

DoExpire(q) ==
  /\ At(q, "expire")
  /\ subs' = Expired(Now(q).user)
  /\ Done(q)
  /\ UNCHANGED <<account, radius, online, now, served>>

\* The foreign key fails when the subscriber has been deleted meanwhile.
DoInsert(q) ==
  LET u == Now(q).user IN
  /\ At(q, "insert")
  /\ \/ /\ u \in alive
        /\ subs' = Append(subs, NewRow(u, Now(q).plan))
        /\ Done(q)
     \/ u \notin alive /\ Raise(q) /\ UNCHANGED subs
  /\ UNCHANGED <<account, radius, online, now, served>>

DoGroup(q) ==
  LET ph == Phone[Now(q).user] IN
  /\ \/ At(q, "ungroup") /\ group' = [group EXCEPT ![ph] = {}]
     \/ At(q, "group") /\ group' = [group EXCEPT ![ph] = @ \cup {Now(q).plan}]
  /\ Done(q)
  /\ UNCHANGED <<account, subs, check, online, now, served>>

DoCheck(q) ==
  LET ph == Phone[Now(q).user] IN
  /\ \/ At(q, "uncheck") /\ check' = [check EXCEPT ![ph] = {}]
     \/ At(q, "check") /\ check' = [check EXCEPT ![ph] = @ \cup {Now(q).secret}]
  /\ Done(q)
  /\ UNCHANGED <<account, subs, group, online, now, served>>

\* disconnect_subscriber_sessions: every open session of the user name ends.
DoKick(q) ==
  /\ At(q, "kick")
  /\ online' = [online EXCEPT ![Phone[Now(q).user]] = {}]
  /\ Done(q)
  /\ UNCHANGED <<account, subs, radius, now, served>>

\* Subscriber.save() writes every column the handler loaded, and inserts
\* the row again when it is gone.
DoSave(q) ==
  LET u == Now(q).user IN
  /\ At(q, "save")
  /\ alive' = alive \cup {u}
  /\ pin' = [pin EXCEPT ![u] = Now(q).pin]
  /\ token' = [token EXCEPT ![u] = Now(q).token]
  /\ Done(q)
  /\ UNCHANGED <<subs, radius, online, now, served>>

\* Subscriber.delete() cascades to the subscriptions.
DoErase(q) ==
  LET u == Now(q).user IN
  /\ At(q, "erase")
  /\ alive' = alive \ {u}
  /\ subs' = [i \in DOMAIN subs |-> IF subs[i].user = u
                                    THEN [subs[i] EXCEPT !.status = "deleted"]
                                    ELSE subs[i]]
  /\ Done(q)
  /\ UNCHANGED <<pin, token, radius, online, now, served>>

\* Fault for mutation: a subscriber without a plan keeps the RADIUS rows.
DoLogin_KeepsRadius(q) ==
  LET u == Now(q).user
      active == ActiveRows(u)
  IN  /\ At(q, "login")
      /\ \/ \E i \in Newest(active) : Continue(q, Assign(u, subs[i].plan, Now(q).secret))
         \/ active = {} /\ Continue(q, UpdateCheck(u, Now(q).secret))
      /\ UNCHANGED <<account, subs, radius, online, now, served>>

\* The rest of portal_login_api: the active plan, else the trial again when
\* it was the last plan to end, else out of RADIUS.
DoLogin(q) ==
  LET u == Now(q).user
      active == ActiveRows(u)
      rows == {i \in DOMAIN subs : subs[i].user = u /\ subs[i].status # "deleted"}
      last == {i \in rows : \A j \in rows : subs[j].expires <= subs[i].expires}
  IN  /\ At(q, "login")
      /\ \/ \E i \in Newest(active) : Continue(q, Assign(u, subs[i].plan, Now(q).secret))
         \/ /\ active = {}
            /\ \E i \in last : /\ subs[i].plan \in Free
                               /\ Continue(q, Activate(u, subs[i].plan, Now(q).secret))
         \/ /\ active = {}
            /\ \/ rows = {}
               \/ \E i \in last : subs[i].plan \notin Free
            /\ Continue(q, RemoveRadius(u))
      /\ UNCHANGED <<account, subs, radius, online, now, served>>

\* activate_subscription inside the wallet transaction.
Bought(u, p, t) ==
  LET ph == Phone[u] IN
  /\ subs' = Append(Expired(u), NewRow(u, p))
  /\ group' = [group EXCEPT ![ph] = {p}]
  /\ check' = IF u \in Manual THEN check ELSE [check EXCEPT ![ph] = {t}]

\* purchase_plan_from_wallet: it commits, or raises and changes nothing.
DoBuy(q) ==
  LET o == Now(q) IN
  /\ At(q, "buy")
  /\ \/ o.user \in alive /\ Bought(o.user, o.plan, o.secret) /\ Done(q)
     \/ Raise(q) /\ UNCHANGED <<subs, radius>>
  /\ UNCHANGED <<account, online, now, served>>

-----------------------------------------------------------------------------
(* The timer: expire_plans                                                 *)

Overdue == {i \in DOMAIN subs : subs[i].status = "active" /\ subs[i].expires <= now}

\* The list is read once, newest first, with the subscribers' rows.
ExpirePlans ==
  /\ todo[Timer] = <<>> /\ Overdue # {}
  /\ \E batch \in [1..Cardinality(Overdue) -> Overdue] :
       /\ \A j, k \in DOMAIN batch : j < k => batch[j] > batch[k]
       /\ todo' = [todo EXCEPT ![Timer] =
            [k \in DOMAIN batch |-> [op |-> "overdue", row |-> batch[k],
                                     secret |-> token[subs[batch[k]].user]]]]
  /\ UNCHANGED <<account, subs, radius, online, now, served>>

\* renew_plan_from_wallet pays for the plan of the stale row, whatever has
\* happened to it since the list was read.
RenewOverdue(q) ==
  LET o == Now(q)
      sub == subs[o.row]
  IN  /\ At(q, "overdue")
      /\ sub.plan \in AutoRenew \ Free
      /\ sub.user \in alive
      /\ served < MaxRequests
      /\ served' = served + 1
      /\ Bought(sub.user, sub.plan, o.secret)
      /\ Continue(q, Lapse(o.row))
      /\ UNCHANGED <<account, online, now>>

\* Fault for mutation: the row is not marked expired.
CutOffOverdue_NoLapse(q) ==
  LET u == subs[Now(q).row].user IN
  /\ At(q, "overdue")
  /\ Continue(q, Kick(u) \o RemoveRadius(u))
  /\ UNCHANGED <<account, subs, radius, online, now, served>>

\* No renewal, or it failed: mark expired, kick, remove from RADIUS.
CutOffOverdue(q) ==
  LET u == subs[Now(q).row].user IN
  /\ At(q, "overdue")
  /\ Continue(q, Lapse(Now(q).row) \o Kick(u) \o RemoveRadius(u))
  /\ UNCHANGED <<account, subs, radius, online, now, served>>


\* sub.save(update_fields=['status', ...]) of the stale row.
DoLapse(q) ==
  LET i == Now(q).row IN
  /\ At(q, "lapse")
  /\ \/ /\ subs[i].status # "deleted"
        /\ subs' = [subs EXCEPT ![i].status = "expired"]
        /\ Done(q)
     \/ subs[i].status = "deleted" /\ Raise(q) /\ UNCHANGED subs
  /\ UNCHANGED <<account, radius, online, now, served>>

-----------------------------------------------------------------------------
(* The rest of the world                                                   *)

\* The Django admin edits the status of one subscription (save_formset),
\* expires the other active ones and syncs RADIUS, in one transaction.
AdminSave(u, i, status) ==
  LET edited == [subs EXCEPT ![i].status = status]
      single == [j \in DOMAIN subs |->
                  IF status = "active" /\ j # i /\ edited[j].user = u /\ edited[j].status = "active"
                  THEN [edited[j] EXCEPT !.status = "expired"] ELSE edited[j]]
      active == {j \in DOMAIN single : single[j].user = u /\ single[j].status = "active"}
  IN  /\ u \in alive
      /\ subs[i].user = u /\ subs[i].status \notin {"deleted", status}
      /\ served < MaxRequests
      /\ served' = served + 1
      /\ subs' = single
      /\ group' = IF active = {} THEN group
                  ELSE [group EXCEPT ![Phone[u]] = {single[j].plan : j \in Newest(active)}]
      /\ check' = IF u \in Manual \/ token[u].kind = "none" THEN check
                  ELSE [check EXCEPT ![Phone[u]] = {token[u]}]
      /\ UNCHANGED <<account, online, now, todo>>

\* disconnect_user on the dashboard.
DashboardKick(u) ==
  /\ u \in alive
  /\ online' = [online EXCEPT ![Phone[u]] = {}]
  /\ UNCHANGED <<account, subs, radius, now, todo, served>>

\* A device authenticates: FreeRADIUS finds the password and the groups.
Connect(ph) ==
  /\ \E s \in check[ph] :
       online' = [online EXCEPT ![ph] = @ \cup {[secret |-> s, groups |-> group[ph]]}]
  /\ UNCHANGED <<account, subs, radius, now, todo, served>>

Tick ==
  /\ now < MaxTime
  /\ now' = now + 1
  /\ UNCHANGED <<account, subs, radius, online, todo, served>>

\* A process is killed: what it has not executed is lost.
Crash(q) ==
  /\ q \in Fragile /\ todo[q] # <<>>
  /\ todo' = [todo EXCEPT ![q] = <<>>]
  /\ UNCHANGED <<account, subs, radius, online, now, served>>

Statement(q) ==
  \/ DoExpire(q) \/ DoInsert(q) \/ DoGroup(q) \/ DoCheck(q) \/ DoKick(q)
  \/ DoSave(q) \/ DoErase(q) \/ DoLogin(q) \/ DoBuy(q)
  \/ RenewOverdue(q) \/ CutOffOverdue(q) \/ DoLapse(q)

\* Requests that keep radcheck and the account in step.
Request(w) ==
  \E u \in Subscribers :
    \/ Login(w, u) \/ DisconnectAll(w, u) \/ DeleteAccount(w, u) \/ ChangePin(w, u)
    \/ CreateManual(w, u)
    \/ \E p \in Plans : \/ SignUp(w, u, p) \/ ChangePlan(w, u, p)
                        \/ RechargeComplete(w, u, p) \/ PurchaseFromWallet(w, u, p)

\* Requests that change the account alone.
TokenOnly(w) ==
  \/ \E u \in Subscribers : RechargeVerify(w, u)
  \/ \E ph \in Phones : ResetPin(w, ph)

Administer == \E u \in Subscribers, i \in DOMAIN subs, status \in {"active", "expired"} :
                AdminSave(u, i, status)

Environment ==
  \/ Tick
  \/ \E ph \in Phones : Connect(ph)
  \/ \E u \in Subscribers : DashboardKick(u)

Next ==
  \/ \E w \in Workers : Request(w) \/ TokenOnly(w)
  \/ \E q \in Processes : Statement(q) \/ Crash(q)
  \/ ExpirePlans \/ Administer \/ Environment

Spec == Init /\ [][Next]_vars

\* The timer fires again and again and every process keeps running.
Fairness == /\ WF_vars(ExpirePlans)
            /\ \A q \in Processes : WF_vars(Statement(q))
FairSpec == Spec /\ Fairness

-----------------------------------------------------------------------------
(* Properties                                                              *)

\* Every variable has its type.
TypeOK ==
  /\ alive \subseteq Subscribers
  /\ pin \in [Subscribers -> Secrets] /\ token \in [Subscribers -> Secrets]
  /\ subs \in Seq(SubscriptionRows)
  /\ group \in [Phones -> SUBSET Plans]
  /\ check \in [Phones -> SUBSET Secrets]
  /\ \A ph \in Phones : \A x \in online[ph] : x.secret \in Secrets /\ x.groups \subseteq Plans
  /\ now \in 0..MaxTime /\ served \in 0..MaxRequests
  /\ todo \in [Processes -> Seq(Statements)]

Idle == \A q \in Processes : todo[q] = <<>>
\* Nobody else uses the RADIUS user name of u.
Alone(u) == \A v \in Subscribers : Phone[v] = Phone[u] => v = u

\* activate_subscription and the admin form: while processes do not overlap, a
\* subscriber has at most one active subscription, wherever they are killed.
AtMostOneActive == \A u \in Subscribers : Cardinality(ActiveRows(u)) <= 1

\* radusergroup says what the subscription rows say: when nothing is being
\* executed, a subscriber is in the group of the active plan and no other.
GroupFollowsPlan ==
  Idle => \A u \in alive : Alone(u) =>
            group[Phone[u]] = {subs[i].plan : i \in ActiveRows(u)}

\* assign_subscriber_to_plan: a self-signup customer with a plan can log the
\* device in with the token the portal last gave out, and with no other.
TokenOpensPortal ==
  Idle => \A u \in alive \ Manual :
            Alone(u) /\ ActiveRows(u) # {} => check[Phone[u]] = {token[u]}

\* radius/utils.py: no handler, in whatever order its statements fall among
\* the others', puts a token where a manual subscriber's PIN must stay.
ManualNeverToken ==
  \A u \in Manual : Alone(u) => \A s \in check[Phone[u]] : s.kind = "pin"

\* A login or a wallet purchase that runs to its end undisturbed leaves RADIUS
\* right for the customer, whatever crashes, admin edits and token rotations
\* had made of it.
RadiusRight(u) ==
  LET active == ActiveRows(u)
  IN  /\ group[Phone[u]] = {subs[i].plan : i \in active}
      /\ u \notin Manual => check[Phone[u]] = (IF active = {} THEN {} ELSE {token[u]})
RepairStep ==
  \A w \in Workers, u \in Subscribers :
    todo[w] = Kick(u) /\ todo'[w] = <<>> /\ Idle' => RadiusRight(u)'

\* "PIN updated successfully": a later save never brings back an older PIN.
PinStep == \A u \in Subscribers : pin'[u].n >= pin[u].n

\* expire_plans: with the timer firing, the subscriptions past their expiry date
\* are all ended, again and again.
OverdueLapses == []<>(Overdue = {})
=============================================================================
