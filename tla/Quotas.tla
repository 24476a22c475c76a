------------------------------- MODULE Quotas -------------------------------
(***************************************************************************)
(* The limits of a plan for one subscriber: the attributes RADIUS keeps    *)
(* for the group of a plan (radius/utils.py, plans/signals.py, the plan    *)
(* pages of the dashboard), and the commands check_usage,                  *)
(* reset_daily_quotas and expire_plans, which move the subscriber between  *)
(* the groups of the plan, of its fallback after the online time is used   *)
(* up, and of its fallback for the rest of a day.                          *)
(*                                                                         *)
(* A loop body of a command and a request is a step; check_usage reads its *)
(* list of subscriptions first and works on that copy.                     *)
(***************************************************************************)
EXTENDS Integers, Sequences, FiniteSets

CONSTANTS MaxSubs,   \* bound: subscriptions bought
          MaxUse     \* bound: units of use in a day and by a subscription

VARIABLES limits,     \* the plan's limits; 0 is no limit
          offered,    \* plans with is_active
          attributes, \* groups that have their attributes
          syncing,    \* groups a save of whose plan is between delete and create
          subs,       \* the subscriptions to the plan, oldest first
          group,      \* the Radusergroup row
          password,   \* whether there is a Radcheck row
          session,    \* the connection, with the limits of its group or free
          today,      \* use since midnight and the snapshot's quota_exceeded
          yesterday,  \* quota_exceeded of the day before
          due,        \* reset_daily_quotas has yet to run today
          sweep       \* the run of check_usage: its part and its copy

plans == <<limits, offered, attributes, syncing>>
radius == <<group, password, session>>
day == <<today, yesterday, due>>
quotaVars == <<plans, subs, radius, day, sweep>>

Groups == {"plan", "fallback", "throttle"}
Statuses == {"active", "limited", "expired"}
Limits == [time : 0..MaxUse, daily : 0..MaxUse, fallback : BOOLEAN, throttle : BOOLEAN]

Init ==
  /\ limits \in Limits /\ offered = Groups /\ attributes = Groups /\ syncing = {}
  /\ subs = <<>> /\ group = "none" /\ password = FALSE /\ session = "none"
  /\ today = [used |-> 0, exceeded |-> FALSE] /\ yesterday = FALSE /\ due = FALSE
  /\ sweep = [at |-> "idle", sub |-> 0]

Serving(s) == s.status = "active"

\* The subscription a query for the active one finds, 0 for none.
Current == LET found == {i \in DOMAIN subs : Serving(subs[i])} IN
           IF found = {} THEN 0 ELSE CHOOSE i \in found : \A j \in found : j <= i

\* Fault for mutation: the password is left when the group goes.
Removed_GroupOnly == group' = "none" /\ UNCHANGED password

\* assign_subscriber_to_plan, remove_subscriber_from_radius, and the
\* disconnection that goes with them.
Assigned(g) == group' = g /\ password' = TRUE
Removed == group' = "none" /\ password' = FALSE
Kicked == session' = "none"

(* The plan's rows. ********************************************************)

\* sync_plan_to_radius after any save: delete, then create if it is offered.
Edit(p) ==
  /\ p \notin syncing
  /\ attributes' = attributes \ {p} /\ syncing' = syncing \union {p}
  /\ UNCHANGED <<limits, offered, subs, radius, day, sweep>>
Toggle(p) ==
  /\ p \notin syncing
  /\ offered' = IF p \in offered THEN offered \ {p} ELSE offered \union {p}
  /\ attributes' = attributes \ {p} /\ syncing' = syncing \union {p}
  /\ UNCHANGED <<limits, subs, radius, day, sweep>>
Synced(p) == IF p \in offered THEN attributes \union {p} ELSE attributes
Sync(p) ==
  /\ p \in syncing /\ syncing' = syncing \ {p} /\ attributes' = Synced(p)
  /\ UNCHANGED <<limits, offered, subs, radius, day, sweep>>

\* plan_delete of a fallback: nobody is subscribed to it, and its group goes.
Delete(p) ==
  /\ p \in attributes \ {"plan"} /\ p \notin syncing
  /\ offered' = offered \ {p} /\ attributes' = attributes \ {p}
  /\ limits' = [limits EXCEPT !.fallback = @ /\ p # "fallback", !.throttle = @ /\ p # "throttle"]
  /\ group' = IF group = p THEN "none" ELSE group
  /\ UNCHANGED <<syncing, subs, password, session, day, sweep>>

(* The subscriber. *********************************************************)

Ended(s) == IF Serving(s) THEN [s EXCEPT !.status = "expired"] ELSE s

\* The plans the portal shows.
OnSale == {p \in Groups : p \in offered}

\* activate_subscription.
Buy ==
  /\ Len(subs) < MaxSubs /\ "plan" \in OnSale
  /\ subs' = Append([i \in DOMAIN subs |-> Ended(subs[i])],
                    [status |-> "active", over |-> FALSE, spent |-> 0])
  /\ Assigned("plan")
  /\ UNCHANGED <<plans, session, day, sweep>>

\* The portal's login, without a free trial to begin again.
Login ==
  /\ subs # <<>>
  /\ IF Current # 0 THEN Assigned("plan") ELSE Removed
  /\ Kicked /\ UNCHANGED <<plans, subs, day, sweep>>

Connect ==
  /\ password /\ session = "none"
  /\ session' = IF group \in attributes THEN "limited" ELSE "free"
  /\ UNCHANGED <<plans, subs, group, password, day, sweep>>
Leave == session # "none" /\ Kicked /\ UNCHANGED <<plans, subs, group, password, day, sweep>>

Use ==
  /\ session # "none" /\ today.used < MaxUse
  /\ today' = [today EXCEPT !.used = @ + 1]
  /\ subs' = [i \in DOMAIN subs |-> [subs[i] EXCEPT !.spent = IF @ < MaxUse THEN @ + 1 ELSE @]]
  /\ UNCHANGED <<plans, radius, yesterday, due, sweep>>

(* The commands. ***********************************************************)

Lapse(i) ==
  /\ ~subs[i].over /\ subs' = [subs EXCEPT ![i].over = TRUE]
  /\ UNCHANGED <<plans, radius, day, sweep>>

\* Fault for mutation: the row is marked, RADIUS is left as it is.
Expire_RowOnly(i) ==
  /\ Serving(subs[i]) /\ subs[i].over
  /\ subs' = [subs EXCEPT ![i].status = "expired"]
  /\ UNCHANGED <<plans, radius, day, sweep>>

\* expire_plans, for a subscription without automatic renewal.
Expire(i) ==
  /\ Serving(subs[i]) /\ subs[i].over
  /\ subs' = [subs EXCEPT ![i].status = "expired"]
  /\ Removed /\ Kicked /\ UNCHANGED <<plans, day, sweep>>

SweepBegin ==
  /\ sweep.at = "idle" /\ sweep' = [at |-> "time", sub |-> Current]
  /\ UNCHANGED <<plans, subs, radius, day>>

Capped == "limited"

\* The status is saved to the row the copy is of, whatever it is now.
CheckTime ==
  /\ sweep.at = "time" /\ sweep' = [at |-> "between", sub |-> 0]
  /\ LET i == sweep.sub IN
     IF i = 0 \/ limits.time = 0 THEN UNCHANGED <<subs, radius>>
     ELSE IF subs[i].spent < limits.time THEN UNCHANGED <<subs, radius>>
     ELSE IF limits.fallback
     THEN subs' = [subs EXCEPT ![i].status = Capped] /\ Assigned("fallback") /\ Kicked
     ELSE subs' = [subs EXCEPT ![i].status = "expired"] /\ Removed /\ Kicked
  /\ UNCHANGED <<plans, day>>

SweepDaily ==
  /\ sweep.at = "between"
  /\ sweep' = IF Current = 0 \/ limits.daily = 0 THEN [at |-> "idle", sub |-> 0]
              ELSE [at |-> "daily", sub |-> Current]
  /\ UNCHANGED <<plans, subs, radius, day>>

Exceeds == today.used >= limits.daily

\* Who has exceeded his quota is not looked at again until tomorrow.
CheckDaily ==
  /\ sweep.at = "daily" /\ sweep' = [at |-> "idle", sub |-> 0]
  /\ IF today.exceeded \/ ~Exceeds THEN UNCHANGED <<today, radius>>
     ELSE /\ today' = [today EXCEPT !.exceeded = TRUE] /\ Kicked
          /\ IF limits.throttle THEN Assigned("throttle") ELSE Removed
  /\ UNCHANGED <<plans, subs, yesterday, due>>

NewDay == [used |-> 0, exceeded |-> FALSE]
Midnight ==
  /\ yesterday' = today.exceeded /\ today' = NewDay
  /\ due' = TRUE /\ UNCHANGED <<plans, subs, radius, sweep>>

Held(s) == s.status \in {"active", "limited"}

\* reset_daily_quotas: the newest subscription held is restored.
Reset ==
  /\ due /\ due' = FALSE
  /\ LET held == {i \in DOMAIN subs : Held(subs[i])} IN
     IF ~yesterday \/ held = {} THEN UNCHANGED <<subs, radius>>
     ELSE LET i == CHOOSE i \in held : \A j \in held : j <= i IN
          /\ subs' = [subs EXCEPT ![i].status = "active"]
          /\ Assigned("plan") /\ Kicked
  /\ UNCHANGED <<plans, today, yesterday, sweep>>

Sweeping == SweepBegin \/ CheckTime \/ SweepDaily \/ CheckDaily
Commands == Sweeping \/ Reset \/ Midnight \/ \E i \in DOMAIN subs : Lapse(i) \/ Expire(i)
Manage(p) == Edit(p) \/ Toggle(p) \/ Sync(p) \/ Delete(p)
Subscriber == Buy \/ Login \/ Connect \/ Leave \/ Use
Next == Commands \/ Subscriber \/ \E p \in Groups : Manage(p)

\* The timers start each command again and again.
Fairness ==
  /\ WF_quotaVars(Sweeping) /\ WF_quotaVars(Reset)
  /\ \A i \in 1..MaxSubs : WF_quotaVars(i \in DOMAIN subs /\ Expire(i))
Spec == Init /\ [][Next]_quotaVars /\ Fairness

TypeOK ==
  /\ limits \in Limits /\ offered \subseteq Groups /\ attributes \subseteq Groups
  /\ syncing \subseteq Groups
  /\ subs \in Seq([status : Statuses, over : BOOLEAN, spent : 0..MaxUse])
  /\ group \in Groups \union {"none"} /\ password \in BOOLEAN
  /\ session \in {"none", "limited", "free"}
  /\ today \in [used : 0..MaxUse, exceeded : BOOLEAN] /\ yesterday \in BOOLEAN /\ due \in BOOLEAN
  /\ sweep \in [at : {"idle", "time", "between", "daily"}, sub : 0..MaxSubs]

\* Nobody is online without the limits of some plan.
NobodyUnlimited == session # "free"

\* RADIUS serves only who has a subscription that is active or limited.
ServedHasPlan == group # "none" => \E i \in DOMAIN subs : subs[i].status \in {"active", "limited"}

\* Who has exceeded today's quota is not in the group of the plan.
QuotaHolds == today.exceeded => group # "plan"

\* Who has an active subscription and has not exceeded a quota, today or before
\* a reset that is still due, is in the group of the plan.
PaidIsServed == Current # 0 /\ ~today.exceeded /\ ~due => group = "plan"

\* Service that has outlived every subscription is ended.
Overdue == group # "none" /\ \A i \in DOMAIN subs : subs[i].over
OverdueEnds == []<>~Overdue
=============================================================================
