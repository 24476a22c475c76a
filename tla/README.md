# SabiWiFi in TLA+

Specifications of the SabiWiFi backend: TLA+ modules translated from the Python
source (and from the JavaScript of its WhatsApp service), TLC configurations that check them on small
instances, and proofs that TLAPS checks for every size. Paths are relative to `src/`.

- [1. The system](#1-the-system): its parts, their state and how they interact
- [2. The modules](#2-the-modules): which module models what, and how
- [3. The runs](#3-the-runs): what is checked, the bounds, the fairness
- [4. The proofs](#4-the-proofs): what is proved, from what, and how
- [5. Where the code disagrees with its text](#5-where-the-code-disagrees-with-its-text)
- [6. What is not modelled](#6-what-is-not-modelled)
- [7. What could come next](#7-what-could-come-next)

To reproduce, in this directory: `tlc -config MCWallet.cfg MCWallet.tla` (and so
on, see the table in section 3) and `tlapm WalletProofs.tla`.

## 1. The system

SabiWiFi sells Internet access to subscribers of many resellers. It is a Django
5.1 project with a REST interface, on PostgreSQL, which it shares with FreeRADIUS: the
tables `radcheck`, `radusergroup` and `radacct` are read and written by both. Redis
holds the cache and the RQ queues (`ai`, `default`, `low`).

What runs at the same time:

| Process | Where it comes from | What it does |
|---|---|---|
| request threads | gunicorn, 2 gevent workers | portal, dashboard, operator panel, webhooks |
| RQ worker | `ops/` service, one for `ai default low` | AI agent runs, satisfaction pings, notifications |
| systemd timers | `ops/` units | `expire_plans` 5 min, `check_routers` 2 min, `sweep_field_pings` 10 min, `process_broadcasts` 1 min, backup; `reconcile_wg` at boot |
| cron | `ops/system/cron/sabiwifi`, docs | `send_expiry_reminders` (daily at 08:00 in the file, every 15 minutes in its docstring), `expire_vouchers`, `daily_summary`, `cleanup_otp`; `check_alerts` only in its docstring |
| WhatsApp sidecar | `ops/wa-sidecar` (node) | one socket per session, inbound webhooks |
| external | – | FreeRADIUS, routers, Paystack, Termii, the model provider, the telephone switch |

`ATOMIC_REQUESTS` is off. A statement of a request handler therefore commits by itself,
unless the function it is in is decorated with `@transaction.atomic`: the wallet,
lead conversion and installation completion, the ticket services, the conversation
services, and the views of the Django admin. This is the most important fact about
the code, and it fixes the grain of every module: **one step is one statement outside a
transaction, and one transaction where there is one** (split further where the
transaction reads before it locks). The second fact is that `Model.save()` without `update_fields` writes
every column of the copy that was loaded: the modules keep those copies, and write them back.

`check_usage`, `reset_daily_quotas` and `check_expiry` exist as commands but no shipped timer
starts them.

### Components

| Component | State | Operations | What is hard | What makes it correct |
|---|---|---|---|---|
| Wallet, refill cards (`billing/wallet.py`, `portal/views.py`) | `wallet_balance`, `WalletTransaction`, `RefillCard` | credit, debit, purchase, renewal, redeem | row locks; reads before the lock; a crash between card and credit | the ledger explains the balance; debits and plans go together; a card is money once |
| Access (`plans/services.py`, `radius/utils.py`, `portal/`, `expire_plans`) | `Subscription`, PIN, token, `radcheck`, `radusergroup`, sessions | login, PIN and token changes, activation, disconnect, delete, expiry, admin form | six statements per activation, none atomic; whole-row saves of stale copies; the timer's stale list | one active plan; RADIUS says what the rows say; old credentials do not work |
| Payments (`billing/views.py`, `portal/recharge.py`) | `Payment`, recharge cache, Paystack's charges | initialize, webhook, callback, recharge | webhook and callback overlap, repeat, or are killed | nothing is served unpaid; a charge is served once; a success is final |
| Support (`tickets/services.py`, `ai/jobs.py`) | `Ticket`, `TicketEvent`, `current_load`, `diagnostic_state` | create, assign, change status, ping, reply, sweep | copies loaded before the transaction; one JSON column with four writers | finished tickets are stamped; the trail replays; no question waits for ever |
| Sign-up, OTP (`portal/views.py`) | cache entries, the new row, receipts | ask for a code, verify it, pay, set PIN, reset PIN | entries expire between steps; one account made in five commits | codes are limited, a deleted one is worth nothing; a payer gets account, PIN, plan and receipts |
| Vouchers (`vouchers/`) | `Voucher`, its batch, the guest's account | first login, later logins, expiry, disabling | two first logins; expiry and the batch's switch between the statements of a login | a running voucher opens, an expired one does not, no login leaves an account that blocks the next |
| Plan limits (`radius/utils.py`, `plans/signals.py`, quota commands) | group attributes, snapshots, statuses | edit, disable, sync; throttle, restore, expire | restore by yesterday's facts; lists read before they are used | nobody is served without limits or without a plan; a quota holds, and is given back |
| Leads, installations (`leads/`, `billing/services.py`) | `Lead`, `InstallationOrder`, links, tickets | intake, quote, convert, schedule, complete | check on a copy, then whole-row save | one installation per lead, one activation per installation |
| Routers, WireGuard (`routers/`, `dashboard/views.py`) | `Router` and `Nas` rows, kernel peers, `wg0.conf`, the devices | claim, release, provision, heartbeat, settings, sweep, reconcile | three copies of one key; saves of stale rows; subprocesses that fail; responses that are lost | a row's key pair is one pair; peers, addresses, NAS rows and devices follow the rows |
| Router scripts (`routers/provision.py`) | port roles, bridges, DHCP clients on the board | choose roles and service mode, deliver | a script runs over what the last one left; it is made from a row that changes before the answer leaves, and the answer can be lost | roles asked for reach the ports; the uplink survives |
| Router health (`check_routers`) | status, strikes, health log | sweep, heartbeat, webhook, announce | the sweep saves copies; three writers of one log; a kill between event and message | no outage by one bad check; events settle; recoveries follow outages |
| Inbox and AI agents (`conversations/`, `ai/`) | thread, messages, drafts, breaker, queue | inbound, outbound, draft, run, tools, hand-over | duplicates, two clicks, a row kept through minutes of model calls | badge, messages and drafts are right; cap, hand-over and sales rule hold; runs end |
| Field pings, SLA (`sweep_field_pings`) | ping counts, briefs | assign, brief, ping, escalate, reply, leave | rows loaded before messages are sent; kills; late replies | no nagging; silence and breaches reach a human |
| Reminders (`send_expiry_reminders`, `notifications/`) | cache keys, log rows, preferences, templates | remind, send, save settings | the key is set after the send; keys last 24 hours, windows too | reminders are bounded, and in time |
| Operator alerts (`check_alerts`, `operator_panel/`) | the `PlatformSettings` row, throttle keys | check, notify, save settings, webhook, poll | three writers of one row, one with a whole old copy | an alarm is throttled, never silenced; the WhatsApp flag comes right again |
| Broadcasts (`process_broadcasts`) | the row's counters, the log | create, run, cancel | a run works on copies and saves counters at its end | nobody twice; counts are tries; it ends |
| WhatsApp sidecar (`ops/wa-sidecar`) | sockets, queue, sending loops | send, connect, close, restart | a loop that outlives its session object | one loop sends; the queue empties |
| Voice (`voice/`) | call row, turns, thread | switch events, turns, keys | repeats, disorder, running totals from copies | totals are those of the turns (without kills: a turn is two commits); an ended call stays ended |
| Shop (`shop/`) | orders, stock | checkout, pay, webhook, operator's pages | double webhook, kills, pages written back | stock counts paid orders; who paid has a paid order |
| Reseller's account (`dashboard/views.py`, operator's list) | `Reseller` row, Paystack subaccount | bank set-up and change, settings, status actions | a call to Paystack between load and whole-row save | a verified reseller can be paid, and so can a charge; the plans the owner priced stay payable; the status is the operator's |
| Staff logins (`staff/`, `accounts/`) | `StaffMember`, `auth.User` | create, update, delete, log in | two layers that keep a person out; whole-row saves of old copies | who was refused stays out, who was let in gets in |
| Roles; dashboard; operator panel; OpenWISP | none of their own | forms over the tables above | transactions of the admin | as above |

How they interact: *Payments*, *Wallet*, *Vouchers*, *Leads*, *SignUp* and the timer all end in
`activate_subscription`, which belongs to *Access*; *Support* is called by the views, the AI agents
and the sweeps; *Inbox* carries the satisfaction question of *Support* and the briefs of *Field*; *Campaigns* sends
through the *Sidecar*; the Paystack webhook is also where *Leads* are converted. They share tables, never memory; the
cache is shared for recharges and sign-ups. `PROJECT.json` lists the hazards at their lines, with the properties that watch each.

## 2. The modules

| Module | Models | Checked by | Proved in |
|---|---|---|---|
| `AtomicWallet` | what a wallet promises: credits and purchases are single steps | | |
| `Wallet` | `billing/wallet.py`, `portal_redeem_refill`, the admin's edit of a card | `MCWallet` | `WalletProofs` |
| `Access` | subscriptions, credentials, RADIUS rows, sessions, `expire_plans` | `MCAccess` | `AccessProofs` |
| `Support` | `tickets/services.py` and the satisfaction loop of `ai/jobs.py` | `MCSupport` | `SupportProofs` |
| `Payments` | `billing/views.py`, `portal/recharge.py`, lead conversion by payment | `MCPayments` | `PaymentsProofs` |
| `Routers` | claims, releases, provisioning, heartbeats, `wg_utils.py`, NAS rows | `MCRouters` | `RoutersProofs` |
| `Ports` | the wiring part of `routers/provision.py`, the topology pages and how a script is asked for and sent | `MCFleet` | `OutagesProofs` |
| `Outages` | `check_routers`, heartbeats and webhooks as far as health goes | `MCFleet` | `OutagesProofs` |
| `Inbox` | `conversations/`, the customer agent's runs, tools, caps and breaker | `MCInbox` | `MessagingProofs` |
| `Sidecar` | `ops/wa-sidecar/index.js` | `MCCampaigns` | `MessagingProofs` |
| `Campaigns` (extends `Sidecar`) | broadcasts, `process_broadcasts` | `MCCampaigns` | `MessagingProofs` |
| `Quotas` | plan pages, attribute sync, `check_usage`, `reset_daily_quotas`, expiry | `MCHotspot` | `WalletProofs` |
| `Vouchers` | `vouchers/`, `portal_voucher_login`, batch switch | `MCHotspot` | `WalletProofs` |
| `SignUp` | the sign-up and PIN-reset requests of `portal/views.py` | `MCHotspot` | `WalletProofs` |
| `Shop` | `shop/views.py`, the shop's admin pages | `MCOffice` | `FieldProofs` |
| `Leads` | `leads/`, `billing/services.py`, `crm_views.py` | `MCOffice` | `FieldProofs` |
| `Voice` | `voice/` | `MCOffice` | `FieldProofs` |
| `Notices` | `send_expiry_reminders`, `notifications/notify.py`, the notification settings | `MCCampaigns` | `MessagingProofs` |
| `Alerts` | `check_alerts`, the platform's settings page, the operator's WhatsApp session | `MCCampaigns` | `MessagingProofs` |
| `Bank` | the `Reseller` row: bank pages, settings, operator's list and actions; the plan form, charges | `MCPayments` | `PaymentsProofs` |
| `Team` | `staff/views.py`, who passes the login page and the permissions | `MCSupport` | `SupportProofs` |
| `Field` | `sweep_field_pings`, briefs and replies in `ai/`, `staff_delete` | `MCOffice` | `FieldProofs` |

`Campaigns` is composed with `Sidecar`: what a broadcast hands over goes into the service's queue, and the answer of
`/send` depends on the session. `MCFleet`, `MCHotspot`, `MCOffice`, `MCCampaigns`, `MCPayments` and `MCSupport` put components that share no table beside each other and let one of them move in each scene.
The modules have no RECURSIVE operator, so that all of them can be proved about. Definitions whose comment
starts with "Fault for mutation" are not part of any specification: each is a plausible
bug of the definition that follows it, and `PROJECT.json` says which property it breaks.

### Wallet

A worker is a request handler or the renewal of one subscription. `pc[w]` is the
place in the handler, `req[w]` its arguments, `seen[w]` the balance it read under the lock.
`lock[s]` is the PostgreSQL row lock that `select_for_update` takes; it is released by
the step that commits or rolls back.

| Action | Code |
|---|---|
| `RedeemLookup`, `RedeemSave` | `portal_redeem_refill`: the card is read, checked, then saved as used, in a transaction of its own |
| `CreditRefused`, `CreditLock`, `CreditCommit` | `credit_wallet`: refuse a zero amount, lock, then write balance and ledger row |
| `PurchaseStart`, `RenewStart` | the checks the callers make before the transaction; the renewal compares an unlocked balance |
| `DebitRefused`, `DebitLock`, `DebitInsufficient`, `DebitWrite` | `debit_wallet` inside the outer transaction |
| `BuyCommit` | `activate_subscription`, the `Payment` row, and the commit of all three |
| `AdminSetCard` | the operator panel's edit of a card's status |
| `Crash` | the process dies: its transaction is rolled back and its lock goes |

Abstracted: the card's PIN, the description and reference strings, expiry dates (which are in Access).
The variables of `AtomicWallet` are `account` (here `balance`) and `bought` (the plans
in `subscriptions`).

### Access

What a handler does is a sequence of SQL statements, so a process is **the sequence of
statements it still has to execute**, with what it read before in their arguments. A request
action (`Login`, `ChangePin`, `SignUp`, ...) loads the row and puts the statements of the
whole handler into `todo[w]`; the actions `DoExpire`, `DoInsert`, `DoGroup`, `DoCheck`,
`DoKick`, `DoSave`, `DoErase`, `DoLogin`, `DoBuy` execute the first one. A stale
copy is then visible in the specification itself: `Save(u, pin, token)` carries the values the handler loaded.
`activate_subscription` is `Activate`: expire the active rows, insert the new one, delete the
group, insert the group, delete the password, insert the password.

| Variable | Code |
|---|---|
| `alive`, `pin`, `token` | the `Subscriber` row, `pin_hash`, `auth_token` |
| `subs` | `Subscription` rows in the order of `start_date`; "deleted" stands for the cascade |
| `group`, `check` | `radusergroup` and `radcheck`, keyed by phone as in the code |
| `online` | sessions in `radacct`, each with the credential it used |
| `now` | the clock; a plan lasts one tick |

A secret is a record of whose it is, its kind, and the number of the request that made it, so an
old PIN and a new one can be told apart. `Connect` is FreeRADIUS (outside the repository)
reading `check` and `group`. Kicking a session (`disconnect_subscriber_sessions`) always works in the model,
although it is a packet that may be lost. The wallet purchase and the admin's save are one step each, because they
are transactions.

### Support

A caller of `tickets/services.py` loads the row (`LoadCreate`, `LoadAssign`,
`LoadStatus`), and the transaction later begins (`Begin` reads `current_load`) and commits
(`CommitCreate`, `CommitAssign`, `CommitStatus`) from **the copy it was given**. Callers overlap
on every ticket, except those in `Solo`, which at most one process at a time has in hand; this is the assumption
under which the trail is exact. The satisfaction loop is `SchedulePing`, `SendPing`,
`StampAwaiting`, `ReadPointer`, `Judge`, `ClearAwaiting`; the sweep is the process `Sweep` with the
verdict "timeout"; `AgentState` is the customer agent writing back `diagnostic_state` with
whatever pointer it had loaded.

### Payments

`row[r]` is the `Payment`, `linked` the references for which Paystack gave a page, `paid` those it
charged, `due` the webhooks it still has to deliver, `pending` the recharge entries in the cache, `lead` the lead
with its installation orders, `served` how often the plan (or the installation ticket) was given.
A webhook (`Deliver`, repeated by `Redeliver` until answered) and a callback (`Callback`,
`RechargeComplete`) load the row, ask Paystack (`Verify`), and run `_activate_payment`
statement by statement: `Settle`, `FetchLead`, `Convert`, `Attach`, `Serve`. A recharge has
`Serve`, `Record` (unique reference), `Forget`. `Crash` ends a handler without an answer. Paystack
is modelled from how the code uses it: it never reports success for a reference it did not charge.
Amounts and splits are left out, and so is the payment of a sign-up.

### Routers

As in Access a request is the sequence of statements and subprocess calls it has still to execute
(`todo[w]`), with the copies it loaded in their arguments. `row` is the `Router` table, `nas` the `Nas` table, `clients` what
FreeRADIUS loaded when it last restarted, `kernel` and `file` the WireGuard peers, `device` what each device runs. Keys, secrets and settings
are the numbers of the requests that made them.

| Action | Code |
|---|---|
| `RouterAdd`, `HandleMikrotikAdd`, `HandleOpenwrtAdd` | the claims of the API and of the dashboard |
| `RouterRemove`, `MarkAvailable`, `MarkOffline` | `dashboard/views.py`, `operator_panel/admin.py` |
| `WifiConfig`, `Topology`, `Redeploy`, `RouterWifi` | the settings pages; the last is a live push that saves nothing |
| `Register`, `ImportSerials`, `Boot` | serial import, first contact of a device, factory reset |
| `RouterProvision`, `OpenwrtProvision`, `HeartbeatMikrotik`, `HeartbeatOpenwrt` | `routers/views.py`: scripts, key swap, the flags that ask for a new script |
| `CheckRouters`, `ReconcileCommand` | the sweep's flags, `reconcile_wg` |
| `DoWrite`, `DoAllocate`, `DoNas`, `DoRestart`, `DoSet`, `DoReconcile`, `DoRespond` | one statement or call: save, `_allocate_wg_ip`, `Nas` upsert and clean-up, FreeRADIUS restart, `wg set`, `reconcile_wg` in its parts, the response |
| `WireGuardFails`, `RestartFails`, `ResponseLost` | a subprocess that raises, a response that never arrives |

### Ports and Outages

`Ports` has one board: the roles the reseller gave (`assigned`), the service mode, and on the device its WAN port, DHCP clients,
bridges and PPPoE servers. A script takes three steps: `Ask` (`router_provision`, `router_heartbeat` load the row), `Clear` (the script is made of that copy; a heartbeat then
clears the flag of the row, a phone-home saves the whole copy) and `Arrive` (the device applies `Applied(unit, roles, mode)`: automatic when no role is given, where the port
with a lease is the WAN, explicit otherwise). `Lost` is a killed worker or an answer that never arrives, `Reset` a device that waits no more, `Announce` the last line of a script, which may come late.
`TickLoad`, `TickSave` and `TickKilled` are what `check_routers` does to the flag: it saves the one of its copy, or sets it. The topology page, the service mode and the redeploy button write only their own columns.
The device has one request on the way at a time, one of before a reset included.

In `Outages` a run of `check_routers` is `SweepLoad`, a `SweepSave` per router from the copy (`SaveRouter`, in any order), `SweepInsert` of the rows it found,
then a walk: `WalkQuietly` (too young, a blip with its recovery, too old), `WalkLoudly` and `Tell`
(mark, then notify), `TellFails`, `SweepEnd`, and `SweepCrash` anywhere. `Heartbeat` and `Webhook` save in one step and log in the
next (`LogEvent`). Time is what the code compares: a signal is fresh or stale, an event new, confirmed or old.

### Inbox

One thread. `hook[d]` is a webhook call, `tab[t]` a dashboard request, `worker` the queue worker with the copy of the
thread its runner keeps. `Take` starts a run (routing, the step carried over, the 24-hour reset), `Call` is one answer of the language model with any
batch of tools (`Say`, `Escalate`, `SetStep`, `Link`, `Look`), `More` and `Done` the loop's end, `Fail` and `Kill` a run that raises or
dies, with the circuit breaker's window. What the model says is arbitrary, so the rails must hold by the code alone. `Write` records what a run sends: a draft (`Drafting`) under the
runner's own source, a reply that goes out under the label the model gave it (`Labels`), for `tool_send_reply` takes it from the model's arguments. Its schema does not offer the argument; the mode `label` lets the model give it all the same.

### Sidecar and Campaigns

An action of `Sidecar` is a stretch of JavaScript up to the next `await`. Session objects are numbered, because a loop keeps
the object it began with when `startSession` makes a new one. `Opened`, `OpenDrain`, `Closed`, `StartSession`, `Disconnect`, `Restart`, `Poll` are
the socket's events and the HTTP calls; `Settle` and `Wake` the loop after a send and after its pause.
A run of `process_broadcasts` (`Load`, `Start`, `Each`, `Hand`, `Note`, `Text`, `Save`) works on the row, the phones tried and the
preferences it loaded; `Crash` loses its counts.

### Quotas, Vouchers, SignUp

`Quotas`: one subscriber and three plans, the plan, the fallback for its online time and the one for a day. `Sync` is the delete and the create of a
group's attributes; a body of a command's loop is a step (`CheckTime`, `CheckDaily`, `Reset`, `Expire`), its list read before
(`SweepBegin`, `SweepDaily`). `Vouchers`: a login is `Login`, then `Create`, `Save`, `Subscribe`, `Grant`, or `Lapse` and `Unpay`; the
command `Collect`, `Mark`, `End`; the reseller `ToggleCards`, `ToggleBatch`. A second creation of the account
fails at the unique phone and ends the request. `SignUp`: `AskCode`, `Send`, `Record`, `First` are the four parts of sending a code with its counters;
`Check` reads the code, `Refuse` writes it back or deletes it; `Accept` makes the token, or the new PIN, and `UseUp` deletes the code afterwards; `Initiate`, `Started`, `Pay` the charge; `SetPin`, `Create`, `SavePin`, `FeeRow`,
`Subscribe`, `Finish` the making of the account. `Cooled`, `Hour`, `Forget`, `Expire` are the lifetimes of the cache entries.

### Shop, Leads, Voice, Field

`Shop`: `Checkout`, `CheckStock`, `MakeOrder`, `Initialise`; `PayOrder` at Paystack; `Webhook`, `Mark`, `Take`; the operator's `Fulfil`
and the pages that write back what they showed (`OpenForm`, `PostForm`, `SaveForm`; `OpenList`, `SaveList`).
`Leads`: `Intake` with `IntakeCreate`; `AgentLead` with `AgentCreate`, the sales agent's lead; `FetchLead` and then `LeadUpdate`, `Quote`, `MarkLead`, `Convert`; `PayLink` and `RaiseTicket` for
a link that was paid; `FetchInstall`, `SaveInstall`, `Complete`.
`Voice`: `Switch` is the telephone switch, `Start`, `Load`, `SaveEvent`, `Press`, `SaveDigit` its events, `Utter`, `Hear`, `NoteIn`, `Ask`, `Say`, `NoteOut` a turn.
`Field`: the sweep is `SweepBegin`, `Skip`, `Escalate`, `Ping` and `StampPing` per ticket, `SweepBreaches`, `EscalateBreach`, `SweepEnd`; the worker
`TakeBrief` and `StampBrief`, or `TakeReply`, any number of `Apply`, `Replied`; `Leave` is the deletion of a technician. The tool that changes a status looks at no confirmation, so `Apply` has no guard but its job.
`tally` counts what happened to a ticket, for the properties only.

### Notices, Alerts, Bank, Team

`Notices`: a tick is twelve hours, so that a plan's last days, the two windows (`Window`) and a key of 24 hours are a few ticks. A run is `Begin`, then `Remind` per
subscription of the window's list, `Deliver` per channel, `SetKey`, `Turn` to the second window, `Finish`; `Stop` kills it. `Silent` is every reason not to send:
preference, settings, an inactive or empty template. The pages are `Choose`, `SaveConfig`, `Seed`.
`Alerts`: `Query` makes the list of one of the three parts of `check_alerts`, `Tell` begins a notification, `ByWa` and `BySms` are the channels with the fall-back from one to the other,
`Throttle` sets the key. The platform's row is written by `FormLoad`/`FormSave` (the whole row), by `Webhook` and `OpDisconnect`, and by the poll `PollAsk`/`PollSave`.
`Bank`: `BankSetup`, `BankChange`, `Settings`, `Listed` load the row; `Paystack` is the call, which answers, refuses, or loses its answer; `Save` writes the copy; `SetStatus` is the operator's action. `Charge` is a payment page that asks Paystack for a split with the subaccount of the row it loaded; `PlanSave` is the plan form, whose guard asks for a verified account only of a user that has a `reseller`, the owner.
`Team`: `StaffCreate`; `Load`, then `StaffUpdate`, `Deactivate` or `StaffDelete`. `Applied` sets the fields of the body on the copy, `Synced` is `_sync_login_user` (`LetIn`,
`KeptOut`), `Store` the save. `word[s]` remembers the last answered request about a login, for the properties only; `GetsIn` is what login page and permissions ask together.

## 3. The runs

| Run | Instance | Checks | Distinct states |
|---|---|---|---|
| `wallet` | 2 subscribers, 2 cards (one worth 0), 2 plans (one free), 2 workers | `LedgerExplainsBalance`, `DebitsBuyPlans`, `RefinesAtomicWallet`, `RedeemedIsCredited` | 89,488 |
| `wallet_double_redeem` | the same, overlapping redemptions | violates `CardCreditedOnce` | |
| `access` | a portal and a manual subscriber, a free and a renewing plan, 2 workers, the timer | `ManualNeverToken`, `PlansInStep`, `LoginRepairsRadius`, `PinSticks`, `OverdueEnds` | 324,682 |
| `support` | 2 tickets of one conversation, 1 staff member, a worker and the sweep, 4 calls; 2 people with 2 addresses, 3 desks, 4 requests | `TerminalIsStamped`, `TrailReplays`, `LoginsHold`, `NoEternalWait` | 323,595 |
| `payments` | a renewal whose handlers overlap, an installation link and a recharge whose handlers do not; 2 workers, 1 repeated webhook, 1 kill; a reseller with 2 banks, 2 desks, 3 saves | `ServedIsPaid`, `SoloServedOnce`, `SettlesForGood`, `ResellerIsPaid` | 539,074 |
| `routers` | a MikroTik and an OpenWrt device of one reseller, 2 workers, 2 to 4 numbered requests | `KeyPairMatches`, `RowsAgree`, `SerialClaimsConverge` | 484,371 |
| `routers_drift` | the same, one request at a time | violates `PeersFollowRows` | |
| `fleet` | a watched router of either kind, 3 log rows, 1 kill; a board with 3 wired ports and a radio | `WatchedIsTold`, `HysteresisHolds`, `EventsSettled`, `WiringHolds` | 1,027,493 |
| `inbox` | 2 messages, one delivered twice, a tab, the worker; a daily cap of 1 | `CalmThreads`, `RailsHold`, `QueueDrains` | 606,236 |
| `campaigns` | 2 subscribers, batches of 1, 2 session objects; 2 plans of 1, 3 or 8 ticks; a router and a reseller to alarm about, 2 changes of the session | `SentAtMostOnce`, `SmsCampaignHolds`, `SessionDrains`, `NoticesHold` | 1,056,145 |
| `hotspot` | 2 subscriptions and 2 units of use; a voucher with 2 logins; 2 clients signing up, 5 codes (2 and 3 tokens with kills), 2 charges | `ServedAsHeld`, `VouchersHold`, `SignUpsHold`, `OverdueEnds` | 664,900 |
| `office` | 2 orders on 2 goods; 2 leads, 2 links, 2 installations; a call of 2 turns; a ticket with 2 pings, 1 kill | `LeadsOnce`, `FieldBounded`, `PaidIsBooked`, `CallsHold`, `HumanHears` | 782,707 |

**Scenes.** A run chooses a scene (or mode) in its initial state and keeps it: *what may overlap, fail or be killed*. A property speaks
of the scenes whose discipline it needs, and the MC module says which; the scenes with fewer restrictions are in the same run, so a property that is
stated without a scene holds in all of them. The disciplines ("one request at a time", "no kill", "apart") are not facts about
the deployment. They say under what a property holds; what happens without it is in section 5.

| Run | Scenes | Hold in every scene | Need a discipline |
|---|---|---|---|
| `wallet` | killed, apart | ledger, debits with plans, refinement | a card is credited once, and in the end |
| `access` | all, serial, customers | no token for a manual subscriber | one active plan, lasting PINs, repair by login; group and token right with customers and timer alone |
| `routers` | quiet, serial, churn, faulty, overlap | key pairs | addresses and NAS rows (no overlap), convergence although responses are lost (serial), peers and settings (quiet) |
| `fleet` | watch, serial, all; wiring | hysteresis, events settle; roles reach the ports but for three named steps, and the uplink stays | the log tells the status, recoveries are earned (watch) |
| `inbox` | calm, long, busy, label | hand-over, sales rule, runs end | cap (not label: replies keep the tool's own label); badge, duplicates, drafts (calm) |
| `support` | tickets; team, overlap | stamps, trails of `Solo` tickets, questions end; who was refused stays out (in `overlap` two requests may overlap, but one that grants a login, sets a password or makes a record runs alone) | who was let in gets in (one request at a time) |
| `payments` | pay; overlap, turns, answered | a verified reseller is payable, a charge names a subaccount that exists | payable plans of the owner and a status that is the operator's (turns), the row's bank is the one that is paid (no answer lost) |
| `campaigns` | any, sms, linked; pages, steady; checks, serial, open | nobody twice, one loop, queue empties; reminders bounded, alarms throttled | an SMS campaign's counts, cancellation and end (no kill); reminders in time (runs on time, nothing switched off); alarms go on (SMS a channel); the session's flag (writers take turns, or the page polls) |
| `hotspot` | limits, plans; card, rush, kills; codes, signups, serial | limits on codes | service as held (limits), running vouchers served (no kill), expired ones not (card), a deleted code confirms nobody else (serial, with kills), complete accounts (no kill) |
| `office` | orderly, pages, rush; forms, apart; turns, events; replies, kills | pings and breaches bounded, humans hear | stock (deliveries apart), paid orders seen (no written-back page), one installation and activation (requests apart), totals (turns apart), ended calls (events apart) |

**What they show.** The wallet's money arithmetic is right under every interleaving and every kill: the
ledger is a faithful history, and plan, payment and debit stand or fall together, so the wallet behaves as an atomic one. A card
with a value is credited exactly once as long as redemptions do not overlap and no worker is killed.
Access is right when processes take turns. Tickets keep their stamps under any overlap, tickets whose callers take turns have an
exact trail, and every question ends. Nothing is ever served unpaid; a payment whose handlers do
not overlap is served at most once and, once charged, becomes a success and stays one. A router's key pair is never mixed from two requests, and a
MikroTik that is claimed comes to run its row's credentials however many responses are lost. No router is called offline after
one bad check, whatever heartbeats and webhooks do to the rows of a running sweep, and every event is announced or settled even when notifications raise.
An agent cannot answer after it handed a thread over or sell to a customer, whatever the model says, and it cannot exceed the day's cap unless the model labels its replies; but
the inbox's badge and its duplicate check are only right when requests do not overlap. A broadcast reaches nobody twice through any kill and reconnection. A subscriber is
reminded of the last day once, and once more per killed run, whether cron runs daily or every quarter of an hour, and in both cases in time. An
alarm that stays up is never without a message for three of its periods. A refused or deleted staff member stays out although updates
write back old copies, because the other of the two layers holds. A
voucher that runs is served in any order of logins, sweep and switch. A technician is not nagged beyond the limit, and a silent one, or a breach, comes to a human.

**Bounds.** Two of everything that competes (workers, tickets, payments, subscribers, logins, clients, orders): the races in this code are
between two handlers over one row, and each handler touches one subscriber, one card, one
ticket, one thread or one reference, so a third actor repeats what a second one does. The wallet needs no bound: its cards are finite and money only comes from
them, and the admin can make a card unused again only when nobody has redeemed it. `MaxRequests`, `MaxCalls`, `MaxClicks`, `MaxCodes`, `MaxCharges`, `MaxLinks` and
the like cap requests that create rows, keys or secrets; three are enough for a claim, a release and a claim, four
ticket calls for create, finish, reopen and finish again. `MaxCrashes`, `MaxKills`, `MaxRepeats` cap kills and repeated webhooks: one kill anywhere, and one
repetition, since what a kill leaves behind is met by the next request. `MaxTime = 2` lets a plan end, be renewed, and end again; `MaxLog = 3` an outage, its
recovery and a second outage; `Cap = 1`, `MaxPings = 2`, `MaxSends = 2` and `Strikes = 2` put the limits of the code within reach of a run, so that
each is met and passed; `MaxSessions = 2` a session and the one that replaces it; `Batch = 1` a campaign of several runs. `Lives = {1, 3, 8}` is a plan
bought inside the last window, one that begins after the three-day window, and one that passes through both; `MaxFlips = 2` a session that goes and comes back; `MaxEdits = 4` and three desks a grant, and then two
requests that overlap; `MaxSaves = 3` a bank that is set up while two other pages hold the old row.

**Deadlock.** `wallet` and `wallet_double_redeem` check it. In the other runs the bounds make the system
stop, hence `CHECK_DEADLOCK FALSE` there; that something is stuck before its bound is what the liveness properties would see.

**Fairness**, each part only in the scenes whose liveness it serves:

| Module | Assumed | Because |
|---|---|---|
| `Wallet` | weak fairness of a worker's `Step`, strong fairness of `CreditLock`, `DebitLock` | a thread runs until its handler returns, and PostgreSQL queues those who wait for a row |
| `Access` | weak fairness of the statements and of `ExpirePlans` | systemd starts the timer again and again |
| `Support` | weak fairness of a call's next step and of the sweep's reading of a pointer | timer; the pointer stays until it is read |
| `Payments` | weak fairness of handlers, strong fairness of `Deliver` | Paystack repeats a webhook until it is answered, and a delivery needs a free worker |
| `Routers` | weak fairness of statements; strong fairness of the sweep, of heartbeats and provision requests, and of a response that arrives | timers of platform and device; the network loses responses, not all of them |
| `Outages` | weak fairness of the sweep and its steps, and of events growing older | timer and clock |
| `Inbox` | weak fairness of the queue worker (in the calm scenes it waits for requests under way, which end) | RQ takes jobs while there are any |
| `Campaigns`, `Sidecar` | weak fairness of the command and of the sending loops | timer; a promise of a send settles |
| `Alerts` | weak fairness of the settings page's poll (scene `open`) | the open page polls every 3 seconds (`templates/operator/settings.html:156`) |
| `Quotas`, `Vouchers` | weak fairness of the commands and, for vouchers, of a begun request | cron |
| `Shop`, `Field` | weak fairness of request threads, of a repeated delivery, of the sweep and of time passing | gunicorn, Paystack's retries, the timer, the clock |

None is assumed of customers, staff, the admin, technicians, the language model or a kill.

## 4. The proofs

TLAPS proves these for every value of the constants, under the assumptions named in the modules
(the `ASSUME`s, which TLC also evaluates in every run):

| Theorem | Module | States |
|---|---|---|
| `TypeCorrect` | `WalletProofs` | `Spec => []TypeOK` |
| `AuditTrail` | `WalletProofs` | `Spec => []LedgerExplainsBalance` |
| `Refinement` | `WalletProofs` | `Spec => RefinesAtomicWallet` |
| `AllOrNothing` | `WalletProofs` | `Spec => []DebitsBuyPlans` |
| `VouchersOpen` | `WalletProofs` | `MCSpec => []VouchersHold` |
| `SignUpsKeep` | `WalletProofs` | `MCSpec => []SignUpsHold` |
| `ServiceIsHeld` | `WalletProofs` | `MCSpec => []ServedAsHeld` |
| `SupportTypeCorrect` | `SupportProofs` | `Spec => []TypeOK` |
| `FinishedTicketsAreStamped` | `SupportProofs` | `Spec => []TerminalIsStamped` |
| `AuditTrailReplays` | `SupportProofs` | `Spec => []TrailReplays` |
| `WhoIsOutStaysOut` | `SupportProofs` | `MCSpec => []LoginsHold` |
| `PaymentsTypeCorrect` | `PaymentsProofs` | `Spec => []TypeOK` |
| `NothingServedUnpaid` | `PaymentsProofs` | `Spec => []ServedIsPaid` |
| `ServedAtMostOnce` | `PaymentsProofs` | `Spec => []SoloServedOnce` |
| `SuccessStays` | `PaymentsProofs` | `Spec => SuccessIsFinal`, a conjunct of `SettlesForGood` |
| `ShareIsPaid` | `PaymentsProofs` | `MCSpec => ResellerIsPaid` |
| `AccessTypeCorrect` | `AccessProofs` | `Spec => []TypeOK` |
| `ManualKeepsPin` | `AccessProofs` | `Spec => []ManualNeverToken` |
| `RowsAndRadiusAgree` | `AccessProofs` | `MCSpec => []PlansInStep` |
| `NoPinUndone` | `AccessProofs` | `MCSpec => PinSticks` |
| `LoginLeavesRadiusRight` | `AccessProofs` | `MCSpec => LoginRepairsRadius` |
| `NobodyTwice` | `MessagingProofs` | `Spec => []SentAtMostOnce` |
| `RailsStay` | `MessagingProofs` | `MCSpec => RailsHold` |
| `ThreadsCalm` | `MessagingProofs` | `MCSpec => []CalmThreads` |
| `NoticesStayRight` | `MessagingProofs` | `MCSpec => [](RemindersRight /\ AlarmsRight)`, the safety conjunct of `NoticesHold` |
| `SmsCampaignIsRight` | `MessagingProofs` | `MCSpec =>` the safety conjuncts of `SmsCampaignHolds` and of `SessionDrains` |
| `Hysteresis` | `OutagesProofs` | `Strikes >= 2` implies `Spec => HysteresisHolds` |
| `WatchIsKept` | `OutagesProofs` | `MCSpec => WatchedIsTold` |
| `RolesReachTheBoard` | `OutagesProofs` | `MCSpec => WiringHolds` |
| `FieldWorkBounded` | `FieldProofs` | `FieldSpec => []FieldBounded` |
| `ConvertedOnce` | `FieldProofs` | `MCSpec => []LeadsOnce` |
| `RecordsAreRight` | `FieldProofs` | `MCSpec => CallsHold` |
| `PaidOrdersBooked` | `FieldProofs` | `MCSpec =>` the two safety conjuncts of `PaidIsBooked`: types and `StockBooked` always, `ShippedStep` at every step |
| `PairsMatch` | `RoutersProofs` | `Spec => []KeyPairMatches` |
| `RowsKeepAgreeing` | `RoutersProofs` | `MCSpec => []RowsAgree` |

A theorem about `Spec` assumes no discipline but `Solo`. Those about an `MCSpec` are about the scenes of the MC module, which say
who overlaps whom; the bounds of the scenes may have any value. No proof needs a bound to be small or uses fairness.

**Wallet.** The ledger explains the balance only because nobody writes a balance between a worker's read and
its commit. The inductive invariant therefore adds to `TypeOK` and `LedgerExplainsBalance`:
`HasRequest` (a worker inside a handler has the arguments that place needs) and `HoldsTheRow` (a worker past its lock step holds the lock of
its subscriber's row, and what it saw is still the balance, less the price after `DebitWrite`). At a commit, the new
balance is the last `after` of the ledger plus the amount, which is the next link of the chain; at every other step the lock
keeps the holder's fact true. The refinement uses the same invariant: `CreditCommit` is a
`Credit` of the abstract wallet, `BuyCommit` a `Buy` whose guard follows from the check made under the lock, and all
other steps stutter. Assumptions: card values and prices are naturals, `Fragile` is a set of workers,
`NoOne` is not a worker.

`AllOrNothing` says that debits, subscriptions and payments of a subscriber are three lists in step (`SamePlans`). The debits are picked from the ledger by a recursive
function over its length; `DebitsFilter` shows that it is a filter by looking at the least length at which it would not be (the library's well-founded induction gives a
least element of a set of naturals), `DebitsAppend` that one more ledger row is one debit more or none. A commit then appends to all three lists or to none, because the
insertions of a purchase are one transaction; `IInv` gives the worker that commits its plan and its price.

**Vouchers.** Two logins, the sweep and the reseller overlap in `rush`. Most of `CardInv` says what a request that is under way owes. `Unkilled`: an account exists only if the card has an owner or a login is about to
give it one, and whatever is not settled of a card that runs (its subscription, its access) is the next statement of one login. It holds until somebody is killed. `PlacesApart` keeps
the logins out of the places of the sweep and the reseller. For the scene `card`, `OneActor` and `ExpiredOut`: whoever is past the test of the date stands on a card that is not expired, so an expired one has access only until its sweep or request is over.
Assumption: the sweep and the reseller are no logins.

**Sign-up.** `SendsBounded` counts codes in flight. `Lane(p)` is how many requests are at a place, and `Counted` says that the codes sent and not yet counted are in `record` or `first` (the counter is
read and written in two steps, so two first codes can count as one); when a client moves from one lane to another, two cardinalities change by one (`LaneMoved`). While `first` is not empty the cool-down lasts and no client has sent a second code, which
bounds what the lost update can cost. `Serial`, for one request at a time with kills: the code in the cache, and one read from it, is of no token whose request went on to delete it, and who deletes a code holds the last token. For overlapping sign-ups, `Charged`: a request that makes the
account carries a plan that costs nothing or a charge that is paid and for this plan, with the fee; `Made`: one request at most makes it, since the phone number is unique; `Booked`: the payment rows are those of that request's charge so far.
Sums over rows are taken of sets with two rows at most (`Adds`). Assumptions: clients are finitely many and at least one, there is a plan, prices and bounds are naturals, a number gets at least two codes an hour (the code allows five).

**Limits.** `LimitsInv` puts three things together. `NewestServes`: an active subscription is the newest that is held, so that the reset, which restores the newest held one, never makes a second active. `SweepFits`: the copy that `check_usage` works on
is a subscription that is still active, and no reset is due meanwhile; a status saved from it therefore ends the one subscription that serves. `ResetFits`: while a reset is due nothing has been exceeded today,
and who was not cut yesterday is in the group of the plan. All three rest on the discipline of the scene `limits`; without it the stale copies of section 5 break them. "The newest" is a `CHOOSE` over positions, whose existence comes from the
least element of a set of naturals (`Newest`). Assumption: the bounds are naturals.

**Support.** A stale copy may be written back at any time, so `TerminalIsStamped` is not
inductive alone. `CopiesAreStamped` adds what a copy in flight guarantees: when a copy
in hand shows a finished ticket, the row has the stamps *now*. It had them when the copy was taken, and no service takes a stamp back.
Assumptions: every ticket has a conversation or none, the sweep is not a worker, `Solo` is a set of tickets, `Moves` is a set of statuses and `MaxCalls` a natural.

`TrailReplays` folds the events of a ticket into a status. The proof replaces the fold by a witness, a history of the statuses between the events (`Replays`), which an event more
extends by one (`OneMore`), and goes back to the recursive function at the end (`PastRuns`, by least elements). A stale copy breaks the property (section 5), so the invariant adds
`Turns` for the tickets of `Solo`: one caller at a time holds such a ticket, and the copy in its hands shows the row's status. Each service logs the status of that copy.

**Team.** `OutStaysOut` and `InGetsIn` relate what a manager decided about a member (`word`) to a user row that updates write through copies. `TeamInv` says: no two records have one user
(`UsersApart`); every copy of a record names the user its record has (`CopiesAgree`); an update that lets somebody in has the desk for itself (`LettingAlone`, the discipline of the scenes);
and the user of who is out is shut, as is the user of any copy that could still be saved over the record (`OutIsShut`), so a stale save cannot open the way back. In the scene `team` requests are
one at a time with current copies (`OneByOne`), which gives `InGetsIn`.

**Payments.** `ServedIsPaid` needs `HasCharge`: a handler past the verification, a webhook that is due, and a
loaded copy that is a success all belong to a charged reference. Charges are never taken back, so each step has only to check the
reference in hand. `ServedAtMostOnce` and `SuccessStays` are about the references in `Solo` and rest on `SoloInv`: no two handlers work on related references
(`Apart`), and `Stage` says for each place of a handler what has happened to its reference: a payment is not served before its last step, its row is a success exactly
past the places that settle it, a fetched lead is as it was. `Fair` says the same of a reference nobody works on; a recharge that was served has left the cache or
is about to. A second handler therefore finds the success, or no cache entry, and stops. A killed worker forgets only what it had not written, which leaves a payment
unserved but never served again; a recharge, whose row comes last, needs `crashes = 0`.
Assumptions: every reference has a lead or none, `Solo` is a set of references that share no
lead with others, the bounds are naturals, `NoRequest` is not a request.

**Access.** What a process still has to execute is data, so the invariant speaks about scripts: `ScriptsSound` says that every statement in every `todo[q]` is one the code can
issue, names an existing subscription row and, if it writes the password of a manually created subscriber, carries a PIN. `ManualNeverToken` follows because `radcheck`
gets secrets from such statements only. Each request has to show that the script it loads is sound, and each statement that what it leaves or puts behind itself
(`DoLogin`, `DoBuy`) is sound too, also when rows were inserted meanwhile. No order of the statements matters, which is why the property survives interleavings and kills.

`PlansInStep` is about scenes in which one process works at a time, and adds two invariants. `OneActive`: no two rows of a subscriber are active, one process at most has anything to execute, and each insertion it
has left comes right after an expiration for the same subscriber, which may just have been executed (`Guarded`). That is what keeps `activate_subscription` right wherever it is killed: between the two statements the subscriber has no plan, never two.
`InTurn`, for the scene without kills and edits, says stage by stage what RADIUS holds against what the process has still to do (`Serves` for a request, `Times` for the timer): before the insertion nobody is active, before
`group` the user has no group, before `check` no password, the token in the statements left is the one saved or about to be, and everybody else's rows are right (`OthersRight`). When nothing is left, that is the property.
`RowsAndRadiusAgree` shares phones between subscribers as the property does: what it says of RADIUS is about who has the phone number alone.

`PinSticks` needs to know about saves that are still to come: every save in a script carries a PIN at least as new as the row's, all saves for one subscriber carry the same (`Newer`). A handler loads the row when it starts, nobody else saves before it ends,
so the fact holds at the start and each statement only shortens the list. PINs are numbered by the request that made them, which is what "newer" means.

`LoginRepairsRadius` starts from RADIUS rows that a crash, an admin edit or a rotated token may have left wrong, so the invariant (`Repairing`) assumes nothing of them: it says of each place in a login or a purchase which rows its statements have
already put right (`Mends`: the group is empty before `group`, the active plan's before `uncheck`, the password is gone before `check`, everything is right before the last `kick`), and that the other requests disconnect devices first or not at all (`Quiet`), so that only a login or
a purchase ends in a kick. It needs `OneActive`: with two active rows `DoLogin` would follow the newer and the group could not equal both. An exception or a kill leaves nothing, and the property says nothing of a request that was cut off.

Assumptions: subscribers are finitely many, each has a phone, `Manual` is a set of them, the timer is not a worker and `w1` is one, the bounds are naturals.

**Campaigns.** `SentAtMostOnce` follows a message from the log to the wire. `Once` says that it is in the queue once, or held by one sending loop, or on the wire,
and never in two of these places; `WhatsAppLogged` and `SmsLogged` that wherever it is, its log row was written before; `LeftUntried` that whom a run still has to try
has no log row, because the run subtracted the phones in the log when it started and nobody else writes the log. A killed command or a restarted service can lose a
message between these places, never copy it. Assumptions: a message for each subscriber, batches and sessions are positive numbers.

`SmsCampaignIsRight` is about the scene of `MCCampaigns` with one campaign by SMS to everybody, in which no run is killed: a kill between message and save would lose a count. `SmsCounts` says place by place of a run whether row or copy has the counts of the log, and that between the log row and `Counted` they are one behind;
`SmsRun` that a run at work has a copy of a row that is still queued or sending (a campaign is cancelled between runs), and that whom it has left to try is not in the log. "Sent" then means that the log has as many rows as there are subscribers,
and a set of pairs with one channel that is as large as the audience contains each of them (`LogCounts`). For the service one invariant is enough, whatever the scene: of its session objects only the current one is connected (`OneConnected`), and every step that makes an object
takes the connection from the one before. `MessagingProofs` has the constants and variables of `MCCampaigns` beside those of `MCInbox` and reaches the module as `K`, with another name for the variable both have.
Assumptions: subscribers are finitely many and there is one.

**Notices.** That a reminder does not repeat is arithmetic about two clocks, the key's and the plan's, in runs that come whenever they like. `RoomLeft` adds to the reminders tried those for which there is still room: `Fitting` says how many fit in
before the end if none can be sent before so many ticks are left, and a key that was set, or is about to be, puts the next one off (`Soonest`). The sum never exceeds the window's own bound (one, or two for the three-day window, whose span is longer than a key lives)
plus the killed runs: a reminder uses up room, a tick only loses some, and a run killed before it set the key is the one way to get room back. `SteadyInv`, for the scene in which runs come on time, says that
whoever has a day or less is in the list of the run at work, has been reminded, or that the next run comes before the end (`Awaits`).
Assumptions: plans last at least a tick, `MaxStops` is a natural.

**Alerts.** `RarelyTold`: an alarm has been told no more often than runs were killed, or once more while its throttle is full or its key is about to be set. `StillTold` measures silence: the periods an alarm has been up without a message and those its throttle still lasts make at most two
together, and an alarm for which that leaves no time (`Pending`) is one the run that is due has still to see, in a list or in a part not queried yet (`Awaited`); a tick is taken only when all of these were seen. It needs that a run
whose WhatsApp attempt fails goes on to SMS, which is why the property asks for SMS as a channel. `Follows` says of the platform's row what it will be when the events on their way have arrived (`Coming`), and that the settings page holds the flag of the row while writers take turns.
No assumption.

**Inbox.** `RailsHold` needs one fact about the past (`Railed`): after the hand-over the thread's AI is off, and only the run that handed it over may still be at work. A later run reads the
row when it starts and ends there; replies of people and of milestones are not drafts and not sent by the agent itself (`HandedByPerson`). The cap is a cardinality: a reply is added by the one worker right after it counted, and a lemma (`CapOneMore`) says how
many automatic replies a day has with one row more. What the code counts are labels, so the invariant needs `Labelled`, that every reply the agent sent by itself has an AI label; it is inductive in the modes where replies keep the tool's label, and false where they do not.
`CalmThreads` is about the mode in which whoever starts finds nobody at work: `CalmInv` says so (`Turns`), that the unread counter is the number of unseen messages, that the copies in hand show the row
(`Current`), that a message about to be recorded has no row (`RowsOnce`), and that a draft has not been on the wire unless it is being sent (`Drafted`).
Assumptions: the caps are naturals, at least one reply a day and one step a run, and `Nobody` is no errand.

**Outages.** `HysteresisHolds` is an action property: a router goes offline only if the sweep before this one found it unwell too. The code keeps
only strikes, so the inductive invariant says what a strike means: a router with strikes was unwell in the last sweep (`RowsStruck`), and so was
one with strikes *in the sweep's copy*, unless this very sweep has found it healthy and the copy's strikes are about to be cleared (`CopiesStruck`). Heartbeats
and webhooks only clear strikes, or leave them, between load and save. Assumptions: `Strikes <= Ceiling`, and at least two strikes (the code's
`OFFLINE_STRIKES_REQUIRED` is 2; with one the property is false).

`WatchIsKept` is about the scene `watch` of `MCFleet`, one router that requests and sweeps take turns at. That the log tells the status is true only at rest, so `WatchInv` says what is
under way: at most one event is saved in the row and not in the log yet (`Reports`: it is in the sweep's hands or a request owes it), and the events of the log, with that one, alternate (`Alternates`). Hence
the recovery of an outage is the row after it (`NextEnds`). A recovery is earned because two things go together: an outage settled without a word has a recovery that is settled, or is the last row that fits the log
(`Paired`), and a recovery in the sweep's list comes after its outage in the list unless that one was announced (`Listed`). The second is where it could fail: a notification that raises takes an outage off the list with its
recovery still on it. It does not, because an outage is announced only while no recovery follows it (the second half of `Listed`). Both need that no waiting row is an hour old (`InAge`), the scene's assumption on the timer; the
other scenes drop it, and there a MikroTik's first "online" is announced as a recovery (section 5). The least entry of the list is found by the library's well-founded induction. Assumptions: `open` is a router and no MikroTik, `mikro` a router.

**Ports.** `WiringHolds` says in a state that the roles of the row are asked for, on their way, or run by the device (`Delivered`), and of a step that it ends this only if it is one of the three of `Slip`: a heartbeat
that loaded other roles clears the flag, an answer is lost when no flag is up, the sweep saves its old flag over a new one. TLC finds a counterexample when any of the three is left out. `WiringInv` adds to the type that the
roles of the row, and those of the copy, name exactly one wired port as WAN and only ports the platform knows (`Sound`), and that a device that phones home, or waits no more, has only its bootstrap (`Asker`). Then what a script writes
depends on the roles alone, not on the script before it (`AppliedRuns`). Assumptions: `ether1` is a wired port, no port is both wired and a radio, and a board has finitely many.

**Field.** Each of the two bounds relates a history count to the row, and each needs to know what is in flight. `PingsCounted`: the messages sent to a technician
are at most the row's count, plus the one sent and not yet counted (`Stamping`), plus one per killed sweep; it needs `SweepTyped`, that the copies a sweep has not passed yet
still have the row's count, because nobody else counts. `BreachHasReason`: who was escalated for a breach has a reason on the row, and a sweep's second list
contains only tickets never escalated. Nothing is asked of statuses and technicians: both change at any step.
Assumptions: `MaxPings` and `MaxSilent` are naturals.

**Leads.** `LeadsOnce` needs the types with the references between the three tables (`CrmTyped`: links and orders point to leads, copies in flight to rows of the same identity) and one invariant per scene.
Where requests on one lead take turns, `ApartInv`: each has a copy that shows whether the lead is converted, and a lead is converted exactly when it has its one order. Where forms take turns, `FormsInv`: who
has checked found no fresh lead of the form, and there is at most one. Assumption: the bounds `MaxLeads`, `MaxLinks`, `MaxInstalls` are naturals.

**Voice.** `SpeakInv` says what the one speaker holds: its copy of transcript and cost is the row's and that of all turns (`Cost` counts the turns that cost something), an utterance has the number after the last one, the thread lacks
at most the message it is about to note. A step that touches neither turns nor thread keeps it (`SpeakKept`), so events and keys may be handled meanwhile. `KeysInv` is the same for a key. `EventsInv`: an event that is being saved after the call hung up
has read the answer, so that it cannot undo the end. `RollUp` sums the costs with the library's fold: `CostsCount` shows that the fold of costs that are 0 or 1 is the number of ones, since the function it is defined by is
unique on finite sets. Assumptions: requests at once are finitely many, the bounds are naturals.

**Shop.** `StockBooked` compares a number with a sum over orders, and between the mark and the last item neither is where it will be. The invariant (`Booked`) names, for each good, the set of paid orders whose
units have left the stock, `gone`; it does not meet the orders of which a request is still to take that good (`Owed`), and with no worker killed and nothing oversold every other paid order has no unit of it.
A mark adds an order to the paid ones and to `Owed`, an item taken moves it from `Owed` to `gone`; one that is passed over shows that more was bought than there was, because `gone` and the order together are at most all that is paid.
A kill only shrinks `Owed`. That an order is never marked twice, and an item never taken twice, is `InOrder`: two requests that are past the first read hold different orders, the row of one about to be marked is still pending, and
a row is marked only if its event was sent; a row that is pending in payment is pending in status, so the mark puts nothing back that was shipped. The sums are numbers of pairs (`Weight`), about which the library's facts on cardinality are
enough; `BoughtWeight` shows that the fold in `Bought` is one of them. Assumption (`ShopAssumption`): stock and ordered units are naturals, a cart is of the shop's goods.

**Bank.** What overlapping requests cannot break is said of the row and of every copy that may be saved over it: a verified one has a subaccount, one with a fee is verified (`AllPayable`); and the row a charge on its way was made from had a subaccount (`Aimed`). When requests take turns, the copy of the
one at work is the row until it fills in what it saves (`InTurn`), so a save changes no status but that of the operator's list; `AllAgree` says that a bank is its subaccount's for the row and for the copy at work, the row excepted
between Paystack's change and the save. Where Paystack's answer is lost that last part fails, and the scene says so. Assumption: the bounds `MaxSaves`, `MaxStatus` are naturals.

**Routers.** As in Access, the invariant is about scripts. `Sound` says of a statement that is still to be executed: if it writes the row of a MikroTik, its columns are `Harmless` (none
of the pair, or a key that is withdrawn, or a whole pair), if it allocates an address, the copy it carries is `Paired`, and what follows it when it raises is harmless too. Every request loads a sound script
(one lemma per group of requests), an allocation puts a sound one in its place (`CredentialedSound`), and cutting a script where a call raises leaves a sound one (`Cut`, which needs the least element of a set of positions,
from the library's well-founded induction). Saving harmless columns over a paired row leaves it paired, so it does not matter which of two overlapping requests writes last. For `PairsMatch` nothing is
assumed of the number of workers or of addresses; the devices are finitely many and a device is of one kind.

`RowsAgree` relates four tables that one request changes one after the other, so between requests it is plain and during one it is not. `MInv` therefore says how far the script of the
one thread has come (`Single`: in the modes it speaks of, nobody else has one), separately for each pair of tables. `Placed`, for addresses and NAS rows: at rest (`Resting`), about to give the router up (`Leaving`: the NAS row may go first, the write that
withdraws owner and address is still in the script), before an allocation (`Entering`), and the three statements by which the NAS row follows the new address (`Saving`, `Staling`, `Putting`); every router but the one
in hand is right throughout. `Peered`, for the interface and `wg0.conf`: both are the peers of the rows (`QSynced`), a row is ahead of them (`QMute`, `QAlloc`, `QWrite`), or one of the steps of `reconcile_wg` is next
(`QRead`, `QMove`, `QStrip`, `QSync`), after each of which the following one has what it needs; no write behind a read may touch a key or an address (`Steady`).
`Delivered`, for settings: the device has them, or the row says that it still needs them (`Safe`), or they are in the response the script ends with (`SAnswer`), to which an allocation may still lead (`SEarn`).
The first two hold while requests do not overlap, `Peered` and `Delivered` in the mode `quiet`, where nothing fails and no tunnel is given up; in the other modes it is exactly a broken phase that leaves the peers behind (section 5).
`TInv`, the types of all statements, holds everywhere. One lemma per request shows in which phase its script begins, one per phase where the statement in front leads.
Assumptions: `w1` is a worker and the modes start below the bound on requests.

**Only model-checked:** what must eventually happen: `RedeemedIsCredited`, `OverdueEnds`, `NoEternalWait`, the second conjunct of `SettlesForGood`,
`SerialClaimsConverge`, `EventsSettled`, `QueueDrains`, `QueueMoves` of `SessionDrains`, `HumanHears`, and the last conjuncts of `PaidIsBooked`, `SmsCampaignHolds` and `NoticesHold`. They need fairness and
`ENABLED`, out of TLAPS's reach here. Everything the passing runs check of what may never happen, invariants and action properties, has a theorem.

## 5. Where the code disagrees with its text

Two of these have a run that ends in a counterexample, and are quoted in `PROJECT.json`:

1. Two overlapping redemptions credit one card twice (`portal/views.py:1192`; run `wallet_double_redeem`).
2. The peer of a released router comes back: `remove_peer` reconciles from a row that still has the key
   (`dashboard/views.py:632`; run `routers_drift`).

The others were seen while modelling. The specifications contain the behaviour, and it can be watched by dropping a discipline of the MC module, but
no run is spent on them.

*Wallet.* A worker killed between the save of a card and the credit (`portal/views.py:1200`) spends the card and credits nobody.

*Access.* A manual subscriber whose plan lapsed buys a new one and cannot dial, because the PIN in `radcheck`
is gone (`portal/views.py:796`). "All devices disconnected": a device that logs in between the kick and the rotation of the token stays
(`portal/views.py:1126`). The timer works from a list it read earlier, and a purchase in the meantime ends in two groups or none
(`expire_plans.py:57`). `recharge_verify` and the PIN reset rotate the token and leave the old one in `radcheck`; `portal_change_pin` never
calls `set_subscriber_radius_password` (`radius/utils.py:242`); two activations that overlap leave two active rows; a login undoes a PIN change that
overlaps it (`portal/views.py:771`), and inserts a deleted account again. Accounts of two resellers with one phone share their RADIUS rows (`radius/utils.py:193`).

*Payments.* Webhook and callback that overlap activate twice, while `tests/test_phase2.py:545-555` says "Second call — should be
idempotent". The callback's save of its old copy turns a success into "failed" (`billing/views.py:290`). A
worker killed between the success and the activation leaves a paid customer unserved, and the repeated webhook is told
`already_processed`. A recharge killed before its row is written (`portal/recharge.py:336`) is activated again by each retry. After 30 minutes the
cache has forgotten a recharge (`portal/recharge.py:298`), and its charge is never served. `convert_lead_to_subscriber` calls itself idempotent
(`leads/services.py:36-38`), but two payments of one lead create two orders.

*Support.* `current_load` is not the number of unfinished tickets, even for calls that never overlap (`tickets/services.py:87`). An
assignment with a stale copy changes the status without an event; the pointer of a second question replaces the first (`ai/jobs.py:296`); a
ticket reopened and resolved within 15 minutes is asked about twice (`ai/jobs.py:279`); a
reply the code cannot read clears the pointer and leaves the ticket resolved; opposite reassignments lock two staff rows in opposite orders (`tickets/services.py:86`).

*Routers.* OpenWrt settings set `needs_reprovision`, but its heartbeat delivers only on `pending_provision`. A
lost response loses a setting of an OpenWrt device. `router_provision`'s save of an old copy brings a removed router back. `mark_available` keeps the private key and the NAS
row. Two overlapping claims both succeed. A WAN role on a former guest port has no DHCP client (`routers/provision.py:321`); radio roles are
accepted and not used; a PPPoE server that is no longer wanted stays. "Port topology saved. Applying within 2 minutes." (`routers/views.py:1051`): roles saved between a heartbeat's load and its update (`:250`, `:341`) lose the flag although the
script has the old ones, a phone-home's save (`:212`) writes the old ones back, and an answer that is lost is not sent again while the tunnel is up. `check_routers` keeps the flag so as not to
"clobber manually queued re-provisions" (`check_routers.py:129-134`), and saves the one it loaded before it walked the list (`:88`, `:163`): one that was queued during the run is gone. Outages under the confirmation time are suppressed as blips although
`router_outages` lists them (`routers/views.py:817`); the first "online" of a new router is announced as a recovery.

*Inbox.* `tool_send_reply` takes the `source` of a reply from the model's arguments (`ai/tools.py:149`), which nothing checks against the schema: a reply labelled as a person's is sent, clears the unread count, and is not counted against the
day's cap ("Per-customer daily outbound cap (safety rail)", `ai/agents/runner.py:219`; scene `label`). Two deliveries at once are both recorded (`conversations/services.py:89`). An agent's reply saves the unread count it loaded (`:182`). `send_draft` sets the state
to open while other drafts remain; `conversation_delete` may delete a thread a new message reopened; a pause during a run does not stop its reply. The
gate on payment links compares an absent amount as 0 (`ai/tools.py:731`). `ai/tools.py` uses `Router` without importing it. The runner's docstring
says an escalation ends in `pending_human` "regardless", but a later draft sets `ai_drafted`.

*Broadcasts.* "Up to one per reseller" in the docstring, all in the code. Subscribers who opted out are counted as sent in each
run, so a campaign can end early; counts of a killed run are lost, whoever was logged and not sent to when it was killed is not tried again, and the campaign stays "sending"; a WhatsApp campaign never ends, since no
`log_id` goes with its messages (`notifications/notify.py:87`); a run's save overrides a cancellation. `/send` refuses during a reconnection and nothing sends again.

*Plan limits.* "Limited" subscriptions never expire (`expire_plans` selects "active"; its help says "Expire overdue subscriptions and remove RADIUS access."). Disabling a plan clears
the attributes of its group, and who is in it is served without limits (`dashboard/views.py:295`), and the same between the delete and the create
of a synchronisation. A login restores the full plan after a quota cut; a stale copy throttles a plan just bought; a late reset undoes the cut of today.
The fallback after a data cap that `docs/DMA_FEATURES_TEST_GUIDE.md` 3.5 promises is never applied.

*Vouchers.* A login that races `expire_vouchers` gives access again; a killed first login leaves a card that can never be used.

*Sign-up.* The amount checked is that of the plan the payment was started for, the plan activated that of the request (`portal/views.py:421`).
A customer who pays after the token's 15 minutes has paid for nothing, although the charge is remembered for 30. A kill after the row is made leaves an account without
a plan, and a retry is told that it exists. The write-back of a wrong try revives a code that was just used, and a worker killed between
the token (`portal/views.py:289`) and the deletion of its code (296) leaves the code good for another token. Two first sends count as one.

*Shop.* Nothing is reserved: the last unit can be paid twice, and the second order takes nothing, silently. Overlapping deliveries take the stock twice and set "paid" over "shipped". A worker
killed between mark and stock never takes it. The admin's product list writes back stock that was sold since it was opened, its order form an old status.

*Leads.* Overlapping conversions make two orders; `lead_update`'s whole-row save erases a conversion; `lead_send_quote` makes a paid lead "quoted" again; an installation's save of a
stale copy reopens a completed order, and two overlapping completions activate twice; two forms at once both make a lead, and of a phone with two leads the agent's `create_lead` raises (`ai/tools.py:92`).

*Voice.* A late "answered" revives an ended call; "completed" before the row of "started" is dropped; overlapping turns lose transcript and cost, overlapping keys a digit; a worker killed between the row of a turn and the call's sums
(`voice/services.py`, `append_turn`) leaves the turn out of them for good. `Voice` has no kills.

*Field.* An escalated ticket is escalated again by each sweep, although the comment says once (`sweep_field_pings.py:85`). A ticket created with its
technician gets no brief, hence no pings; a reassignment keeps the count; one failing ticket ends the sweep before its second pass.
A technician's YES is tied to its question by the prompt alone (`ai/agents/field_inbound.py:59-67`): `tool_change_status_ticket` (`ai/tools.py:854`) reads no pending confirmation, so a second or late YES, or none, changes the status
when the model says so. A technician who is deleted (`staff/views.py:162`) leaves the ticket with nobody: it is pinged and escalated for silence no more, only for its service level.

*Reminders.* The three-day reminder goes out twice when the command runs daily or more often, since its window and its key both last a day, although the docstring
says it de-duplicates. The key is set after the sends, also when nothing was sent. The subscriber's `transactional_channel` has no effect.

*Operator alerts.* The settings page saves the whole row over the flag that the webhook wrote meanwhile (`operator_panel/views.py:342`). With WhatsApp as
the only channel and the flag off nothing is said, and the throttle is set all the same. Log rows of the operator's WhatsApp messages stay "queued".

*Reseller's account.* A bank page's save, after its call to Paystack, undoes a suspension made during the call. A lost answer of a bank change leaves the row with the old
bank and the subaccount with the new one. The operator's action that activates resellers announces nothing, the list's edit does.
The check behind "To create paid plans, add your bank account first" (`plans/serializers.py:50`) runs only for a user that has a `reseller` (line 44): a manager who edits a plan
(`dashboard/views.py:225-246`) gives it a price whether the account is verified or not; a subscriber who chooses it is refused at the charge.

*Staff.* An update that grants a login or sets a password, from a copy loaded before a refusal, lets the person in again; a refusal whose copy predates the user's link
clears `can_log_in` and leaves the user active; `active = False` alone is undone by any stale save, and a deleted record is inserted again. `_sync_login_user` skips a
record without e-mail, saying that the caller validates, and `staff_update` does not. An address with capitals never logs in, because the login page lowers it. `staff_update` writes back an
old `current_load`.

## 6. What is not modelled

`PROJECT.json` gives the reason for each component: the remaining fixed tables (roles), remote calls that keep no state here
(OpenWISP, the model provider), reports, templates, serializers, settings. The dashboard and the operator panel have no module of their own: what
they change is an action of the component whose table it is.

Inside the modelled components: amounts, discounts and splits of payments; ticket comments and messages to staff; plan
dates and prorating (a plan lasts one tick); phone numbers shared by two resellers; the failure of a disconnect packet; the walled garden, firewall,
watchdog and radios of the router scripts, and the whole OpenWrt script (text without control flow of the platform's); the technicians' agents beyond their tools, providers, prompts and
list pages of the inbox; configuration pages of notifications; generation and export of voucher PINs; the nightly aggregation of traffic; categories, pictures and
shipping rates of the shop; outgoing calls; the operator's form for a single reseller, in which every field can be typed over; messages to resellers and lead contacts; e-mail addresses with capitals (addresses are taken as lower case), and the
statements inside `staff_update`'s saves of record and user, which are one step.

## 7. What could come next

The order in which more would be worth most: an abstract payment ("a charge is served once") and the
refinement for references in `Solo`; Access composed with SignUp and Vouchers, whose last statements are its
activation; the technicians' side of the inbox.
