------------------------------ MODULE MCOffice ------------------------------
(***************************************************************************)
(* Instances of Shop, Leads, Voice and Field, one of them at a time.       *)
(*   orderly  the shop: deliveries of one event do not overlap, a worker   *)
(*            can be killed                                                *)
(*   pages    one order, the operator's form and list                      *)
(*   rush     deliveries overlap                                           *)
(*   forms    two leads, with intake forms sent at once                    *)
(*   apart    one lead, its requests and its installation's not at once    *)
(*   turns    a call whose utterances follow each other, with pauses       *)
(*   events   a call whose events arrive one by one                        *)
(*   replies  a ticket assigned, briefed, asked about and escalated, whose *)
(*            technician writes to the agent                               *)
(*   kills    a sweep is killed, the technician does not write             *)
(***************************************************************************)
EXTENDS Field

CONSTANTS Goods, FirstStock, Carts, Tills, MaxOrders, MaxCrashes,
          Clerks, LeadPosts, InstallPosts, MaxLeads, MaxLinks, MaxInstalls,
          Handlers, MaxTurns, MaxDigits

VARIABLES stock, orders, deals, desk, till, sale, crashes,
          leads, links, installs, errand, note,
          line, posted, heard, pressed, call, turns, thread, paused, phone, memo,
          scene

S == INSTANCE Shop
L == INSTANCE Leads
V == INSTANCE Voice

ASSUME LeadsAssumption == /\ LeadPosts \subseteq L!LeadStatuses /\ InstallPosts \subseteq L!InstallStatuses
                          /\ {MaxLeads, MaxLinks, MaxInstalls} \subseteq Nat
ASSUME CallsAssumption == IsFiniteSet(Handlers) /\ MaxTurns \in Nat /\ MaxDigits \in Nat

ASSUME ShopAssumption == /\ FirstStock \in [Goods -> Nat] /\ MaxCrashes \in Nat
                         /\ \A cart \in Carts : DOMAIN cart \subseteq Goods /\ \A g \in DOMAIN cart : cart[g] \in Nat

shop == <<stock, orders, deals, desk, till, sale, crashes>>
crm == <<leads, links, installs, errand, note>>
voice == <<line, posted, heard, pressed, call, turns, thread, paused, phone, memo>>
all == <<shop, crm, voice, fieldVars, scene>>
ConstStock == [a |-> 1, b |-> 2]
ConstCarts == {[a |-> 1], [a |-> 1, b |-> 1]}

Selling == scene \in {"orderly", "pages", "rush"}
Pursuing == scene \in {"forms", "apart"}
Calling == scene \in {"turns", "events"}
Working == scene \in {"replies", "kills"}

Delivered(w, o) ==
  /\ scene # "rush" => \A v \in Tills : till[v] \in {"mark", "take"} => sale[v].order # o
  /\ S!Webhook(w, o)
ShopNext ==
  \/ \E w \in Tills :
       \/ S!Selling(w)
       \/ (scene = "pages" => orders = <<>> /\ \A v \in Tills : till[v] = "idle") /\ S!Customers(w)
       \/ scene = "orderly" /\ S!KillTill(w)
       \/ \E o \in DOMAIN deals : Delivered(w, o) \/ S!PayOrder(o)
  \/ S!Fulfil
  \/ scene = "pages" /\ S!Pages

NotIn(places) == \A c \in Clerks : errand[c] \notin places
OffLead == NotIn({"intake", "update", "quote", "operator_quote", "mark", "convert", "paid"})
LeadsNext ==
  \/ \E c \in Clerks :
       \/ L!Working(c)
       \/ OffLead /\ L!AskLead(c)
       \/ scene = "forms" /\ OffLead /\ L!Intake(c)
       \/ scene = "forms" /\ NotIn({"agent"}) /\ L!AgentLead(c)
       \/ scene = "apart" /\ NotIn({"install", "complete"}) /\ L!AskInstall(c)
  \/ scene = "forms" /\ L!Day
  \/ leads = <<>> /\ \E s \in LeadPosts : L!LeadCreate(s)
Unlinked == scene = "forms" => links' = <<>>

Off(places) == \A h \in Handlers : phone[h] \notin places
VoiceNext ==
  \/ (scene = "events" => heard = posted /\ Off({"event"})) /\ V!Switch
  \/ scene = "turns" /\ line = "none" /\ V!Pause
  \/ \E h \in Handlers :
       \/ V!Start(h) \/ V!Handle(h) \/ \E e \in V!Events : V!Load(h, e)
       \/ scene = "turns" /\ Off({"hear", "note_in", "ask", "say", "note_out"}) /\ V!Utter(h)
       \/ Off({"digit"}) /\ V!Press(h)

FieldStep ==
  \/ Sweeping \/ Dispatcher \/ \E t \in Tickets : Due(t)
  \/ Worker /\ (scene = "kills" => agent'.place # "reply")
  \/ scene = "kills" /\ KillSweep

MCInit ==
  /\ S!ShopInit /\ L!LeadsInit /\ V!VoiceInit /\ FieldInit
  /\ scene \in {"orderly", "pages", "rush", "forms", "apart", "turns", "events", "replies", "kills"}
MCNext ==
  /\ \/ Selling /\ ShopNext /\ UNCHANGED <<crm, voice, fieldVars>>
     \/ Pursuing /\ LeadsNext /\ Unlinked /\ UNCHANGED <<shop, voice, fieldVars>>
     \/ Calling /\ VoiceNext /\ UNCHANGED <<shop, crm, fieldVars>>
     \/ Working /\ FieldStep /\ UNCHANGED <<shop, crm, voice>>
  /\ UNCHANGED scene
MCFairness ==
  /\ \A w \in Tills : /\ WF_shop(Selling /\ S!Selling(w))
                      /\ WF_shop(Selling /\ \E o \in DOMAIN deals : Delivered(w, o))
  /\ WF_fieldVars(Working /\ Sweeping)
  /\ \A t \in Tickets : WF_fieldVars(Working /\ Due(t))
MCSpec == MCInit /\ [][MCNext]_all /\ MCFairness

\* A paid order is booked: its stock leaves once however often the event is
\* delivered, what was shipped was paid for and is not shipped again, and who
\* paid has an order marked paid, through crashes and, for the mark, overlaps.
PaidIsBooked ==
  /\ [](S!ShopType /\ (scene = "orderly" => S!StockBooked))
  /\ [][scene = "orderly" => S!ShippedStep]_all
  /\ scene # "pages" => S!PaidIsSeen
\* A lead has one installation order, by hand or paid for, an installation is
\* activated once, and forms one after the other make one lead in a day.
LeadsOnce ==
  /\ L!LeadsType
  /\ scene = "apart" => L!OneInstall /\ L!ActivatedOnce
  /\ scene = "forms" => L!OneFreshForm
\* The record of a call is right: its cost and transcript are those of its
\* turns, and once ended it stays ended, with its time.
CallsHold ==
  /\ [](V!VoiceType /\ (scene = "turns" => V!RollUp))
  /\ [][scene = "events" => V!EndStep]_all
\* A ticket whose technician stays silent, and one past its service level,
\* reach a human.
HumanHears == []FieldType /\ SilenceSurfaces /\ BreachSurfaces
=============================================================================
