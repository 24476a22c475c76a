------------------------------ MODULE MCInbox ------------------------------
(***************************************************************************)
(* Instances of Inbox: two messages, the first one delivered twice.        *)
(*   calm   a webhook, a request of a person or an agent run at a time     *)
(*   long   the same without people, while the sender becomes a customer,  *)
(*          the AI is paused and resumed, and the day ends                 *)
(*   busy   webhooks, people and agent runs at any time                    *)
(*   label  the same, and the model labels its replies as it likes         *)
(* In the first three every reply keeps the label of the tool's schema,    *)
(* which is all that ai/tools.py asks of the model: nothing checks it.     *)
(***************************************************************************)
EXTENDS Inbox, TLC

CONSTANTS first, again, second,  \* deliveries
          m1, m2

MCDeliveries == {first, again, second}
MCId == first :> m1 @@ again :> m1 @@ second :> m2

VARIABLE mode
modal == <<inbox, mode>>

Quiet == /\ worker = Nobody /\ \A t \in Tabs : tab[t] = Nobody
         /\ \A d \in Deliveries : hook[d] # "new"
Free == mode \in {"busy", "label"} \/ Quiet

\* Who may act in a mode, and whether the links of the agent are followed.
Due(d) == mode = "calm" \/ d # again
Staffed == mode # "long"
Long == mode = "long"
ToSchema == mode # "label" => \A i \in DOMAIN replies' \ DOMAIN replies : replies'[i].ai

MCInit == InboxInit /\ mode \in {"calm", "long", "busy", "label"} /\ (Long \/ ~client)
MCNext ==
  /\ \/ \E d \in Deliveries : (Free /\ Due(d) /\ Arrive(d)) \/ Record(d)
     \/ \E t \in Tabs : (Free /\ Staffed /\ Begins(t)) \/ Ends(t)
     \/ Free /\ (Take \/ Milestone)
     \/ Free /\ Long /\ (SignUp \/ Quarter \/ Midnight \/ Switch)
     \/ Call /\ (Long \/ UNCHANGED links) /\ ToSchema
     \/ More \/ Done \/ Fail \/ Kill
  /\ UNCHANGED mode
MCSpec == MCInit /\ [][MCNext]_modal /\ InboxFairness

\* The inbox tells the truth while requests and agent runs do not overlap: the
\* unread badge counts what nobody saw, a message delivered twice is recorded
\* once, and a draft that is sent is sent once.
CalmThreads ==
  /\ InboxType
  /\ mode = "calm" => UnreadCountsUnseen /\ RecordedOnce /\ DraftSentOnce

\* The rails hold whatever the language model asks for and whoever interferes:
\* no offers to a customer, silence in a thread handed over, and the day's cap
\* as long as the model does not label its replies otherwise.
Capped == mode # "label" => RepliesCapped
RailsHold == [](Capped /\ SubscriberNotSoldTo) /\ [][HandOverHolds]_modal
=============================================================================
