-------------------------------- MODULE Leads --------------------------------
(***************************************************************************)
(* From a prospect to an installed customer: the public form with its 24   *)
(* hour duplicate check (leads/public_views.py), the lead the sales agent  *)
(* makes in a conversation (ai/tools.py), the staff's requests on          *)
(* leads and installations (leads/views.py, the quote of                   *)
(* operator_panel/crm_views.py), the payment link and what its webhook     *)
(* does (billing), and the two services of leads/services.py.              *)
(*                                                                         *)
(* A request loads its row, then writes all of it or some fields of it;    *)
(* each read and each write is a step, each service one transaction. All   *)
(* the leads of the model have one phone number and one intent.            *)
(***************************************************************************)
EXTENDS Integers, Sequences, FiniteSets, FiniteSetsExt

CONSTANTS Clerks,  \* requests under way at once
          LeadPosts, InstallPosts, \* statuses staff post for a lead, an installation
          MaxLeads, MaxLinks, MaxInstalls \* bounds: rows made

VARIABLES leads,    \* the Lead rows
          links,    \* payment links: their lead, paid or not
          installs, \* the InstallationOrder rows, with their ticket and activations
          errand, note \* where each request is, and what it has read

leadsVars == <<leads, links, installs, errand, note>>

LeadStatuses == {"new", "qualified", "quoted", "paid", "installed", "lost"}
InstallStatuses == {"pending", "scheduled", "in_progress", "completed", "cancelled"}
Lead == [status : LeadStatuses, converted : BOOLEAN, plan : BOOLEAN, web : BOOLEAN, fresh : BOOLEAN]
Install == [lead : 1..MaxLeads, status : InstallStatuses, done : BOOLEAN,
            ticket : {"none", "open", "resolved"}, active : Nat]
Blank == [id |-> 0, copy |-> <<>>, status |-> "new"]

Go(c, place, n) == errand' = [errand EXCEPT ![c] = place] /\ note' = [note EXCEPT ![c] = n]
Finish(c) == Go(c, "idle", Blank)

LeadsInit ==
  /\ leads = <<>> /\ links = <<>> /\ installs = <<>>
  /\ errand = [c \in Clerks |-> "idle"] /\ note = [c \in Clerks |-> Blank]

(* The public form: lead_intake. *******************************************)

Duplicate == \E l \in DOMAIN leads : leads[l].fresh

Row(s, web) == [status |-> s, converted |-> FALSE, plan |-> FALSE, web |-> web, fresh |-> TRUE]
Intake(c) ==
  /\ errand[c] = "idle" /\ ~Duplicate /\ Go(c, "intake", Blank)
  /\ UNCHANGED <<leads, links, installs>>
IntakeCreate(c) ==
  /\ errand[c] = "intake" /\ Len(leads) < MaxLeads /\ Finish(c)
  /\ leads' = Append(leads, Row("new", TRUE)) /\ UNCHANGED <<links, installs>>
\* tool_create_lead of the customer agent: get_or_create by phone, which raises
\* when the form has made two leads; the details it fills in are left out.
AgentLead(c) ==
  /\ errand[c] = "idle" /\ leads = <<>> /\ Go(c, "agent", Blank)
  /\ UNCHANGED <<leads, links, installs>>
AgentCreate(c) ==
  /\ errand[c] = "agent" /\ Len(leads) < MaxLeads /\ Finish(c)
  /\ leads' = Append(leads, Row("new", FALSE)) /\ UNCHANGED <<links, installs>>
Day == /\ \E l \in DOMAIN leads : leads[l].fresh
       /\ leads' = [l \in DOMAIN leads |-> [leads[l] EXCEPT !.fresh = FALSE]]
       /\ UNCHANGED <<links, installs, errand, note>>

(* The staff's requests on a lead. *****************************************)

\* What a request uses of the row it loads.
Read(what, l) == CASE what = "update" -> leads[l]
                   [] what = "operator_quote" -> [status |-> leads[l].status]
                   [] what \in {"convert", "paid"} -> [converted |-> leads[l].converted]
                   [] OTHER -> <<>>

LeadCreate(s) ==
  /\ Len(leads) < MaxLeads /\ leads' = Append(leads, Row(s, FALSE))
  /\ UNCHANGED <<links, installs, errand, note>>
FetchLead(c, l, what, s) ==
  /\ errand[c] = "idle" /\ Go(c, what, [id |-> l, copy |-> Read(what, l), status |-> s])
  /\ UNCHANGED <<leads, links, installs>>

\* lead_update: every field of the copy is written, two of them as posted.
LeadUpdate(c, plan) ==
  /\ errand[c] = "update" /\ Finish(c)
  /\ leads' = [leads EXCEPT ![note[c].id] =
                 [note[c].copy EXCEPT !.status = note[c].status, !.plan = plan, !.fresh = leads[note[c].id].fresh]]
  /\ UNCHANGED <<links, installs>>

\* lead_send_quote and the agents' tool; operator_send_quote marks only a new or
\* qualified lead as quoted, and writes the status of its copy in any case.
\* The link is made, by a call to Paystack, between the read and the write.
Quoted(copy, what) == IF what = "quote" \/ copy.status \in {"new", "qualified"}
                      THEN "quoted" ELSE copy.status
Quote(c, ok) ==
  /\ errand[c] \in {"quote", "operator_quote"}
  /\ IF ok THEN /\ Len(links) < MaxLinks
                /\ links' = Append(links, [lead |-> note[c].id, paid |-> FALSE])
                /\ Go(c, "mark", [note[c] EXCEPT !.copy = <<>>, !.status = Quoted(note[c].copy, errand[c])])
     ELSE Finish(c) /\ UNCHANGED links
  /\ UNCHANGED <<leads, installs>>

\* The writes of one column: the quote's, and lead_mark_lost.
MarkLead(c) ==
  /\ errand[c] = "mark" /\ Finish(c)
  /\ leads' = [leads EXCEPT ![note[c].id].status = note[c].status]
  /\ UNCHANGED <<links, installs>>

\* Fault for mutation: a lead that was converted is converted again.
Converted_Never(copy) == FALSE
Converted(copy) == copy.converted

\* convert_lead_to_subscriber, for lead_convert and for the webhook of a link;
\* the webhook raises the installation's ticket afterwards.
Convert(c) ==
  /\ errand[c] \in {"convert", "paid"}
  /\ IF Converted(note[c].copy) THEN UNCHANGED <<leads, installs>>
     ELSE /\ Len(installs) < MaxInstalls
          /\ leads' = [leads EXCEPT ![note[c].id].converted = TRUE, ![note[c].id].status = "paid"]
          /\ installs' = Append(installs, [lead |-> note[c].id, status |-> "pending", done |-> FALSE,
                                           ticket |-> "none", active |-> 0])
  /\ IF errand[c] = "paid" THEN Go(c, "raise", [Blank EXCEPT !.id = note[c].id]) ELSE Finish(c)
  /\ UNCHANGED links
RaiseTicket(c) ==
  /\ errand[c] = "raise" /\ Finish(c)
  /\ LET own == {i \in DOMAIN installs : installs[i].lead = note[c].id} IN
       installs' = IF own = {} THEN installs ELSE [installs EXCEPT ![Max(own)].ticket = "open"]
  /\ UNCHANGED <<leads, links>>
PayLink(c, k) ==
  /\ ~links[k].paid /\ links' = [links EXCEPT ![k].paid = TRUE]
  /\ errand[c] = "idle"
  /\ Go(c, "paid", [Blank EXCEPT !.id = links[k].lead, !.copy = Read("paid", links[k].lead)])
  /\ UNCHANGED <<leads, installs>>

(* The staff's requests on an installation: installation_update. ***********)

FetchInstall(c, i, s) ==
  /\ errand[c] = "idle" /\ Go(c, "install", [Blank EXCEPT !.id = i, !.copy = [installs[i] EXCEPT !.ticket = "none", !.active = 0], !.status = s])
  /\ UNCHANGED <<leads, links, installs>>

Completing(n) == n.status = "completed" /\ n.copy.status # "completed" /\ ~n.copy.done

\* Every field of the copy is written first, the ticket being another table.
SaveInstall(c) ==
  LET n == note[c]
      kept == [n.copy EXCEPT !.ticket = installs[n.id].ticket, !.active = installs[n.id].active]
  IN /\ errand[c] = "install"
     /\ installs' = [installs EXCEPT ![n.id] = IF Completing(n) THEN kept
                                               ELSE [kept EXCEPT !.status = n.status]]
     /\ IF Completing(n) THEN Go(c, "complete", [Blank EXCEPT !.id = n.id]) ELSE Finish(c)
     /\ UNCHANGED <<leads, links>>

\* What is left of the order, and of its ticket.
Installed(order) ==
  [order EXCEPT !.status = "completed", !.done = TRUE, !.active = @ + 1,
                !.ticket = IF @ = "open" THEN "resolved" ELSE @]

\* complete_installation with the plan posted or the lead's: an error without
\* a plan or a subscriber, else the order, the lead, the subscription and the
\* ticket in one transaction. Whether it was done is the copy's word.
Complete(c, plan) ==
  LET n == note[c]  l == installs[n.id].lead
      served == leads[l].converted /\ (plan \/ leads[l].plan)
  IN /\ errand[c] = "complete" /\ Finish(c)
     /\ leads' = [leads EXCEPT ![l].plan = @ \/ plan,
                               ![l].status = IF served THEN "installed" ELSE @]
     /\ installs' = IF ~served THEN installs
                    ELSE [installs EXCEPT ![n.id] = Installed(@)]
     /\ UNCHANGED links

Working(c) == \/ IntakeCreate(c) \/ AgentCreate(c) \/ MarkLead(c) \/ Convert(c) \/ RaiseTicket(c) \/ SaveInstall(c)
              \/ \E b \in BOOLEAN : LeadUpdate(c, b) \/ Quote(c, b) \/ Complete(c, b)
AskLead(c) == \/ \E l \in DOMAIN leads : \/ \E s \in LeadPosts : FetchLead(c, l, "update", s)
                                         \/ FetchLead(c, l, "quote", "quoted")
                                         \/ FetchLead(c, l, "operator_quote", "quoted")
                                         \/ FetchLead(c, l, "convert", "paid")
                                         \/ FetchLead(c, l, "mark", "lost")
              \/ \E k \in DOMAIN links : PayLink(c, k)
AskInstall(c) == \E i \in DOMAIN installs, s \in InstallPosts : FetchInstall(c, i, s)
LeadsNext == \/ \E c \in Clerks : Working(c) \/ Intake(c) \/ AgentLead(c) \/ AskLead(c) \/ AskInstall(c)
             \/ Day \/ LeadCreate("new")
LeadsSpec == LeadsInit /\ [][LeadsNext]_leadsVars

(* Properties. *************************************************************)

\* The types of the rows and of the requests.
LeadsType ==
  /\ \A l \in DOMAIN leads : leads[l] \in Lead
  /\ \A i \in DOMAIN installs : installs[i] \in Install
  /\ \A k \in DOMAIN links : links[k] \in [lead : DOMAIN leads, paid : BOOLEAN]
  /\ Len(leads) <= MaxLeads /\ Len(links) <= MaxLinks /\ Len(installs) <= MaxInstalls
  /\ \A c \in Clerks : note[c].id \in 0..MaxLeads \cup 0..MaxInstalls

\* A lead that was converted, by staff, by a payment or by both, has exactly one
\* installation, and no other lead has any. It needs requests that do not
\* overlap on the lead (convert_lead_to_subscriber, "Idempotent").
OneInstall ==
  \A l \in DOMAIN leads :
    Cardinality({i \in DOMAIN installs : installs[i].lead = l}) = IF leads[l].converted THEN 1 ELSE 0

\* An installation activates its plan once, however its status is moved to and
\* fro, and is marked as completed only if it did. It needs requests that do
\* not overlap on the installation (installation_update, complete_installation).
ActivatedOnce == \A i \in DOMAIN installs : installs[i].active = IF installs[i].done THEN 1 ELSE 0

\* The public form leaves at most one lead of a phone and intent in 24 hours,
\* whatever staff did to the first one meanwhile; it needs forms that do not
\* overlap (lead_intake: "Dedup: same phone+intent inside 24h").
OneFreshForm == Cardinality({l \in DOMAIN leads : leads[l].web /\ leads[l].fresh}) <= 1
==============================================================================
