---------------------------- MODULE MCSupport -----------------------------
(***************************************************************************)
(* Instances of Support and of Team, one of them at a time:                *)
(*   tickets  two tickets from one customer's conversation                 *)
(*   team     two people and a request at a time, which can be killed      *)
(*   overlap  the same, and two requests at a time, but for those that     *)
(*            grant a login, set a password or make a record               *)
(***************************************************************************)
EXTENDS Support, TLC

CONSTANTS slow, billing,  \* a support ticket and a billing ticket
          chat, sam,
          Members, Emails, Desks, Blank, MaxEdits

VARIABLES staff, users, desk, word, edits, scene

NoBody == [email |-> "keep", active |-> "keep", can |-> "keep", password |-> FALSE]
\* A body is about one thing; a login is granted with or without a password
\* and an address.
Grants == [email : {"keep"} \cup Emails, active : {"keep"}, can : {"yes"}, password : BOOLEAN]
Renames == {[NoBody EXCEPT !.email = e] : e \in Emails \cup {Blank}}
Refusal == [NoBody EXCEPT !.can = "no"]
Password == [NoBody EXCEPT !.password = TRUE]
Forms == Grants \cup Renames \cup {NoBody, Refusal, Password}
           \cup {[NoBody EXCEPT !.active = a] : a \in {"yes", "no"}}

T == INSTANCE Team

people == <<staff, users, desk, word, edits>>
all == <<vars, people, scene>>

MCTickets == {slow, billing}
OneStaff == {sam}
MCConversations == {chat}
MCConversation == slow :> chat @@ billing :> chat

\* A request that may let somebody in, or makes a record, has the office alone.
LetsIn(q) == q # T!Free /\ (q.body.can = "yes" \/ q.body.password)
Alone ==
  /\ desk' = desk => ~T!Serving
  /\ ~\E d \in Desks : LetsIn(desk'[d]) /\ \E e \in Desks \ {d} : desk'[e] # T!Free
Serial == ~\E d \in Desks : desk[d] # T!Free /\ desk'[d] = desk[d]
TeamNext ==
  \/ T!TeamStep /\ IF scene = "team" THEN Serial ELSE Alone
  \/ \E d \in Desks : T!DeskDies(d)
MCInit == Init /\ T!TeamInit /\ scene \in {"tickets", "team", "overlap"}
MCNext ==
  /\ \/ scene = "tickets" /\ Next /\ UNCHANGED people
     \/ scene # "tickets" /\ TeamNext /\ UNCHANGED vars
  /\ UNCHANGED scene
MCFairness ==
  /\ \A p \in Processes : WF_vars(scene = "tickets" /\ Continue(p))
  /\ \A c \in Conversations : WF_vars(scene = "tickets" /\ ReadPointer(Sweep, c, "timeout"))
MCSpec == MCInit /\ [][MCNext]_all /\ MCFairness

\* Whoever was refused a login, or whose record was deleted, stays out, also
\* when an update that is about something else saves the copy it loaded before;
\* and who was let in gets in while his record is active.
LoginsHold ==
  /\ T!TeamType /\ T!OutStaysOut
  /\ scene = "team" => T!InGetsIn
=============================================================================
