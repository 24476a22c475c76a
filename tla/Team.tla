------------------------------- MODULE Team -------------------------------
(***************************************************************************)
(* The staff of a reseller and their logins: staff/views.py (staff_create, *)
(* staff_update, staff_delete, _sync_login_user) and who gets into the     *)
(* dashboard (accounts/permissions.py, accounts/page_views.py).            *)
(*                                                                         *)
(* A request loads the record, applies the fields it was sent and saves    *)
(* every column of its copy.  Two layers keep a person out: can_log_in of  *)
(* the record, and is_active of the Django user linked to it.              *)
(***************************************************************************)
EXTENDS Integers, Sequences, FiniteSets

CONSTANTS Members,   \* StaffMember rows that may come to exist
          Emails,    \* e-mail addresses, which name the users
          Desks,     \* request threads
          Blank,     \* no e-mail address
          Forms,     \* bound: what staff_update is sent
          MaxEdits   \* bound: requests

VARIABLES staff,     \* the StaffMember rows
          users,     \* the auth.User rows, in the order they were made
          desk,      \* what each thread loaded, and what it was sent
          word,      \* the last answered request about a member's login
          edits      \* requests so far
team == <<staff, users, desk, word, edits>>

Records == [exists : BOOLEAN, email : Emails \cup {Blank}, active : BOOLEAN, can : BOOLEAN,
            user : Nat]
NoRecord == [exists |-> FALSE, email |-> Blank, active |-> FALSE, can |-> FALSE, user |-> 0]
\* What the body of staff_update may hold: "keep" when it has no such field.
Bodies == [email : Emails \cup {Blank, "keep"}, active : {"keep", "yes", "no"},
           can : {"keep", "yes", "no"}, password : BOOLEAN]
Free == [op |-> "none"]
Words == {"none", "in", "out"}

TeamInit ==
  /\ staff = [s \in Members |-> NoRecord]
  /\ users = <<>>
  /\ desk = [d \in Desks |-> Free]
  /\ word = [s \in Members |-> "none"]
  /\ edits = 0

Open(d) == desk[d] = Free /\ edits < MaxEdits /\ edits' = edits + 1
Close(d) == desk' = [desk EXCEPT ![d] = Free]
Named(us, e) == {u \in DOMAIN us : us[u].name = e}

-----------------------------------------------------------------------------
(* Who gets in                                                             *)

\* effective_role: a staff member of an inactive record has no role.
HasRole(s) == staff[s].exists /\ staff[s].active /\ staff[s].can
\* authenticate, then _has_dashboard_access: an active user with a password.
GetsIn(s) ==
  /\ HasRole(s) /\ staff[s].user # 0
  /\ users[staff[s].user].active /\ users[staff[s].user].password

-----------------------------------------------------------------------------
(* One transaction: the record of s and the user behind it                 *)

Applied(r, body) ==
  [r EXCEPT !.email = IF body.email = "keep" THEN @ ELSE body.email,
            !.active = IF body.active = "keep" THEN @ ELSE body.active = "yes",
            !.can = IF body.can = "keep" THEN @ ELSE body.can = "yes"]

\* _sync_login_user: the user of the record, else the one its address names,
\* else a new one, is renamed, activated and given the password, if there is one.
Person(r) ==
  IF r.user # 0 THEN r.user
  ELSE IF Named(users, r.email) # {} THEN CHOOSE u \in Named(users, r.email) : TRUE
  ELSE Len(users) + 1
LetIn(r, password) ==
  LET u == Person(r)
      had == u \in DOMAIN users /\ users[u].password
      now == [name |-> r.email, active |-> TRUE, password |-> had \/ password]
  IN  [record |-> [r EXCEPT !.user = u],
       users |-> IF u \in DOMAIN users THEN [users EXCEPT ![u] = now] ELSE Append(users, now)]
KeptOut_Active(r) == [record |-> r, users |-> users]
\* can_log_in is withdrawn: the user is deactivated, and kept.
KeptOut(r) ==
  [record |-> r,
   users |-> IF r.user = 0 THEN users ELSE [users EXCEPT ![r.user].active = FALSE]]
Synced(r, password) ==
  IF r.can /\ r.email # Blank THEN LetIn(r, password)
  ELSE IF r.can THEN [record |-> r, users |-> users]
  ELSE KeptOut(r)
Syncs_Always(body) == TRUE
\* Only when the body has can_log_in or a password.
Syncs(body) == body.can # "keep" \/ body.password
Written(r, body) == IF Syncs(body) THEN Synced(r, body.password)
                    ELSE [record |-> r, users |-> users]

\* Two records cannot have one user, nor two users one name.
Clash(s, w) ==
  \/ w.record.user # 0 /\ \E t \in Members \ {s} : staff[t].exists /\ staff[t].user = w.record.user
  \/ \E u, v \in DOMAIN w.users : u # v /\ w.users[u].name = w.users[v].name
\* What the request was about, if it was about the login at all.
Decided(s, w, body) ==
  LET r == w.record
      let == r.can /\ r.user # 0 /\ w.users[r.user].active /\ w.users[r.user].password
      about == body.can # "keep" \/ body.password
  IN  IF ~about THEN word[s]
      ELSE IF ~r.can THEN "out" ELSE IF let THEN "in" ELSE word[s]
Store(s, w, body) ==
  IF Clash(s, w) THEN UNCHANGED <<staff, users, word>>
  ELSE /\ staff' = [staff EXCEPT ![s] = w.record]
       /\ users' = w.users
       /\ word' = [word EXCEPT ![s] = Decided(s, w, body)]

-----------------------------------------------------------------------------
(* Requests                                                                *)

\* staff_create, which asks for an address and a password with can_log_in.
StaffCreate(d, s, e, can) ==
  LET body == [email |-> e, active |-> "keep", can |-> IF can THEN "yes" ELSE "no",
               password |-> can]
      row == [NoRecord EXCEPT !.exists = TRUE, !.active = TRUE]
  IN  /\ Open(d) /\ ~staff[s].exists /\ word[s] = "none"
      /\ can => e # Blank
      /\ Store(s, Written(Applied(row, body), body), body)
      /\ UNCHANGED desk

\* get_object_or_404 of staff_update and staff_delete.
Load(d, s, op, body) ==
  /\ Open(d) /\ staff[s].exists
  /\ desk' = [desk EXCEPT ![d] = [op |-> op, of |-> s, copy |-> staff[s], body |-> body]]
  /\ UNCHANGED <<staff, users, word>>
\* staff_update saves all of its copy, also over a later save, and inserts it
\* again when the record was deleted.
StaffUpdate(d) ==
  /\ desk[d].op = "update"
  /\ Store(desk[d].of, Written(Applied(desk[d].copy, desk[d].body), desk[d].body), desk[d].body)
  /\ Close(d) /\ UNCHANGED edits
\* staff_delete deactivates the user of its copy, then deletes the record.
Deactivate(d) ==
  /\ desk[d].op = "delete"
  /\ users' = KeptOut(desk[d].copy).users
  /\ word' = IF desk[d].copy.user = 0 THEN word ELSE [word EXCEPT ![desk[d].of] = "out"]
  /\ desk' = [desk EXCEPT ![d].op = "drop"]
  /\ UNCHANGED <<staff, edits>>
StaffDelete(d) ==
  /\ desk[d].op = "drop"
  /\ staff' = [staff EXCEPT ![desk[d].of] = NoRecord]
  /\ word' = [word EXCEPT ![desk[d].of] = "out"]
  /\ Close(d) /\ UNCHANGED <<users, edits>>
\* The worker dies between the two statements of staff_delete.
DeskDies(d) == desk[d].op = "drop" /\ Close(d) /\ UNCHANGED <<staff, users, word, edits>>

NoBody == [email |-> "keep", active |-> "keep", can |-> "keep", password |-> FALSE]
TeamStep ==
  \E d \in Desks :
    \/ StaffUpdate(d) \/ Deactivate(d) \/ StaffDelete(d)
    \/ \E s \in Members : \/ \E e \in Emails \cup {Blank}, can \in BOOLEAN : StaffCreate(d, s, e, can)
                          \/ \E body \in Forms : Load(d, s, "update", body)
                          \/ Load(d, s, "delete", NoBody)

Serving == \E d \in Desks : desk[d] # Free

-----------------------------------------------------------------------------
(* Properties                                                              *)

TeamType ==
  /\ staff \in [Members -> Records]
  /\ \A s \in Members : staff[s].user <= Len(users)
  /\ \A u \in DOMAIN users : users[u] \in [name : Emails, active : BOOLEAN, password : BOOLEAN]
  /\ \A d \in Desks : desk[d] = Free \/ (desk[d].copy \in Records /\ desk[d].body \in Bodies)
  /\ word \in [Members -> Words]

\* Who was refused, or whose record was deleted, does not get in again by a
\* request that is about something else, though it saves the whole of a copy it
\* loaded before (staff_update, staff_delete).
OutStaysOut == \A s \in Members : word[s] = "out" => ~GetsIn(s)
\* Who was let in gets in while his record is active, whatever is renamed.
InGetsIn == \A s \in Members : word[s] = "in" => (GetsIn(s) <=> staff[s].active)
=============================================================================
