--------------------------- MODULE RoutersProofs ---------------------------
(***************************************************************************)
(* Two theorems about the fleet for any devices, resellers, workers and    *)
(* number of requests.                                                     *)
(*                                                                         *)
(* PairsMatch, of Routers: whichever requests overlap, fail half-way or    *)
(* save the copies they loaded, the key pair in the row of a MikroTik is   *)
(* one pair.                                                               *)
(*                                                                         *)
(* RowsKeepAgreeing, of MCRouters: the rows, the NAS rows, the peers and   *)
(* the devices agree between requests.  The invariant says how far the     *)
(* script of the one thread has come: Placed for addresses and NAS rows,   *)
(* Peered for the interface and wg0.conf, Delivered for settings.  Each is *)
(* a disjunction of phases, and each statement, failure and new request    *)
(* leads from one phase to another.                                        *)
(***************************************************************************)
EXTENDS MCRouters, TLAPS, FiniteSetTheorems, SequenceTheorems, WellFoundedInduction

\* A row, or a copy of one, with a key pair that is one pair.
Paired(c) == {"key", "private"} \subseteq DOMAIN c /\ (c.key # 0 => c.private = c.key)
\* Columns that can be saved over a paired row: none of the pair, a key that is
\* withdrawn, or a whole pair.
Harmless(fields) ==
  \/ "key" \notin DOMAIN fields /\ "private" \notin DOMAIN fields
  \/ "key" \in DOMAIN fields /\ fields.key = 0
  \/ Paired(fields)
\* What follows a peer change that raises.
Else(s) == s = <<>> \/ \E r : s = Write(r, [status |-> "failed"])

Sound(o) ==
  /\ o.op = "write" /\ o.router \in Mikrotiks => Harmless(o.fields)
  /\ o.op = "allocate" /\ o.router \in Mikrotiks => Paired(o.copy)
  /\ o.op \in {"set", "unset"} => Else(o.else)
IsSeq(s) == \E S : s \in Seq(S)
SoundScript(s) == IsSeq(s) /\ \A k \in 1..Len(s) : Sound(s[k])

IInv ==
  /\ DOMAIN row = Routers /\ DOMAIN todo = Workers
  /\ \A r \in Mikrotiks : Paired(row[r])
  /\ \A w \in Workers : SoundScript(todo[w])

-----------------------------------------------------------------------------
(* Scripts                                                                 *)

LEMMA Joined ==
  ASSUME NEW s, SoundScript(s), NEW t, SoundScript(t) PROVE SoundScript(s \o t)
<1>1. PICK S : s \in Seq(S) BY DEF SoundScript, IsSeq
<1>2. PICK T : t \in Seq(T) BY DEF SoundScript, IsSeq
<1>3. s \in Seq(S \cup T) /\ t \in Seq(S \cup T) BY <1>1, <1>2
<1>4. s \o t \in Seq(S \cup T) BY <1>3
<1>5. ASSUME NEW k \in 1..Len(s \o t) PROVE Sound((s \o t)[k])
  <2>1. CASE k <= Len(s)
    <3>1. (s \o t)[k] = s[k] /\ k \in 1..Len(s) BY <1>3, <1>5, <2>1
    <3> QED BY <3>1 DEF SoundScript
  <2>2. CASE k > Len(s)
    <3>1. (s \o t)[k] = t[k - Len(s)] /\ k - Len(s) \in 1..Len(t) BY <1>3, <1>5, <2>2
    <3> QED BY <3>1 DEF SoundScript
  <2> QED BY <1>3, <1>5, <2>1, <2>2
<1> QED BY <1>4, <1>5 DEF SoundScript, IsSeq

LEMMA One == ASSUME NEW o, Sound(o) PROVE SoundScript(<<o>>)
<1>1. <<o>> \in Seq({o}) OBVIOUS
<1>2. \A k \in 1..Len(<<o>>) : <<o>>[k] = o OBVIOUS
<1>3. IsSeq(<<o>>) BY <1>1 DEF IsSeq
<1> QED BY <1>2, <1>3 DEF SoundScript

LEMMA Two == ASSUME NEW o, Sound(o), NEW p, Sound(p) PROVE SoundScript(<<o, p>>)
<1>1. <<o, p>> \in Seq({o, p}) OBVIOUS
<1>2. \A k \in 1..Len(<<o, p>>) : <<o, p>>[k] = o \/ <<o, p>>[k] = p OBVIOUS
<1>3. IsSeq(<<o, p>>) BY <1>1 DEF IsSeq
<1> QED BY <1>2, <1>3 DEF SoundScript

LEMMA Three ==
  ASSUME NEW o, Sound(o), NEW p, Sound(p), NEW q, Sound(q) PROVE SoundScript(<<o, p, q>>)
<1>1. <<o, p, q>> \in Seq({o, p, q}) OBVIOUS
<1>2. \A k \in 1..Len(<<o, p, q>>) : <<o, p, q>>[k] \in {o, p, q} OBVIOUS
<1>3. IsSeq(<<o, p, q>>) BY <1>1 DEF IsSeq
<1> QED BY <1>2, <1>3 DEF SoundScript

LEMMA None == SoundScript(<<>>)
<1>1. <<>> \in Seq({}) OBVIOUS
<1> QED BY <1>1 DEF SoundScript, IsSeq

LEMMA Halves ==
  ASSUME NEW s, SoundScript(s), s # <<>> PROVE Sound(Head(s)) /\ SoundScript(Tail(s))
<1>1. PICK S : s \in Seq(S) BY DEF SoundScript, IsSeq
<1>2. Head(s) = s[1] /\ 1 \in 1..Len(s) BY <1>1
<1>3. Tail(s) \in Seq(S) BY <1>1
<1>4. \A k \in 1..Len(Tail(s)) : Tail(s)[k] = s[k + 1] /\ k + 1 \in 1..Len(s) BY <1>1
<1> QED BY <1>2, <1>3, <1>4 DEF SoundScript, IsSeq

LEMMA Lowest == ASSUME NEW S, S \subseteq Nat, S # {} PROVE \E n \in S : \A i \in S : n <= i
<1>1. PICK n \in S : \A i \in S : ~(<<i, n>> \in OpToRel(<, Nat))
  BY NatLessThanWellFounded, WFMin
<1>2. ASSUME NEW i \in S PROVE n <= i
  <2>1. n \in Nat /\ i \in Nat OBVIOUS
  <2>2. i < n => <<i, n>> \in OpToRel(<, Nat) BY <2>1 DEF OpToRel
  <2>3. ~(i < n)
    <3>1. <<i, n>> \notin OpToRel(<, Nat) BY <1>1
    <3> QED BY <3>1, <2>2
  <2> QED BY <2>1, <2>3
<1> QED BY <1>2

LEMMA Least == ASSUME NEW S, S \subseteq Nat, S # {} PROVE Min(S) \in S
BY Lowest DEF Min

\* What is left of a script when a call in it raises.
LEMMA Cut == ASSUME NEW s, SoundScript(s), NEW ops PROVE SoundScript(From(s, ops))
<1> DEFINE kept == {k \in DOMAIN s : s[k].op \notin ops}
<1>1. PICK S : s \in Seq(S) BY DEF SoundScript, IsSeq
<1>2. CASE kept = {} BY <1>2, None DEF From
<1>3. CASE kept # {}
  <2>1. kept \subseteq Nat BY <1>1
  <2>2. PICK n \in 1..Len(s) : n = Min(kept)
    <3>1. Min(kept) \in kept BY ONLY <1>3, <2>1, Least
    <3>2. kept \subseteq 1..Len(s) BY <1>1
    <3> HIDE DEF kept
    <3> QED BY <3>1, <3>2
  <2>3. SubSeq(s, n, Len(s)) \in Seq(S) BY <1>1
  <2>4. \A k \in 1..Len(SubSeq(s, n, Len(s))) :
          SubSeq(s, n, Len(s))[k] = s[n + k - 1] /\ n + k - 1 \in 1..Len(s)
    BY <1>1
  <2>5. From(s, ops) = SubSeq(s, n, Len(s)) BY <1>3, <2>2 DEF From
  <2> QED BY <2>3, <2>4, <2>5 DEF SoundScript, IsSeq
<1> QED BY <1>2, <1>3

LEMMA Writing ==
  ASSUME NEW r, NEW fields, r \in Mikrotiks => Harmless(fields)
  PROVE  SoundScript(Write(r, fields))
<1>1. Sound([op |-> "write", router |-> r, fields |-> fields]) BY DEF Sound
<1> QED BY <1>1, One DEF Write

LEMMA Allocating ==
  ASSUME NEW r, NEW c, NEW how, r \in Mikrotiks => Paired(c)
  PROVE  SoundScript(Allocate(r, c, how))
<1>1. Sound([op |-> "allocate", router |-> r, copy |-> c, how |-> how]) BY DEF Sound
<1> QED BY <1>1, One DEF Allocate

LEMMA Calls ==
  /\ SoundScript(Read)
  /\ \A key : SoundScript(Unset(key))
  /\ \A key, ip, else : Else(else) => SoundScript(Set(key, ip, else))
  /\ \A ip : SoundScript(NasDrop(ip))
  /\ \A r, c : SoundScript(Nas(r, c))
  /\ \A r, script : SoundScript(Respond(r, script))
<1>1. SoundScript(Read)
  <2>1. Sound([op |-> "read"]) BY DEF Sound
  <2> QED BY <2>1, One DEF Read
<1>2. ASSUME NEW key PROVE SoundScript(Unset(key))
  <2>1. Sound([op |-> "unset", key |-> key, else |-> <<>>]) BY DEF Sound, Else
  <2>2. SoundScript(<<[op |-> "unset", key |-> key, else |-> <<>>]>> \o Read)
    BY <2>1, One, <1>1, Joined
  <2> QED BY <2>2, None DEF Unset
<1>3. ASSUME NEW key, NEW ip, NEW else, Else(else) PROVE SoundScript(Set(key, ip, else))
  <2>1. Sound([op |-> "set", key |-> key, ip |-> ip, else |-> else]) BY <1>3 DEF Sound
  <2> QED BY <2>1, One, <1>1, Joined DEF Set
<1>4. ASSUME NEW ip PROVE SoundScript(NasDrop(ip))
  <2>1. Sound([op |-> "nasdrop", ip |-> ip]) /\ Sound([op |-> "restart"]) BY DEF Sound
  <2> QED BY <2>1, Two DEF NasDrop
<1>5. ASSUME NEW r, NEW c PROVE SoundScript(Nas(r, c))
  <2>1. /\ Sound([op |-> "nasstale", router |-> r, ip |-> c.ip])
        /\ Sound([op |-> "nasput", router |-> r, ip |-> c.ip, secret |-> c.secret])
        /\ Sound([op |-> "restart"])
    BY DEF Sound
  <2> QED BY <2>1, Three DEF Nas
<1>6. ASSUME NEW r, NEW script PROVE SoundScript(Respond(r, script))
  <2>1. Sound([op |-> "respond", router |-> r, script |-> script]) BY DEF Sound
  <2> QED BY <2>1, One DEF Respond
<1> QED BY <1>1, <1>2, <1>3, <1>4, <1>5, <1>6

\* A statement that writes none of the pair, and one that delivers a script.
LEMMA Plain ==
  ASSUME NEW r, NEW s, NEW n
  PROVE  /\ SoundScript(Write(r, [status |-> s])) /\ SoundScript(Write(r, [needs |-> n]))
         /\ SoundScript(Write(r, [status |-> s, needs |-> n]))
         /\ SoundScript(Write(r, [settings |-> s, needs |-> n]))
<1>1. /\ Harmless([status |-> s]) /\ Harmless([needs |-> n])
      /\ Harmless([status |-> s, needs |-> n]) /\ Harmless([settings |-> s, needs |-> n])
  BY DEF Harmless
<1> QED BY <1>1, Writing

LEMMA Delivering ==
  ASSUME NEW r, NEW c, r \in Mikrotiks => Paired(c) PROVE SoundScript(Deliver(r, c))
<1> DEFINE d == [c EXCEPT !.status = "provisioned"]
<1>1. r \in Mikrotiks => Harmless(d) BY DEF Harmless, Paired
<1> HIDE DEF d
<1>2. SoundScript(Write(r, d)) /\ SoundScript(Respond(r, Script(d))) BY <1>1, Writing, Calls
<1>3. Deliver(r, c) = Write(r, d) \o Respond(r, Script(d)) BY DEF Deliver, d
<1> QED BY <1>2, <1>3, Joined

\* What follows the allocation of an address.
LEMMA CredentialedSound ==
  ASSUME NEW r, NEW c, NEW how, r \in Mikrotiks => Paired(c)
  PROVE  SoundScript(Credentialed(r, c, how))
<1> DEFINE failed == IF how = "api" THEN Write(r, [status |-> "failed"]) ELSE <<>>
           else == IF r \in Mikrotiks THEN failed ELSE <<>>
           peer == IF c.key = 0 THEN <<>> ELSE Set(c.key, c.ip, else)
           both == IF r \in Mikrotiks \/ how = "page" THEN Nas(r, c) \o peer ELSE peer \o Nas(r, c)
           last == IF how # "phone" THEN <<>>
                   ELSE IF r \in Mikrotiks THEN Deliver(r, c)
                   ELSE Write(r, [status |-> "provisioned"]) \o Respond(r, Script(c))
<1>1. Else(else) BY DEF Else
<1> HIDE DEF else
<1>2. SoundScript(peer) BY <1>1, Calls, None
<1> HIDE DEF peer
<1>3. SoundScript(both) BY <1>2, Calls, Joined
<1> HIDE DEF both
<1>4. SoundScript(last)
  <2>1. SoundScript(Write(r, [status |-> "provisioned"]) \o Respond(r, Script(c)))
    BY Plain, Calls, Joined
  <2>2. SoundScript(Deliver(r, c)) BY Delivering
  <2> QED BY <2>1, <2>2, None
<1> HIDE DEF last
<1>5. SoundScript(Write(r, c)) BY Writing DEF Harmless
<1>6. SoundScript(Write(r, c) \o both \o last) BY <1>3, <1>4, <1>5, Joined
<1>7. Credentialed(r, c, how) = Write(r, c) \o both \o last
  BY DEF Credentialed, both, last, peer, else
<1> QED BY <1>6, <1>7

-----------------------------------------------------------------------------
(* Rows and processes                                                      *)

LEMMA Loaded ==
  ASSUME IInv, NEW w \in Workers, NEW s, SoundScript(s),
         Load(w, s), DOMAIN row' = Routers, \A r \in Mikrotiks : Paired(row'[r])
  PROVE  IInv'
BY DEF IInv, Load

LEMMA Unmoved ==
  ASSUME IInv, NEW w \in Workers, NEW s, SoundScript(s), Load(w, s), UNCHANGED row
  PROVE  IInv'
BY Loaded DEF IInv

LEMMA ServedUnmoved ==
  ASSUME IInv, NEW w \in Workers, NEW s, SoundScript(s), Serve(w, s), UNCHANGED row
  PROVE  IInv'
BY Unmoved DEF Serve

LEMMA Goes ==
  ASSUME IInv, NEW w \in Workers, NEW s, SoundScript(s), todo[w] # <<>>,
         Continue(w, s), UNCHANGED row
  PROVE  IInv'
<1>1. SoundScript(s \o Tail(todo[w])) BY Halves, Joined DEF IInv
<1> QED BY <1>1 DEF IInv, Continue

LEMMA Finishes ==
  ASSUME IInv, NEW w \in Workers, todo[w] # <<>>, Done(w), UNCHANGED row
  PROVE  IInv'
BY Goes, None DEF Done

LEMMA Copies ==
  ASSUME NEW c, Paired(c), NEW d, NEW e
  PROVE  /\ Paired([c EXCEPT !.owner = d, !.status = e]) /\ Paired([c EXCEPT !.ip = d])
         /\ Paired(Generated(c)) /\ Paired([Generated(c) EXCEPT !.owner = d, !.status = e])
BY DEF Paired, Generated

LEMMA RegisteredPaired ==
  ASSUME IInv, NEW r \in Mikrotiks PROVE Paired(Registered(r))
<1>1. Paired([Blank EXCEPT !.status = "available"]) BY DEF Paired, Blank
<1> QED BY <1>1 DEF IInv, Registered

LEMMA RegisterKeeps ==
  ASSUME IInv, NEW r \in Routers, Register(r)
  PROVE  DOMAIN row' = Routers /\ \A q \in Mikrotiks : Paired(row'[q])
<1>1. DOMAIN row' = Routers BY DEF IInv, Register
<1>2. ASSUME NEW q \in Mikrotiks PROVE Paired(row'[q])
  <2>1. q \in Routers BY DEF Routers
  <2>2. row'[q] = IF q = r THEN Registered(r) ELSE row[q] BY <2>1 DEF IInv, Register
  <2> QED BY <2>2, RegisteredPaired DEF IInv
<1> QED BY <1>1, <1>2

-----------------------------------------------------------------------------
(* Requests                                                                *)

LEMMA ClaimsKeep == ASSUME IInv, NEW w \in Workers, Claims(w) PROVE IInv'
<1> PICK r \in Routers, o \in Resellers :
      RouterAdd(w, r, o) \/ HandleMikrotikAdd(w, r, o) \/ HandleOpenwrtAdd(w, r, o)
  BY DEF Claims
<1> DEFINE mine(d) == [d EXCEPT !.owner = o, !.status = "pending"]
<1>0. r \in Mikrotiks => Paired(row[r]) BY DEF IInv
<1>1. r \in Mikrotiks => Paired(mine(Generated(row[r]))) BY <1>0, Copies
<1>2. r \in OpenWrts => r \notin Mikrotiks BY DeviceAssumption
<1>3. CASE RouterAdd(w, r, o)
  <2> DEFINE keyed == mine([row[r] EXCEPT !.secret = IF @ = 0 THEN Fresh ELSE @])
  <2> HIDE DEF keyed
  <2>1. CASE r \in Mikrotiks /\ Serve(w, Allocate(r, mine(Generated(row[r])), "api"))
    BY <1>1, <1>3, <2>1, Allocating, ServedUnmoved DEF RouterAdd, Untouched
  <2>2. CASE r \in OpenWrts /\ Serve(w, Allocate(r, keyed, "api"))
    BY <1>2, <1>3, <2>2, Allocating, ServedUnmoved DEF RouterAdd, Untouched
  <2>3. CASE r \in OpenWrts /\ Serve(w, Write(r, keyed) \o Set(row[r].key, row[r].ip, <<>>)
                                        \o Nas(r, keyed))
    <3>1. SoundScript(Write(r, keyed)) BY <1>2, <2>3, Writing
    <3>2. SoundScript(Set(row[r].key, row[r].ip, <<>>)) BY Calls DEF Else
    <3>3. SoundScript(Write(r, keyed) \o Set(row[r].key, row[r].ip, <<>>) \o Nas(r, keyed))
      BY <3>1, <3>2, Calls, Joined
    <3> QED BY <1>3, <2>3, <3>3, ServedUnmoved DEF RouterAdd, Untouched
  <2> QED BY <1>3, <2>1, <2>2, <2>3 DEF RouterAdd, keyed
<1>4. CASE HandleMikrotikAdd(w, r, o)
  BY <1>1, <1>4, Allocating, ServedUnmoved DEF HandleMikrotikAdd, Untouched
<1>5. CASE HandleOpenwrtAdd(w, r, o)
  BY <1>2, <1>5, Allocating, ServedUnmoved DEF HandleOpenwrtAdd, Untouched
<1> QED BY <1>3, <1>4, <1>5

LEMMA ReleasesKeep == ASSUME IInv, NEW w \in Workers, Releases(w) PROVE IInv'
<1> PICK r \in Routers : RouterRemove(w, r) \/ MarkAvailable(w, r) BY DEF Releases
<1>1. CASE RouterRemove(w, r)
  <2> DEFINE c == row[r]
             d == [Blank EXCEPT !.status = "available", !.needs = c.needs,
                                !.settings = c.settings, !.shook = c.shook]
             drop == IF c.ip = 0 THEN <<>> ELSE NasDrop(c.ip)
  <2>1. Harmless(d) BY DEF Harmless, Blank
  <2> HIDE DEF d
  <2>2. SoundScript(drop) BY Calls, None
  <2> HIDE DEF drop
  <2>3. SoundScript(Unset(c.key) \o drop \o Write(r, d))
    BY <2>1, <2>2, Writing, Calls, Joined
  <2>4. Load(w, Unset(c.key) \o drop \o Write(r, d)) /\ UNCHANGED row
    BY <1>1 DEF RouterRemove, Untouched, drop, d
  <2> QED BY <2>3, <2>4, Unmoved
<1>2. CASE MarkAvailable(w, r)
  <2> DEFINE d == [status |-> "available", owner |-> NoOne, key |-> 0, ip |-> 0, secret |-> 0]
  <2>1. Harmless(d) BY DEF Harmless
  <2> HIDE DEF d
  <2>2. SoundScript(Unset(row[r].key) \o Write(r, d)) BY <2>1, Writing, Calls, Joined
  <2>3. Load(w, Unset(row[r].key) \o Write(r, d)) /\ UNCHANGED row
    BY <1>2 DEF MarkAvailable, Untouched, d
  <2> QED BY <2>2, <2>3, Unmoved
<1> QED BY <1>1, <1>2

LEMMA SettlesKeep == ASSUME IInv, NEW w \in Workers, Settles(w) PROVE IInv'
<1> PICK r \in Routers : WifiConfig(w, r) \/ Topology(w, r) \/ Redeploy(w, r) BY DEF Settles
<1>1. SoundScript(Write(r, [settings |-> Fresh, needs |-> TRUE])) BY Plain
<1>2. SoundScript(Write(r, [needs |-> TRUE])) BY Plain
<1>3. CASE WifiConfig(w, r) BY <1>1, <1>3, ServedUnmoved DEF WifiConfig, Untouched
<1>4. CASE Topology(w, r) BY <1>1, <1>4, ServedUnmoved DEF Topology, Untouched
<1>5. CASE Redeploy(w, r) BY <1>2, <1>5, Unmoved DEF Redeploy, Untouched
<1> QED BY <1>3, <1>4, <1>5

LEMMA SeenPlain ==
  ASSUME NEW r, NEW c, NEW fields \in Seen(c)
  PROVE  "key" \notin DOMAIN fields /\ "private" \notin DOMAIN fields
         /\ SoundScript(Write(r, fields))
<1>1. fields = <<>> \/ fields = [status |-> "provisioned"] BY DEF Seen
<1>2. "key" \notin DOMAIN fields /\ "private" \notin DOMAIN fields
  <2>1. CASE fields = <<>>
    <3>1. DOMAIN fields = {} BY <2>1
    <3> QED BY <3>1
  <2>2. CASE fields = [status |-> "provisioned"] BY <2>2
  <2> QED BY <1>1, <2>1, <2>2
<1> QED BY <1>2, Writing DEF Harmless

LEMMA SwapSound == ASSUME NEW c, NEW key PROVE SoundScript(Swap(c, key))
<1>1. SoundScript(Unset(c.key) \o Set(key, c.ip, <<>>)) BY Calls, Joined DEF Else
<1> QED BY <1>1, None DEF Swap

LEMMA HeartbeatsKeep == ASSUME IInv, NEW w \in Workers, Heartbeats(w) PROVE IInv'
<1> PICK r \in Routers : HeartbeatMikrotik(w, r) \/ HeartbeatOpenwrt(w, r) BY DEF Heartbeats
<1>1. CASE HeartbeatMikrotik(w, r)
  <2> DEFINE c == row[r]
             again == Write(r, [status |-> "provisioned", needs |-> FALSE]) \o Respond(r, Script(c))
             rest == IF c.owner # NoOne /\ (c.status = "pending" \/ c.needs) /\ c.private # 0
                     THEN again ELSE <<>>
  <2>1. SoundScript(again) BY Plain, Calls, Joined
  <2>2. SoundScript(rest) BY <2>1, None
  <2>3. PICK fields \in Seen(c) : Load(w, Write(r, fields) \o rest)
    BY <1>1 DEF HeartbeatMikrotik
  <2> HIDE DEF rest
  <2>4. SoundScript(Write(r, fields) \o rest) BY <2>2, SeenPlain, Joined
  <2>5. UNCHANGED row BY <1>1 DEF HeartbeatMikrotik, Untouched
  <2> QED BY <2>3, <2>4, <2>5, Unmoved
<1>2. CASE HeartbeatOpenwrt(w, r)
  <2> DEFINE c == Registered(r)
             key == device[r].key
             new == key # c.key
             d == [c EXCEPT !.key = key]
             swap == IF new THEN Swap(c, key) ELSE <<>>
             again == Write(r, [status |-> "provisioned"]) \o Respond(r, Script(d))
             rest == IF d.owner # NoOne /\ d.status = "pending" THEN again ELSE <<>>
             keyed(f) == [n \in {"key"} \cup DOMAIN f |-> IF n = "key" THEN key ELSE f[n]]
             saved(f) == IF new THEN keyed(f) ELSE f
  <2>1. SoundScript(again) BY Plain, Calls, Joined
  <2>2. SoundScript(rest) /\ SoundScript(swap) BY <2>1, None, SwapSound
  <2>3. PICK fields \in Seen(c) : Load(w, swap \o Write(r, saved(fields)) \o rest)
    BY <1>2 DEF HeartbeatOpenwrt
  <2> HIDE DEF rest, swap, saved
  <2>4. r \notin Mikrotiks /\ Register(r) BY <1>2, DeviceAssumption DEF HeartbeatOpenwrt
  <2>5. SoundScript(swap \o Write(r, saved(fields)) \o rest)
    BY <2>2, <2>4, Writing, Joined
  <2> QED BY <2>3, <2>4, <2>5, RegisterKeeps, Loaded
<1> QED BY <1>1, <1>2

LEMMA PhoneHomesKeep == ASSUME IInv, NEW w \in Workers, PhoneHomes(w) PROVE IInv'
<1> PICK r \in Routers : RouterProvision(w, r) \/ OpenwrtProvision(w, r) BY DEF PhoneHomes
<1> DEFINE c == Registered(r)
<1>1. CASE RouterProvision(w, r)
  <2>1. r \in Mikrotiks /\ Register(r) BY <1>1 DEF RouterProvision
  <2>2. Paired(c) /\ Paired(Generated(c)) BY <2>1, RegisteredPaired, Copies
  <2>3. SoundScript(Deliver(r, c)) BY <2>2, Delivering
  <2>4. SoundScript(Unset(c.key) \o Allocate(r, Generated(c), "phone"))
    BY <2>2, Allocating, Calls, Joined
  <2>5. \/ Load(w, <<>>) \/ Load(w, Deliver(r, c))
        \/ Load(w, Unset(c.key) \o Allocate(r, Generated(c), "phone"))
    BY <1>1 DEF RouterProvision, Serve
  <2> QED BY <2>1, <2>3, <2>4, <2>5, None, RegisterKeeps, Loaded
<1>2. CASE OpenwrtProvision(w, r)
  <2> DEFINE key == device[r].key
             d == [c EXCEPT !.key = key]
             e == [d EXCEPT !.secret = Fresh, !.status = "pending"]
             swap == IF key # c.key THEN Write(r, [key |-> key]) \o Swap(c, key) ELSE <<>>
             script == Write(r, [status |-> "provisioned"]) \o Respond(r, Script(d))
  <2>1. r \notin Mikrotiks /\ Register(r) BY <1>2, DeviceAssumption DEF OpenwrtProvision
  <2>2. SoundScript(Write(r, [key |-> key]) \o Swap(c, key)) BY <2>1, Writing, SwapSound, Joined
  <2>3. SoundScript(swap) BY <2>2, None
  <2>4. SoundScript(script) BY Plain, Calls, Joined
  <2>5. \/ Load(w, swap) \/ Load(w, swap \o script)
        \/ Load(w, swap \o Allocate(r, e, "phone"))
    BY <1>2 DEF OpenwrtProvision, Serve
  <2> HIDE DEF swap, script, e
  <2>6. SoundScript(swap \o script) BY <2>3, <2>4, Joined
  <2>7. SoundScript(swap \o Allocate(r, e, "phone")) BY <2>1, <2>3, Allocating, Joined
  <2> QED BY <2>1, <2>3, <2>5, <2>6, <2>7, RegisterKeeps, Loaded
<1> QED BY <1>1, <1>2

\* The sweep writes three columns of each router it loaded.
LEMMA SweepsKeep == ASSUME IInv, NEW w \in Workers, Sweeps(w) PROVE IInv'
<1> PICK flag \in BOOLEAN : CheckRouters(w, flag) BY DEF Sweeps
<1> DEFINE n == Cardinality(Swept)
           r(k) == SetToSeq(Swept)[k]
           s == [k \in 1..n |-> Write(r(k), Verdict(r(k), flag))[1]]
<1>1. n \in Nat
  <2>1. IsFiniteSet(Routers) /\ Swept \subseteq Routers BY DeviceAssumption DEF Swept, Routers
  <2>2. IsFiniteSet(Swept) BY <2>1, FS_Subset
  <2> QED BY <2>2, FS_CardinalityType
<1>2. ASSUME NEW q PROVE Sound(Write(q, Verdict(q, flag))[1])
  <2>1. Harmless(Verdict(q, flag)) BY DEF Verdict, Harmless
  <2>2. SoundScript(Write(q, Verdict(q, flag))) BY <2>1, Writing
  <2>3. Len(Write(q, Verdict(q, flag))) = 1 BY DEF Write
  <2> QED BY <2>2, <2>3 DEF SoundScript
<1>3. Load(w, s) /\ UNCHANGED row BY DEF CheckRouters, Untouched
<1> HIDE DEF n, r
<1>4. s \in Seq({s[k] : k \in 1..n}) /\ Len(s) = n BY <1>1
<1>5. \A k \in 1..n : Sound(s[k]) BY <1>2
<1>6. SoundScript(s) BY <1>4, <1>5 DEF SoundScript, IsSeq
<1> QED BY <1>3, <1>6, Unmoved

LEMMA RequestKeeps == ASSUME IInv, NEW w \in Workers, Request(w) PROVE IInv'
<1>1. CASE ReconcileCommand(w)
  BY <1>1, Calls, Unmoved DEF ReconcileCommand, Untouched
<1>2. ASSUME NEW r \in Routers, MarkOffline(w, r) PROVE IInv'
  <2>1. SoundScript(Write(r, [status |-> "provisioned"])) BY Plain
  <2> QED BY <1>2, <2>1, Unmoved DEF MarkOffline, Untouched
<1> QED BY <1>1, <1>2, ClaimsKeep, ReleasesKeep, SettlesKeep, HeartbeatsKeep, PhoneHomesKeep,
           SweepsKeep DEF Request

-----------------------------------------------------------------------------
(* Statements, faults, devices                                             *)

\* Saving harmless columns over a paired row leaves it paired.
LEMMA SavedPaired ==
  ASSUME NEW c, Paired(c), NEW fields, Harmless(fields) PROVE Paired(Saved(c, fields))
BY DEF Paired, Harmless, Saved

LEMMA WriteKeeps == ASSUME IInv, NEW w \in Workers, DoWrite(w) PROVE IInv'
<1> DEFINE o == Head(todo[w])
<1>1. todo[w] # <<>> /\ o.op = "write" BY DEF DoWrite, At
<1>2. Sound(o) /\ SoundScript(Tail(todo[w])) BY <1>1, Halves DEF IInv
<1>3. row' = [row EXCEPT ![o.router] = Saved(@, o.fields)] BY DEF DoWrite, Now
<1>4. \A v \in Workers : SoundScript(todo'[v])
  <2>1. SoundScript(<<>> \o Tail(todo[w])) BY <1>2, None, Joined
  <2> QED BY <2>1 DEF DoWrite, Done, Continue, IInv
<1> HIDE DEF o
<1>5. ASSUME NEW r \in Mikrotiks PROVE Paired(row'[r])
  <2>1. r \in DOMAIN row BY DEF IInv, Routers
  <2>2. CASE r = o.router
    <3>1. row'[r] = Saved(row[r], o.fields) BY <1>3, <2>1, <2>2
    <3>2. Harmless(o.fields) BY <1>1, <1>2, <2>2 DEF Sound
    <3> QED BY <3>1, <3>2, SavedPaired DEF IInv
  <2>3. CASE r # o.router BY <1>3, <2>1, <2>3 DEF IInv
  <2> QED BY <2>2, <2>3
<1>6. DOMAIN row' = Routers /\ DOMAIN todo' = Workers
  BY <1>3 DEF IInv, DoWrite, Done, Continue
<1> QED BY <1>4, <1>5, <1>6 DEF IInv

LEMMA AllocateKeeps == ASSUME IInv, NEW w \in Workers, DoAllocate(w) PROVE IInv'
<1> DEFINE o == Head(todo[w])
           c == [o.copy EXCEPT !.ip = NextAddress]
<1>1. todo[w] # <<>> /\ o.op = "allocate" BY DEF DoAllocate, At
<1>2. Sound(o) BY <1>1, Halves DEF IInv
<1>3. o.router \in Mikrotiks => Paired(c) BY <1>1, <1>2, Copies DEF Sound
<1>4. Continue(w, Credentialed(o.router, c, o.how)) /\ UNCHANGED row BY DEF DoAllocate, Now
<1> HIDE DEF o, c
<1>5. SoundScript(Credentialed(o.router, c, o.how)) BY <1>3, CredentialedSound
<1> QED BY <1>1, <1>4, <1>5, Goes

LEMMA ReconcileKeeps == ASSUME IInv, NEW w \in Workers, DoReconcile(w) PROVE IInv'
<1>1. todo[w] # <<>> /\ UNCHANGED row BY DEF DoReconcile, At
<1>2. CASE Continue(w, <<[op |-> "move", peers |-> RowPeers], [op |-> "strip"]>>)
  <2>1. Sound([op |-> "move", peers |-> RowPeers]) /\ Sound([op |-> "strip"]) BY DEF Sound
  <2>2. SoundScript(<<[op |-> "move", peers |-> RowPeers], [op |-> "strip"]>>) BY <2>1, Two
  <2> QED BY <1>1, <1>2, <2>2, Goes
<1>3. CASE Continue(w, <<[op |-> "sync", peers |-> file]>>)
  <2>1. Sound([op |-> "sync", peers |-> file]) BY DEF Sound
  <2> QED BY <1>1, <1>3, <2>1, One, Goes
<1>4. CASE Done(w) BY <1>1, <1>4, Finishes
<1> QED BY <1>2, <1>3, <1>4 DEF DoReconcile

LEMMA StatementKeeps == ASSUME IInv, NEW w \in Workers, Statement(w) PROVE IInv'
<1>1. CASE DoNas(w) BY <1>1, Finishes DEF DoNas, At
<1>2. CASE DoRestart(w) BY <1>2, Finishes DEF DoRestart, At
<1>3. CASE DoSet(w) BY <1>3, Finishes DEF DoSet, At
<1>4. CASE DoRespond(w) BY <1>4, Finishes DEF DoRespond, At
<1> QED BY <1>1, <1>2, <1>3, <1>4, WriteKeeps, AllocateKeeps, ReconcileKeeps DEF Statement

LEMMA FaultsKeep == ASSUME IInv, NEW w \in Workers, Faults(w) PROVE IInv'
<1>1. CASE WireGuardFails(w)
  <2> DEFINE o == Head(todo[w])
  <2>1. todo[w] # <<>> /\ UNCHANGED row BY <1>1 DEF WireGuardFails, At
  <2>2. Sound(o) /\ SoundScript(Tail(todo[w])) BY <2>1, Halves DEF IInv
  <2>3. ASSUME NEW s, SoundScript(s), todo' = [todo EXCEPT ![w] = s] PROVE IInv'
    BY <2>1, <2>3 DEF IInv
  <2>4. CASE /\ At(w, "set") \/ At(w, "unset")
             /\ todo' = [todo EXCEPT ![w] = o.else \o From(Tail(@), Tunnelling)]
    <3>1. Else(o.else) BY <2>2, <2>4 DEF Sound, At
    <3>2. SoundScript(o.else) BY <3>1, None, Plain DEF Else
    <3>3. SoundScript(o.else \o From(Tail(todo[w]), Tunnelling)) BY <2>2, <3>2, Cut, Joined
    <3> QED BY <2>3, <2>4, <3>3
  <2>5. CASE todo' = [todo EXCEPT ![w] = From(Tail(@), {"move", "strip", "sync"})]
    BY <2>2, <2>3, <2>5, Cut
  <2> QED BY <1>1, <2>4, <2>5 DEF WireGuardFails, Now
<1>2. CASE RestartFails(w) BY <1>2, Finishes DEF RestartFails, At
<1>3. CASE ResponseLost(w) BY <1>3, Finishes DEF ResponseLost, At
<1> QED BY <1>1, <1>2, <1>3 DEF Faults

LEMMA DevicesKeep == ASSUME IInv, Devices PROVE IInv'
<1> PICK r \in Routers : Boot(r) \/ RouterWifi(r) \/ ImportSerials(r) BY DEF Devices
<1>1. CASE Boot(r) BY <1>1 DEF IInv, Boot
<1>2. CASE RouterWifi(r) BY <1>2 DEF IInv, RouterWifi
<1>3. CASE ImportSerials(r) BY <1>3, RegisterKeeps DEF IInv, ImportSerials
<1> QED BY <1>1, <1>2, <1>3

-----------------------------------------------------------------------------
(* The theorem                                                             *)

LEMMA Initially == Init => IInv
<1> SUFFICES ASSUME Init PROVE IInv OBVIOUS
<1>1. \A r \in Mikrotiks : Paired(row[r]) BY DEF Init, Begin, Blank, Paired, Routers
<1>2. \A w \in Workers : SoundScript(todo[w]) BY None DEF Init, Begin
<1> QED BY <1>1, <1>2 DEF IInv, Init, Begin

LEMMA Steps == IInv /\ [Next]_vars => IInv'
<1> SUFFICES ASSUME IInv, [Next]_vars PROVE IInv' OBVIOUS
<1>1. CASE Devices BY <1>1, DevicesKeep
<1>2. ASSUME NEW w \in Workers, Request(w) \/ Statement(w) \/ Faults(w) PROVE IInv'
  BY <1>2, RequestKeeps, StatementKeeps, FaultsKeep
<1>3. CASE UNCHANGED vars BY <1>3 DEF IInv, vars
<1> QED BY <1>1, <1>2, <1>3 DEF Next

\* The key pair of a MikroTik is never mixed from two requests: a request saves
\* the pair it generated, the pair of the copy it loaded, or withdraws the key
\* (router_add, router_provision, router_remove, mark_available).
THEOREM PairsMatch == Spec => []KeyPairMatches
<1>1. IInv => KeyPairMatches BY DEF IInv, Paired, KeyPairMatches
<1> QED BY Initially, Steps, <1>1, PTL DEF Spec

-----------------------------------------------------------------------------
(* Types                                                                   *)

Owners == Resellers \cup {NoOne}
Statuses == {"unknown", "available", "pending", "provisioned", "failed"}
Names == {"owner", "key", "private", "ip", "secret", "needs", "settings", "shook", "status"}
Hows == {"api", "page", "phone"}
\* The columns of a write.
Kind(n, v) ==
  /\ n \in {"key", "private", "ip", "secret", "settings"} => v \in Nat
  /\ n \in {"needs", "shook"} => v \in BOOLEAN
  /\ n = "owner" => v \in Owners
  /\ n = "status" => v \in Statuses
Values == Owners \cup Nat \cup BOOLEAN \cup Statuses
Fields == {f \in UNION {[D -> Values] : D \in SUBSET Names} : \A n \in DOMAIN f : Kind(n, f[n])}
\* What may follow a peer change that raises, and the statements.
Elses == {<<>>} \cup {Write(r, [status |-> "failed"]) : r \in Routers}
Stmts ==
  [op : {"write"}, router : Routers, fields : Fields]
  \cup [op : {"allocate"}, router : Routers, copy : Rows, how : Hows]
  \cup [op : {"read", "strip", "restart"}]
  \cup [op : {"set"}, key : Nat, ip : Nat, else : Elses] \cup [op : {"unset"}, key : Nat, else : {<<>>}]
  \cup [op : {"move", "sync"}, peers : SUBSET Peers]
  \cup [op : {"respond"}, router : Routers, script : Scripts]
  \cup [op : {"nasdrop"}, ip : Nat] \cup [op : {"nasstale"}, router : Routers, ip : Nat]
  \cup [op : {"nasput"}, router : Routers, ip : Nat, secret : Nat]

TInv ==
  /\ row \in [Routers -> Rows]
  /\ nas \subseteq Clients /\ clients \subseteq Clients
  /\ kernel \subseteq Peers /\ file \subseteq Peers
  /\ device \in [Routers -> Scripts]
  /\ served \in 0..MaxRequests
  /\ todo \in [Workers -> Seq(Stmts)]

LEMMA FieldsIn ==
  ASSUME NEW D \in SUBSET Names, NEW f, f = [n \in D |-> f[n]], \A n \in D : Kind(n, f[n])
  PROVE  f \in Fields
<1>1. ASSUME NEW n \in D PROVE f[n] \in Values
  <2>1. n \in Names /\ Kind(n, f[n]) OBVIOUS
  <2> QED BY <2>1 DEF Names, Kind, Values
<1>2. f \in [D -> Values] /\ DOMAIN f = D BY <1>1
<1> QED BY <1>2 DEF Fields

LEMMA RowFields == ASSUME NEW c \in Rows PROVE c \in Fields
<1>1. DOMAIN c = Names /\ c = [n \in Names |-> c[n]] BY DEF Rows, Names
<1>2. ASSUME NEW n \in Names PROVE Kind(n, c[n])
  BY <1>2 DEF Rows, Names, Kind, Owners, Statuses
<1> QED BY <1>1, <1>2, FieldsIn

LEMMA Columns ==
  ASSUME NEW s \in Statuses, NEW n \in BOOLEAN, NEW h \in BOOLEAN, NEW k \in Nat, NEW o \in Owners
  PROVE  /\ <<>> \in Fields /\ [status |-> s] \in Fields /\ [needs |-> n] \in Fields
         /\ [status |-> s, needs |-> n] \in Fields /\ [settings |-> k, needs |-> n] \in Fields
         /\ [status |-> s, shook |-> h, needs |-> n] \in Fields
         /\ [key |-> k] \in Fields
         /\ [status |-> s, owner |-> o, key |-> 0, ip |-> 0, secret |-> 0] \in Fields
<1>1. <<>> \in Fields
  <2>1. DOMAIN <<>> = {} /\ <<>> = [n_1 \in {} |-> <<>>[n_1]] OBVIOUS
  <2> QED BY <2>1, FieldsIn
<1>2. [status |-> s] \in Fields
  <2> DEFINE f == [status |-> s]
  <2>1. {"status"} \in SUBSET Names /\ f = [i \in {"status"} |-> f[i]] BY DEF Names
  <2>2. \A i \in {"status"} : Kind(i, f[i]) BY DEF Kind
  <2> HIDE DEF f
  <2>3. f \in Fields BY <2>1, <2>2, FieldsIn
  <2> QED BY <2>3 DEF f
<1>3. [needs |-> n] \in Fields
  <2> DEFINE f == [needs |-> n]
  <2>1. {"needs"} \in SUBSET Names /\ f = [i \in {"needs"} |-> f[i]] BY DEF Names
  <2>2. \A i \in {"needs"} : Kind(i, f[i]) BY DEF Kind
  <2> HIDE DEF f
  <2>3. f \in Fields BY <2>1, <2>2, FieldsIn
  <2> QED BY <2>3 DEF f
<1>4. [status |-> s, needs |-> n] \in Fields
  <2> DEFINE f == [status |-> s, needs |-> n]
  <2>1. {"status", "needs"} \in SUBSET Names /\ f = [i \in {"status", "needs"} |-> f[i]] BY DEF Names
  <2>2. \A i \in {"status", "needs"} : Kind(i, f[i]) BY DEF Kind
  <2> HIDE DEF f
  <2>3. f \in Fields BY <2>1, <2>2, FieldsIn
  <2> QED BY <2>3 DEF f
<1>5. [settings |-> k, needs |-> n] \in Fields
  <2> DEFINE f == [settings |-> k, needs |-> n]
  <2>1. {"settings", "needs"} \in SUBSET Names /\ f = [i \in {"settings", "needs"} |-> f[i]] BY DEF Names
  <2>2. \A i \in {"settings", "needs"} : Kind(i, f[i]) BY DEF Kind
  <2> HIDE DEF f
  <2>3. f \in Fields BY <2>1, <2>2, FieldsIn
  <2> QED BY <2>3 DEF f
<1>6. [status |-> s, shook |-> h, needs |-> n] \in Fields
  <2> DEFINE f == [status |-> s, shook |-> h, needs |-> n]
             D == {"status", "shook", "needs"}
  <2>1. D \in SUBSET Names /\ f = [i \in D |-> f[i]] BY DEF Names
  <2>2. \A i \in D : Kind(i, f[i]) BY DEF Kind
  <2> HIDE DEF f, D
  <2>3. f \in Fields BY <2>1, <2>2, FieldsIn
  <2> QED BY <2>3 DEF f
<1>7. [key |-> k] \in Fields
  <2> DEFINE f == [key |-> k]
  <2>1. {"key"} \in SUBSET Names /\ f = [i \in {"key"} |-> f[i]] BY DEF Names
  <2>2. \A i \in {"key"} : Kind(i, f[i]) BY DEF Kind
  <2> HIDE DEF f
  <2>3. f \in Fields BY <2>1, <2>2, FieldsIn
  <2> QED BY <2>3 DEF f
<1>8. [status |-> s, owner |-> o, key |-> 0, ip |-> 0, secret |-> 0] \in Fields
  <2> DEFINE f == [status |-> s, owner |-> o, key |-> 0, ip |-> 0, secret |-> 0]
             D == {"status", "owner", "key", "ip", "secret"}
  <2>1. D \in SUBSET Names /\ f = [i \in D |-> f[i]] BY DEF Names
  <2>2. \A i \in D : Kind(i, f[i]) BY DEF Kind
  <2> HIDE DEF f, D
  <2>3. f \in Fields BY <2>1, <2>2, FieldsIn
  <2> QED BY <2>3 DEF f
<1> QED BY <1>1, <1>2, <1>3, <1>4, <1>5, <1>6, <1>7, <1>8

\* A heartbeat's columns with the key.
Keyed(f, k) == [n \in {"key"} \cup DOMAIN f |-> IF n = "key" THEN k ELSE f[n]]
LEMMA KeyedColumns == ASSUME NEW f \in Fields, NEW k \in Nat PROVE Keyed(f, k) \in Fields
<1> DEFINE h == Keyed(f, k)
           D == {"key"} \cup DOMAIN f
<1>1. D \in SUBSET Names BY DEF Fields, Names
<1>2. h = [n \in D |-> IF n = "key" THEN k ELSE f[n]] BY DEF Keyed
<1> HIDE DEF h
<1>3. \A n \in D : Kind(n, h[n])
  <2>1. \A n \in DOMAIN f : Kind(n, f[n]) BY DEF Fields
  <2>2. Kind("key", k) BY DEF Kind
  <2> QED BY <1>2, <2>1, <2>2
<1>4. h = [n \in D |-> h[n]] BY <1>2
<1> HIDE DEF D
<1>5. h \in Fields BY <1>1, <1>3, <1>4, FieldsIn
<1> QED BY <1>5 DEF h

\* Each statement is one, given what it is made of.
LEMMA Words ==
  ASSUME NEW r \in Routers, NEW k \in Nat, NEW i \in Nat
  PROVE  /\ \A f \in Fields : [op |-> "write", router |-> r, fields |-> f] \in Stmts
         /\ \A c \in Rows, h \in Hows : [op |-> "allocate", router |-> r, copy |-> c, how |-> h] \in Stmts
         /\ [op |-> "read"] \in Stmts /\ [op |-> "strip"] \in Stmts /\ [op |-> "restart"] \in Stmts
         /\ \A e \in Elses : [op |-> "set", key |-> k, ip |-> i, else |-> e] \in Stmts
         /\ [op |-> "unset", key |-> k, else |-> <<>>] \in Stmts
         /\ \A p \in SUBSET Peers : [op |-> "move", peers |-> p] \in Stmts /\ [op |-> "sync", peers |-> p] \in Stmts
         /\ \A s \in Scripts : [op |-> "respond", router |-> r, script |-> s] \in Stmts
         /\ [op |-> "nasdrop", ip |-> i] \in Stmts /\ [op |-> "nasstale", router |-> r, ip |-> i] \in Stmts
         /\ [op |-> "nasput", router |-> r, ip |-> i, secret |-> k] \in Stmts
<1>1. \A f \in Fields : [op |-> "write", router |-> r, fields |-> f] \in Stmts BY DEF Stmts
<1>2. \A c \in Rows, h \in Hows : [op |-> "allocate", router |-> r, copy |-> c, how |-> h] \in Stmts
  BY DEF Stmts
<1>3. [op |-> "read"] \in Stmts /\ [op |-> "strip"] \in Stmts /\ [op |-> "restart"] \in Stmts BY DEF Stmts
<1>4. \A e \in Elses : [op |-> "set", key |-> k, ip |-> i, else |-> e] \in Stmts BY DEF Stmts
<1>5. [op |-> "unset", key |-> k, else |-> <<>>] \in Stmts BY DEF Stmts
<1>6. \A p \in SUBSET Peers : [op |-> "move", peers |-> p] \in Stmts /\ [op |-> "sync", peers |-> p] \in Stmts
  BY DEF Stmts
<1>7. \A s \in Scripts : [op |-> "respond", router |-> r, script |-> s] \in Stmts BY DEF Stmts
<1>8. [op |-> "nasdrop", ip |-> i] \in Stmts /\ [op |-> "nasstale", router |-> r, ip |-> i] \in Stmts BY DEF Stmts
<1>9. [op |-> "nasput", router |-> r, ip |-> i, secret |-> k] \in Stmts BY DEF Stmts
<1> QED BY <1>1, <1>2, <1>3, <1>4, <1>5, <1>6, <1>7, <1>8, <1>9

\* And what a statement is made of.
LEMMA Parts ==
  ASSUME NEW o \in Stmts
  PROVE  /\ o.op = "write" => o.router \in Routers /\ o.fields \in Fields
         /\ o.op = "allocate" => o.router \in Routers /\ o.copy \in Rows /\ o.how \in Hows
         /\ o.op = "set" => o.key \in Nat /\ o.ip \in Nat /\ o.else \in Elses
         /\ o.op = "unset" => o.key \in Nat /\ o.else = <<>>
         /\ o.op \in {"move", "sync"} => o.peers \subseteq Peers
         /\ o.op = "respond" => o.router \in Routers /\ o.script \in Scripts
         /\ o.op = "nasdrop" => o.ip \in Nat
         /\ o.op = "nasstale" => o.router \in Routers /\ o.ip \in Nat
         /\ o.op = "nasput" => o.router \in Routers /\ o.ip \in Nat /\ o.secret \in Nat
         /\ o.op \in {"write", "allocate", "read", "strip", "restart", "set", "unset", "move", "sync",
                      "respond", "nasdrop", "nasstale", "nasput"}
<1>1. o.op = "write" => o.router \in Routers /\ o.fields \in Fields BY DEF Stmts
<1>2. o.op = "allocate" => o.router \in Routers /\ o.copy \in Rows /\ o.how \in Hows BY DEF Stmts
<1>3. o.op = "set" => o.key \in Nat /\ o.ip \in Nat /\ o.else \in Elses BY DEF Stmts
<1>4. o.op = "unset" => o.key \in Nat /\ o.else = <<>> BY DEF Stmts
<1>5. o.op \in {"move", "sync"} => o.peers \subseteq Peers BY DEF Stmts
<1>6. o.op = "respond" => o.router \in Routers /\ o.script \in Scripts BY DEF Stmts
<1>7. o.op = "nasdrop" => o.ip \in Nat BY DEF Stmts
<1>8. o.op = "nasstale" => o.router \in Routers /\ o.ip \in Nat BY DEF Stmts
<1>9. o.op = "nasput" => o.router \in Routers /\ o.ip \in Nat /\ o.secret \in Nat BY DEF Stmts
<1>10. o.op \in {"write", "allocate", "read", "strip", "restart", "set", "unset", "move", "sync",
                 "respond", "nasdrop", "nasstale", "nasput"}
  BY DEF Stmts
<1> QED BY <1>1, <1>2, <1>3, <1>4, <1>5, <1>6, <1>7, <1>8, <1>9, <1>10

LEMMA Chained == ASSUME NEW S, NEW s \in Seq(S), NEW t \in Seq(S) PROVE s \o t \in Seq(S)
OBVIOUS
LEMMA Regroup == \A s, t, u \in Seq(Stmts) : (s \o t) \o u = s \o (t \o u)
OBVIOUS
LEMMA Only == ASSUME NEW S, NEW o \in S PROVE <<o>> \in Seq(S)
OBVIOUS
LEMMA Both == ASSUME NEW S, NEW o \in S, NEW p \in S PROVE <<o, p>> \in Seq(S)
OBVIOUS
LEMMA All3 == ASSUME NEW S, NEW o \in S, NEW p \in S, NEW q \in S PROVE <<o, p, q>> \in Seq(S)
OBVIOUS
LEMMA Wider == ASSUME NEW S, NEW T, S \subseteq T PROVE Seq(S) \subseteq Seq(T)
BY SeqMonotonic
LEMMA Empty == \A S : <<>> \in Seq(S)
OBVIOUS

\* The peer calls of a script, and the restart.
Tunnels == {o \in Stmts : o.op \in Tunnelling}
LEMMA PeerCalls ==
  /\ Read \in Seq(Tunnels)
  /\ Routers # {} => \A k \in Nat : Unset(k) \in Seq(Tunnels)
  /\ Routers # {} => \A k, i \in Nat, e \in Elses : Set(k, i, e) \in Seq(Tunnels)
<1>0. [op |-> "read"] \in Tunnels BY DEF Tunnels, Stmts, Tunnelling
<1>1. Read \in Seq(Tunnels) BY <1>0, Only DEF Read
<1>2. ASSUME NEW r \in Routers, NEW k \in Nat PROVE Unset(k) \in Seq(Tunnels)
  <2>1. [op |-> "unset", key |-> k, else |-> <<>>] \in Tunnels BY Words DEF Tunnels, Tunnelling
  <2>2. <<[op |-> "unset", key |-> k, else |-> <<>>]>> \o Read \in Seq(Tunnels)
    BY <2>1, <1>1, Only, Chained
  <2> QED BY <2>2, Empty DEF Unset
<1>3. ASSUME NEW r \in Routers, NEW k \in Nat, NEW i \in Nat, NEW e \in Elses PROVE Set(k, i, e) \in Seq(Tunnels)
  <2>1. [op |-> "set", key |-> k, ip |-> i, else |-> e] \in Tunnels BY Words DEF Tunnels, Tunnelling
  <2> QED BY <2>1, <1>1, Only, Chained DEF Set
<1> QED BY <1>1, <1>2, <1>3

LEMMA Pieces ==
  ASSUME NEW r \in Routers
  PROVE  /\ \A f \in Fields : Write(r, f) \in Seq(Stmts)
         /\ \A c \in Rows, h \in Hows : Allocate(r, c, h) \in Seq(Stmts)
         /\ Read \in Seq(Stmts) /\ \A k \in Nat : Unset(k) \in Seq(Stmts)
         /\ \A k, i \in Nat, e \in Elses : Set(k, i, e) \in Seq(Stmts)
         /\ \A s \in Scripts : Respond(r, s) \in Seq(Stmts)
         /\ \A i \in Nat : NasDrop(i) \in Seq(Stmts)
         /\ \A c \in Rows : Nas(r, c) \in Seq(Stmts) /\ Script(c) \in Scripts
<1>1. ASSUME NEW f \in Fields PROVE Write(r, f) \in Seq(Stmts) BY Words, Only DEF Write
<1>2. ASSUME NEW c \in Rows, NEW h \in Hows PROVE Allocate(r, c, h) \in Seq(Stmts) BY Words, Only DEF Allocate
<1>3. Seq(Tunnels) \subseteq Seq(Stmts) BY Wider DEF Tunnels
<1>4. ASSUME NEW s \in Scripts PROVE Respond(r, s) \in Seq(Stmts) BY Words, Only DEF Respond
<1>5. ASSUME NEW i \in Nat PROVE NasDrop(i) \in Seq(Stmts)
  <2>1. [op |-> "nasdrop", ip |-> i] \in Stmts /\ [op |-> "restart"] \in Stmts BY Words
  <2> QED BY <2>1, Both DEF NasDrop
<1>6. ASSUME NEW c \in Rows PROVE Nas(r, c) \in Seq(Stmts) /\ Script(c) \in Scripts
  <2>1. c.ip \in Nat /\ c.secret \in Nat BY DEF Rows
  <2>2. /\ [op |-> "nasstale", router |-> r, ip |-> c.ip] \in Stmts /\ [op |-> "restart"] \in Stmts
        /\ [op |-> "nasput", router |-> r, ip |-> c.ip, secret |-> c.secret] \in Stmts
    BY <2>1, Words
  <2>3. Nas(r, c) \in Seq(Stmts) BY <2>2, All3 DEF Nas
  <2>4. Script(c) \in Scripts BY DEF Script, Scripts, Rows
  <2> QED BY <2>3, <2>4
<1> QED BY <1>1, <1>2, <1>3, <1>4, <1>5, <1>6, PeerCalls

\* Copies of a row.
LEMMA CopyRows ==
  ASSUME NEW c \in Rows, NEW o \in Owners, NEW k \in Nat, NEW s \in Statuses
  PROVE  /\ [c EXCEPT !.owner = o, !.status = s] \in Rows /\ [c EXCEPT !.secret = k] \in Rows
         /\ [c EXCEPT !.ip = k] \in Rows /\ [c EXCEPT !.key = k] \in Rows
         /\ [c EXCEPT !.status = s] \in Rows /\ [c EXCEPT !.secret = k, !.status = s] \in Rows
         /\ [c EXCEPT !.key = k, !.private = k, !.secret = k] \in Rows
         /\ [c EXCEPT !.owner = o, !.status = s, !.secret = k] \in Rows
BY DEF Rows, Owners, Statuses

LEMMA BlankRow == Blank \in Rows /\ [Blank EXCEPT !.status = "available"] \in Rows
BY DEF Blank, Rows

LEMMA RowOf == ASSUME TInv, NEW r \in Routers PROVE row[r] \in Rows /\ Registered(r) \in Rows
BY BlankRow DEF TInv, Registered

LEMMA FreshNat == ASSUME TInv PROVE Fresh \in Nat /\ served \in Nat
BY BoundAssumption DEF TInv, Fresh

\* A finite, non-empty set of numbers has a greatest element.
LEMMA GreatestOf ==
  ASSUME NEW S, IsFiniteSet(S), S \subseteq Nat, S # {} PROVE Max(S) \in S /\ \A i \in S : i <= Max(S)
<1> DEFINE Topped(A) == \E g \in A : \A i \in A : i <= g
           Bad == {n \in Nat : \E A \in SUBSET S : A # {} /\ Cardinality(A) = n /\ ~Topped(A)}
<1>1. Bad = {}
  <2>1. SUFFICES ASSUME Bad # {} PROVE FALSE OBVIOUS
  <2>2. Bad \subseteq Nat OBVIOUS
  <2>3. PICK n \in Bad : \A k \in Bad : n <= k BY ONLY <2>1, <2>2, Lowest
  <2>4. PICK A \in SUBSET S : A # {} /\ Cardinality(A) = n /\ ~Topped(A) OBVIOUS
  <2>5. PICK a : a \in A BY <2>4
  <2>6. PICK B : B = A \ {a} OBVIOUS
  <2>7. IsFiniteSet(A) BY FS_Subset
  <2>8. Cardinality(B) = n - 1 /\ n - 1 \in Nat
    <3>1. Cardinality(B) = Cardinality(A) - 1 BY <2>5, <2>6, <2>7, FS_RemoveElement
    <3>2. IsFiniteSet(B) BY <2>6, <2>7, FS_Subset
    <3> QED BY <2>4, <3>1, <3>2, FS_CardinalityType
  <2>9. B = {} \/ Topped(B)
    <3>1. n - 1 \notin Bad BY <2>2, <2>3, <2>8
    <3>2. B \in SUBSET S BY <2>6
    <3> QED BY <2>8, <3>1, <3>2
  <2>10. CASE B = {}
    <3>1. A = {a} /\ a \in Nat BY <2>5, <2>6, <2>10
    <3> QED BY <2>4, <3>1
  <2>11. CASE Topped(B)
    <3>1. PICK g \in B : \A i \in B : i <= g BY <2>11
    <3>2. g \in Nat /\ a \in Nat /\ g \in A /\ \A i \in A : i = a \/ i \in B BY <2>5, <2>6
    <3>3. CASE a <= g BY <2>4, <3>1, <3>2, <3>3
    <3>4. CASE g < a
      <4>1. \A i \in A : i <= a
        <5>1. \A i \in A : i \in Nat OBVIOUS
        <5> QED BY <3>1, <3>2, <3>4, <5>1
      <4> QED BY <2>4, <2>5, <4>1
    <3> QED BY <3>2, <3>3, <3>4
  <2> QED BY <2>9, <2>10, <2>11
<1>2. Topped(S)
  <2>1. Cardinality(S) \in Nat BY FS_CardinalityType
  <2>2. Cardinality(S) \notin Bad BY <1>1
  <2> QED BY <2>1, <2>2
<1>3. \E g \in S : \A i \in S : g >= i BY <1>2
<1> QED BY <1>3 DEF Max

\* The address that is handed out is no row's.
LEMMA NextApart ==
  ASSUME TInv PROVE NextAddress \in Nat \ {0} /\ \A r \in Routers : row[r].ip # NextAddress
<1> DEFINE S == Addresses \cup {0}
<1>1. IsFiniteSet(Routers) BY DeviceAssumption DEF Routers
<1>2. IsFiniteSet(Addresses)
  <2> DEFINE f == [r \in Routers |-> row[r].ip]
  <2>1. f \in Surjection(Routers, Addresses) BY DEF Surjection, Addresses
  <2> QED BY <1>1, <2>1, FS_Surjection
<1>3. IsFiniteSet(S) BY <1>2, FS_AddElement
<1>4. S \subseteq Nat /\ S # {} /\ \A r \in Routers : row[r].ip \in S BY RowOf DEF Addresses, Rows
<1>5. Max(S) \in S /\ \A i \in S : i <= Max(S) BY <1>3, <1>4, GreatestOf
<1>6. NextAddress = Max(S) + 1 BY DEF NextAddress
<1> HIDE DEF S
<1>7. Max(S) \in Nat BY <1>4, <1>5
<1>8. ASSUME NEW r \in Routers PROVE row[r].ip # NextAddress
  <2>1. row[r].ip \in S /\ row[r].ip \in Nat /\ row[r].ip <= Max(S) BY <1>4, <1>5
  <2> QED BY <1>6, <1>7, <2>1
<1> QED BY <1>6, <1>7, <1>8

-----------------------------------------------------------------------------
(* Every step keeps the types                                              *)

LEMMA TypedDeliver == ASSUME NEW r \in Routers, NEW c \in Rows PROVE Deliver(r, c) \in Seq(Stmts)
<1> DEFINE d == [c EXCEPT !.status = "provisioned"]
<1>1. d \in Rows BY DEF Rows
<1> HIDE DEF d
<1>2. Write(r, d) \in Seq(Stmts) /\ Respond(r, Script(d)) \in Seq(Stmts) BY <1>1, RowFields, Pieces
<1>3. Write(r, d) \o Respond(r, Script(d)) \in Seq(Stmts) BY <1>2, Chained
<1> QED BY <1>3 DEF Deliver, d

LEMMA TypedAnswer ==
  ASSUME NEW r \in Routers, NEW c \in Rows, NEW f \in Fields
  PROVE  Write(r, f) \o Respond(r, Script(c)) \in Seq(Stmts)
<1>1. Write(r, f) \in Seq(Stmts) /\ Respond(r, Script(c)) \in Seq(Stmts) BY Pieces
<1> QED BY <1>1, Chained

LEMMA TypedCredentialed ==
  ASSUME NEW r \in Routers, NEW c \in Rows, NEW how PROVE Credentialed(r, c, how) \in Seq(Stmts)
<1> DEFINE failed == IF how = "api" THEN Write(r, [status |-> "failed"]) ELSE <<>>
           else == IF r \in Mikrotiks THEN failed ELSE <<>>
           peer == IF c.key = 0 THEN <<>> ELSE Set(c.key, c.ip, else)
           both == IF r \in Mikrotiks \/ how = "page" THEN Nas(r, c) \o peer ELSE peer \o Nas(r, c)
           last == IF how # "phone" THEN <<>>
                   ELSE IF r \in Mikrotiks THEN Deliver(r, c)
                   ELSE Write(r, [status |-> "provisioned"]) \o Respond(r, Script(c))
<1>0. c.key \in Nat /\ c.ip \in Nat BY DEF Rows
<1>1. else \in Elses BY DEF Elses
<1> HIDE DEF else
<1>2. peer \in Seq(Stmts) BY <1>0, <1>1, Pieces, Empty
<1> HIDE DEF peer
<1>3. Nas(r, c) \in Seq(Stmts) BY Pieces
<1>4. both \in Seq(Stmts) BY <1>2, <1>3, Chained
<1> HIDE DEF both
<1>5. [status |-> "provisioned"] \in Fields BY Columns DEF Statuses, Owners
<1>6. last \in Seq(Stmts)
  <2>1. Write(r, [status |-> "provisioned"]) \o Respond(r, Script(c)) \in Seq(Stmts) BY <1>5, TypedAnswer
  <2> QED BY <2>1, TypedDeliver, Empty
<1> HIDE DEF last
<1>7. Write(r, c) \in Seq(Stmts) BY RowFields, Pieces
<1>8. (Write(r, c) \o both) \o last \in Seq(Stmts) BY <1>4, <1>6, <1>7, Chained
<1>9. Credentialed(r, c, how) = (Write(r, c) \o both) \o last
  BY DEF Credentialed, both, last, peer, else
<1> QED BY <1>8, <1>9

LEMMA TypedLoad ==
  ASSUME TInv, NEW w \in Workers, NEW s \in Seq(Stmts), Load(w, s) \/ Serve(w, s),
         row' \in [Routers -> Rows], UNCHANGED <<nas, clients, wireguard, device>>, Serve(w, s) \/ Unserved
  PROVE  TInv'
<1>1. todo' \in [Workers -> Seq(Stmts)] BY DEF TInv, Load, Serve
<1>2. served' \in 0..MaxRequests BY BoundAssumption DEF TInv, Serve, Unserved, Fresh
<1> QED BY <1>1, <1>2 DEF TInv, wireguard

LEMMA TypedUntouched ==
  ASSUME TInv, NEW w \in Workers, NEW s \in Seq(Stmts), Serve(w, s) \/ (Load(w, s) /\ Unserved), Untouched
  PROVE  TInv'
BY TypedLoad DEF Untouched, TInv

LEMMA TypedRegister ==
  ASSUME TInv, NEW r \in Routers, Register(r) PROVE row' \in [Routers -> Rows]
BY RowOf DEF TInv, Register

LEMMA TypedClaims == ASSUME TInv, NEW w \in Workers, Claims(w) PROVE TInv'
<1> PICK r \in Routers, o \in Resellers :
      RouterAdd(w, r, o) \/ HandleMikrotikAdd(w, r, o) \/ HandleOpenwrtAdd(w, r, o)
  BY DEF Claims
<1> DEFINE mine(d) == [d EXCEPT !.owner = o, !.status = "pending"]
<1>0. row[r] \in Rows /\ Fresh \in Nat /\ o \in Owners /\ "pending" \in Statuses
  BY RowOf, FreshNat DEF Owners, Statuses
<1>1. \A d \in Rows : mine(d) \in Rows
  <2>1. ASSUME NEW d \in Rows PROVE mine(d) \in Rows BY <1>0, CopyRows
  <2> HIDE DEF mine
  <2> QED BY <2>1, Zenon
<1>2. Generated(row[r]) \in Rows BY <1>0, CopyRows DEF Generated
<1>3. \A d \in Rows, h \in Hows : Allocate(r, d, h) \in Seq(Stmts) BY Pieces
<1>4. CASE RouterAdd(w, r, o)
  <2> DEFINE keyed == mine([row[r] EXCEPT !.secret = IF @ = 0 THEN Fresh ELSE @])
             script == Write(r, keyed) \o Set(row[r].key, row[r].ip, <<>>) \o Nas(r, keyed)
  <2>1. row[r].secret \in Nat /\ row[r].key \in Nat /\ row[r].ip \in Nat BY <1>0 DEF Rows
  <2>2. PICK k \in Nat : k = IF row[r].secret = 0 THEN Fresh ELSE row[r].secret BY <1>0, <2>1
  <2>3. keyed \in Rows
    <3>1. [row[r] EXCEPT !.secret = k] \in Rows BY <1>0, CopyRows
    <3> QED BY <1>1, <2>2, <3>1
  <2>4. Untouched /\ \/ Serve(w, Allocate(r, mine(Generated(row[r])), "api"))
                     \/ Serve(w, Allocate(r, keyed, "api")) \/ Serve(w, script)
    BY <1>4 DEF RouterAdd
  <2> HIDE DEF keyed
  <2>5. script \in Seq(Stmts)
    <3>1. Write(r, keyed) \in Seq(Stmts) /\ Nas(r, keyed) \in Seq(Stmts) BY <2>3, RowFields, Pieces
    <3>2. Set(row[r].key, row[r].ip, <<>>) \in Seq(Stmts) BY <2>1, Pieces DEF Elses
    <3> QED BY <3>1, <3>2, Chained
  <2>6. Allocate(r, mine(Generated(row[r])), "api") \in Seq(Stmts) /\ Allocate(r, keyed, "api") \in Seq(Stmts)
    BY <1>1, <1>2, <1>3, <2>3 DEF Hows
  <2> HIDE DEF script, mine
  <2> QED BY <2>4, <2>5, <2>6, TypedUntouched
<1>5. CASE HandleMikrotikAdd(w, r, o)
  <2>1. Allocate(r, mine(Generated(row[r])), "page") \in Seq(Stmts) BY <1>1, <1>2, <1>3 DEF Hows
  <2> QED BY <1>5, <2>1, TypedUntouched DEF HandleMikrotikAdd
<1>6. CASE HandleOpenwrtAdd(w, r, o)
  <2>1. PICK d : d = [row[r] EXCEPT !.owner = o, !.status = "pending", !.secret = Fresh] BY Zenon
  <2>2. d \in Rows BY <1>0, <2>1, CopyRows
  <2>3. Allocate(r, d, "page") \in Seq(Stmts) BY <1>3, <2>2 DEF Hows
  <2>4. Serve(w, Allocate(r, d, "page")) /\ Untouched BY <1>6, <2>1 DEF HandleOpenwrtAdd
  <2> QED BY <2>3, <2>4, TypedUntouched
<1> QED BY <1>4, <1>5, <1>6

\* What router_remove saves.
Given(c) == [Blank EXCEPT !.status = "available", !.needs = c.needs, !.settings = c.settings, !.shook = c.shook]
LEMMA TypedReleases == ASSUME TInv, NEW w \in Workers, Releases(w) PROVE TInv'
<1> PICK r \in Routers : RouterRemove(w, r) \/ MarkAvailable(w, r) BY DEF Releases
<1>0. row[r] \in Rows BY RowOf
<1>1. CASE RouterRemove(w, r)
  <2> DEFINE drop == IF row[r].ip = 0 THEN <<>> ELSE NasDrop(row[r].ip)
  <2>1. Given(row[r]) \in Rows BY <1>0 DEF Given, Blank, Rows
  <2>2. Write(r, Given(row[r])) \in Seq(Stmts) BY <2>1, RowFields, Pieces
  <2>3. drop \in Seq(Stmts) /\ Unset(row[r].key) \in Seq(Stmts) BY <1>0, Pieces, Empty DEF Rows
  <2> HIDE DEF drop
  <2>4. (Unset(row[r].key) \o drop) \o Write(r, Given(row[r])) \in Seq(Stmts) BY <2>2, <2>3, Chained
  <2>5. Load(w, (Unset(row[r].key) \o drop) \o Write(r, Given(row[r]))) /\ Unserved /\ Untouched
    BY <1>1 DEF RouterRemove, drop, Given
  <2> QED BY <2>4, <2>5, TypedUntouched
<1>2. CASE MarkAvailable(w, r)
  <2> DEFINE f == [status |-> "available", owner |-> NoOne, key |-> 0, ip |-> 0, secret |-> 0]
  <2>1. f \in Fields BY Columns DEF Statuses, Owners
  <2> HIDE DEF f
  <2>2. Write(r, f) \in Seq(Stmts) /\ Unset(row[r].key) \in Seq(Stmts) BY <1>0, <2>1, Pieces DEF Rows
  <2>3. Unset(row[r].key) \o Write(r, f) \in Seq(Stmts) BY <2>2, Chained
  <2>4. Load(w, Unset(row[r].key) \o Write(r, f)) /\ Unserved /\ Untouched BY <1>2 DEF MarkAvailable, f
  <2> QED BY <2>3, <2>4, TypedUntouched
<1> QED BY <1>1, <1>2

LEMMA TypedSettles == ASSUME TInv, NEW w \in Workers, Settles(w) PROVE TInv'
<1> PICK r \in Routers : WifiConfig(w, r) \/ Topology(w, r) \/ Redeploy(w, r) BY DEF Settles
<1>0. [settings |-> Fresh, needs |-> TRUE] \in Fields /\ [needs |-> TRUE] \in Fields
  BY FreshNat, Columns DEF Statuses, Owners
<1>1. Write(r, [settings |-> Fresh, needs |-> TRUE]) \in Seq(Stmts) /\ Write(r, [needs |-> TRUE]) \in Seq(Stmts)
  BY <1>0, Pieces
<1>2. CASE WifiConfig(w, r) BY <1>1, <1>2, TypedUntouched DEF WifiConfig
<1>3. CASE Topology(w, r) BY <1>1, <1>3, TypedUntouched DEF Topology
<1>4. CASE Redeploy(w, r) BY <1>1, <1>4, TypedUntouched DEF Redeploy
<1> QED BY <1>2, <1>3, <1>4

LEMMA TypedSeen == ASSUME NEW c, NEW f \in Seen(c) PROVE f \in Fields
<1>1. f = <<>> \/ f = [status |-> "provisioned"] BY DEF Seen
<1> QED BY <1>1, Columns DEF Statuses, Owners

LEMMA TypedSwap == ASSUME NEW r \in Routers, NEW c \in Rows, NEW k \in Nat PROVE Swap(c, k) \in Seq(Stmts)
<1>1. Unset(c.key) \in Seq(Stmts) /\ Set(k, c.ip, <<>>) \in Seq(Stmts) BY Pieces DEF Rows, Elses
<1>2. Unset(c.key) \o Set(k, c.ip, <<>>) \in Seq(Stmts) BY <1>1, Chained
<1> QED BY <1>2, Empty DEF Swap

LEMMA Online == /\ [status |-> "provisioned"] \in Fields /\ [status |-> "provisioned", needs |-> FALSE] \in Fields
BY Columns DEF Statuses, Owners

\* The scripts of the two heartbeats.
Beat(r, c, f) ==
  Write(r, f) \o (IF c.owner # NoOne /\ (c.status = "pending" \/ c.needs) /\ c.private # 0
                  THEN Write(r, [status |-> "provisioned", needs |-> FALSE]) \o Respond(r, Script(c))
                  ELSE <<>>)
Answer(r, d) == Write(r, [status |-> "provisioned"]) \o Respond(r, Script(d))
Rekey(c, k) == [c EXCEPT !.key = k]
BeatOpen(r, c, k, f) ==
  ((IF k # c.key THEN Swap(c, k) ELSE <<>>) \o Write(r, IF k # c.key THEN Keyed(f, k) ELSE f))
  \o (IF Rekey(c, k).owner # NoOne /\ Rekey(c, k).status = "pending" THEN Answer(r, Rekey(c, k)) ELSE <<>>)

LEMMA BeatLoads ==
  ASSUME NEW w, NEW r, HeartbeatMikrotik(w, r)
  PROVE  /\ \E f \in Seen(row[r]) : Load(w, Beat(r, row[r], f))
         /\ r \in Mikrotiks /\ Unserved /\ Untouched
BY DEF HeartbeatMikrotik, Beat

LEMMA BeatOpenLoads ==
  ASSUME NEW w, NEW r, HeartbeatOpenwrt(w, r)
  PROVE  /\ \E f \in Seen(Registered(r)) : Load(w, BeatOpen(r, Registered(r), device[r].key, f))
         /\ r \in OpenWrts /\ Unserved /\ Register(r) /\ device[r].key # 0
         /\ UNCHANGED <<nas, clients, wireguard, device>>
BY DEF HeartbeatOpenwrt, BeatOpen, Keyed, Answer, Rekey

LEMMA TypedBeat ==
  ASSUME NEW r \in Routers, NEW c \in Rows, NEW f \in Fields PROVE Beat(r, c, f) \in Seq(Stmts)
<1> DEFINE t == IF c.owner # NoOne /\ (c.status = "pending" \/ c.needs) /\ c.private # 0
                THEN Write(r, [status |-> "provisioned", needs |-> FALSE]) \o Respond(r, Script(c)) ELSE <<>>
<1>1. t \in Seq(Stmts) BY Online, TypedAnswer, Empty
<1> HIDE DEF t
<1>2. Write(r, f) \in Seq(Stmts) BY Pieces
<1>3. Write(r, f) \o t \in Seq(Stmts) BY <1>1, <1>2, Chained
<1> QED BY <1>3 DEF Beat, t

LEMMA TypedBeatOpen ==
  ASSUME NEW r \in Routers, NEW c \in Rows, NEW k \in Nat, NEW f \in Fields PROVE BeatOpen(r, c, k, f) \in Seq(Stmts)
<1> DEFINE g == IF k # c.key THEN Keyed(f, k) ELSE f
           p == IF k # c.key THEN Swap(c, k) ELSE <<>>
           t == IF Rekey(c, k).owner # NoOne /\ Rekey(c, k).status = "pending" THEN Answer(r, Rekey(c, k)) ELSE <<>>
<1>1. g \in Fields BY KeyedColumns
<1>2. p \in Seq(Stmts) BY TypedSwap, Empty
<1>3. Rekey(c, k) \in Rows BY DEF Rekey, Rows
<1>4. Answer(r, Rekey(c, k)) \in Seq(Stmts) BY <1>3, Online, TypedAnswer DEF Answer
<1>5. t \in Seq(Stmts) BY <1>4, Empty
<1> HIDE DEF g, p, t
<1>6. Write(r, g) \in Seq(Stmts) BY <1>1, Pieces
<1>7. (p \o Write(r, g)) \o t \in Seq(Stmts) BY <1>2, <1>5, <1>6, Chained
<1> QED BY <1>7 DEF BeatOpen, p, g, t

LEMMA KeyNat == ASSUME TInv, NEW r \in Routers PROVE device[r].key \in Nat
BY DEF TInv, Scripts

LEMMA InRouters == \A r : r \in Mikrotiks \/ r \in OpenWrts => r \in Routers
BY DEF Routers

LEMMA TypedHeartbeats == ASSUME TInv, NEW w \in Workers, Heartbeats(w) PROVE TInv'
<1> PICK r \in Routers : HeartbeatMikrotik(w, r) \/ HeartbeatOpenwrt(w, r) BY DEF Heartbeats
<1>1. CASE HeartbeatMikrotik(w, r)
  <2>1. PICK f \in Seen(row[r]) : Load(w, Beat(r, row[r], f)) BY <1>1, BeatLoads
  <2>2. Unserved /\ Untouched BY <1>1, BeatLoads
  <2>3. row[r] \in Rows /\ f \in Fields BY RowOf, TypedSeen
  <2>4. Beat(r, row[r], f) \in Seq(Stmts) BY <2>3, TypedBeat
  <2> QED BY <2>1, <2>2, <2>4, TypedUntouched
<1>2. CASE HeartbeatOpenwrt(w, r)
  <2>1. PICK c, k : c = Registered(r) /\ k = device[r].key OBVIOUS
  <2>2. PICK f \in Seen(c) : Load(w, BeatOpen(r, c, k, f)) BY <1>2, <2>1, BeatOpenLoads
  <2>3. Unserved /\ Register(r) /\ UNCHANGED <<nas, clients, wireguard, device>> BY <1>2, BeatOpenLoads
  <2>4. c \in Rows /\ k \in Nat /\ f \in Fields BY <2>1, RowOf, KeyNat, TypedSeen
  <2>5. BeatOpen(r, c, k, f) \in Seq(Stmts) BY <2>4, TypedBeatOpen
  <2>6. row' \in [Routers -> Rows] BY <2>3, TypedRegister
  <2> QED BY <2>2, <2>3, <2>5, <2>6, TypedLoad
<1> QED BY <1>1, <1>2

\* The scripts of router_provision and of the older phone-home.
Rearm(r, c) == Unset(c.key) \o Allocate(r, Generated(c), "phone")
LEMMA ProvisionLoads ==
  ASSUME NEW w, NEW r, RouterProvision(w, r)
  PROVE  /\ r \in Mikrotiks /\ Register(r) /\ UNCHANGED <<nas, clients, wireguard, device>> /\ device[r].key = 0
         /\ \/ Load(w, <<>>) /\ Unserved
            \/ Load(w, Deliver(r, Registered(r))) /\ Unserved
            \/ Serve(w, Rearm(r, Registered(r)))
BY DEF RouterProvision, Rearm

Swapped(r, c, k) == IF k # c.key THEN Write(r, [key |-> k]) \o Swap(c, k) ELSE <<>>
Readied(c, k) == [Rekey(c, k) EXCEPT !.secret = Fresh, !.status = "pending"]
LEMMA OpenLoads ==
  ASSUME NEW w, NEW r, OpenwrtProvision(w, r)
  PROVE  /\ r \in OpenWrts /\ Register(r) /\ UNCHANGED <<nas, clients, wireguard, device>> /\ device[r].key # 0
         /\ LET c == Registered(r)
                k == device[r].key
            IN  \/ Load(w, Swapped(r, c, k)) /\ Unserved
                \/ Load(w, Swapped(r, c, k) \o Answer(r, Rekey(c, k))) /\ Unserved
                \/ Serve(w, Swapped(r, c, k) \o Allocate(r, Readied(c, k), "phone"))
BY DEF OpenwrtProvision, Swapped, Readied, Rekey, Answer

LEMMA TypedPhoneHomes == ASSUME TInv, NEW w \in Workers, PhoneHomes(w) PROVE TInv'
<1> PICK r \in Routers : RouterProvision(w, r) \/ OpenwrtProvision(w, r) BY DEF PhoneHomes
<1>0. PICK c : c = Registered(r) OBVIOUS
<1>1. c \in Rows /\ c.key \in Nat BY <1>0, RowOf DEF Rows
<1>2. ASSUME NEW s \in Seq(Stmts), (Load(w, s) /\ Unserved) \/ Serve(w, s), Register(r),
             UNCHANGED <<nas, clients, wireguard, device>>
      PROVE  TInv'
  BY <1>2, TypedRegister, TypedLoad
<1>3. CASE RouterProvision(w, r)
  <2>1. Generated(c) \in Rows BY <1>1, FreshNat, CopyRows DEF Generated, Owners, Statuses
  <2>2. Allocate(r, Generated(c), "phone") \in Seq(Stmts) /\ Unset(c.key) \in Seq(Stmts)
    BY <1>1, <2>1, Pieces DEF Hows
  <2>3. Rearm(r, c) \in Seq(Stmts) BY <2>2, Chained DEF Rearm
  <2>4. Deliver(r, c) \in Seq(Stmts) BY <1>1, TypedDeliver
  <2> QED BY <1>0, <1>2, <1>3, <2>3, <2>4, Empty, ProvisionLoads
<1>4. CASE OpenwrtProvision(w, r)
  <2>0. PICK k : k = device[r].key OBVIOUS
  <2>1. k \in Nat /\ Fresh \in Nat BY <2>0, KeyNat, FreshNat
  <2>2. Rekey(c, k) \in Rows /\ Readied(c, k) \in Rows BY <1>1, <2>1 DEF Rekey, Readied, Rows
  <2>3. Write(r, [key |-> k]) \in Seq(Stmts) BY <2>1, Columns, Pieces DEF Owners, Statuses
  <2>4. Write(r, [key |-> k]) \o Swap(c, k) \in Seq(Stmts) BY <1>1, <2>1, <2>3, TypedSwap, Chained
  <2>5. Swapped(r, c, k) \in Seq(Stmts) BY <2>4, Empty DEF Swapped
  <2>6. Answer(r, Rekey(c, k)) \in Seq(Stmts) BY <2>2, Online, TypedAnswer DEF Answer
  <2>7. Allocate(r, Readied(c, k), "phone") \in Seq(Stmts) BY <2>2, Pieces DEF Hows
  <2>8. /\ Swapped(r, c, k) \o Answer(r, Rekey(c, k)) \in Seq(Stmts)
        /\ Swapped(r, c, k) \o Allocate(r, Readied(c, k), "phone") \in Seq(Stmts)
    BY <2>5, <2>6, <2>7, Chained
  <2> QED BY <1>0, <1>2, <1>4, <2>0, <2>5, <2>8, OpenLoads
<1> QED BY <1>3, <1>4

\* The sweep's statements are writes to the routers it loaded.
SweepWrites(flag) == {[op |-> "write", router |-> r, fields |-> Verdict(r, flag)] : r \in Swept}
LEMMA SweepLoads ==
  ASSUME NEW w, NEW flag, CheckRouters(w, flag)
  PROVE  /\ \E s \in Seq(SweepWrites(flag)) : Load(w, s)
         /\ Unserved /\ Untouched
<1> DEFINE n == Cardinality(Swept)
           f == SetToSeq(Swept)
           s == [k \in 1..n |-> LET r == f[k] IN Write(r, Verdict(r, flag))[1]]
<1>1. IsFiniteSet(Swept)
  <2>1. IsFiniteSet(Routers) /\ Swept \subseteq Routers BY DeviceAssumption DEF Swept, Routers
  <2> QED BY <2>1, FS_Subset
<1>2. n \in Nat BY <1>1, FS_CardinalityType
<1>3. f \in [1..n -> Swept]
  <2>1. PICK g : g \in Bijection(1..n, Swept) BY <1>1, FS_CardinalityType DEF ExistsBijection
  <2>2. g \in [1..n -> Swept] /\ IsInjective(g)
    BY <2>1 DEF Bijection, Injection, IsInjective
  <2>3. \E h \in [1..n -> Swept] : IsInjective(h) BY <2>2
  <2> QED BY <2>3 DEF SetToSeq
<1>4. Load(w, s) /\ Unserved /\ Untouched BY DEF CheckRouters
<1> HIDE DEF n, f
<1>5. ASSUME NEW k \in 1..n PROVE s[k] \in SweepWrites(flag)
  <2>1. PICK r : r = f[k] OBVIOUS
  <2>2. r \in Swept BY <1>3, <2>1
  <2>3. Write(r, Verdict(r, flag))[1] = [op |-> "write", router |-> r, fields |-> Verdict(r, flag)] BY DEF Write
  <2> QED BY <2>1, <2>2, <2>3 DEF SweepWrites
<1>6. s \in [1..n -> SweepWrites(flag)] BY <1>5
<1> HIDE DEF s
<1>7. s \in Seq(SweepWrites(flag)) BY <1>2, <1>6, IsASeq
<1> QED BY <1>4, <1>7

LEMMA TypedVerdict == ASSUME TInv, NEW r \in Routers, NEW flag \in BOOLEAN PROVE Verdict(r, flag) \in Fields
<1>1. row[r] \in Rows BY RowOf
<1>2. PICK s, h, n : s = row[r].status /\ h = TunnelUp(r) /\ n = (row[r].needs \/ (flag /\ ~TunnelUp(r) /\ row[r].status # "pending"))
  OBVIOUS
<1>3. s \in Statuses /\ h \in BOOLEAN /\ n \in BOOLEAN
  <2>1. s \in Statuses /\ row[r].needs \in BOOLEAN BY <1>1, <1>2 DEF Rows, Statuses
  <2>2. TunnelUp(r) \in BOOLEAN BY DEF TunnelUp
  <2> QED BY <1>2, <2>1, <2>2
<1>4. [status |-> s, shook |-> h, needs |-> n] \in Fields BY <1>3, Columns DEF Owners
<1> QED BY <1>2, <1>4 DEF Verdict

LEMMA TypedRequest == ASSUME TInv, NEW w \in Workers, Request(w) PROVE TInv'
<1>1. CASE Sweeps(w)
  <2>1. PICK flag \in BOOLEAN : CheckRouters(w, flag) BY <1>1 DEF Sweeps
  <2>2. PICK s \in Seq(SweepWrites(flag)) : Load(w, s) BY <2>1, SweepLoads
  <2>3. SweepWrites(flag) \subseteq Stmts
    <3>1. \A r \in Swept : r \in Routers BY DEF Swept
    <3> QED BY <3>1, TypedVerdict, Words DEF SweepWrites, Stmts
  <2>4. s \in Seq(Stmts) BY <2>3, Wider
  <2> QED BY <2>1, <2>2, <2>4, SweepLoads, TypedUntouched
<1>2. CASE ReconcileCommand(w)
  <2>1. Read \in Seq(Tunnels) /\ Seq(Tunnels) \subseteq Seq(Stmts) BY PeerCalls, Wider DEF Tunnels
  <2> QED BY <1>2, <2>1, TypedUntouched DEF ReconcileCommand
<1>3. ASSUME NEW r \in Routers, MarkOffline(w, r) PROVE TInv'
  <2>1. Write(r, [status |-> "provisioned"]) \in Seq(Stmts) BY Online, Pieces
  <2> QED BY <1>3, <2>1, TypedUntouched DEF MarkOffline
<1> QED BY <1>1, <1>2, <1>3, TypedClaims, TypedReleases, TypedSettles, TypedHeartbeats, TypedPhoneHomes
        DEF Request

-----------------------------------------------------------------------------
LEMMA HeadTail ==
  ASSUME NEW S, NEW s \in Seq(S), s # <<>> PROVE Head(s) \in S /\ Tail(s) \in Seq(S) /\ s = <<Head(s)>> \o Tail(s)
OBVIOUS

LEMMA TypedGoes ==
  ASSUME TInv, NEW w \in Workers, NEW s \in Seq(Stmts), todo[w] # <<>>, Continue(w, s)
  PROVE  todo' \in [Workers -> Seq(Stmts)]
<1>1. PICK t \in Seq(Stmts) : t = s \o Tail(todo[w])
  <2>1. Tail(todo[w]) \in Seq(Stmts) BY HeadTail DEF TInv
  <2> QED BY <2>1, Chained
<1>2. todo' = [todo EXCEPT ![w] = t] BY <1>1 DEF Continue
<1> QED BY <1>2 DEF TInv

LEMMA TypedDone ==
  ASSUME TInv, NEW w \in Workers, todo[w] # <<>>, Done(w) PROVE todo' \in [Workers -> Seq(Stmts)]
BY TypedGoes, Empty DEF Done

LEMMA NowStmt == ASSUME TInv, NEW w \in Workers, todo[w] # <<>> PROVE Now(w) \in Stmts
BY HeadTail DEF TInv, Now

\* Saving columns over a row gives a row.
LEMMA SavedRow == ASSUME NEW c \in Rows, NEW f \in Fields PROVE Saved(c, f) \in Rows
<1> DEFINE d == Saved(c, f)
<1>1. \A n \in DOMAIN f : Kind(n, f[n]) BY DEF Fields
<1>2. DOMAIN c = Names /\ \A n \in Names : Kind(n, c[n]) BY DEF Rows, Names, Kind, Owners, Statuses
<1>3. d = [n \in Names |-> IF n \in DOMAIN f THEN f[n] ELSE c[n]] BY <1>2 DEF Saved
<1> HIDE DEF d
<1>4. \A n \in Names : Kind(n, d[n]) BY <1>1, <1>2, <1>3
<1>5. d \in Rows
  <2>1. DOMAIN d = Names /\ d = [n \in Names |-> d[n]] BY <1>3
  <2>2. /\ d.owner \in Owners /\ d.key \in Nat /\ d.private \in Nat /\ d.ip \in Nat /\ d.secret \in Nat
        /\ d.needs \in BOOLEAN /\ d.settings \in Nat /\ d.shook \in BOOLEAN /\ d.status \in Statuses
    BY <1>4 DEF Names, Kind
  <2>3. d = [owner |-> d.owner, key |-> d.key, private |-> d.private, ip |-> d.ip, secret |-> d.secret,
             needs |-> d.needs, settings |-> d.settings, shook |-> d.shook, status |-> d.status]
    BY <2>1 DEF Names
  <2> QED BY <2>2, <2>3 DEF Rows, Owners, Statuses
<1> QED BY <1>5 DEF d

LEMMA TypedWrite == ASSUME TInv, NEW w \in Workers, DoWrite(w) PROVE TInv'
<1> DEFINE o == Now(w)
<1>1. todo[w] # <<>> /\ o.op = "write" BY DEF DoWrite, At, Now
<1>2. o \in Stmts BY <1>1, NowStmt
<1>3. row' = [row EXCEPT ![o.router] = Saved(@, o.fields)] /\ Done(w)
      /\ UNCHANGED <<nas, clients, wireguard, device, served>>
  BY DEF DoWrite
<1> HIDE DEF o
<1>4. o.router \in Routers /\ o.fields \in Fields BY <1>1, <1>2, Parts
<1>5. Saved(row[o.router], o.fields) \in Rows BY <1>4, RowOf, SavedRow
<1>6. row' \in [Routers -> Rows] BY <1>3, <1>5 DEF TInv
<1>7. todo' \in [Workers -> Seq(Stmts)] BY <1>1, <1>3, TypedDone
<1> QED BY <1>3, <1>6, <1>7 DEF TInv, wireguard

LEMMA TypedAllocate == ASSUME TInv, NEW w \in Workers, DoAllocate(w) PROVE TInv'
<1> DEFINE o == Now(w)
           c == [o.copy EXCEPT !.ip = NextAddress]
<1>1. todo[w] # <<>> /\ o.op = "allocate" BY DEF DoAllocate, At, Now
<1>2. o \in Stmts BY <1>1, NowStmt
<1>3. Continue(w, Credentialed(o.router, c, o.how)) /\ UNCHANGED <<row, nas, clients, wireguard, device, served>>
  BY DEF DoAllocate
<1> HIDE DEF o
<1>4. o.router \in Routers /\ o.copy \in Rows BY <1>1, <1>2, Parts
<1>5. NextAddress \in Nat BY NextApart
<1>6. c \in Rows BY <1>4, <1>5 DEF Rows
<1> HIDE DEF c
<1>7. Credentialed(o.router, c, o.how) \in Seq(Stmts) BY <1>4, <1>6, TypedCredentialed
<1>8. todo' \in [Workers -> Seq(Stmts)] BY <1>1, <1>3, <1>7, TypedGoes
<1> QED BY <1>3, <1>8 DEF TInv, wireguard

LEMMA TypedNas == ASSUME TInv, NEW w \in Workers, DoNas(w) PROVE TInv'
<1> DEFINE o == Now(w)
<1>1. todo[w] # <<>> /\ Done(w) /\ UNCHANGED <<row, clients, wireguard, device, served>> BY DEF DoNas, At
<1>2. o \in Stmts BY <1>1, NowStmt
<1>3. \/ nas' = {n \in nas : n.router # o.router \/ n.ip = o.ip}
      \/ nas' = {n \in nas : n.ip # o.ip}
      \/ /\ o.op = "nasput"
         /\ nas' = {n \in nas : n.ip # o.ip} \cup {[ip |-> o.ip, router |-> o.router, secret |-> o.secret]}
  BY DEF DoNas, At, Now
<1> HIDE DEF o
<1>4. o.op = "nasput" => o.router \in Routers /\ o.ip \in Nat /\ o.secret \in Nat BY <1>2, Parts
<1>5. nas' \subseteq Clients BY <1>3, <1>4 DEF TInv, Clients
<1>6. todo' \in [Workers -> Seq(Stmts)] BY <1>1, TypedDone
<1> QED BY <1>1, <1>5, <1>6 DEF TInv, wireguard

LEMMA TypedSet == ASSUME TInv, NEW w \in Workers, DoSet(w) PROVE TInv'
<1> DEFINE o == Now(w)
<1>1. todo[w] # <<>> /\ Done(w) /\ UNCHANGED <<row, nas, clients, file, device, served>> BY DEF DoSet, At
<1>2. o \in Stmts BY <1>1, NowStmt
<1>3. \/ o.op = "set" /\ kernel' = Assigned(kernel, o.key, o.ip)
      \/ kernel' = {p \in kernel : p.key # o.key}
  BY DEF DoSet, At, Now
<1> HIDE DEF o
<1>4. o.op = "set" => o.key \in Nat /\ o.ip \in Nat BY <1>2, Parts
<1>5. kernel' \subseteq Peers BY <1>3, <1>4 DEF TInv, Peers, Assigned
<1>6. todo' \in [Workers -> Seq(Stmts)] BY <1>1, TypedDone
<1> QED BY <1>1, <1>5, <1>6 DEF TInv

LEMMA PeersOfRows == ASSUME TInv PROVE RowPeers \subseteq Peers
<1>1. \A r \in Routers : row[r].key \in Nat /\ row[r].ip \in Nat BY RowOf DEF Rows
<1> QED BY <1>1 DEF RowPeers, Peers

LEMMA TypedReconcile == ASSUME TInv, NEW w \in Workers, DoReconcile(w) PROVE TInv'
<1> DEFINE o == Now(w)
<1>1. todo[w] # <<>> /\ UNCHANGED <<row, nas, clients, device, served>> BY DEF DoReconcile, At
<1>2. o \in Stmts BY <1>1, NowStmt
<1>3. \/ Continue(w, <<[op |-> "move", peers |-> RowPeers], [op |-> "strip"]>>) /\ UNCHANGED wireguard
      \/ o.op = "move" /\ file' = o.peers /\ Done(w) /\ UNCHANGED kernel
      \/ Continue(w, <<[op |-> "sync", peers |-> file]>>) /\ UNCHANGED wireguard
      \/ o.op = "sync" /\ kernel' = o.peers /\ Done(w) /\ UNCHANGED file
  BY DEF DoReconcile, At, Now
<1>4. Routers # {} => /\ \A p \in SUBSET Peers : [op |-> "move", peers |-> p] \in Stmts /\ [op |-> "sync", peers |-> p] \in Stmts
                      /\ [op |-> "strip"] \in Stmts
  BY Words
<1>5. \A p \in SUBSET Peers : [op |-> "move", peers |-> p] \in Stmts /\ [op |-> "sync", peers |-> p] \in Stmts
  BY DEF Stmts
<1>6. [op |-> "strip"] \in Stmts BY DEF Stmts
<1> HIDE DEF o
<1>7. o.op \in {"move", "sync"} => o.peers \subseteq Peers BY <1>2, Parts
<1>8. <<[op |-> "move", peers |-> RowPeers], [op |-> "strip"]>> \in Seq(Stmts)
  BY <1>5, <1>6, PeersOfRows, Both
<1>9. <<[op |-> "sync", peers |-> file]>> \in Seq(Stmts)
  BY <1>5, Only DEF TInv
<1>10. todo' \in [Workers -> Seq(Stmts)] BY <1>1, <1>3, <1>8, <1>9, TypedDone, TypedGoes
<1>11. kernel' \subseteq Peers /\ file' \subseteq Peers BY <1>3, <1>7 DEF TInv, wireguard
<1> QED BY <1>1, <1>10, <1>11 DEF TInv

LEMMA TypedRespond == ASSUME TInv, NEW w \in Workers, DoRespond(w) PROVE TInv'
<1> DEFINE o == Now(w)
           s == [o.script EXCEPT !.key = IF o.router \in OpenWrts THEN device[o.router].key ELSE @]
<1>1. todo[w] # <<>> /\ o.op = "respond" BY DEF DoRespond, At, Now
<1>2. o \in Stmts BY <1>1, NowStmt
<1>3. device' = [device EXCEPT ![o.router] = s] /\ Done(w) /\ UNCHANGED <<row, nas, clients, wireguard, served>>
  BY DEF DoRespond
<1> HIDE DEF o
<1>4. o.router \in Routers /\ o.script \in Scripts BY <1>1, <1>2, Parts
<1>5. device[o.router].key \in Nat BY <1>4, KeyNat
<1>6. s \in Scripts BY <1>4, <1>5 DEF Scripts
<1> HIDE DEF s
<1>7. todo' \in [Workers -> Seq(Stmts)] BY <1>1, <1>3, TypedDone
<1> QED BY <1>3, <1>6, <1>7 DEF TInv, wireguard

LEMMA TypedStatement == ASSUME TInv, NEW w \in Workers, Statement(w) PROVE TInv'
<1>1. CASE DoRestart(w)
  <2>1. todo' \in [Workers -> Seq(Stmts)] BY <1>1, TypedDone DEF DoRestart, At
  <2> QED BY <1>1, <2>1 DEF DoRestart, TInv, wireguard
<1> QED BY <1>1, TypedWrite, TypedAllocate, TypedNas, TypedSet, TypedReconcile, TypedRespond DEF Statement

-----------------------------------------------------------------------------
\* What is left when a call raises is the end of the script.
LEMMA Suffix ==
  ASSUME NEW S, NEW s \in Seq(S), NEW ops PROVE \E p \in Seq(S) : s = p \o From(s, ops) /\ From(s, ops) \in Seq(S)
<1> DEFINE kept == {k \in DOMAIN s : s[k].op \notin ops}
<1>1. CASE kept = {}
  <2>1. From(s, ops) = <<>> BY <1>1 DEF From
  <2> QED BY <2>1
<1>2. CASE kept # {}
  <2>1. kept \subseteq Nat OBVIOUS
  <2>2. PICK n \in 1..Len(s) : n = Min(kept)
    <3>1. Min(kept) \in kept BY ONLY <1>2, <2>1, Least
    <3>2. kept \subseteq 1..Len(s) OBVIOUS
    <3> HIDE DEF kept
    <3> QED BY <3>1, <3>2
  <2>3. From(s, ops) = SubSeq(s, n, Len(s)) BY <1>2, <2>2 DEF From
  <2>4. SubSeq(s, n, Len(s)) \in Seq(S) /\ SubSeq(s, 1, n - 1) \in Seq(S) OBVIOUS
  <2>5. s = SubSeq(s, 1, n - 1) \o SubSeq(s, n, Len(s)) OBVIOUS
  <2> QED BY <2>3, <2>4, <2>5
<1> QED BY <1>1, <1>2

LEMMA TypedFaults == ASSUME TInv, NEW w \in Workers, Faults(w) PROVE TInv'
<1>1. CASE WireGuardFails(w)
  <2> DEFINE o == Now(w)
  <2>1. todo[w] # <<>> /\ UNCHANGED <<row, nas, clients, wireguard, device, served>> BY <1>1 DEF WireGuardFails, At
  <2>2. o \in Stmts /\ Tail(todo[w]) \in Seq(Stmts) BY <2>1, NowStmt, HeadTail DEF TInv
  <2>3. ASSUME NEW s \in Seq(Stmts), todo' = [todo EXCEPT ![w] = s] PROVE TInv'
    BY <2>1, <2>3 DEF TInv, wireguard
  <2>4. \A ops : From(Tail(todo[w]), ops) \in Seq(Stmts) BY <2>2, Suffix
  <2>5. CASE /\ At(w, "set") \/ At(w, "unset")
             /\ todo' = [todo EXCEPT ![w] = o.else \o From(Tail(@), Tunnelling)]
    <3>1. o.op \in {"set", "unset"} BY <2>5 DEF At, Now
    <3>2. o.else \in Elses BY <2>2, <3>1, Parts DEF Elses
    <3>3. o.else \in Seq(Stmts) BY <3>2, Online, Empty, Columns, Pieces DEF Elses, Statuses, Owners
    <3>4. o.else \o From(Tail(todo[w]), Tunnelling) \in Seq(Stmts) BY <2>4, <3>3, Chained
    <3> QED BY <2>3, <2>5, <3>4
  <2>6. CASE todo' = [todo EXCEPT ![w] = From(Tail(@), {"move", "strip", "sync"})]
    BY <2>3, <2>4, <2>6
  <2> QED BY <1>1, <2>5, <2>6 DEF WireGuardFails
<1>2. ASSUME todo[w] # <<>>, Done(w), UNCHANGED <<row, nas, clients, wireguard, device, served>> PROVE TInv'
  <2>1. todo' \in [Workers -> Seq(Stmts)] BY <1>2, TypedDone
  <2> QED BY <1>2, <2>1 DEF TInv, wireguard
<1> QED BY <1>1, <1>2 DEF Faults, RestartFails, ResponseLost, At

LEMMA TypedDevices == ASSUME TInv, Devices PROVE TInv'
<1> PICK r \in Routers : Boot(r) \/ RouterWifi(r) \/ ImportSerials(r) BY DEF Devices
<1>0. Fresh \in Nat /\ (served < MaxRequests => Fresh \in 0..MaxRequests)
  BY FreshNat, BoundAssumption DEF Fresh, TInv
<1>1. CASE Boot(r)
  <2>1. [key |-> IF r \in OpenWrts THEN Fresh ELSE 0, ip |-> 0, secret |-> 0, settings |-> 0] \in Scripts
    BY <1>0 DEF Scripts
  <2> QED BY <1>0, <1>1, <2>1 DEF TInv, Boot, wireguard
<1>2. CASE RouterWifi(r)
  <2>1. [device[r] EXCEPT !.settings = Fresh] \in Scripts BY <1>0 DEF TInv, Scripts
  <2>2. device' = [device EXCEPT ![r] = [device[r] EXCEPT !.settings = Fresh]] BY <1>2 DEF RouterWifi, TInv
  <2> QED BY <1>0, <1>2, <2>1, <2>2 DEF TInv, RouterWifi, wireguard
<1>3. CASE ImportSerials(r)
  <2>1. row' \in [Routers -> Rows] BY <1>3, TypedRegister DEF ImportSerials
  <2> QED BY <1>3, <2>1 DEF TInv, ImportSerials, wireguard
<1> QED BY <1>1, <1>2, <1>3

LEMMA TypedBegin == ASSUME Begin, served \in 0..MaxRequests PROVE TInv
<1>1. [key |-> 0, ip |-> 0, secret |-> 0, settings |-> 0] \in Scripts BY DEF Scripts
<1> QED BY <1>1, BlankRow, Empty DEF Begin, TInv

LEMMA TypedSteps == TInv /\ [Next]_vars => TInv'
<1> SUFFICES ASSUME TInv, [Next]_vars PROVE TInv' OBVIOUS
<1>1. ASSUME NEW w \in Workers, Request(w) \/ Statement(w) \/ Faults(w) PROVE TInv'
  BY <1>1, TypedRequest, TypedStatement, TypedFaults
<1>2. CASE UNCHANGED vars BY <1>2 DEF TInv, vars, wireguard
<1> QED BY <1>1, <1>2, TypedDevices DEF Next

-----------------------------------------------------------------------------
(* Scripts with a landmark: a statement o, what comes before and after it  *)

LEMMA Dropped ==
  ASSUME NEW A, A \subseteq Stmts, NEW p \in Seq(A), NEW v \in Seq(Stmts), Len(v) > 0, NEW n \in 1..(Len(p) + 1)
  PROVE  \E q \in Seq(A) : SubSeq(p \o v, n, Len(p \o v)) = q \o v
<1>1. p \in Seq(Stmts) BY Wider
<1>2. PICK s \in Seq(Stmts) : s = p \o v BY <1>1, Chained
<1>3. Len(s) = Len(p) + Len(v) /\ Len(p) \in Nat /\ Len(v) \in Nat BY <1>1, <1>2
<1>4. SubSeq(s, Len(p) + 1, Len(s)) = v
  <2>1. SubSeq(p \o v, Len(p) + 1, Len(p) + Len(v)) = SubSeq(v, Len(p) + 1 - Len(p), Len(p) + Len(v) - Len(p))
    <3>1. Len(p) + 1 \in (Len(p) + 1)..(Len(p) + Len(v)) /\ Len(p) + Len(v) \in (Len(p) + 1)..(Len(p) + Len(v))
      BY <1>3
    <3> QED BY <1>1, <3>1, SubSeqOfConcat2
  <2>2. Len(p) + 1 - Len(p) = 1 /\ Len(p) + Len(v) - Len(p) = Len(v) BY <1>3
  <2>3. SubSeq(v, 1, Len(v)) = v BY SubSeqFull
  <2> QED BY <1>2, <1>3, <2>1, <2>2, <2>3
<1>5. CASE n = Len(p) + 1
  <2>1. v = <<>> \o v /\ <<>> \in Seq(A) OBVIOUS
  <2> QED BY <1>2, <1>4, <1>5, <2>1
<1>6. CASE n # Len(p) + 1
  <2>0. n \in 1..Len(p) /\ Len(p) \in 1..Len(p) BY <1>3, <1>6
  <2>1. PICK q : q = SubSeq(p, n, Len(p)) OBVIOUS
  <2>2. q \in Seq(A)
    <3>1. \A i \in n..Len(p) : p[i] \in A BY <2>0
    <3>2. n \in Int /\ Len(p) \in Int BY <2>0
    <3> QED BY <2>1, <3>1, <3>2, SubSeqProperties
  <2>3. SubSeq(p \o v, n, Len(p)) = q BY <1>1, <2>0, <2>1, SubSeqOfConcat1
  <2>4. SubSeq(s, n, Len(p)) \o SubSeq(s, Len(p) + 1, Len(s)) = SubSeq(s, n, Len(s))
    <3>1. n \in 1..(Len(s) + 1) /\ Len(p) \in (n - 1)..Len(s) /\ Len(s) \in Len(p)..Len(s) BY <1>3, <2>0
    <3> QED BY <3>1, ConcatAdjacentSubSeq
  <2> QED BY <1>2, <1>4, <2>2, <2>3, <2>4
<1> QED BY <1>5, <1>6

\* The scripts that execute statements of A, then v.
Before(A, v) == {q \o v : q \in Seq(A)}
\* A script whose first statement is not among the operations.
Marks(v, ops) == v # <<>> /\ v[1].op \notin ops
LEMMA Landmark ==
  ASSUME NEW A, A \subseteq Stmts, NEW p \in Seq(A), NEW v \in Seq(Stmts), NEW ops, Marks(v, ops)
  PROVE  From(p \o v, ops) \in Before(A, v)
<1>0. p \in Seq(Stmts) BY Wider
<1>1. PICK s \in Seq(Stmts) : s = p \o v BY <1>0, Chained
<1> DEFINE kept == {k \in DOMAIN s : s[k].op \notin ops}
<1>2. Len(v) > 0 /\ Len(v) \in Nat /\ Len(p) \in Nat BY DEF Marks
<1>3. s[Len(p) + 1] = v[1] /\ Len(p) + 1 \in 1..Len(s) /\ DOMAIN s = 1..Len(s) BY <1>0, <1>1, <1>2
<1>4. Len(p) + 1 \in kept BY <1>3 DEF Marks
<1>5. kept \subseteq Nat /\ kept \subseteq 1..Len(s) BY <1>3
<1>6. From(s, ops) = SubSeq(s, Min(kept), Len(s)) BY <1>4 DEF From
<1> HIDE DEF kept
<1>7. Min(kept) \in kept /\ \A k \in kept : Min(kept) <= k
  <2>1. \E n \in kept : \A i \in kept : n <= i BY ONLY <1>4, <1>5, Lowest
  <2> QED BY <2>1 DEF Min
<1>8. PICK n \in 1..(Len(p) + 1) : n = Min(kept)
  <2>1. PICK n : n = Min(kept) OBVIOUS
  <2>2. n \in 1..Len(s) /\ n <= Len(p) + 1 BY <1>4, <1>5, <1>7, <2>1
  <2>3. n \in 1..(Len(p) + 1) BY <1>2, <2>2
  <2> QED BY <2>1, <2>3
<1>9. SubSeq(p \o v, n, Len(p \o v)) \in Before(A, v) BY <1>2, Dropped DEF Before
<1> QED BY <1>1, <1>6, <1>8, <1>9


LEMMA Opens == ASSUME NEW A, NEW v PROVE v \in Seq(Stmts) => v \in Before(A, v)
<1>1. v \in Seq(Stmts) => v = <<>> \o v OBVIOUS
<1>2. <<>> \in Seq(A) OBVIOUS
<1> QED BY <1>1, <1>2 DEF Before

LEMMA Precedes ==
  ASSUME NEW A, A \subseteq Stmts, NEW v \in Seq(Stmts), NEW a \in Seq(A), NEW t \in Before(A, v)
  PROVE  a \o t \in Before(A, v)
<1>1. PICK q \in Seq(A) : t = q \o v BY DEF Before
<1>2. a \in Seq(Stmts) /\ q \in Seq(Stmts) BY Wider
<1>3. a \o t = (a \o q) \o v BY <1>1, <1>2
<1>4. a \o q \in Seq(A) BY Chained
<1> QED BY <1>3, <1>4 DEF Before

LEMMA Leads ==
  ASSUME NEW A, A \subseteq Stmts, NEW v \in Seq(Stmts), NEW s \in Before(A, v), s # v
  PROVE  s # <<>> /\ Head(s) \in A /\ Tail(s) \in Before(A, v)
<1>1. PICK q \in Seq(A) : s = q \o v BY DEF Before
<1>2. q \in Seq(Stmts) BY Wider
<1>3. q # <<>> BY <1>1
<1>4. Tail(q) \in Seq(A) /\ Head(q) \in A BY <1>3
<1>5. Head(s) = Head(q) /\ s # <<>> /\ Tail(s) = Tail(q) \o v BY <1>1, <1>2, <1>3
<1> QED BY <1>4, <1>5 DEF Before

LEMMA Raised ==
  ASSUME NEW A, A \subseteq Stmts, NEW v \in Seq(Stmts), NEW s \in Before(A, v), NEW ops, Marks(v, ops)
  PROVE  From(s, ops) \in Before(A, v)
<1>1. PICK q \in Seq(A) : s = q \o v BY DEF Before
<1> QED BY <1>1, Landmark

LEMMA Widens ==
  ASSUME NEW A, NEW B, A \subseteq B, NEW v PROVE Before(A, v) \subseteq Before(B, v)
<1>1. Seq(A) \subseteq Seq(B) BY Wider
<1> QED BY <1>1 DEF Before

LEMMA Typed ==
  ASSUME NEW A, A \subseteq Stmts, NEW v \in Seq(Stmts), NEW s \in Before(A, v) PROVE s \in Seq(Stmts)
<1>1. PICK q \in Seq(A) : s = q \o v BY DEF Before
<1>2. q \in Seq(Stmts) BY Wider
<1> QED BY <1>1, <1>2

-----------------------------------------------------------------------------
(* Addresses and NAS rows, while requests do not overlap                   *)

NasOps == {"nasdrop", "nasstale", "nasput"}
Idents == {"owner", "ip", "secret"}
Bare(f) == Idents \cap DOMAIN f = {}
SameAs(f, c) == Idents \subseteq DOMAIN f /\ f.owner = c.owner /\ f.ip = c.ip /\ f.secret = c.secret
\* Statements that touch neither the NAS rows nor what they follow; that write
\* the identity r's row has; that give the NAS row of an address up as well.
Mild == {o \in Stmts : o.op \notin NasOps \cup {"allocate"}}
Calm == {o \in Mild : o.op = "write" => Bare(o.fields)}
Like(r, c) == {o \in Mild : o.op = "write" => Bare(o.fields) \/ (o.router = r /\ SameAs(o.fields, c))}
Still == {o \in Mild : o.op = "write" => Bare(o.fields) \/ SameAs(o.fields, row[o.router])}
Dropping(i) == Calm \cup {[op |-> "nasdrop", ip |-> i]}

Held(q) == Claimed(q) =>
  {n \in nas : n.router = q} = {[ip |-> row[q].ip, router |-> q, secret |-> row[q].secret]}
HeldBut(r) == \A q \in Routers \ {r} : Held(q)
Apart(r, i) == \A q \in Routers \ {r} : row[q].ip # i
Kept(q) == row'[q].owner = row[q].owner /\ row'[q].ip = row[q].ip /\ row'[q].secret = row[q].secret

\* The phases of a script: it writes no identity; it gives a router up; it is
\* about to hand out an address; it is about to save the row it goes with; the
\* stale NAS rows, then the NAS row itself, are still to be written.
Script1 == todo[w1]
Resting == /\ \A q \in Routers : Held(q)
           /\ Script1 \in Seq(Calm) \/ \E r \in Routers : Script1 \in Seq(Like(r, row[r]))
Quits(r, o) == /\ o \in Stmts /\ o.op = "write" /\ o.router = r /\ Idents \subseteq DOMAIN o.fields
               /\ o.fields.owner = NoOne /\ o.fields.ip = 0
Leaving(r) == HeldBut(r) /\ \E o : /\ Quits(r, o)
                                   /\ \/ Script1 \in Before(Calm, <<o>>)
                                      \/ row[r].ip # 0 /\ Script1 \in Before(Dropping(row[r].ip), <<o>>)
Entering(r) == HeldBut(r) /\ \E o \in Stmts : /\ o.op = "allocate" /\ o.router = r
                                              /\ Script1 \in Before(Calm, <<o>>)
NasThen(r, c, s) == \E t \in Seq(Like(r, c)) : s \in Before(Like(r, c), Nas(r, c) \o t)
Saving(r) == HeldBut(r) /\ \E c \in Rows : \E s : /\ c.ip # 0 /\ Apart(r, c.ip) /\ NasThen(r, c, s)
                                                  /\ Script1 = Write(r, c) \o s
Staling(r) == HeldBut(r) /\ row[r].ip # 0 /\ NasThen(r, row[r], Script1)
PutOf(r, c) == <<[op |-> "nasput", router |-> r, ip |-> c.ip, secret |-> c.secret], [op |-> "restart"]>>
Putting(r) == /\ HeldBut(r) /\ row[r].ip # 0 /\ \A n \in nas : n.router = r => n.ip = row[r].ip
              /\ \E t \in Seq(Like(r, row[r])) : Script1 = PutOf(r, row[r]) \o t
Phase(r) == Leaving(r) \/ Entering(r) \/ Saving(r) \/ Staling(r) \/ Putting(r)
Placed == AddressesDistinct /\ (Resting \/ \E r \in Routers : Phase(r))

LEMMA CalmTypes ==
  /\ Calm \subseteq Stmts /\ Calm \subseteq Still /\ (\A r, c : Calm \subseteq Like(r, c) /\ Like(r, c) \subseteq Stmts)
  /\ (\A r : Like(r, row[r]) \subseteq Still)
  /\ (\A i \in Nat : Calm \subseteq Dropping(i) /\ Dropping(i) \subseteq Stmts)
<1>1. Calm \subseteq Stmts /\ Calm \subseteq Still BY DEF Calm, Still, Mild
<1>2. ASSUME NEW r, NEW c PROVE Calm \subseteq Like(r, c) /\ Like(r, c) \subseteq Stmts BY DEF Calm, Like, Mild
<1>3. ASSUME NEW r PROVE Like(r, row[r]) \subseteq Still BY DEF Like, Still
<1>4. ASSUME NEW i \in Nat PROVE Calm \subseteq Dropping(i) /\ Dropping(i) \subseteq Stmts
  <2>1. [op |-> "nasdrop", ip |-> i] \in Stmts BY DEF Stmts
  <2> QED BY <1>1, <2>1 DEF Dropping
<1> QED BY <1>1, <1>2, <1>3, <1>4

LEMMA LikeSame ==
  ASSUME NEW r, NEW c, NEW d, c.owner = d.owner, c.ip = d.ip, c.secret = d.secret PROVE Like(r, c) = Like(r, d)
BY DEF Like, SameAs

LEMMA KeptHeld == ASSUME nas' = nas, NEW q, Kept(q), Held(q) PROVE Held(q)'
BY DEF Kept, Held, Claimed

LEMMA KeptDistinct == ASSUME \A q \in Routers : Kept(q), AddressesDistinct PROVE AddressesDistinct'
BY DEF Kept, AddressesDistinct

LEMMA Lone == ASSUME TInv, NEW s, todo' = [todo EXCEPT ![w1] = s] PROVE Script1' = s
BY ThreadAssumption DEF TInv, Script1

\* What a statement or fault that touches no identity leaves to do.
Rest(s, t) == t = Tail(s) \/ \E ops : ops \subseteq Tunnelling /\ t = From(Tail(s), ops)
Onward(s) == \E a \in Seq(Calm) : \E t : Rest(Script1, t) /\ s = a \o t
Quiet1 == nas' = nas /\ (\A q \in Routers : Kept(q)) /\ Onward(Script1')

LEMMA WriteIsQuiet ==
  ASSUME TInv, Script1 # <<>>, Head(Script1) \in Still, DoWrite(w1) PROVE Quiet1
<1> DEFINE o == Head(Script1)
<1>1. o.op = "write" /\ row' = [row EXCEPT ![o.router] = Saved(@, o.fields)] /\ nas' = nas
      /\ todo' = [todo EXCEPT ![w1] = <<>> \o Tail(@)]
  BY DEF DoWrite, At, Now, Done, Continue, Script1
<1>2. o \in Stmts /\ (Bare(o.fields) \/ SameAs(o.fields, row[o.router])) BY <1>1 DEF Still, Mild
<1>3. Script1' = <<>> \o Tail(Script1)
  <2>1. todo' = [todo EXCEPT ![w1] = <<>> \o Tail(Script1)] BY <1>1, ThreadAssumption DEF TInv, Script1
  <2> QED BY <2>1, Lone
<1> HIDE DEF o
<1>4. o.router \in Routers BY <1>1, <1>2, Parts
<1>5. ASSUME NEW q \in Routers PROVE Kept(q)
  <2>1. row[q] \in Rows BY RowOf
  <2>2. Idents \subseteq DOMAIN row[q] BY <2>1 DEF Rows, Idents
  <2>3. CASE q # o.router BY <1>1, <1>4, <2>3 DEF Kept, TInv
  <2>4. CASE q = o.router
    <3>1. row'[q] = Saved(row[q], o.fields) BY <1>1, <2>4 DEF TInv
    <3>2. \A f \in Idents : Saved(row[q], o.fields)[f] = row[q][f]
      BY <1>2, <2>2, <2>4 DEF Saved, Bare, SameAs, Idents
    <3> QED BY <3>1, <3>2 DEF Kept, Idents
  <2> QED BY <2>3, <2>4
<1>6. Onward(Script1') BY <1>3, Empty DEF Onward, Rest
<1> QED BY <1>1, <1>5, <1>6 DEF Quiet1

LEMMA CallsCalm ==
  ASSUME NEW p \in SUBSET Peers
  PROVE  [op |-> "move", peers |-> p] \in Calm /\ [op |-> "strip"] \in Calm /\ [op |-> "sync", peers |-> p] \in Calm
BY DEF Calm, Mild, Stmts, NasOps

LEMMA ContinueQuiet ==
  ASSUME TInv, NEW a \in Seq(Calm), Continue(w1, a), UNCHANGED <<row, nas>> PROVE Quiet1
<1>1. todo' = [todo EXCEPT ![w1] = a \o Tail(Script1)] BY ThreadAssumption DEF TInv, Script1, Continue
<1>2. Onward(Script1') BY <1>1, Lone DEF Onward, Rest
<1> QED BY <1>2 DEF Quiet1, Kept

LEMMA StatementIsQuiet ==
  ASSUME TInv, Script1 # <<>>, Head(Script1) \in Still, Statement(w1) PROVE Quiet1
<1>0. Head(Script1).op \notin NasOps \cup {"allocate"} BY DEF Still, Mild
<1>1. ~DoAllocate(w1) /\ ~DoNas(w1) BY <1>0 DEF DoAllocate, DoNas, At, NasOps, Script1
<1>2. ASSUME Done(w1), UNCHANGED <<row, nas>> PROVE Quiet1 BY <1>2, Empty, ContinueQuiet DEF Done
<1>3. CASE DoReconcile(w1)
  <2>1. UNCHANGED <<row, nas>> BY <1>3 DEF DoReconcile
  <2>2. \/ Continue(w1, <<[op |-> "move", peers |-> RowPeers], [op |-> "strip"]>>)
        \/ Continue(w1, <<[op |-> "sync", peers |-> file]>>) \/ Done(w1)
    BY <1>3 DEF DoReconcile
  <2>3. <<[op |-> "move", peers |-> RowPeers], [op |-> "strip"]>> \in Seq(Calm)
    BY PeersOfRows, CallsCalm, Both
  <2>4. <<[op |-> "sync", peers |-> file]>> \in Seq(Calm)
    <3>1. file \in SUBSET Peers BY DEF TInv
    <3> QED BY <3>1, CallsCalm, Only
  <2> QED BY <1>2, <2>1, <2>2, <2>3, <2>4, ContinueQuiet
<1>4. CASE DoRestart(w1) BY <1>2, <1>4 DEF DoRestart
<1>5. CASE DoSet(w1) BY <1>2, <1>5 DEF DoSet
<1>6. CASE DoRespond(w1) BY <1>2, <1>6 DEF DoRespond
<1> QED BY <1>1, <1>3, <1>4, <1>5, <1>6, WriteIsQuiet DEF Statement

LEMMA ElsesCalm == Elses \subseteq Seq(Calm)
<1>1. ASSUME NEW r \in Routers PROVE Write(r, [status |-> "failed"]) \in Seq(Calm)
  <2>1. [status |-> "failed"] \in Fields BY Columns DEF Statuses, Owners
  <2>2. [op |-> "write", router |-> r, fields |-> [status |-> "failed"]] \in Calm
    BY <2>1 DEF Calm, Mild, Stmts, NasOps, Bare, Idents
  <2> QED BY <2>2, Only DEF Write
<1> QED BY <1>1, Empty DEF Elses

\* A fault finds a peer change, a restart or an answer to a device.
LEMMA FaultIsQuiet ==
  ASSUME TInv, Faults(w1)
  PROVE  Quiet1 /\ Script1 # <<>> /\ Head(Script1).op \in Tunnelling \cup {"restart", "respond"}
<1>1. CASE WireGuardFails(w1)
  <2> DEFINE o == Head(Script1)
  <2>1. Script1 # <<>> /\ o.op \in Tunnelling /\ UNCHANGED <<row, nas>>
    BY <1>1 DEF WireGuardFails, At, Now, Script1, Tunnelling
  <2>2. o \in Stmts BY <2>1, NowStmt, ThreadAssumption DEF Now, Script1
  <2>3. PICK a, ops : /\ a \in Seq(Calm) /\ ops \subseteq Tunnelling
                      /\ todo' = [todo EXCEPT ![w1] = a \o From(Tail(Script1), ops)]
    <3>1. CASE o.op \in {"set", "unset"} /\ todo' = [todo EXCEPT ![w1] = o.else \o From(Tail(@), Tunnelling)]
      <4>1. o.else \in Elses BY <2>2, <3>1, Parts DEF Elses
      <4>2. o.else \in Seq(Calm) BY <4>1, ElsesCalm
      <4>3. todo' = [todo EXCEPT ![w1] = o.else \o From(Tail(Script1), Tunnelling)]
        BY <3>1, ThreadAssumption DEF TInv, Script1
      <4> QED BY <4>2, <4>3
    <3>2. CASE todo' = [todo EXCEPT ![w1] = From(Tail(@), {"move", "strip", "sync"})]
      <4>1. PICK t : t = From(Tail(Script1), {"move", "strip", "sync"}) OBVIOUS
      <4>2. t \in Seq(Stmts)
        <5>1. Tail(Script1) \in Seq(Stmts) BY <2>1, HeadTail, ThreadAssumption DEF TInv, Script1
        <5> QED BY <4>1, <5>1, Suffix
      <4>3. t = <<>> \o t BY <4>2
      <4>4. todo' = [todo EXCEPT ![w1] = t] BY <3>2, <4>1, ThreadAssumption DEF TInv, Script1
      <4>5. {"move", "strip", "sync"} \subseteq Tunnelling BY DEF Tunnelling
      <4> QED BY <4>1, <4>3, <4>4, <4>5, Empty
    <3> QED BY <1>1, <3>1, <3>2 DEF WireGuardFails, At, Now, Script1
  <2>4. Onward(Script1') BY <2>3, Lone DEF Onward, Rest
  <2> QED BY <2>1, <2>4 DEF Quiet1, Kept
<1>2. ASSUME At(w1, "restart") \/ At(w1, "respond"), Done(w1), UNCHANGED <<row, nas>>
      PROVE  Quiet1 /\ Script1 # <<>> /\ Head(Script1).op \in Tunnelling \cup {"restart", "respond"}
  <2>1. Quiet1 BY <1>2, Empty, ContinueQuiet DEF Done
  <2> QED BY <1>2, <2>1 DEF At, Script1
<1> QED BY <1>1, <1>2 DEF Faults, RestartFails, ResponseLost

LEMMA OnwardSeq ==
  ASSUME NEW A, A \subseteq Stmts, Calm \subseteq A, Script1 \in Seq(A), Script1 # <<>>, NEW z, Onward(z)
  PROVE  z \in Seq(A)
<1>1. PICK a \in Seq(Calm) : \E t : Rest(Script1, t) /\ z = a \o t BY DEF Onward
<1>2. PICK t : Rest(Script1, t) /\ z = a \o t BY <1>1
<1>3. Tail(Script1) \in Seq(A) BY HeadTail
<1>4. t \in Seq(A) BY <1>2, <1>3, Suffix DEF Rest
<1>5. a \in Seq(A) BY Wider
<1> QED BY <1>2, <1>4, <1>5, Chained

LEMMA OnwardBefore ==
  ASSUME NEW A, A \subseteq Stmts, Calm \subseteq A, NEW v \in Seq(Stmts), Marks(v, Tunnelling),
         Script1 \in Before(A, v), Script1 # v, NEW z, Onward(z)
  PROVE  z \in Before(A, v)
<1>1. PICK a \in Seq(Calm) : \E t : Rest(Script1, t) /\ z = a \o t BY DEF Onward
<1>2. PICK t : Rest(Script1, t) /\ z = a \o t BY <1>1
<1>3. Tail(Script1) \in Before(A, v) BY Leads
<1>4. \A ops : ops \subseteq Tunnelling => Marks(v, ops) BY DEF Marks
<1>5. t \in Before(A, v) BY <1>2, <1>3, <1>4, Raised DEF Rest
<1>6. a \in Seq(A) BY Wider
<1> QED BY <1>2, <1>5, <1>6, Precedes

Goes1 == Statement(w1) \/ Faults(w1)

LEMMA StatementNow == ASSUME Statement(w1) PROVE Script1 # <<>>
BY DEF Statement, DoWrite, DoAllocate, DoNas, DoRestart, DoSet, DoReconcile, DoRespond, At, Script1

LEMMA Calmly == ASSUME TInv, Goes1, Head(Script1) \in Still PROVE Quiet1 /\ Script1 # <<>>
BY StatementNow, StatementIsQuiet, FaultIsQuiet DEF Goes1

LEMMA QuietKeeps ==
  ASSUME Quiet1, AddressesDistinct
  PROVE  /\ AddressesDistinct' /\ \A q \in Routers : Held(q) => Held(q)'
         /\ \A r \in Routers : /\ HeldBut(r) => HeldBut(r)'
                               /\ Like(r, row'[r]) = Like(r, row[r]) /\ row'[r].ip = row[r].ip
                               /\ \A q \in Routers : row'[q].ip = row[q].ip
                               /\ Nas(r, row'[r]) = Nas(r, row[r])
<1>1. AddressesDistinct' BY KeptDistinct DEF Quiet1
<1>2. \A q \in Routers : Held(q) => Held(q)' BY KeptHeld DEF Quiet1
<1>3. \A q \in Routers : Kept(q) BY DEF Quiet1
<1>4. ASSUME NEW r \in Routers PROVE Like(r, row'[r]) = Like(r, row[r]) /\ row'[r].ip = row[r].ip
  BY <1>3, LikeSame DEF Kept
<1>5. ASSUME NEW r \in Routers PROVE Nas(r, row'[r]) = Nas(r, row[r]) BY <1>3 DEF Kept, Nas
<1>6. ASSUME NEW r \in Routers, HeldBut(r) PROVE HeldBut(r)' BY <1>2, <1>6 DEF HeldBut
<1> QED BY <1>1, <1>2, <1>4, <1>5, <1>6

LEMMA RestingGoes == ASSUME TInv, AddressesDistinct, Resting, Goes1 PROVE Placed'
<1>0. Script1 # <<>> BY StatementNow, FaultIsQuiet DEF Goes1
<1>1. CASE Script1 \in Seq(Calm)
  <2>1. Head(Script1) \in Still BY <1>0, <1>1, HeadTail, CalmTypes
  <2>2. Quiet1 BY <2>1, Calmly
  <2>3. Script1' \in Seq(Calm) BY <1>0, <1>1, <2>2, CalmTypes, OnwardSeq DEF Quiet1
  <2> QED BY <2>2, <2>3, QuietKeeps DEF Placed, Resting
<1>2. ASSUME NEW r \in Routers, Script1 \in Seq(Like(r, row[r])) PROVE Placed'
  <2>1. Head(Script1) \in Still BY <1>0, <1>2, HeadTail, CalmTypes
  <2>2. Quiet1 BY <2>1, Calmly
  <2>3. Script1' \in Seq(Like(r, row[r])) BY <1>0, <1>2, <2>2, CalmTypes, OnwardSeq DEF Quiet1
  <2>4. Script1' \in Seq(Like(r, row'[r])) BY <2>2, <2>3, QuietKeeps
  <2> QED BY <2>2, <2>4, QuietKeeps DEF Placed, Resting
<1> QED BY <1>1, <1>2 DEF Resting

\* A landmark is executed, not failed.
LEMMA Executed ==
  ASSUME TInv, Goes1, Script1 # <<>>, Head(Script1).op \in NasOps \cup {"allocate", "write"}
  PROVE  /\ Statement(w1)
         /\ Head(Script1).op = "write" => DoWrite(w1)
         /\ Head(Script1).op = "allocate" => DoAllocate(w1)
         /\ Head(Script1).op \in NasOps => DoNas(w1)
<1>1. Statement(w1) BY FaultIsQuiet DEF Goes1, NasOps, Tunnelling
<1> QED BY <1>1 DEF Statement, DoWrite, DoAllocate, DoNas, DoRestart, DoSet, DoReconcile, DoRespond, At, Script1, NasOps

LEMMA Finished == ASSUME TInv, Done(w1), Script1 # <<>> PROVE Script1' = Tail(Script1)
<1>1. Tail(Script1) \in Seq(Stmts) BY HeadTail, ThreadAssumption DEF TInv, Script1
<1>2. todo' = [todo EXCEPT ![w1] = <<>> \o Tail(Script1)] BY ThreadAssumption DEF TInv, Script1, Done, Continue
<1>3. <<>> \o Tail(Script1) = Tail(Script1) BY <1>1
<1> QED BY <1>2, <1>3, Lone

LEMMA LeavingGoes == ASSUME TInv, AddressesDistinct, NEW r \in Routers, Leaving(r), Goes1 PROVE Placed'
<1>1. PICK o : /\ Quits(r, o)
               /\ \/ Script1 \in Before(Calm, <<o>>)
                  \/ row[r].ip # 0 /\ Script1 \in Before(Dropping(row[r].ip), <<o>>)
  BY DEF Leaving
<1>2. o \in Stmts /\ o.op = "write" /\ o.router = r BY <1>1 DEF Quits
<1>3. <<o>> \in Seq(Stmts) /\ Marks(<<o>>, Tunnelling) /\ row[r].ip \in Nat
  BY <1>2, RowOf, Only DEF Marks, Tunnelling, Rows
<1>4. CASE Script1 = <<o>>
  <2>1. Script1 # <<>> /\ Head(Script1) = o /\ Tail(Script1) = <<>> BY <1>4
  <2>2. DoWrite(w1) BY <1>2, <2>1, Executed
  <2>3. row' = [row EXCEPT ![r] = Saved(@, o.fields)] /\ nas' = nas
    BY <1>2, <2>1, <2>2 DEF DoWrite, Now, Script1
  <2>4. Script1' = <<>> BY <2>1, <2>2, Finished DEF DoWrite
  <2>5. row[r] \in Rows BY RowOf
  <2>6. row'[r].owner = NoOne /\ row'[r].ip = 0
    <3>1. row'[r] = Saved(row[r], o.fields) BY <2>3 DEF TInv
    <3> QED BY <1>1, <2>5, <3>1 DEF Saved, Quits, Idents, Rows
  <2>7. \A q \in Routers \ {r} : row'[q] = row[q] BY <2>3 DEF TInv
  <2>8. AddressesDistinct' BY <2>6, <2>7 DEF AddressesDistinct
  <2>9. \A q \in Routers : Held(q)'
    <3>1. Held(r)' BY <2>6 DEF Held, Claimed
    <3>2. ASSUME NEW q \in Routers \ {r} PROVE Held(q)'
      <4>1. Held(q) BY DEF Leaving, HeldBut
      <4> QED BY <2>3, <2>7, <4>1 DEF Held, Claimed
    <3> QED BY <3>1, <3>2
  <2> QED BY <2>4, <2>8, <2>9, Empty DEF Placed, Resting
<1>5. ASSUME Script1 # <<o>>, NEW A, Script1 \in Before(A, <<o>>),
             A = Calm \/ (row[r].ip # 0 /\ A = Dropping(row[r].ip))
      PROVE  Placed'
  <2>1. A \subseteq Stmts /\ Calm \subseteq A BY <1>3, <1>5, CalmTypes
  <2>2. Script1 # <<>> /\ Head(Script1) \in A /\ Tail(Script1) \in Before(A, <<o>>) BY <1>3, <1>5, <2>1, Leads
  <2>3. CASE Head(Script1) \in Calm
    <3>1. Quiet1 BY <2>3, CalmTypes, Calmly
    <3>2. Script1' \in Before(A, <<o>>) BY <1>3, <1>5, <2>1, <3>1, OnwardBefore DEF Quiet1
    <3>3. Leaving(r)' BY <1>1, <1>5, <3>1, <3>2, QuietKeeps DEF Leaving
    <3> QED BY <3>1, <3>3, QuietKeeps DEF Placed, Phase
  <2>4. CASE Head(Script1) \notin Calm
    <3>1. Head(Script1) = [op |-> "nasdrop", ip |-> row[r].ip] /\ row[r].ip # 0 /\ A = Dropping(row[r].ip)
      BY <1>5, <2>2, <2>4 DEF Dropping
    <3>2. DoNas(w1) BY <2>2, <3>1, Executed DEF NasOps
    <3>3. nas' = {n \in nas : n.ip # row[r].ip} /\ row' = row
      BY <3>1, <3>2 DEF DoNas, At, Now, Script1
    <3>4. Script1' \in Before(A, <<o>>) BY <2>2, <3>2, Finished DEF DoNas
    <3>5. ASSUME NEW q \in Routers \ {r} PROVE Held(q)'
      <4>1. Held(q) BY DEF Leaving, HeldBut
      <4>2. row[q].ip # row[r].ip BY <3>1 DEF AddressesDistinct
      <4> QED BY <3>3, <4>1, <4>2 DEF Held, Claimed
    <3>6. Leaving(r)' BY <1>1, <3>1, <3>3, <3>4, <3>5 DEF Leaving, HeldBut
    <3> QED BY <3>3, <3>6 DEF Placed, Phase, AddressesDistinct
  <2> QED BY <2>3, <2>4
<1> QED BY <1>1, <1>4, <1>5

LEMMA LikeParts ==
  ASSUME NEW r \in Routers, NEW c \in Rows
  PROVE  /\ \A k, i \in Nat, e \in Elses : Set(k, i, e) \in Seq(Calm)
         /\ \A k \in Nat : Unset(k) \in Seq(Calm)
         /\ \A s \in Scripts : Respond(r, s) \in Seq(Calm)
         /\ \A f \in Fields : Bare(f) => Write(r, f) \in Seq(Calm)
         /\ \A d \in Rows : SameAs(d, c) => Write(r, d) \in Seq(Like(r, c))
         /\ Deliver(r, c) \in Seq(Like(r, c))
         /\ Answer(r, c) \in Seq(Calm)
<1>1. Tunnels \subseteq Calm BY DEF Tunnels, Tunnelling, Calm, Mild, NasOps
<1>2. Seq(Tunnels) \subseteq Seq(Calm) BY <1>1, Wider
<1>3. ASSUME NEW s \in Scripts PROVE Respond(r, s) \in Seq(Calm)
  <2>1. [op |-> "respond", router |-> r, script |-> s] \in Calm BY DEF Calm, Mild, NasOps, Stmts
  <2> QED BY <2>1, Only DEF Respond
<1>4. ASSUME NEW f \in Fields, Bare(f) PROVE Write(r, f) \in Seq(Calm)
  <2>1. [op |-> "write", router |-> r, fields |-> f] \in Calm BY <1>4 DEF Calm, Mild, NasOps, Stmts
  <2> QED BY <2>1, Only DEF Write
<1>5. ASSUME NEW d \in Rows, SameAs(d, c) PROVE Write(r, d) \in Seq(Like(r, c))
  <2>1. [op |-> "write", router |-> r, fields |-> d] \in Stmts BY RowFields, Words
  <2>2. [op |-> "write", router |-> r, fields |-> d] \in Like(r, c) BY <1>5, <2>1 DEF Like, Mild, NasOps
  <2> QED BY <2>2, Only DEF Write
<1>6. Deliver(r, c) \in Seq(Like(r, c))
  <2>1. PICK d : d = [c EXCEPT !.status = "provisioned"] OBVIOUS
  <2>2. d \in Rows /\ SameAs(d, c) BY <2>1 DEF Rows, SameAs, Idents
  <2>3. Script(d) \in Scripts BY <2>2, Pieces
  <2>4. Respond(r, Script(d)) \in Seq(Like(r, c)) BY <1>3, <2>3, CalmTypes, Wider
  <2>5. Write(r, d) \o Respond(r, Script(d)) \in Seq(Like(r, c)) BY <1>5, <2>2, <2>4, Chained
  <2> QED BY <2>1, <2>5 DEF Deliver
<1>7. Answer(r, c) \in Seq(Calm)
  <2>1. Bare([status |-> "provisioned"]) BY DEF Bare, Idents
  <2>2. Write(r, [status |-> "provisioned"]) \in Seq(Calm) BY <1>4, <2>1, Online
  <2>3. Respond(r, Script(c)) \in Seq(Calm) BY <1>3, Pieces
  <2> QED BY <2>2, <2>3, Chained DEF Answer
<1> QED BY <1>2, <1>3, <1>4, <1>5, <1>6, <1>7, PeerCalls

\* What follows the address is the row, and somewhere the NAS row that goes with it.
LEMMA CredentialedShape ==
  ASSUME NEW r \in Routers, NEW c \in Rows, NEW how
  PROVE  \E s : NasThen(r, c, s) /\ Credentialed(r, c, how) = Write(r, c) \o s
<1> DEFINE failed == IF how = "api" THEN Write(r, [status |-> "failed"]) ELSE <<>>
           else == IF r \in Mikrotiks THEN failed ELSE <<>>
           peer == IF c.key = 0 THEN <<>> ELSE Set(c.key, c.ip, else)
           first == r \in Mikrotiks \/ how = "page"
           both == IF first THEN Nas(r, c) \o peer ELSE peer \o Nas(r, c)
           last == IF how # "phone" THEN <<>>
                   ELSE IF r \in Mikrotiks THEN Deliver(r, c)
                   ELSE Write(r, [status |-> "provisioned"]) \o Respond(r, Script(c))
           L == Like(r, c)
<1>0. c.key \in Nat /\ c.ip \in Nat BY DEF Rows
<1>1. else \in Elses BY DEF Elses
<1> HIDE DEF else
<1>2. Seq(Calm) \subseteq Seq(L) BY CalmTypes, Wider
<1>3. peer \in Seq(L) BY <1>0, <1>1, <1>2, LikeParts, Empty
<1> HIDE DEF peer
<1>4. last \in Seq(L) BY <1>2, LikeParts, Empty DEF Answer
<1> HIDE DEF last
<1>5. Write(r, c) \in Seq(Stmts) /\ Nas(r, c) \in Seq(Stmts) BY RowFields, Pieces
<1>6. peer \in Seq(Stmts) /\ last \in Seq(Stmts) BY <1>3, <1>4, CalmTypes, Wider
<1>7. Credentialed(r, c, how) = Write(r, c) \o both \o last
  BY DEF Credentialed, both, last, peer, else, first
<1> HIDE DEF L
<1>8. CASE first
  <2>1. PICK s \in Seq(Stmts) : s = Nas(r, c) \o (peer \o last) BY <1>5, <1>6, Chained
  <2>2. peer \o last \in Seq(L) BY <1>3, <1>4, Chained
  <2>3. NasThen(r, c, s) BY <2>1, <2>2, Opens DEF NasThen, L
  <2>4. Write(r, c) \o (Nas(r, c) \o peer) \o last = Write(r, c) \o (Nas(r, c) \o (peer \o last))
    <3>1. Nas(r, c) \o peer \in Seq(Stmts) BY <1>5, <1>6, Chained
    <3>2. Write(r, c) \o (Nas(r, c) \o peer) \o last = Write(r, c) \o ((Nas(r, c) \o peer) \o last) BY <1>5, <1>6, <3>1, Regroup, ZenonT(60)
    <3>3. (Nas(r, c) \o peer) \o last = Nas(r, c) \o (peer \o last) BY <1>5, <1>6, Regroup, ZenonT(60)
    <3> QED BY <3>2, <3>3, Zenon
  <2> QED BY <1>7, <1>8, <2>1, <2>3, <2>4
<1>9. CASE ~first
  <2>1. PICK s : s = peer \o (Nas(r, c) \o last) OBVIOUS
  <2>2. NasThen(r, c, s) BY <1>3, <1>4, <2>1 DEF NasThen, L, Before
  <2>3. Write(r, c) \o (peer \o Nas(r, c)) \o last = Write(r, c) \o (peer \o (Nas(r, c) \o last))
    <3>1. peer \o Nas(r, c) \in Seq(Stmts) BY <1>5, <1>6, Chained
    <3>2. Write(r, c) \o (peer \o Nas(r, c)) \o last = Write(r, c) \o ((peer \o Nas(r, c)) \o last) BY <1>5, <1>6, <3>1, Regroup, ZenonT(60)
    <3>3. (peer \o Nas(r, c)) \o last = peer \o (Nas(r, c) \o last) BY <1>5, <1>6, Regroup, ZenonT(60)
    <3> QED BY <3>2, <3>3, Zenon
  <2> QED BY <1>7, <1>9, <2>1, <2>2, <2>3
<1> QED BY <1>8, <1>9

LEMMA EnteringGoes == ASSUME TInv, AddressesDistinct, NEW r \in Routers, Entering(r), Goes1 PROVE Placed'
<1>1. PICK o \in Stmts : o.op = "allocate" /\ o.router = r /\ Script1 \in Before(Calm, <<o>>) BY DEF Entering
<1>2. <<o>> \in Seq(Stmts) /\ Marks(<<o>>, Tunnelling) BY <1>1, Only DEF Marks, Tunnelling
<1>3. CASE Script1 = <<o>>
  <2>1. Script1 # <<>> /\ Head(Script1) = o /\ Tail(Script1) = <<>> BY <1>3
  <2>2. DoAllocate(w1) BY <1>1, <2>1, Executed
  <2>3. PICK c : c = [o.copy EXCEPT !.ip = NextAddress] OBVIOUS
  <2>4. o.copy \in Rows BY <1>1, Parts
  <2>5. c \in Rows /\ c.ip # 0 /\ Apart(r, c.ip)
    <3>1. NextAddress \in Nat \ {0} /\ \A q \in Routers : row[q].ip # NextAddress BY NextApart
    <3>2. c \in Rows /\ c.ip = NextAddress BY <2>3, <2>4, <3>1 DEF Rows
    <3> QED BY <3>1, <3>2 DEF Apart
  <2>6. PICK s : NasThen(r, c, s) /\ Credentialed(r, c, o.how) = Write(r, c) \o s BY <2>5, CredentialedShape
  <2>7. UNCHANGED <<row, nas>> /\ Continue(w1, Credentialed(r, c, o.how))
    BY <1>1, <2>1, <2>2, <2>3 DEF DoAllocate, Now, Script1
  <2>8. Script1' = Write(r, c) \o s
    <3>1. todo' = [todo EXCEPT ![w1] = Credentialed(r, c, o.how) \o <<>>]
      BY <2>1, <2>7, ThreadAssumption DEF TInv, Script1, Continue
    <3>2. Credentialed(r, c, o.how) \in Seq(Stmts) BY <2>5, TypedCredentialed
    <3>3. Credentialed(r, c, o.how) \o <<>> = Credentialed(r, c, o.how) BY <3>2
    <3> QED BY <2>6, <3>1, <3>3, Lone
  <2>9. HeldBut(r)' BY <2>7 DEF Entering, HeldBut, Held, Claimed
  <2>10. Apart(r, c.ip)' BY <2>5, <2>7 DEF Apart
  <2>11. NasThen(r, c, s)' BY <2>6 DEF NasThen
  <2>12. Saving(r)' BY <2>5, <2>8, <2>9, <2>10, <2>11 DEF Saving
  <2> QED BY <2>7, <2>12 DEF Placed, Phase, AddressesDistinct
<1>4. CASE Script1 # <<o>>
  <2>1. Head(Script1) \in Calm BY <1>1, <1>2, <1>4, CalmTypes, Leads
  <2>2. Quiet1 BY <2>1, CalmTypes, Calmly
  <2>3. Script1' \in Before(Calm, <<o>>) BY <1>1, <1>2, <1>4, <2>2, CalmTypes, OnwardBefore DEF Quiet1
  <2>4. Entering(r)' BY <1>1, <2>2, <2>3, QuietKeeps DEF Entering
  <2> QED BY <2>2, <2>4, QuietKeeps DEF Placed, Phase
<1> QED BY <1>3, <1>4

LEMMA SavingGoes == ASSUME TInv, AddressesDistinct, NEW r \in Routers, Saving(r), Goes1 PROVE Placed'
<1>1. PICK c \in Rows : \E s : /\ c.ip # 0 /\ Apart(r, c.ip) /\ NasThen(r, c, s)
                               /\ Script1 = Write(r, c) \o s
  BY DEF Saving
<1>2. PICK s : c.ip # 0 /\ Apart(r, c.ip) /\ NasThen(r, c, s) /\ Script1 = Write(r, c) \o s BY <1>1
<1>3. PICK o \in Stmts : o = [op |-> "write", router |-> r, fields |-> c] BY RowFields, Words
<1>4. s \in Seq(Stmts)
  <2>1. PICK t \in Seq(Like(r, c)) : s \in Before(Like(r, c), Nas(r, c) \o t) BY <1>2 DEF NasThen
  <2>2. t \in Seq(Stmts) /\ Nas(r, c) \in Seq(Stmts) BY CalmTypes, Wider, Pieces
  <2> QED BY <2>1, <2>2, Chained, CalmTypes, Typed
<1>5. Script1 = <<o>> \o s BY <1>2, <1>3 DEF Write
<1>6. Script1 # <<>> /\ Head(Script1) = o /\ Tail(Script1) = s BY <1>4, <1>5
<1>7. DoWrite(w1) BY <1>3, <1>6, Executed
<1>8. row' = [row EXCEPT ![r] = Saved(@, c)] /\ nas' = nas
  <2>1. o.router = r /\ o.fields = c BY <1>3
  <2>2. row' = [row EXCEPT ![o.router] = Saved(@, o.fields)] /\ nas' = nas
    BY <1>6, <1>7 DEF DoWrite, Now, Script1
  <2> QED BY <2>1, <2>2
<1>9. Script1' = s BY <1>6, <1>7, Finished DEF DoWrite
<1>10. row'[r].owner = c.owner /\ row'[r].ip = c.ip /\ row'[r].secret = c.secret
  <2>1. row[r] \in Rows BY RowOf
  <2>2. row'[r] = Saved(row[r], c) BY <1>8 DEF TInv
  <2> QED BY <2>1, <2>2 DEF Saved, Rows
<1>11. \A q \in Routers \ {r} : row'[q] = row[q] BY <1>8 DEF TInv
<1>12. AddressesDistinct' BY <1>2, <1>10, <1>11 DEF AddressesDistinct, Apart
<1>13. HeldBut(r)' BY <1>8, <1>11 DEF Saving, HeldBut, Held, Claimed
<1>14. Like(r, row'[r]) = Like(r, c) /\ Nas(r, row'[r]) = Nas(r, c) BY <1>10, LikeSame DEF Nas
<1>15. Staling(r)' BY <1>2, <1>9, <1>10, <1>13, <1>14 DEF Staling, NasThen
<1> QED BY <1>12, <1>15 DEF Placed, Phase

LEMMA PutTyped == ASSUME NEW r \in Routers, NEW c \in Rows PROVE PutOf(r, c) \in Seq(Stmts)
<1>1. c.ip \in Nat /\ c.secret \in Nat BY DEF Rows
<1>2. [op |-> "nasput", router |-> r, ip |-> c.ip, secret |-> c.secret] \in Stmts /\ [op |-> "restart"] \in Stmts
  BY <1>1, Words
<1> QED BY <1>2, Both DEF PutOf

LEMMA StalingGoes == ASSUME TInv, AddressesDistinct, NEW r \in Routers, Staling(r), Goes1 PROVE Placed'
<1> DEFINE c == row[r]
           L == Like(r, c)
<1>1. PICK t \in Seq(L) : Script1 \in Before(L, Nas(r, c) \o t) BY DEF Staling, NasThen
<1>2. c \in Rows /\ t \in Seq(Stmts) BY RowOf, CalmTypes, Wider
<1>3. PICK v \in Seq(Stmts) : v = Nas(r, c) \o t BY <1>2, Pieces, Chained
<1> DEFINE o == [op |-> "nasstale", router |-> r, ip |-> c.ip]
<1>4. PutOf(r, c) \in Seq(Stmts) BY <1>2, PutTyped
<1>5. v = <<o>> \o (PutOf(r, c) \o t)
  <2>1. Nas(r, c) = <<o>> \o PutOf(r, c) BY DEF Nas, PutOf
  <2> HIDE DEF o, c
  <2>2. <<o>> \in Seq({o} \cup Stmts) /\ PutOf(r, c) \in Seq({o} \cup Stmts) /\ t \in Seq({o} \cup Stmts)
    BY <1>2, <1>4
  <2>3. (<<o>> \o PutOf(r, c)) \o t = <<o>> \o (PutOf(r, c) \o t) BY <2>2
  <2> QED BY <1>3, <2>1, <2>3
<1>6. PICK u \in Seq(Stmts) : u = PutOf(r, c) \o t BY <1>2, <1>4, Chained
<1>7. v # <<>> /\ Head(v) = o /\ Tail(v) = u /\ v[1] = o
  <2> HIDE DEF o
  <2> QED BY <1>5, <1>6
<1>8. Marks(v, Tunnelling) BY <1>7 DEF Marks, Tunnelling
<1>9. CASE Script1 = v
  <2>1. DoNas(w1) BY <1>7, <1>9, Executed DEF NasOps
  <2>2. nas' = {n \in nas : n.router # r \/ n.ip = c.ip} /\ row' = row
    BY <1>7, <1>9, <2>1 DEF DoNas, At, Now, Script1
  <2>3. Script1' = u BY <1>7, <1>9, <2>1, Finished DEF DoNas
  <2>4. ASSUME NEW q \in Routers \ {r} PROVE Held(q)'
    <3>1. Held(q) BY DEF Staling, HeldBut
    <3> QED BY <2>2, <3>1 DEF Held, Claimed
  <2>5. \A n \in nas' : n.router = r => n.ip = row'[r].ip BY <2>2
  <2>6. \E z \in Seq(Like(r, row'[r])) : Script1' = PutOf(r, row'[r]) \o z BY <1>6, <2>2, <2>3
  <2>7. Putting(r)' BY <2>2, <2>4, <2>5, <2>6 DEF Putting, HeldBut, Staling
  <2> QED BY <2>2, <2>7 DEF Placed, Phase, AddressesDistinct
<1>10. CASE Script1 # v
  <2>0. Script1 \in Before(L, v) /\ L \subseteq Stmts /\ L \subseteq Still /\ Calm \subseteq L BY <1>1, <1>3, CalmTypes
  <2> HIDE DEF L
  <2>1. Head(Script1) \in Still BY <1>10, <2>0, Leads
  <2>2. Quiet1 BY <2>1, Calmly
  <2>3. Script1' \in Before(L, v) BY <1>8, <1>10, <2>0, <2>2, OnwardBefore DEF Quiet1
  <2>4. Like(r, row'[r]) = L /\ Nas(r, row'[r]) = Nas(r, c) /\ row'[r].ip = c.ip /\ HeldBut(r)'
    BY <2>2, QuietKeeps DEF L, Staling
  <2>5. NasThen(r, row'[r], Script1') BY <1>1, <1>3, <2>3, <2>4 DEF NasThen
  <2>6. Staling(r)' BY <2>4, <2>5 DEF Staling, NasThen
  <2> QED BY <2>2, <2>6, QuietKeeps DEF Placed, Phase
<1> QED BY <1>9, <1>10

LEMMA PuttingGoes == ASSUME TInv, AddressesDistinct, NEW r \in Routers, Putting(r), Goes1 PROVE Placed'
<1> DEFINE c == row[r]
           o == [op |-> "nasput", router |-> r, ip |-> c.ip, secret |-> c.secret]
           e == [op |-> "restart"]
<1>1. PICK t \in Seq(Like(r, c)) : Script1 = <<o, e>> \o t BY DEF Putting, PutOf
<1>2. c \in Rows /\ c.ip # 0 BY RowOf DEF Putting
<1>3. e \in Like(r, c) BY DEF Like, Mild, NasOps, Stmts
<1>4. PICK u \in Seq(Like(r, c)) : u = <<e>> \o t BY <1>3, Only, Chained
<1>5. Script1 # <<>> /\ Head(Script1) = o /\ Tail(Script1) = u
  <2> HIDE DEF o, e
  <2> QED BY <1>1, <1>4
<1>6. DoNas(w1) BY <1>5, Executed DEF NasOps
<1>7. nas' = {n \in nas : n.ip # c.ip} \cup {[ip |-> c.ip, router |-> r, secret |-> c.secret]} /\ row' = row
  BY <1>5, <1>6 DEF DoNas, At, Now, Script1
<1>8. Script1' = u BY <1>5, <1>6, Finished DEF DoNas
<1>9. ASSUME NEW q \in Routers PROVE Held(q)'
  <2>1. CASE q = r BY <1>7, <2>1 DEF Held, Claimed, Putting
  <2>2. CASE q # r
    <3>1. Held(q) BY <2>2 DEF Putting, HeldBut
    <3>2. row[q].ip # c.ip BY <1>2, <2>2 DEF AddressesDistinct
    <3> QED BY <1>7, <2>2, <3>1, <3>2 DEF Held, Claimed
  <2> QED BY <2>1, <2>2
<1>10. Script1' \in Seq(Like(r, row'[r])) BY <1>7, <1>8
<1> QED BY <1>7, <1>9, <1>10 DEF Placed, Resting, AddressesDistinct

LEMMA PlacedGoes == ASSUME TInv, Placed, Goes1 PROVE Placed'
BY RestingGoes, LeavingGoes, EnteringGoes, SavingGoes, StalingGoes, PuttingGoes DEF Placed, Phase

-----------------------------------------------------------------------------
(* Addresses and NAS rows: what a request begins                           *)

Settled == AddressesDistinct /\ \A q \in Routers : Held(q)

LEMMA Starts == ASSUME NEW A, A \subseteq Stmts, NEW v \in Seq(Stmts), v # <<>>, NEW s \in Before(A, v) PROVE s # <<>>
BY Leads

LEMMA Longer == ASSUME NEW S, NEW a \in Seq(S), NEW b \in Seq(S), a # <<>> PROVE a \o b # <<>>
<1>1. Len(a) # 0 /\ Len(a) \in Nat /\ Len(b) \in Nat /\ Len(a \o b) = Len(a) + Len(b) OBVIOUS
<1>2. Len(a \o b) # 0 BY <1>1
<1> QED BY <1>2

LEMMA Some == ASSUME NEW r, NEW c PROVE Write(r, c) # <<>> /\ Nas(r, c) # <<>> /\ PutOf(r, c) # <<>>
BY DEF Write, Nas, PutOf

LEMMA Rested == ASSUME TInv, Placed, Script1 = <<>> PROVE Settled
<1>1. AddressesDistinct BY DEF Placed
<1>2. ASSUME NEW r \in Routers, Phase(r) PROVE FALSE
  <2>0. row[r] \in Rows /\ row[r].ip \in Nat BY RowOf DEF Rows
  <2>1. CASE Leaving(r)
    <3>1. PICK o : Quits(r, o) /\ \/ Script1 \in Before(Calm, <<o>>)
                                  \/ Script1 \in Before(Dropping(row[r].ip), <<o>>)
      BY <2>1 DEF Leaving
    <3>2. <<o>> \in Seq(Stmts) /\ <<o>> # <<>> BY <3>1, Only DEF Quits
    <3> QED BY <2>0, <3>1, <3>2, CalmTypes, Starts
  <2>2. CASE Entering(r)
    <3>1. PICK o \in Stmts : Script1 \in Before(Calm, <<o>>) BY <2>2 DEF Entering
    <3>2. <<o>> \in Seq(Stmts) /\ <<o>> # <<>> BY Only
    <3> QED BY <3>1, <3>2, CalmTypes, Starts
  <2>3. CASE Saving(r)
    <3>1. PICK c \in Rows : \E s : NasThen(r, c, s) /\ Script1 = Write(r, c) \o s BY <2>3 DEF Saving
    <3>2. PICK s : NasThen(r, c, s) /\ Script1 = Write(r, c) \o s BY <3>1
    <3>3. PICK t \in Seq(Like(r, c)) : s \in Before(Like(r, c), Nas(r, c) \o t) BY <3>2 DEF NasThen
    <3>4. s \in Seq(Stmts)
      <4>1. t \in Seq(Stmts) /\ Nas(r, c) \in Seq(Stmts) BY CalmTypes, Wider, Pieces
      <4> QED BY <3>3, <4>1, Chained, CalmTypes, Typed
    <3>5. Write(r, c) \in Seq(Stmts) BY RowFields, Pieces
    <3>6. Write(r, c) \o s # <<>> BY <3>4, <3>5, Some, Longer
    <3> QED BY <3>2, <3>6
  <2>4. CASE Staling(r)
    <3>1. PICK t \in Seq(Like(r, row[r])) : Script1 \in Before(Like(r, row[r]), Nas(r, row[r]) \o t)
      BY <2>4 DEF Staling, NasThen
    <3>2. t \in Seq(Stmts) /\ Nas(r, row[r]) \in Seq(Stmts) BY <2>0, CalmTypes, Wider, Pieces
    <3>4. PICK v \in Seq(Stmts) : v = Nas(r, row[r]) \o t BY <3>2, Chained
    <3>5. v # <<>> BY <3>2, <3>4, Some, Longer
    <3> QED BY <3>1, <3>4, <3>5, CalmTypes, Starts
  <2>5. CASE Putting(r)
    <3>1. PICK t \in Seq(Like(r, row[r])) : Script1 = PutOf(r, row[r]) \o t BY <2>5 DEF Putting
    <3>2. t \in Seq(Stmts) BY CalmTypes, Wider
    <3>3. PutOf(r, row[r]) \in Seq(Stmts) BY <2>0, PutTyped
    <3>4. PutOf(r, row[r]) \o t # <<>> BY <3>2, <3>3, Some, Longer
    <3> QED BY <3>1, <3>4
  <2> QED BY <1>2, <2>1, <2>2, <2>3, <2>4, <2>5 DEF Phase
<1> QED BY <1>1, <1>2 DEF Placed, Resting, Settled

LEMMA Loads ==
  ASSUME TInv, NEW s, Load(w1, s) \/ Serve(w1, s) PROVE Script1' = s /\ Script1 = <<>>
<1>1. todo[w1] = <<>> /\ todo' = [todo EXCEPT ![w1] = s] BY DEF Load, Serve
<1> QED BY <1>1, Lone DEF Script1

LEMMA RegisterSettled == ASSUME TInv, Settled, NEW r \in Routers, Register(r), nas' = nas PROVE Settled'
<1>1. \A q \in Routers \ {r} : row'[q] = row[q] BY DEF Register, TInv
<1>2. row'[r] = row[r] \/ (row'[r].owner = NoOne /\ row'[r].ip = 0) BY DEF Register, TInv, Registered, Blank
<1>3. AddressesDistinct' BY <1>1, <1>2 DEF Settled, AddressesDistinct
<1>4. ASSUME NEW q \in Routers PROVE Held(q)' BY <1>1, <1>2 DEF Settled, Held, Claimed
<1> QED BY <1>3, <1>4 DEF Settled

LEMMA UntouchedSettled == ASSUME Settled, UNCHANGED <<row, nas>> PROVE Settled'
BY DEF Settled, AddressesDistinct, Held, Claimed

LEMMA BeginsCalm == ASSUME Settled', Script1' \in Seq(Calm) PROVE Placed'
BY DEF Placed, Settled, Resting
LEMMA BeginsLike == ASSUME Settled', NEW r \in Routers, Script1' \in Seq(Like(r, row'[r])) PROVE Placed'
BY DEF Placed, Settled, Resting

LEMMA BeginsEntering ==
  ASSUME Settled', NEW r \in Routers, NEW c \in Rows, NEW h \in Hows, NEW a \in Seq(Calm), Script1' = a \o Allocate(r, c, h)
  PROVE  Placed'
<1>1. PICK o \in Stmts : o = [op |-> "allocate", router |-> r, copy |-> c, how |-> h] BY Words
<1>2. Script1' \in Before(Calm, <<o>>) BY <1>1 DEF Allocate, Before
<1>3. o.op = "allocate" /\ o.router = r BY <1>1
<1>4. HeldBut(r)' BY DEF Settled, HeldBut
<1>5. Entering(r)' BY <1>2, <1>3, <1>4 DEF Entering
<1> QED BY <1>5 DEF Placed, Phase, Settled

LEMMA BeginsAllocate ==
  ASSUME Settled', NEW r \in Routers, NEW c \in Rows, NEW h \in Hows, Script1' = Allocate(r, c, h) PROVE Placed'
<1>1. Allocate(r, c, h) = <<>> \o Allocate(r, c, h)
  <2>1. Allocate(r, c, h) \in Seq(Stmts) BY Pieces
  <2> QED BY <2>1
<1> QED BY <1>1, Empty, BeginsEntering

LEMMA BeginsLeaving ==
  ASSUME Settled', NEW r \in Routers, NEW f \in Fields, Idents \subseteq DOMAIN f, f.owner = NoOne, f.ip = 0,
         NEW a, a \in Seq(Calm) \/ (row'[r].ip # 0 /\ a \in Seq(Dropping(row'[r].ip))), Script1' = a \o Write(r, f)
  PROVE  Placed'
<1>1. PICK o \in Stmts : o = [op |-> "write", router |-> r, fields |-> f] BY Words
<1>2. \/ Script1' \in Before(Calm, <<o>>)
      \/ row'[r].ip # 0 /\ Script1' \in Before(Dropping(row'[r].ip), <<o>>)
  BY <1>1 DEF Write, Before
<1>3. o.op = "write" /\ o.router = r /\ o.fields = f BY <1>1
<1>4. Quits(r, o) BY <1>3 DEF Quits
<1>5. HeldBut(r)' BY DEF Settled, HeldBut
<1>6. Leaving(r)' BY <1>2, <1>4, <1>5 DEF Leaving
<1> QED BY <1>6 DEF Placed, Phase, Settled

LEMMA BeginsSaving ==
  ASSUME Settled', NEW r \in Routers, NEW c \in Rows, c.ip # 0, row'[r].ip = c.ip,
         NEW a \in Seq(Calm), Script1' = Write(r, c) \o a \o Nas(r, c)
  PROVE  Placed'
<1>1. Apart(r, c.ip)' BY DEF Settled, AddressesDistinct, Apart
<1>2. Nas(r, c) \in Seq(Stmts) /\ Write(r, c) \in Seq(Stmts) BY RowFields, Pieces
<1>3. a \in Seq(Stmts) /\ a \in Seq(Like(r, c)) BY CalmTypes, Wider
<1>4. PICK s : s = a \o (Nas(r, c) \o <<>>) OBVIOUS
<1>5. Write(r, c) \o a \o Nas(r, c) = Write(r, c) \o (a \o (Nas(r, c) \o <<>>))
  <2>1. Nas(r, c) \o <<>> = Nas(r, c) BY <1>2
  <2>2. Write(r, c) \o a \o Nas(r, c) = Write(r, c) \o (a \o Nas(r, c)) BY <1>2, <1>3
  <2> QED BY <2>1, <2>2
<1>6. NasThen(r, c, s) BY <1>3, <1>4, Empty DEF NasThen, Before
<1>7. HeldBut(r)' BY DEF Settled, HeldBut
<1>8. NasThen(r, c, s)' BY <1>6 DEF NasThen
<1>9. Saving(r)' BY <1>1, <1>4, <1>5, <1>7, <1>8 DEF Saving
<1> QED BY <1>9 DEF Placed, Phase, Settled

LEMMA ClaimsPlaced == ASSUME TInv, Settled, Claims(w1) PROVE Placed'
<1> PICK r \in Routers, o \in Resellers :
      RouterAdd(w1, r, o) \/ HandleMikrotikAdd(w1, r, o) \/ HandleOpenwrtAdd(w1, r, o)
  BY DEF Claims
<1> DEFINE mine(d) == [d EXCEPT !.owner = o, !.status = "pending"]
<1>0. row[r] \in Rows /\ Fresh \in Nat /\ o \in Owners /\ "pending" \in Statuses
  BY RowOf, FreshNat DEF Owners, Statuses
<1>1. \A d \in Rows : mine(d) \in Rows /\ mine(d).ip = d.ip
  <2>1. ASSUME NEW d \in Rows PROVE mine(d) \in Rows BY <1>0, CopyRows
  <2>2. ASSUME NEW d \in Rows PROVE mine(d).ip = d.ip BY SMTT(20) DEF Rows
  <2> HIDE DEF mine
  <2> QED BY <2>1, <2>2
<1>2. Generated(row[r]) \in Rows BY <1>0, CopyRows DEF Generated
<1>3. Untouched => Settled' BY UntouchedSettled DEF Untouched
<1>4. CASE RouterAdd(w1, r, o)
  <2> DEFINE keyed == mine([row[r] EXCEPT !.secret = IF @ = 0 THEN Fresh ELSE @])
             script == Write(r, keyed) \o Set(row[r].key, row[r].ip, <<>>) \o Nas(r, keyed)
  <2>1. row[r].secret \in Nat /\ row[r].key \in Nat /\ row[r].ip \in Nat BY <1>0 DEF Rows
  <2>2. PICK k \in Nat : k = IF row[r].secret = 0 THEN Fresh ELSE row[r].secret BY <1>0, <2>1
  <2>3. keyed \in Rows /\ keyed.ip = row[r].ip
    <3>1. [row[r] EXCEPT !.secret = k] \in Rows BY <1>0, CopyRows
    <3>2. [row[r] EXCEPT !.secret = k].ip = row[r].ip BY <1>0 DEF Rows
    <3> QED BY <1>1, <2>2, <3>1, <3>2
  <2>4. Untouched /\ \/ Serve(w1, Allocate(r, mine(Generated(row[r])), "api"))
                     \/ Serve(w1, Allocate(r, keyed, "api")) \/ (row[r].ip # 0 /\ Serve(w1, script))
    BY <1>4 DEF RouterAdd
  <2> HIDE DEF keyed, mine
  <2>5. CASE Serve(w1, Allocate(r, mine(Generated(row[r])), "api"))
    <3>1. Script1' = Allocate(r, mine(Generated(row[r])), "api") BY <2>5, Loads
    <3> QED BY <1>1, <1>2, <1>3, <2>4, <3>1, BeginsAllocate DEF Hows
  <2>6. CASE Serve(w1, Allocate(r, keyed, "api"))
    <3>1. Script1' = Allocate(r, keyed, "api") BY <2>6, Loads
    <3> QED BY <1>3, <2>3, <2>4, <3>1, BeginsAllocate DEF Hows
  <2>7. CASE row[r].ip # 0 /\ Serve(w1, script)
    <3>1. Script1' = Write(r, keyed) \o Set(row[r].key, row[r].ip, <<>>) \o Nas(r, keyed) BY <2>7, Loads
    <3>2. Set(row[r].key, row[r].ip, <<>>) \in Seq(Calm) BY <1>0, <2>1, LikeParts DEF Elses
    <3>3. row'[r].ip = keyed.ip /\ keyed.ip # 0 BY <2>3, <2>4, <2>7 DEF Untouched
    <3> QED BY <1>3, <2>3, <2>4, <3>1, <3>2, <3>3, BeginsSaving
  <2> QED BY <2>4, <2>5, <2>6, <2>7
<1>5. CASE HandleMikrotikAdd(w1, r, o)
  <2>1. Serve(w1, Allocate(r, mine(Generated(row[r])), "page")) /\ Untouched BY <1>5 DEF HandleMikrotikAdd
  <2> HIDE DEF mine
  <2>2. Script1' = Allocate(r, mine(Generated(row[r])), "page") BY <2>1, Loads
  <2> QED BY <1>1, <1>2, <1>3, <2>1, <2>2, BeginsAllocate DEF Hows
<1>6. CASE HandleOpenwrtAdd(w1, r, o)
  <2>1. PICK d : d = [row[r] EXCEPT !.owner = o, !.status = "pending", !.secret = Fresh] BY Zenon
  <2>2. d \in Rows BY <1>0, <2>1, CopyRows
  <2>3. Serve(w1, Allocate(r, d, "page")) /\ Untouched BY <1>6, <2>1 DEF HandleOpenwrtAdd
  <2>4. Script1' = Allocate(r, d, "page") BY <2>3, Loads
  <2> QED BY <1>3, <2>2, <2>3, <2>4, BeginsAllocate DEF Hows
<1> QED BY <1>4, <1>5, <1>6

LEMMA ReleasesPlaced == ASSUME TInv, Settled, Releases(w1) PROVE Placed'
<1> PICK r \in Routers : RouterRemove(w1, r) \/ MarkAvailable(w1, r) BY DEF Releases
<1>0. row[r] \in Rows /\ row[r].key \in Nat /\ row[r].ip \in Nat BY RowOf DEF Rows
<1>1. Unset(row[r].key) \in Seq(Calm) BY <1>0, LikeParts
<1>2. CASE RouterRemove(w1, r)
  <2> DEFINE drop == IF row[r].ip = 0 THEN <<>> ELSE NasDrop(row[r].ip)
  <2>1. Untouched /\ Load(w1, (Unset(row[r].key) \o drop) \o Write(r, Given(row[r]))) BY <1>2 DEF RouterRemove, Given
  <2>2. Given(row[r]) \in Rows /\ Given(row[r]).owner = NoOne /\ Given(row[r]).ip = 0 BY <1>0 DEF Given, Blank, Rows
  <2>3. Given(row[r]) \in Fields /\ Idents \subseteq DOMAIN Given(row[r])
    <3>1. DOMAIN Given(row[r]) = Names BY <2>2 DEF Rows, Names
    <3> QED BY <2>2, <3>1, RowFields DEF Names, Idents
  <2>4. PICK a : a = Unset(row[r].key) \o drop OBVIOUS
  <2>5. a \in Seq(Calm) \/ (row[r].ip # 0 /\ a \in Seq(Dropping(row[r].ip)))
    <3>1. CASE row[r].ip = 0 BY <1>1, <2>4, <3>1, Empty, Chained
    <3>2. CASE row[r].ip # 0
      <4>1. [op |-> "nasdrop", ip |-> row[r].ip] \in Dropping(row[r].ip) BY DEF Dropping
      <4>2. [op |-> "restart"] \in Calm BY DEF Calm, Mild, NasOps, Stmts
      <4>3. NasDrop(row[r].ip) \in Seq(Dropping(row[r].ip)) BY <1>0, <4>1, <4>2, CalmTypes, Both DEF NasDrop
      <4>4. Unset(row[r].key) \in Seq(Dropping(row[r].ip)) BY <1>0, <1>1, CalmTypes, Wider
      <4> QED BY <2>4, <3>2, <4>3, <4>4, Chained
    <3> QED BY <3>1, <3>2
  <2>6. Script1' = a \o Write(r, Given(row[r])) BY <2>1, <2>4, Loads
  <2>7. Settled' /\ row'[r].ip = row[r].ip BY <2>1, UntouchedSettled DEF Untouched
  <2> QED BY <2>2, <2>3, <2>5, <2>6, <2>7, BeginsLeaving
<1>3. CASE MarkAvailable(w1, r)
  <2>1. PICK f : f = [status |-> "available", owner |-> NoOne, key |-> 0, ip |-> 0, secret |-> 0] OBVIOUS
  <2>2. f \in Fields BY <2>1, Columns DEF Statuses, Owners
  <2>3. Idents \subseteq DOMAIN f /\ f.owner = NoOne /\ f.ip = 0 BY <2>1 DEF Idents
  <2>4. Load(w1, Unset(row[r].key) \o Write(r, f)) /\ Untouched BY <1>3, <2>1 DEF MarkAvailable
  <2>5. Script1' = Unset(row[r].key) \o Write(r, f) BY <2>4, Loads
  <2>6. Settled' BY <2>4, UntouchedSettled DEF Untouched
  <2> QED BY <1>1, <2>2, <2>3, <2>5, <2>6, BeginsLeaving
<1> QED BY <1>2, <1>3

LEMMA SettlesPlaced == ASSUME TInv, Settled, Settles(w1) PROVE Placed'
<1> PICK r \in Routers : WifiConfig(w1, r) \/ Topology(w1, r) \/ Redeploy(w1, r) BY DEF Settles
<1>1. PICK f, g : f = [settings |-> Fresh, needs |-> TRUE] /\ g = [needs |-> TRUE] OBVIOUS
<1>2. f \in Fields /\ g \in Fields BY <1>1, FreshNat, Columns DEF Statuses, Owners
<1>3. Bare(f) /\ Bare(g) BY <1>1 DEF Bare, Idents
<1>4. row[r] \in Rows BY RowOf
<1>5. Write(r, f) \in Seq(Calm) /\ Write(r, g) \in Seq(Calm) BY <1>2, <1>3, <1>4, LikeParts
<1>6. Untouched /\ (Serve(w1, Write(r, f)) \/ Load(w1, Write(r, g)))
  BY <1>1 DEF WifiConfig, Topology, Redeploy
<1>7. Script1' \in Seq(Calm) BY <1>5, <1>6, Loads
<1> QED BY <1>6, <1>7, UntouchedSettled, BeginsCalm DEF Untouched

LEMMA SeenBare == ASSUME NEW c, NEW f \in Seen(c) PROVE Bare(f)
<1>1. f = <<>> \/ f = [status |-> "provisioned"] BY DEF Seen
<1>2. DOMAIN f \subseteq {"status"}
  <2>1. CASE f = <<>>
    <3>1. DOMAIN f = {} BY <2>1
    <3> QED BY <3>1
  <2>2. CASE f = [status |-> "provisioned"] BY <2>2
  <2> QED BY <1>1, <2>1, <2>2
<1> QED BY <1>2 DEF Bare, Idents

LEMMA BeatCalm == ASSUME NEW r \in Routers, NEW c \in Rows, NEW f \in Seen(c) PROVE Beat(r, c, f) \in Seq(Calm)
<1> DEFINE g == [status |-> "provisioned", needs |-> FALSE]
           t == IF c.owner # NoOne /\ (c.status = "pending" \/ c.needs) /\ c.private # 0
                THEN Write(r, g) \o Respond(r, Script(c)) ELSE <<>>
<1>1. Bare(g) BY DEF Bare, Idents
<1>2. Write(r, g) \in Seq(Calm) /\ Respond(r, Script(c)) \in Seq(Calm) /\ Write(r, f) \in Seq(Calm)
  BY <1>1, LikeParts, Online, Pieces, TypedSeen, SeenBare
<1>3. t \in Seq(Calm) BY <1>2, Chained, Empty
<1>4. Beat(r, c, f) = Write(r, f) \o t BY DEF Beat
<1> HIDE DEF t
<1> QED BY <1>2, <1>3, <1>4, Chained

LEMMA SwapCalm == ASSUME NEW r \in Routers, NEW c \in Rows, NEW k \in Nat PROVE Swap(c, k) \in Seq(Calm)
<1>1. Unset(c.key) \in Seq(Calm) /\ Set(k, c.ip, <<>>) \in Seq(Calm) BY LikeParts DEF Rows, Elses
<1> QED BY <1>1, Empty, Chained DEF Swap

LEMMA RekeyRow == ASSUME NEW c \in Rows, NEW k \in Nat PROVE Rekey(c, k) \in Rows
BY DEF Rekey, Rows

LEMMA BeatOpenCalm ==
  ASSUME NEW r \in Routers, NEW c \in Rows, NEW k \in Nat, NEW f \in Seen(c) PROVE BeatOpen(r, c, k, f) \in Seq(Calm)
<1> DEFINE g == IF k # c.key THEN Keyed(f, k) ELSE f
           p == IF k # c.key THEN Swap(c, k) ELSE <<>>
           t == IF Rekey(c, k).owner # NoOne /\ Rekey(c, k).status = "pending" THEN Answer(r, Rekey(c, k)) ELSE <<>>
<1>1. f \in Fields /\ Bare(f) BY TypedSeen, SeenBare
<1>2. g \in Fields /\ Bare(g)
  <2>1. Bare(Keyed(f, k)) BY <1>1 DEF Bare, Idents, Keyed
  <2> QED BY <1>1, <2>1, KeyedColumns
<1>3. p \in Seq(Calm) BY SwapCalm, Empty
<1>4. t \in Seq(Calm) BY RekeyRow, LikeParts, Empty
<1> HIDE DEF g, p, t
<1>5. Write(r, g) \in Seq(Calm) BY <1>2, LikeParts
<1>6. (p \o Write(r, g)) \o t \in Seq(Calm) BY <1>3, <1>4, <1>5, Chained
<1> QED BY <1>6 DEF BeatOpen, p, g, t

LEMMA HeartbeatsPlaced == ASSUME TInv, Settled, Heartbeats(w1) PROVE Placed'
<1> PICK r \in Routers : HeartbeatMikrotik(w1, r) \/ HeartbeatOpenwrt(w1, r) BY DEF Heartbeats
<1>1. CASE HeartbeatMikrotik(w1, r)
  <2>1. PICK f \in Seen(row[r]) : Load(w1, Beat(r, row[r], f)) BY <1>1, BeatLoads
  <2>2. Script1' \in Seq(Calm) BY <2>1, RowOf, BeatCalm, Loads
  <2>3. Settled' BY <1>1, BeatLoads, UntouchedSettled DEF Untouched
  <2> QED BY <2>2, <2>3, BeginsCalm
<1>2. CASE HeartbeatOpenwrt(w1, r)
  <2>1. PICK c, k : c = Registered(r) /\ k = device[r].key OBVIOUS
  <2>2. PICK f \in Seen(c) : Load(w1, BeatOpen(r, c, k, f)) BY <1>2, <2>1, BeatOpenLoads
  <2>3. c \in Rows /\ k \in Nat BY <2>1, RowOf, KeyNat
  <2>4. Script1' \in Seq(Calm) BY <2>2, <2>3, BeatOpenCalm, Loads
  <2>5. Settled' BY <1>2, BeatOpenLoads, RegisterSettled
  <2> QED BY <2>4, <2>5, BeginsCalm
<1> QED BY <1>1, <1>2

LEMMA SwappedCalm ==
  ASSUME NEW r \in Routers, NEW c \in Rows, NEW k \in Nat PROVE Swapped(r, c, k) \in Seq(Calm)
<1>1. PICK f : f = [key |-> k] OBVIOUS
<1>2. f \in Fields /\ Bare(f) BY <1>1, Columns DEF Owners, Statuses, Bare, Idents
<1>3. Write(r, f) \o Swap(c, k) \in Seq(Calm) BY <1>2, LikeParts, SwapCalm, Chained
<1> QED BY <1>1, <1>3, Empty DEF Swapped

LEMMA PhoneHomesPlaced == ASSUME TInv, Settled, PhoneHomes(w1) PROVE Placed'
<1> PICK r \in Routers : RouterProvision(w1, r) \/ OpenwrtProvision(w1, r) BY DEF PhoneHomes
<1>0. PICK c : c = Registered(r) OBVIOUS
<1>1. c \in Rows /\ c.key \in Nat BY <1>0, RowOf DEF Rows
<1>2. Register(r) /\ nas' = nas => Settled' /\ row'[r] = c BY <1>0, RegisterSettled DEF Register, TInv
<1>3. CASE RouterProvision(w1, r)
  <2>1. Generated(c) \in Rows BY <1>1, FreshNat, CopyRows DEF Generated, Owners, Statuses
  <2>2. Unset(c.key) \in Seq(Calm) BY <1>1, LikeParts
  <2>3. Settled' /\ row'[r] = c BY <1>2, <1>3, ProvisionLoads
  <2>4. Script1' = <<>> \/ Script1' = Deliver(r, c) \/ Script1' = Rearm(r, c)
    BY <1>0, <1>3, ProvisionLoads, Loads
  <2>5. CASE Script1' = Rearm(r, c) BY <2>1, <2>2, <2>3, <2>5, BeginsEntering DEF Rearm, Hows
  <2>6. CASE Script1' = Deliver(r, c) BY <1>1, <2>3, <2>6, LikeParts, BeginsLike
  <2>7. CASE Script1' = <<>> BY <2>3, <2>7, Empty, BeginsCalm
  <2> QED BY <2>4, <2>5, <2>6, <2>7
<1>4. CASE OpenwrtProvision(w1, r)
  <2>0. PICK k : k = device[r].key OBVIOUS
  <2>1. k \in Nat /\ Fresh \in Nat BY <2>0, KeyNat, FreshNat
  <2>2. Rekey(c, k) \in Rows /\ Readied(c, k) \in Rows BY <1>1, <2>1 DEF Rekey, Readied, Rows
  <2>3. Settled' BY <1>2, <1>4, OpenLoads
  <2>4. PICK a \in Seq(Calm) : a = Swapped(r, c, k) BY <1>1, <2>1, SwappedCalm
  <2>5. \/ Script1' = a \/ Script1' = a \o Answer(r, Rekey(c, k))
        \/ Script1' = a \o Allocate(r, Readied(c, k), "phone")
    BY <1>0, <1>4, <2>0, <2>4, OpenLoads, Loads
  <2>6. a \o Answer(r, Rekey(c, k)) \in Seq(Calm) BY <2>2, LikeParts, Chained
  <2>7. CASE Script1' = a \o Allocate(r, Readied(c, k), "phone") BY <2>2, <2>3, <2>7, BeginsEntering DEF Hows
  <2> QED BY <2>3, <2>5, <2>6, <2>7, BeginsCalm
<1> QED BY <1>3, <1>4

LEMMA RequestPlaced == ASSUME TInv, Settled, Request(w1) PROVE Placed'
<1>1. CASE Sweeps(w1)
  <2>1. PICK flag \in BOOLEAN : CheckRouters(w1, flag) BY <1>1 DEF Sweeps
  <2>2. PICK s \in Seq(SweepWrites(flag)) : Load(w1, s) BY <2>1, SweepLoads
  <2>3. SweepWrites(flag) \subseteq Calm
    <3>1. ASSUME NEW r \in Swept PROVE [op |-> "write", router |-> r, fields |-> Verdict(r, flag)] \in Calm
      <4>1. r \in Routers BY DEF Swept
      <4>2. Verdict(r, flag) \in Fields BY <4>1, TypedVerdict
      <4>3. Bare(Verdict(r, flag)) BY DEF Bare, Idents, Verdict
      <4>4. [op |-> "write", router |-> r, fields |-> Verdict(r, flag)] \in Stmts BY <4>1, <4>2, Words
      <4> QED BY <4>3, <4>4 DEF Calm, Mild, NasOps
    <3> QED BY <3>1 DEF SweepWrites
  <2>4. Script1' \in Seq(Calm) BY <2>2, <2>3, Loads, Wider
  <2> QED BY <2>1, <2>4, SweepLoads, UntouchedSettled, BeginsCalm DEF Untouched
<1>2. CASE ReconcileCommand(w1)
  <2>1. Read \in Seq(Calm)
    <3>1. [op |-> "read"] \in Calm BY DEF Calm, Mild, NasOps, Stmts
    <3> QED BY <3>1, Only DEF Read
  <2>2. Script1' \in Seq(Calm) BY <1>2, <2>1, Loads DEF ReconcileCommand
  <2> QED BY <1>2, <2>2, UntouchedSettled, BeginsCalm DEF ReconcileCommand, Untouched
<1>3. ASSUME NEW r \in Routers, MarkOffline(w1, r) PROVE Placed'
  <2>1. Bare([status |-> "provisioned"]) BY DEF Bare, Idents
  <2>2. Write(r, [status |-> "provisioned"]) \in Seq(Calm) BY <2>1, Online, RowOf, LikeParts
  <2>3. Load(w1, Write(r, [status |-> "provisioned"])) BY <1>3 DEF MarkOffline
  <2>4. Script1' = Write(r, [status |-> "provisioned"]) BY <2>3, Loads, Zenon
  <2> QED BY <1>3, <2>2, <2>4, UntouchedSettled, BeginsCalm DEF MarkOffline, Untouched
<1> QED BY <1>1, <1>2, <1>3, ClaimsPlaced, ReleasesPlaced, SettlesPlaced, HeartbeatsPlaced, PhoneHomesPlaced
        DEF Request

LEMMA RequestIdle == ASSUME Request(w1) PROVE Script1 = <<>>
BY DEF Request, Claims, Releases, Settles, Heartbeats, PhoneHomes, Sweeps, ReconcileCommand, MarkOffline,
       RouterAdd, HandleMikrotikAdd, HandleOpenwrtAdd, RouterRemove, MarkAvailable, WifiConfig, Topology, Redeploy,
       HeartbeatMikrotik, HeartbeatOpenwrt, RouterProvision, OpenwrtProvision, CheckRouters, Load, Serve, Script1

LEMMA DevicesPlaced == ASSUME TInv, Settled, Script1 = <<>>, Devices PROVE Placed'
<1> PICK r \in Routers : Boot(r) \/ RouterWifi(r) \/ ImportSerials(r) BY DEF Devices
<1>1. Script1' = <<>> BY DEF Boot, RouterWifi, ImportSerials, Script1
<1>2. Settled'
  <2>1. CASE ImportSerials(r) BY <2>1, RegisterSettled DEF ImportSerials
  <2>2. CASE Boot(r) \/ RouterWifi(r) BY <2>2, UntouchedSettled DEF Boot, RouterWifi
  <2> QED BY <2>1, <2>2
<1> QED BY <1>1, <1>2, Empty, BeginsCalm

\* One request at a time, every router has an address of its own and the NAS
\* row that goes with it between requests.
LEMMA PlacedSteps ==
  ASSUME TInv, Placed, Request(w1) \/ Goes1 \/ (Devices /\ Script1 = <<>>) PROVE Placed'
BY Rested, RequestIdle, RequestPlaced, DevicesPlaced, PlacedGoes

-----------------------------------------------------------------------------
(* Peers, while one request runs at a time and nothing fails               *)

Pair == {"key", "ip"}
NoPair(f) == Pair \cap DOMAIN f = {}
PairAs(f, c) == Pair \subseteq DOMAIN f /\ f.key = c.key /\ f.ip = c.ip
PeersOf(rows) == {[key |-> rows[r].key, ip |-> rows[r].ip] :
                    r \in {q \in Routers : rows[q].key # 0 /\ rows[q].ip # 0}}
\* Columns that leave a router that has a row one.
Known(f) == ("status" \in DOMAIN f => f.status # "unknown") /\ ("ip" \in DOMAIN f => "status" \in DOMAIN f)
Named == {o \in Stmts : (o.op = "write" => Known(o.fields)) /\ (o.op = "allocate" => o.copy.status # "unknown")}
\* No address is handed out; no pair of the rows changes; nor a peer.
Given1 == {o \in Named : o.op # "allocate"}
Tunnelled(rows) == {o \in Given1 : o.op = "write" => NoPair(o.fields) \/ PairAs(o.fields, rows[o.router])}
Steady(rows) == {o \in Tunnelled(rows) : o.op \notin Tunnelling}

After(r, f) == [row EXCEPT ![r] = Saved(@, f)]
Unknown == \A r \in Routers : row[r].status = "unknown" => row[r].ip = 0
Synced == kernel = PeersOf(row) /\ file = PeersOf(row)
ReadThen(rows, s) == \E t \in Seq(Steady(rows)) : s \in Before(Tunnelled(rows), Read \o t)
MoveOf(p) == <<[op |-> "move", peers |-> p], [op |-> "strip"]>>
StripOf == <<[op |-> "strip"]>>
SyncOf(p) == <<[op |-> "sync", peers |-> p]>>

\* The phases of a script: the peers are those of the rows, and stay; the row
\* it writes next has no peer, before or after; it hands out an address; it
\* writes the pair that is then read; it is still to read, to move wg0.conf, to
\* strip it and to sync the interface.
QSynced == Synced /\ Script1 \in Seq(Steady(row))
QMute == Synced /\ \E r \in Routers, f \in Fields : \E t \in Seq(Steady(After(r, f))) :
           /\ Known(f) /\ PeersOf(After(r, f)) = PeersOf(row) /\ Script1 = Write(r, f) \o t
QAlloc == \E o \in Named :
            /\ o.op = "allocate" /\ Script1 \in Before(Given1, <<o>>)
            /\ o.copy.key = 0 => Synced /\ row[o.router].key = 0 /\ Script1 = <<o>>
QWrite == \E r \in Routers, f \in Fields : \E s :
            Known(f) /\ ReadThen(After(r, f), s) /\ Script1 = Write(r, f) \o s
QRead == ReadThen(row, Script1)
QMove == \E t \in Seq(Steady(row)) : Script1 = MoveOf(PeersOf(row)) \o t
QStrip == file = PeersOf(row) /\ \E t \in Seq(Steady(row)) : Script1 = StripOf \o t
QSync == file = PeersOf(row) /\ \E t \in Seq(Steady(row)) : Script1 = SyncOf(PeersOf(row)) \o t
Peered == Unknown /\ (QSynced \/ QMute \/ QAlloc \/ QWrite \/ QRead \/ QMove \/ QStrip \/ QSync)

LEMMA SteadyTypes ==
  \A rows : Steady(rows) \subseteq Tunnelled(rows) /\ Tunnelled(rows) \subseteq Given1 /\ Given1 \subseteq Named
            /\ Steady(rows) \subseteq Stmts /\ Tunnelled(rows) \subseteq Stmts /\ Given1 \subseteq Stmts
BY DEF Steady, Tunnelled, Given1, Named

PairKept == \A q \in Routers : row'[q].key = row[q].key /\ row'[q].ip = row[q].ip

LEMMA SamePairs ==
  ASSUME PairKept
  PROVE  Tunnelled(row') = Tunnelled(row) /\ Steady(row') = Steady(row) /\ PeersOf(row') = PeersOf(row)
<1>1. \A o \in Stmts : o.op = "write" => o.router \in Routers BY Parts
<1>2. \A o \in Given1 : o.op = "write" =>
        (PairAs(o.fields, row'[o.router]) <=> PairAs(o.fields, row[o.router]))
  <2>1. Given1 \subseteq Stmts BY SteadyTypes
  <2> QED BY <1>1, <2>1 DEF PairKept, PairAs
<1>3. Tunnelled(row') = Tunnelled(row) BY <1>2 DEF Tunnelled
<1>4. PeersOf(row') = PeersOf(row)
  <2>1. {q \in Routers : row'[q].key # 0 /\ row'[q].ip # 0} = {q \in Routers : row[q].key # 0 /\ row[q].ip # 0}
    BY DEF PairKept
  <2> QED BY <2>1 DEF PeersOf, PairKept
<1> QED BY <1>3, <1>4 DEF Steady

LEMMA NextNow == ASSUME TInv, Statement(w1) PROVE Script1 # <<>> /\ Now(w1) = Head(Script1) /\ todo[w1] = Script1
BY StatementNow DEF Now, Script1

\* A write of the script's head.
LEMMA WriteStep ==
  ASSUME TInv, Unknown, Statement(w1), Head(Script1) \in Named, Head(Script1).op = "write"
  PROVE  /\ row' = After(Head(Script1).router, Head(Script1).fields) /\ Unknown'
         /\ UNCHANGED wireguard /\ Script1' = Tail(Script1)
<1> DEFINE o == Head(Script1)
<1>0. Script1 # <<>> BY NextNow
<1>1. DoWrite(w1) BY <1>0, Executed DEF Goes1
<1>2. row' = After(o.router, o.fields) /\ UNCHANGED wireguard BY <1>1 DEF DoWrite, Now, Script1, After, wireguard
<1>3. Script1' = Tail(Script1) BY <1>0, <1>1, Finished DEF DoWrite
<1>4. o \in Stmts /\ Known(o.fields) /\ o.op = "write" BY DEF Named
<1> HIDE DEF o
<1>5. o.router \in Routers BY <1>4, Parts
<1>6. ASSUME NEW q \in Routers, row'[q].status = "unknown" PROVE row'[q].ip = 0
  <2>1. CASE q # o.router BY <1>2, <1>6, <2>1 DEF After, TInv, Unknown
  <2>2. CASE q = o.router
    <3>1. row'[q] = Saved(row[q], o.fields) BY <1>2, <2>2 DEF After, TInv
    <3>2. row[q] \in Rows BY RowOf
    <3>3. "status" \notin DOMAIN o.fields /\ row[q].status = "unknown"
      BY <1>4, <1>6, <3>1, <3>2 DEF Known, Saved, Rows
    <3>4. "ip" \notin DOMAIN o.fields BY <1>4, <3>3 DEF Known
    <3>5. row'[q].ip = row[q].ip BY <3>1, <3>2, <3>4 DEF Saved, Rows
    <3> QED BY <3>3, <3>5 DEF Unknown
  <2> QED BY <2>1, <2>2
<1>7. Unknown' BY <1>6 DEF Unknown
<1> QED BY <1>2, <1>3, <1>7 DEF o

LEMMA Going == ASSUME TInv, NEW a, Continue(w1, a) PROVE Script1' = a \o Tail(Script1)
<1>1. todo' = [todo EXCEPT ![w1] = a \o Tail(Script1)] BY ThreadAssumption DEF TInv, Script1, Continue
<1> QED BY <1>1, Lone

\* Any other statement but the allocation.
LEMMA OtherStep ==
  ASSUME TInv, Unknown, Statement(w1), Head(Script1).op \notin {"write", "allocate"}
  PROVE  /\ row' = row /\ Unknown'
         /\ Head(Script1).op \notin Tunnelling => UNCHANGED wireguard /\ Script1' = Tail(Script1)
         /\ \E a : /\ Script1' = a \o Tail(Script1)
                   /\ \A rows : a \in Seq(Tunnelled(rows))
<1>0. Script1 # <<>> BY NextNow
<1>1. row' = row
  BY DEF Statement, DoWrite, DoAllocate, DoNas, DoRestart, DoSet, DoReconcile, DoRespond, At, Script1
<1>2. Unknown' BY <1>1 DEF Unknown
<1>3. Head(Script1).op \notin Tunnelling => UNCHANGED wireguard /\ Done(w1)
  BY DEF Statement, DoWrite, DoAllocate, DoNas, DoRestart, DoSet, DoReconcile, DoRespond, At, Script1, Tunnelling, wireguard
<1>4. Head(Script1).op \notin Tunnelling => UNCHANGED wireguard /\ Script1' = Tail(Script1) BY <1>0, <1>3, Finished
<1>6. \/ Continue(w1, MoveOf(RowPeers)) \/ Continue(w1, SyncOf(file)) \/ Continue(w1, <<>>)
  BY DEF Statement, DoWrite, DoAllocate, DoNas, DoRestart, DoSet, DoReconcile, DoRespond, At, Script1,
         MoveOf, SyncOf, Done
<1>7. ASSUME NEW rows, NEW p \in SUBSET Peers PROVE MoveOf(p) \in Seq(Tunnelled(rows)) /\ SyncOf(p) \in Seq(Tunnelled(rows))
  <2>1. /\ [op |-> "move", peers |-> p] \in Tunnelled(rows) /\ [op |-> "strip"] \in Tunnelled(rows)
        /\ [op |-> "sync", peers |-> p] \in Tunnelled(rows)
    BY DEF Tunnelled, Given1, Named, Stmts
  <2> QED BY <2>1, Both, Only DEF MoveOf, SyncOf
<1>8. file \subseteq Peers BY DEF TInv
<1>9. \A rows : MoveOf(RowPeers) \in Seq(Tunnelled(rows)) /\ SyncOf(file) \in Seq(Tunnelled(rows))
  BY <1>7, <1>8, PeersOfRows
<1>10. ASSUME NEW a, Continue(w1, a), \A rows : a \in Seq(Tunnelled(rows))
       PROVE  \E b : Script1' = b \o Tail(Script1) /\ \A rows : b \in Seq(Tunnelled(rows))
  <2>1. Script1' = a \o Tail(Script1) BY <1>10, Going
  <2> QED BY <1>10, <2>1
<1>11. \A rows : <<>> \in Seq(Tunnelled(rows)) BY Empty
<1>12. CASE Continue(w1, MoveOf(RowPeers))
  <2>1. \A rows : MoveOf(RowPeers) \in Seq(Tunnelled(rows)) BY <1>9
  <2>2. \E b : Script1' = b \o Tail(Script1) /\ \A rows : b \in Seq(Tunnelled(rows)) BY ONLY <1>10, <1>12, <2>1
  <2> QED BY <1>1, <1>2, <1>4, <2>2
<1>13. CASE Continue(w1, SyncOf(file))
  <2>1. \A rows : SyncOf(file) \in Seq(Tunnelled(rows)) BY <1>9
  <2>2. \E b : Script1' = b \o Tail(Script1) /\ \A rows : b \in Seq(Tunnelled(rows)) BY ONLY <1>10, <1>13, <2>1
  <2> QED BY <1>1, <1>2, <1>4, <2>2
<1>14. CASE Continue(w1, <<>>)
  <2>2. \E b : Script1' = b \o Tail(Script1) /\ \A rows : b \in Seq(Tunnelled(rows)) BY ONLY <1>10, <1>14, <1>11
  <2> QED BY <1>1, <1>2, <1>4, <2>2
<1> QED BY <1>6, <1>12, <1>13, <1>14

LEMMA SavedPair ==
  ASSUME TInv, NEW o \in Tunnelled(row), o.op = "write", row' = After(o.router, o.fields) PROVE PairKept
<1>1. o \in Stmts BY SteadyTypes
<1>2. o.router \in Routers BY <1>1, Parts
<1>3. row[o.router] \in Rows BY <1>2, RowOf
<1>4. row'[o.router] = Saved(row[o.router], o.fields) BY <1>2 DEF After, TInv
<1>5. NoPair(o.fields) \/ PairAs(o.fields, row[o.router]) BY DEF Tunnelled
<1>6. row'[o.router].key = row[o.router].key /\ row'[o.router].ip = row[o.router].ip
  BY <1>3, <1>4, <1>5 DEF NoPair, PairAs, Pair, Saved, Rows
<1>7. \A q \in Routers : q # o.router => row'[q] = row[q] BY DEF After, TInv
<1> QED BY <1>6, <1>7 DEF PairKept

\* A statement that changes no pair.
LEMMA SteadyStep ==
  ASSUME TInv, Unknown, Statement(w1), Head(Script1) \in Tunnelled(row)
  PROVE  /\ PairKept /\ Unknown'
         /\ \E a : Script1' = a \o Tail(Script1) /\ \A rows : a \in Seq(Tunnelled(rows))
         /\ Head(Script1) \in Steady(row) => UNCHANGED wireguard /\ Script1' = Tail(Script1)
<1>0. Head(Script1) \in Named /\ Head(Script1).op # "allocate" BY DEF Tunnelled, Given1
<1>1. CASE Head(Script1).op = "write"
  <2>1. /\ row' = After(Head(Script1).router, Head(Script1).fields) /\ Unknown'
        /\ UNCHANGED wireguard /\ Script1' = Tail(Script1)
    BY <1>0, <1>1, WriteStep
  <2>2. PairKept BY <1>1, <2>1, SavedPair
  <2>3. Tail(Script1) = <<>> \o Tail(Script1)
    <3>1. Tail(Script1) \in Seq(Stmts) BY NextNow, HeadTail, ThreadAssumption DEF TInv, Script1
    <3> QED BY <3>1
  <2> QED BY <2>1, <2>2, <2>3, Empty
<1>2. CASE Head(Script1).op # "write"
  <2>1. PairKept BY <1>0, <1>2, OtherStep DEF PairKept
  <2>2. Head(Script1) \in Steady(row) => Head(Script1).op \notin Tunnelling BY DEF Steady
  <2> QED BY <1>0, <1>2, <2>1, <2>2, OtherStep
<1> QED BY <1>1, <1>2

\* A script after what is not its landmark.
LEMMA Onwards ==
  ASSUME NEW A, A \subseteq Stmts, NEW v \in Seq(Stmts), Script1 \in Before(A, v), Script1 # v,
         NEW a \in Seq(A), Script1' = a \o Tail(Script1)
  PROVE  Script1' \in Before(A, v)
BY Leads, Precedes

LEMMA SyncedGoes == ASSUME TInv, Unknown, QSynced, Statement(w1) PROVE Peered'
<1>1. Script1 # <<>> BY NextNow
<1>2. Head(Script1) \in Steady(row) /\ Tail(Script1) \in Seq(Steady(row)) BY <1>1, HeadTail DEF QSynced
<1>3. Head(Script1) \in Tunnelled(row) BY <1>2, SteadyTypes
<1>4. PairKept /\ Unknown' /\ UNCHANGED wireguard /\ Script1' = Tail(Script1) BY <1>2, <1>3, SteadyStep
<1>5. Steady(row') = Steady(row) /\ PeersOf(row') = PeersOf(row) BY <1>4, SamePairs
<1>6. QSynced' BY <1>2, <1>4, <1>5 DEF QSynced, Synced, wireguard
<1> QED BY <1>4, <1>6 DEF Peered

\* A script whose first statement is a write.
LEMMA Writes ==
  ASSUME NEW r \in Routers, NEW f \in Fields, Known(f), NEW s \in Seq(Stmts), Script1 = Write(r, f) \o s,
         TInv, Unknown, Statement(w1)
  PROVE  row' = After(r, f) /\ Unknown' /\ UNCHANGED wireguard /\ Script1' = s
<1>1. PICK o \in Stmts : o = [op |-> "write", router |-> r, fields |-> f] BY Words
<1>2. Script1 = <<o>> \o s BY <1>1 DEF Write
<1>3. Head(Script1) = o /\ Tail(Script1) = s BY <1>2
<1>4. o \in Named /\ o.op = "write" /\ o.router = r /\ o.fields = f BY <1>1 DEF Named
<1> QED BY <1>3, <1>4, WriteStep

LEMMA MuteGoes == ASSUME TInv, Unknown, QMute, Statement(w1) PROVE Peered'
<1>1. PICK r \in Routers, f \in Fields : \E t \in Seq(Steady(After(r, f))) :
        Known(f) /\ PeersOf(After(r, f)) = PeersOf(row) /\ Script1 = Write(r, f) \o t
  BY DEF QMute
<1>2. PICK t \in Seq(Steady(After(r, f))) :
        Known(f) /\ PeersOf(After(r, f)) = PeersOf(row) /\ Script1 = Write(r, f) \o t
  BY <1>1
<1>3. t \in Seq(Stmts) BY SteadyTypes, Wider
<1>4. row' = After(r, f) /\ Unknown' /\ UNCHANGED wireguard /\ Script1' = t BY <1>2, <1>3, Writes
<1>5. QSynced' BY <1>2, <1>4 DEF QMute, QSynced, Synced, wireguard
<1> QED BY <1>4, <1>5 DEF Peered

LEMMA ReadTyped == ASSUME NEW rows, NEW s, ReadThen(rows, s) PROVE s \in Seq(Stmts)
<1>1. PICK t \in Seq(Steady(rows)) : s \in Before(Tunnelled(rows), Read \o t) BY DEF ReadThen
<1>2. t \in Seq(Stmts) /\ Read \in Seq(Stmts)
  <2>1. Seq(Tunnels) \subseteq Seq(Stmts) BY Wider DEF Tunnels
  <2> QED BY <2>1, SteadyTypes, Wider, PeerCalls
<1>3. Read \o t \in Seq(Stmts) BY <1>2, Chained
<1> QED BY <1>1, <1>3, SteadyTypes, Typed

LEMMA WriteGoes == ASSUME TInv, Unknown, QWrite, Statement(w1) PROVE Peered'
<1>1. PICK r \in Routers, f \in Fields : \E s : Known(f) /\ ReadThen(After(r, f), s) /\ Script1 = Write(r, f) \o s
  BY DEF QWrite
<1>2. PICK s : Known(f) /\ ReadThen(After(r, f), s) /\ Script1 = Write(r, f) \o s BY <1>1
<1>3. s \in Seq(Stmts) BY <1>2, ReadTyped
<1>4. row' = After(r, f) /\ Unknown' /\ Script1' = s BY <1>2, <1>3, Writes
<1>5. QRead' BY <1>2, <1>4 DEF QRead, ReadThen
<1> QED BY <1>4, <1>5 DEF Peered

LEMMA ReadGoes == ASSUME TInv, Unknown, QRead, Statement(w1) PROVE Peered'
<1>1. PICK t \in Seq(Steady(row)) : Script1 \in Before(Tunnelled(row), Read \o t) BY DEF QRead, ReadThen
<1>2. t \in Seq(Stmts) BY SteadyTypes, Wider
<1>3. PICK o : o = [op |-> "read"] OBVIOUS
<1>4. o \in Stmts BY <1>3 DEF Stmts
<1>5. PICK v \in Seq(Stmts) : v = Read \o t
  <2>1. Read \in Seq(Stmts) BY <1>3, <1>4, Only DEF Read
  <2> QED BY <1>2, <2>1, Chained
<1>6. v = <<o>> \o t BY <1>3, <1>5 DEF Read
<1>7. Head(v) = o /\ Tail(v) = t BY <1>2, <1>4, <1>6
<1>8. CASE Script1 = v
  <2>1. Continue(w1, MoveOf(PeersOf(row))) /\ row' = row
    BY <1>3, <1>7, <1>8 DEF Statement, DoWrite, DoAllocate, DoNas, DoRestart, DoSet, DoReconcile, DoRespond, At,
       Script1, MoveOf, PeersOf, RowPeers
  <2>2. Script1' = MoveOf(PeersOf(row)) \o t BY <1>7, <1>8, <2>1, Going
  <2>3. QMove' BY <2>1, <2>2 DEF QMove
  <2> QED BY <2>1, <2>3 DEF Peered, Unknown
<1>9. CASE Script1 # v
  <2>1. Head(Script1) \in Tunnelled(row) BY <1>1, <1>5, <1>9, SteadyTypes, Leads
  <2>2. PairKept /\ Unknown' BY <2>1, SteadyStep
  <2>3. PICK a : Script1' = a \o Tail(Script1) /\ \A rows : a \in Seq(Tunnelled(rows)) BY <2>1, SteadyStep
  <2>4. Script1' \in Before(Tunnelled(row), v) BY <1>1, <1>5, <1>9, <2>3, SteadyTypes, Onwards
  <2>5. Tunnelled(row') = Tunnelled(row) /\ Steady(row') = Steady(row) BY <2>2, SamePairs
  <2>6. QRead' BY <1>5, <2>4, <2>5 DEF QRead, ReadThen
  <2> QED BY <2>2, <2>6 DEF Peered
<1> QED BY <1>8, <1>9

LEMMA MoveGoes == ASSUME TInv, Unknown, QMove, Statement(w1) PROVE Peered'
<1>1. PICK t \in Seq(Steady(row)) : Script1 = MoveOf(PeersOf(row)) \o t BY DEF QMove
<1>2. PICK o, e : o = [op |-> "move", peers |-> PeersOf(row)] /\ e = [op |-> "strip"] OBVIOUS
<1>3. Script1 = <<o, e>> \o t BY <1>1, <1>2 DEF MoveOf
<1>4. t \in Seq({o, e} \cup Steady(row)) BY Wider
<1>5. PICK u : u = <<e>> \o t OBVIOUS
<1>6. Script1 # <<>> /\ Head(Script1) = o /\ Tail(Script1) = u BY <1>3, <1>4, <1>5
<1>7. Done(w1) /\ row' = row /\ file' = PeersOf(row)
  BY <1>2, <1>6 DEF Statement, DoWrite, DoAllocate, DoNas, DoRestart, DoSet, DoReconcile, DoRespond, At, Now, Script1
<1>8. Script1' = StripOf \o t BY <1>2, <1>5, <1>6, <1>7, Finished DEF StripOf
<1>9. QStrip' BY <1>7, <1>8 DEF QStrip
<1> QED BY <1>7, <1>9 DEF Peered, Unknown

LEMMA StripGoes == ASSUME TInv, Unknown, QStrip, Statement(w1) PROVE Peered'
<1>1. PICK t \in Seq(Steady(row)) : file = PeersOf(row) /\ Script1 = StripOf \o t BY DEF QStrip
<1>2. PICK e : e = [op |-> "strip"] OBVIOUS
<1>3. Script1 = <<e>> \o t /\ t \in Seq({e} \cup Steady(row)) BY <1>1, <1>2, Wider DEF StripOf
<1>4. Script1 # <<>> /\ Head(Script1) = e /\ Tail(Script1) = t BY <1>3
<1>5. Continue(w1, SyncOf(file)) /\ row' = row /\ file' = file
  BY <1>2, <1>4 DEF Statement, DoWrite, DoAllocate, DoNas, DoRestart, DoSet, DoReconcile, DoRespond, At, Now, Script1,
     SyncOf, wireguard
<1>6. Script1' = SyncOf(PeersOf(row)) \o t BY <1>1, <1>4, <1>5, Going
<1>7. QSync' BY <1>1, <1>5, <1>6 DEF QSync
<1> QED BY <1>5, <1>7 DEF Peered, Unknown

LEMMA SyncGoes == ASSUME TInv, Unknown, QSync, Statement(w1) PROVE Peered'
<1>1. PICK t \in Seq(Steady(row)) : file = PeersOf(row) /\ Script1 = SyncOf(PeersOf(row)) \o t BY DEF QSync
<1>2. PICK e : e = [op |-> "sync", peers |-> PeersOf(row)] OBVIOUS
<1>3. Script1 = <<e>> \o t /\ t \in Seq({e} \cup Steady(row)) BY <1>1, <1>2, Wider DEF SyncOf
<1>4. Script1 # <<>> /\ Head(Script1) = e /\ Tail(Script1) = t BY <1>3
<1>5. Done(w1) /\ row' = row /\ file' = file /\ kernel' = PeersOf(row)
  BY <1>2, <1>4 DEF Statement, DoWrite, DoAllocate, DoNas, DoRestart, DoSet, DoReconcile, DoRespond, At, Now, Script1
<1>6. Script1' = t BY <1>4, <1>5, Finished
<1>7. QSynced' BY <1>1, <1>5, <1>6 DEF QSynced, Synced
<1> QED BY <1>5, <1>7 DEF Peered, Unknown

\* What leaves the pairs of the rows, and of a row that has one's pair.
LEMMA SteadyParts ==
  ASSUME NEW r \in Routers, NEW rows
  PROVE  /\ \A s \in Scripts : Respond(r, s) \in Seq(Steady(rows))
         /\ \A f \in Fields : Known(f) /\ (NoPair(f) \/ PairAs(f, rows[r])) => Write(r, f) \in Seq(Steady(rows))
         /\ \A c \in Rows : Nas(r, c) \in Seq(Steady(rows)) /\ Answer(r, c) \in Seq(Steady(rows))
         /\ \A c \in Rows : PairAs(c, rows[r]) => Deliver(r, c) \in Seq(Steady(rows))
         /\ \A k, i \in Nat, e \in Elses : <<[op |-> "set", key |-> k, ip |-> i, else |-> e]>> \in Seq(Tunnelled(rows))
         /\ \A k \in Nat : <<[op |-> "unset", key |-> k, else |-> <<>>]>> \in Seq(Tunnelled(rows))
         /\ Read \in Seq(Tunnelled(rows))
<1> DEFINE S == Steady(rows)
<1>0. ASSUME NEW o \in Stmts, o.op \notin {"write", "allocate"}
      PROVE  o \in Tunnelled(rows) /\ (o.op \notin Tunnelling => o \in Steady(rows))
  BY <1>0 DEF Tunnelled, Given1, Named, Steady
<1>1. ASSUME NEW s \in Scripts PROVE Respond(r, s) \in Seq(S)
  <2>1. [op |-> "respond", router |-> r, script |-> s] \in S BY <1>0, Words DEF Tunnelling
  <2> QED BY <2>1, Only DEF Respond
<1>2. ASSUME NEW f \in Fields, Known(f), NoPair(f) \/ PairAs(f, rows[r]) PROVE Write(r, f) \in Seq(S)
  <2>1. PICK o \in Stmts : o = [op |-> "write", router |-> r, fields |-> f] BY Words
  <2>2. o.op = "write" /\ o.router = r /\ o.fields = f BY <2>1
  <2>3. o \in S BY <1>2, <2>2 DEF Steady, Tunnelled, Given1, Named, Tunnelling
  <2> QED BY <2>1, <2>3, Only DEF Write
<1>3. ASSUME NEW c \in Rows PROVE Nas(r, c) \in Seq(S)
  <2>1. c.ip \in Nat /\ c.secret \in Nat BY DEF Rows
  <2>2. /\ [op |-> "nasstale", router |-> r, ip |-> c.ip] \in S /\ [op |-> "restart"] \in S
        /\ [op |-> "nasput", router |-> r, ip |-> c.ip, secret |-> c.secret] \in S
    BY <1>0, <2>1, Words DEF Tunnelling
  <2> QED BY <2>2, All3 DEF Nas
<1>4. ASSUME NEW c \in Rows PROVE Answer(r, c) \in Seq(S)
  <2>1. Known([status |-> "provisioned"]) /\ NoPair([status |-> "provisioned"]) BY DEF Known, NoPair, Pair
  <2>2. Write(r, [status |-> "provisioned"]) \in Seq(S) BY <1>2, <2>1, Online
  <2>3. Respond(r, Script(c)) \in Seq(S) BY <1>1, Pieces
  <2> QED BY <2>2, <2>3, Chained DEF Answer
<1>5. ASSUME NEW c \in Rows, PairAs(c, rows[r]) PROVE Deliver(r, c) \in Seq(S)
  <2>1. PICK d : d = [c EXCEPT !.status = "provisioned"] OBVIOUS
  <2>2. d \in Rows /\ d.key = c.key /\ d.ip = c.ip /\ d.status = "provisioned" BY <2>1 DEF Rows
  <2>3. Known(d) /\ PairAs(d, rows[r]) BY <1>5, <2>2 DEF Known, PairAs, Pair, Rows
  <2>4. Write(r, d) \in Seq(S) BY <1>2, <2>2, <2>3, RowFields
  <2>5. Respond(r, Script(d)) \in Seq(S) BY <1>1, <2>2, Pieces
  <2>6. Write(r, d) \o Respond(r, Script(d)) \in Seq(S) BY <2>4, <2>5, Chained
  <2> QED BY <2>1, <2>6 DEF Deliver
<1>6. ASSUME NEW k \in Nat, NEW i \in Nat, NEW e \in Elses
      PROVE  <<[op |-> "set", key |-> k, ip |-> i, else |-> e]>> \in Seq(Tunnelled(rows))
  BY <1>0, Words, Only
<1>7. ASSUME NEW k \in Nat PROVE <<[op |-> "unset", key |-> k, else |-> <<>>]>> \in Seq(Tunnelled(rows))
  BY <1>0, Words, Only
<1>8. Read \in Seq(Tunnelled(rows))
  <2>1. [op |-> "read"] \in Tunnelled(rows) BY <1>0, Words
  <2> QED BY <2>1, Only DEF Read
<1> QED BY <1>1, <1>2, <1>3, <1>4, <1>5, <1>6, <1>7, <1>8

\* The row once its address and its key are saved.
LEMMA AfterPair ==
  ASSUME TInv, NEW r \in Routers, NEW c \in Rows PROVE PairAs(c, After(r, c)[r])
<1>1. row[r] \in Rows BY RowOf
<1>2. After(r, c)[r] = Saved(row[r], c) BY DEF After, TInv
<1>3. DOMAIN c = Names /\ DOMAIN row[r] = Names BY <1>1 DEF Rows, Names
<1>4. Saved(row[r], c)["key"] = c["key"] /\ Saved(row[r], c)["ip"] = c["ip"] BY <1>3 DEF Saved, Names
<1> QED BY <1>2, <1>3, <1>4 DEF PairAs, Pair, Names

\* What follows the address, with and without a key.
LEMMA CredentialedPeers ==
  ASSUME TInv, NEW r \in Routers, NEW c \in Rows, c.status # "unknown", NEW how
  PROVE  /\ c.key = 0 => \E t \in Seq(Steady(After(r, c))) : Credentialed(r, c, how) = Write(r, c) \o t
         /\ c.key # 0 => \E s : ReadThen(After(r, c), s) /\ Credentialed(r, c, how) = Write(r, c) \o s
<1> DEFINE rows == After(r, c)
           failed == IF how = "api" THEN Write(r, [status |-> "failed"]) ELSE <<>>
           else == IF r \in Mikrotiks THEN failed ELSE <<>>
           peer == IF c.key = 0 THEN <<>> ELSE Set(c.key, c.ip, else)
           first == r \in Mikrotiks \/ how = "page"
           both == IF first THEN Nas(r, c) \o peer ELSE peer \o Nas(r, c)
           last == IF how # "phone" THEN <<>>
                   ELSE IF r \in Mikrotiks THEN Deliver(r, c)
                   ELSE Write(r, [status |-> "provisioned"]) \o Respond(r, Script(c))
           S == Steady(rows)
           o == <<[op |-> "set", key |-> c.key, ip |-> c.ip, else |-> else]>>
<1>0. c.key \in Nat /\ c.ip \in Nat BY DEF Rows
<1>1. else \in Elses BY DEF Elses
<1> HIDE DEF else
<1>2. Nas(r, c) \in Seq(S) BY SteadyParts
<1>3. last \in Seq(S) BY AfterPair, SteadyParts, Empty DEF Answer
<1> HIDE DEF last
<1>4. Credentialed(r, c, how) = Write(r, c) \o both \o last
  BY DEF Credentialed, both, last, peer, else, first
<1>5. Write(r, c) \in Seq(Stmts) /\ Read \in Seq(Stmts) BY RowFields, Pieces
<1>6. o \in Seq(Tunnelled(rows)) BY <1>0, <1>1, SteadyParts
<1>7. Seq(S) \subseteq Seq(Stmts) /\ Seq(Tunnelled(rows)) \subseteq Seq(Stmts) /\ Seq(S) \subseteq Seq(Tunnelled(rows))
  BY SteadyTypes, Wider
<1>8. Nas(r, c) \in Seq(Stmts) /\ last \in Seq(Stmts) /\ o \in Seq(Stmts) BY <1>2, <1>3, <1>6, <1>7
<1>9. CASE c.key = 0
  <2>1. both = Nas(r, c) BY <1>8, <1>9
  <2> HIDE DEF both
  <2>2. Credentialed(r, c, how) = Write(r, c) \o (Nas(r, c) \o last)
    <3>1. (Write(r, c) \o Nas(r, c)) \o last = Write(r, c) \o (Nas(r, c) \o last) BY <1>5, <1>8
    <3> QED BY <1>4, <2>1, <3>1
  <2>3. Nas(r, c) \o last \in Seq(S) BY <1>2, <1>3, Chained
  <2> QED BY <1>9, <2>2, <2>3
<1>10. CASE c.key # 0
  <2>1. peer = o \o Read BY <1>10 DEF Set
  <2> HIDE DEF o, peer
  <2>2. CASE first
    <3>1. PICK a : a = Nas(r, c) \o o OBVIOUS
    <3>2. a \in Seq(Tunnelled(rows)) BY <1>2, <1>6, <1>7, <3>1, Chained
    <3>3. a \o (Read \o last) \in Before(Tunnelled(rows), Read \o last) BY <3>2 DEF Before
    <3>4. ReadThen(rows, a \o (Read \o last)) BY <1>3, <3>3 DEF ReadThen
    <3>5. Write(r, c) \o (Nas(r, c) \o (o \o Read)) \o last = Write(r, c) \o ((Nas(r, c) \o o) \o (Read \o last))
      <4>1. Nas(r, c) \o (o \o Read) = (Nas(r, c) \o o) \o Read BY <1>5, <1>8
      <4>2. PICK b \in Seq(Stmts) : b = Nas(r, c) \o o BY <1>8, Chained
      <4>3. (Write(r, c) \o (b \o Read)) \o last = Write(r, c) \o (b \o (Read \o last))
        <5>1. b \o Read \in Seq(Stmts) BY <1>5, <1>8, <4>2, Chained, Pieces
        <5>2. (Write(r, c) \o (b \o Read)) \o last = Write(r, c) \o ((b \o Read) \o last) BY <1>5, <1>8, <5>1, Regroup, ZenonT(60)
        <5>3. (b \o Read) \o last = b \o (Read \o last) BY <1>5, <1>8, Regroup, ZenonT(60)
        <5> QED BY <5>2, <5>3, Zenon
      <4> QED BY <4>1, <4>2, <4>3
    <3> QED BY <1>4, <1>10, <2>1, <2>2, <3>1, <3>4, <3>5
  <2>3. CASE ~first
    <3>1. PICK t : t = Nas(r, c) \o last OBVIOUS
    <3>2. t \in Seq(S) BY <1>2, <1>3, <3>1, Chained
    <3>3. o \o (Read \o t) \in Before(Tunnelled(rows), Read \o t) BY <1>6 DEF Before
    <3>4. ReadThen(rows, o \o (Read \o t)) BY <3>2, <3>3 DEF ReadThen
    <3>5. Write(r, c) \o ((o \o Read) \o Nas(r, c)) \o last = Write(r, c) \o (o \o (Read \o (Nas(r, c) \o last)))
      <4>1. PICK b \in Seq(Stmts) : b = o \o Read BY <1>5, <1>8, Chained
      <4>2. (Write(r, c) \o (b \o Nas(r, c))) \o last = Write(r, c) \o (b \o (Nas(r, c) \o last))
        <5>1. b \o Nas(r, c) \in Seq(Stmts) BY <1>5, <1>8, <4>1, Chained
        <5>2. (Write(r, c) \o (b \o Nas(r, c))) \o last = Write(r, c) \o ((b \o Nas(r, c)) \o last) BY <1>5, <1>8, <5>1, Regroup, ZenonT(60)
        <5>3. (b \o Nas(r, c)) \o last = b \o (Nas(r, c) \o last) BY <1>5, <1>8, Regroup, ZenonT(60)
        <5> QED BY <5>2, <5>3, Zenon
      <4>3. PICK d \in Seq(Stmts) : d = Nas(r, c) \o last BY <1>8, Chained
      <4>4. (o \o Read) \o d = o \o (Read \o d) BY <1>5, <1>8, Regroup, ZenonT(60)
      <4> QED BY <4>1, <4>2, <4>3, <4>4
    <3> QED BY <1>4, <1>10, <2>1, <2>3, <3>1, <3>4, <3>5
  <2> QED BY <2>2, <2>3
<1> QED BY <1>9, <1>10

LEMMA AllocGoes == ASSUME TInv, Unknown, QAlloc, Statement(w1) PROVE Peered'
<1>1. PICK o \in Named :
        /\ o.op = "allocate" /\ Script1 \in Before(Given1, <<o>>)
        /\ o.copy.key = 0 => Synced /\ row[o.router].key = 0 /\ Script1 = <<o>>
  BY DEF QAlloc
<1>2. o \in Stmts /\ o.copy.status # "unknown" BY <1>1 DEF Named
<1>3. <<o>> \in Seq(Stmts) BY <1>2, Only
<1>4. CASE Script1 = <<o>>
  <2>1. Script1 # <<>> /\ Head(Script1) = o /\ Tail(Script1) = <<>> BY <1>4
  <2>2. DoAllocate(w1) BY <1>1, <2>1, Executed DEF Goes1
  <2>3. PICK c : c = [o.copy EXCEPT !.ip = NextAddress] OBVIOUS
  <2>4. o.copy \in Rows /\ o.router \in Routers BY <1>1, <1>2, Parts
  <2>5. c \in Rows /\ c.key = o.copy.key /\ c.status # "unknown"
    <3>1. NextAddress \in Nat BY NextApart
    <3> QED BY <1>2, <2>3, <2>4, <3>1 DEF Rows
  <2>6. UNCHANGED <<row, kernel, file>> /\ Continue(w1, Credentialed(o.router, c, o.how))
    BY <2>1, <2>2, <2>3 DEF DoAllocate, Now, Script1, wireguard
  <2>7. Script1' = Credentialed(o.router, c, o.how)
    <3>1. Script1' = Credentialed(o.router, c, o.how) \o <<>> BY <2>1, <2>6, Going
    <3>2. Credentialed(o.router, c, o.how) \in Seq(Stmts) BY <2>4, <2>5, TypedCredentialed
    <3> QED BY <3>1, <3>2
  <2>8. Known(c) BY <2>5 DEF Known, Rows
  <2>9. After(o.router, c)' = After(o.router, c) BY <2>6 DEF After
  <2>10. c \in Fields BY <2>5, RowFields
  <2>11. CASE c.key = 0
    <3>1. PICK t \in Seq(Steady(After(o.router, c))) : Script1' = Write(o.router, c) \o t
      BY <2>4, <2>5, <2>7, <2>11, CredentialedPeers
    <3>2. PeersOf(After(o.router, c)) = PeersOf(row)
      <4>1. After(o.router, c)[o.router].key = 0 BY <2>4, <2>5, <2>11, AfterPair DEF PairAs
      <4>2. row[o.router].key = 0 BY <1>1, <2>5, <2>11
      <4>3. \A q \in Routers \ {o.router} : After(o.router, c)[q] = row[q] BY DEF After, TInv
      <4>4. {q \in Routers : After(o.router, c)[q].key # 0 /\ After(o.router, c)[q].ip # 0}
            = {q \in Routers : row[q].key # 0 /\ row[q].ip # 0}
        BY <4>1, <4>2, <4>3
      <4>5. \A q \in {p \in Routers : row[p].key # 0 /\ row[p].ip # 0} : After(o.router, c)[q] = row[q]
        BY <4>2, <4>3
      <4> QED BY <4>4, <4>5 DEF PeersOf
    <3>3. Synced' BY <1>1, <2>5, <2>6, <2>11 DEF Synced
    <3>4. PeersOf(After(o.router, c))' = PeersOf(row') BY <2>6, <2>9, <3>2
    <3>5. QMute' BY <2>4, <2>8, <2>9, <2>10, <3>1, <3>3, <3>4 DEF QMute
    <3> QED BY <2>6, <3>5 DEF Peered, Unknown
  <2>12. CASE c.key # 0
    <3>1. PICK s : ReadThen(After(o.router, c), s) /\ Script1' = Write(o.router, c) \o s
      BY <2>4, <2>5, <2>7, <2>12, CredentialedPeers
    <3>2. QWrite' BY <2>4, <2>8, <2>9, <2>10, <3>1 DEF QWrite, ReadThen
    <3> QED BY <2>6, <3>2 DEF Peered, Unknown
  <2> QED BY <2>11, <2>12
<1>5. CASE Script1 # <<o>>
  <2>1. Head(Script1) \in Given1 BY <1>1, <1>3, <1>5, SteadyTypes, Leads
  <2>2. Head(Script1) \in Named /\ Head(Script1).op # "allocate" BY <2>1 DEF Given1
  <2>3. Unknown' /\ \E a \in Seq(Given1) : Script1' = a \o Tail(Script1)
    <3>1. CASE Head(Script1).op = "write"
      <4>1. Unknown' /\ Script1' = Tail(Script1) BY <2>2, <3>1, WriteStep
      <4>2. Tail(Script1) \in Seq(Stmts) BY NextNow, HeadTail, ThreadAssumption DEF TInv, Script1
      <4>3. Tail(Script1) = <<>> \o Tail(Script1) BY <4>2
      <4> QED BY <4>1, <4>3, Empty
    <3>2. CASE Head(Script1).op # "write"
      <4>1. Unknown' BY <2>2, <3>2, OtherStep
      <4>2. PICK a : Script1' = a \o Tail(Script1) /\ \A rows : a \in Seq(Tunnelled(rows)) BY <2>2, <3>2, OtherStep
      <4>3. a \in Seq(Given1) BY <4>2, SteadyTypes, Wider
      <4> QED BY <4>1, <4>2, <4>3
    <3> QED BY <3>1, <3>2
  <2>4. PICK a \in Seq(Given1) : Script1' = a \o Tail(Script1) BY <2>3
  <2>5. Script1' \in Before(Given1, <<o>>) BY <1>1, <1>3, <1>5, <2>4, SteadyTypes, Onwards
  <2>6. QAlloc' BY <1>1, <1>5, <2>5 DEF QAlloc
  <2> QED BY <2>3, <2>6 DEF Peered
<1> QED BY <1>4, <1>5

LEMMA PeeredGoes == ASSUME TInv, Peered, Statement(w1) PROVE Peered'
BY SyncedGoes, MuteGoes, AllocGoes, WriteGoes, ReadGoes, MoveGoes, StripGoes, SyncGoes DEF Peered

-----------------------------------------------------------------------------
(* Peers: what a request begins                                            *)

InStep == Unknown /\ Synced

LEMMA InStepBetween == ASSUME TInv, Peered, Script1 = <<>> PROVE InStep
<1>1. ASSUME NEW A, NEW o \in A, NEW t \in Seq(A), Script1 = <<o>> \o t PROVE FALSE
  <2>1. <<o>> \in Seq(A) /\ <<o>> # <<>> BY Only
  <2>2. <<o>> \o t # <<>> BY <2>1, Longer
  <2> QED BY <1>1, <2>2
<1>2. ASSUME NEW S, NEW r, NEW f, NEW t \in Seq(S), Script1 = Write(r, f) \o t PROVE FALSE
  <2>1. PICK o : o = [op |-> "write", router |-> r, fields |-> f] OBVIOUS
  <2>2. Script1 = <<o>> \o t /\ o \in {o} \cup S /\ t \in Seq({o} \cup S) BY <1>2, <2>1 DEF Write
  <2> QED BY <1>1, <2>2
<1>3. ~QMute BY <1>2 DEF QMute
<1>4. ~QAlloc
  <2>1. SUFFICES ASSUME NEW o \in Named, Script1 \in Before(Given1, <<o>>) PROVE FALSE BY DEF QAlloc
  <2>2. <<o>> \in Seq(Stmts) /\ <<o>> # <<>> BY Only DEF Named
  <2> QED BY <2>1, <2>2, SteadyTypes, Starts
<1>5. ~QWrite BY <1>2, ReadTyped DEF QWrite
<1>6. ~QRead
  <2>1. SUFFICES ASSUME NEW t \in Seq(Steady(row)), Script1 \in Before(Tunnelled(row), Read \o t) PROVE FALSE
    BY DEF QRead, ReadThen
  <2>2. Read \in Seq(Stmts)
    <3>1. [op |-> "read"] \in Stmts BY DEF Stmts
    <3> QED BY <3>1, Only DEF Read
  <2>3. t \in Seq(Stmts) BY SteadyTypes, Wider
  <2>4. PICK v \in Seq(Stmts) : v = Read \o t BY <2>2, <2>3, Chained
  <2>5. Read # <<>> BY DEF Read
  <2>6. v # <<>> BY <2>2, <2>3, <2>4, <2>5, Longer
  <2> QED BY <2>1, <2>4, <2>6, SteadyTypes, Starts
<1>7. ASSUME NEW o, NEW t \in Seq(Steady(row)), Script1 = <<o>> \o t PROVE FALSE
  <2>1. o \in {o} \cup Steady(row) /\ t \in Seq({o} \cup Steady(row)) BY Wider
  <2> QED BY <1>1, <1>7, <2>1
<1>8. ~QStrip /\ ~QSync BY <1>7 DEF QStrip, QSync, StripOf, SyncOf
<1>9. ~QMove
  <2>1. SUFFICES ASSUME NEW t \in Seq(Steady(row)), Script1 = MoveOf(PeersOf(row)) \o t PROVE FALSE BY DEF QMove
  <2>2. PICK o, e : o = [op |-> "move", peers |-> PeersOf(row)] /\ e = [op |-> "strip"] OBVIOUS
  <2>3. Script1 = <<o, e>> \o t /\ t \in Seq({o, e} \cup Steady(row)) BY <2>1, <2>2, Wider DEF MoveOf
  <2>4. <<o, e>> \in Seq({o, e} \cup Steady(row)) /\ <<o, e>> # <<>> BY Both
  <2>5. <<o, e>> \o t # <<>> BY <2>3, <2>4, Longer
  <2> QED BY <2>3, <2>5
<1> QED BY <1>3, <1>4, <1>5, <1>6, <1>8, <1>9 DEF Peered, QSynced, InStep

\* A script that changes no pair whatever the rows; one without tunnel calls.
Through(a) == \A rows : a \in Seq(Tunnelled(rows))
Always(t) == \A rows : t \in Seq(Steady(rows))

LEMMA AlwaysParts ==
  ASSUME NEW r \in Routers
  PROVE  /\ Always(<<>>) /\ Through(<<>>)
         /\ \A s \in Scripts : Always(Respond(r, s))
         /\ \A f \in Fields : Known(f) /\ NoPair(f) => Always(Write(r, f))
         /\ \A c \in Rows : Always(Nas(r, c)) /\ Always(Answer(r, c))
         /\ \A k \in Nat : Through(Unset(k))
         /\ \A k, i \in Nat : Through(<<[op |-> "set", key |-> k, ip |-> i, else |-> <<>>]>>)
<1>1. ASSUME NEW k \in Nat PROVE Through(Unset(k))
  <2>1. ASSUME NEW rows PROVE Unset(k) \in Seq(Tunnelled(rows))
    <3>1. <<[op |-> "unset", key |-> k, else |-> <<>>]>> \o Read \in Seq(Tunnelled(rows)) BY SteadyParts, Chained
    <3> QED BY <3>1, Empty DEF Unset
  <2> QED BY <2>1 DEF Through
<1>2. ASSUME NEW k \in Nat, NEW i \in Nat PROVE Through(<<[op |-> "set", key |-> k, ip |-> i, else |-> <<>>]>>)
  <2>1. <<>> \in Elses BY DEF Elses
  <2> QED BY <2>1, SteadyParts DEF Through
<1>3. Always(<<>>) /\ Through(<<>>) BY Empty DEF Always, Through
<1>4. \A s \in Scripts : Always(Respond(r, s)) BY SteadyParts DEF Always
<1>5. \A f \in Fields : Known(f) /\ NoPair(f) => Always(Write(r, f)) BY SteadyParts DEF Always
<1>6. \A c \in Rows : Always(Nas(r, c)) /\ Always(Answer(r, c)) BY SteadyParts DEF Always
<1> QED BY <1>1, <1>2, <1>3, <1>4, <1>5, <1>6

LEMMA AlwaysJoin == ASSUME NEW a, Always(a), NEW b, Always(b) PROVE Always(a \o b)
BY Chained DEF Always
LEMMA ThroughJoin == ASSUME NEW a, Through(a), NEW b, Through(b) PROVE Through(a \o b)
BY Chained DEF Through

LEMMA BeginsSynced == ASSUME InStep', Script1' \in Seq(Steady(row')) PROVE Peered'
BY DEF InStep, Peered, QSynced
LEMMA BeginsAlways == ASSUME InStep', Always(Script1') PROVE Peered'
BY BeginsSynced DEF Always

LEMMA BeginsAlloc ==
  ASSUME InStep', NEW r \in Routers, NEW c \in Rows, c.status # "unknown", NEW h \in Hows,
         NEW a \in Seq(Given1), Script1' = a \o Allocate(r, c, h), c.key # 0 \/ (a = <<>> /\ row'[r].key = 0)
  PROVE  Peered'
<1>1. PICK o \in Stmts : o = [op |-> "allocate", router |-> r, copy |-> c, how |-> h] BY Words
<1>2. o.op = "allocate" /\ o.router = r /\ o.copy = c BY <1>1
<1>3. o \in Named BY <1>2 DEF Named
<1>4. Script1' = a \o <<o>> BY <1>1 DEF Allocate
<1>5. Script1' \in Before(Given1, <<o>>) BY <1>4 DEF Before
<1>6. a = <<>> => Script1' = <<o>> BY <1>4
<1>7. c.key = 0 => Synced' /\ row'[o.router].key = 0 /\ Script1' = <<o>> BY <1>2, <1>6 DEF InStep
<1>8. QAlloc' BY <1>2, <1>3, <1>5, <1>7 DEF QAlloc
<1> QED BY <1>8 DEF Peered, InStep

LEMMA BeginsMute ==
  ASSUME InStep', TInv', NEW r \in Routers, NEW f \in Fields, Known(f), row'[r].ip = 0, "ip" \notin DOMAIN f,
         NEW t, Always(t), Script1' = Write(r, f) \o t
  PROVE  Peered'
<1>1. PICK rows : rows = [row' EXCEPT ![r] = Saved(@, f)] OBVIOUS
<1>2. row' \in [Routers -> Rows] /\ row'[r] \in Rows BY DEF TInv
<1>3. rows[r] = Saved(row'[r], f) /\ \A q \in Routers \ {r} : rows[q] = row'[q] BY <1>1, <1>2
<1>4. rows[r].ip = 0 BY <1>2, <1>3 DEF Saved, Rows
<1>5. {q \in Routers : rows[q].key # 0 /\ rows[q].ip # 0} = {q \in Routers : row'[q].key # 0 /\ row'[q].ip # 0}
  BY <1>3, <1>4
<1>6. \A q \in {p \in Routers : row'[p].key # 0 /\ row'[p].ip # 0} : rows[q] = row'[q] BY <1>3
<1>7. PeersOf(rows) = PeersOf(row') BY <1>5, <1>6 DEF PeersOf
<1>8. t \in Seq(Steady(rows)) BY DEF Always
<1>9. After(r, f)' = rows BY <1>1 DEF After
<1>10. QMute' BY <1>7, <1>8, <1>9 DEF QMute, InStep
<1> QED BY <1>10 DEF Peered, InStep

LEMMA BeginsWrite ==
  ASSUME InStep', NEW r \in Routers, NEW f \in Fields, Known(f), NEW a, Through(a), NEW t, Always(t),
         Script1' = Write(r, f) \o (a \o (Read \o t))
  PROVE  Peered'
<1>1. PICK rows : rows = After(r, f)' OBVIOUS
<1>2. a \in Seq(Tunnelled(rows)) /\ t \in Seq(Steady(rows)) BY DEF Through, Always
<1>3. PICK s : s = a \o (Read \o t) OBVIOUS
<1>4. s \in Before(Tunnelled(rows), Read \o t) BY <1>2, <1>3 DEF Before
<1>5. ReadThen(rows, s) BY <1>2, <1>4 DEF ReadThen
<1>6. QWrite' BY <1>1, <1>3, <1>5 DEF QWrite, ReadThen
<1> QED BY <1>6 DEF Peered, InStep

LEMMA RegisterInStep ==
  ASSUME TInv, InStep, NEW r \in Routers, Register(r), UNCHANGED wireguard
  PROVE  InStep' /\ row'[r] = Registered(r) /\ (row[r].ip = 0 => Registered(r).ip = 0)
         /\ (Registered(r).key # row[r].key => Registered(r).ip = 0) /\ Registered(r).status # "unknown"
<1>1. \A q \in Routers \ {r} : row'[q] = row[q] BY DEF Register, TInv
<1>2. row'[r] = Registered(r) BY DEF Register, TInv
<1>3. CASE row[r].status # "unknown"
  <2>1. Registered(r) = row[r] BY <1>3 DEF Registered
  <2>2. row' = row
    <3>1. row' = [row EXCEPT ![r] = row[r]] BY <2>1 DEF Register
    <3> QED BY <3>1 DEF TInv
  <2> QED BY <1>2, <1>3, <2>1, <2>2 DEF InStep, Unknown, Synced, wireguard
<1>4. CASE row[r].status = "unknown"
  <2>1. Registered(r).ip = 0 /\ Registered(r).status = "available" BY <1>4 DEF Registered, Blank
  <2>2. row[r].ip = 0 BY <1>4 DEF InStep, Unknown
  <2>3. {q \in Routers : row'[q].key # 0 /\ row'[q].ip # 0} = {q \in Routers : row[q].key # 0 /\ row[q].ip # 0}
    BY <1>1, <1>2, <2>1, <2>2
  <2>4. \A q \in {p \in Routers : row[p].key # 0 /\ row[p].ip # 0} : row'[q] = row[q] BY <1>1, <2>2
  <2>5. PeersOf(row') = PeersOf(row) BY <2>3, <2>4 DEF PeersOf
  <2>6. Unknown' BY <1>1, <1>2, <2>1 DEF InStep, Unknown
  <2> QED BY <1>2, <2>1, <2>5, <2>6 DEF InStep, Synced, wireguard
<1> QED BY <1>3, <1>4

LEMMA UntouchedInStep == ASSUME InStep, UNCHANGED <<row, wireguard>> PROVE InStep'
BY DEF InStep, Unknown, Synced, wireguard

LEMMA ClaimsPeered == ASSUME TInv, InStep, Claims(w1) PROVE Peered'
<1> PICK r \in Routers, o \in Resellers :
      RouterAdd(w1, r, o) \/ HandleMikrotikAdd(w1, r, o) \/ HandleOpenwrtAdd(w1, r, o)
  BY DEF Claims
<1> DEFINE mine(d) == [d EXCEPT !.owner = o, !.status = "pending"]
<1>0. row[r] \in Rows /\ Fresh \in Nat \ {0} /\ o \in Owners /\ "pending" \in Statuses
  <2>1. Fresh # 0 BY BoundAssumption DEF TInv, Fresh
  <2> QED BY <2>1, RowOf, FreshNat DEF Owners, Statuses
<1>1. ASSUME NEW d \in Rows
      PROVE  mine(d) \in Rows /\ mine(d).key = d.key /\ mine(d).ip = d.ip /\ mine(d).status = "pending"
  <2>1. mine(d) \in Rows BY <1>0, CopyRows
  <2>2. mine(d).key = d.key /\ mine(d).ip = d.ip /\ mine(d).status = "pending" BY DEF Rows
  <2> HIDE DEF mine
  <2> QED BY <2>1, <2>2, Zenon
<1>2. Generated(row[r]) \in Rows /\ Generated(row[r]).key # 0
  <2>1. Generated(row[r]) \in Rows BY <1>0, CopyRows DEF Generated
  <2>2. Generated(row[r]).key = Fresh BY <1>0 DEF Generated, Rows
  <2> QED BY <1>0, <2>1, <2>2, Zenon
<1>3. Untouched => InStep' /\ row' = row BY UntouchedInStep DEF Untouched
<1>4. ASSUME NEW c \in Rows, NEW h \in Hows, Script1' = Allocate(r, c, h), c.status = "pending", Untouched,
             c.key # 0 \/ row[r].key = 0
      PROVE  Peered'
  <2>1. Allocate(r, c, h) \in Seq(Stmts) BY Pieces
  <2>2. Script1' = <<>> \o Allocate(r, c, h) BY <1>4, <2>1
  <2>3. "pending" # "unknown" OBVIOUS
  <2> QED BY <1>3, <1>4, <2>2, <2>3, Empty, BeginsAlloc
<1>5. CASE RouterAdd(w1, r, o)
  <2> DEFINE keyed == mine([row[r] EXCEPT !.secret = IF @ = 0 THEN Fresh ELSE @])
             script == Write(r, keyed) \o Set(row[r].key, row[r].ip, <<>>) \o Nas(r, keyed)
  <2>1. row[r].secret \in Nat /\ row[r].key \in Nat /\ row[r].ip \in Nat BY <1>0 DEF Rows
  <2>2. PICK k \in Nat : k = IF row[r].secret = 0 THEN Fresh ELSE row[r].secret BY <1>0, <2>1
  <2>3. keyed \in Rows /\ keyed.key = row[r].key /\ keyed.status = "pending"
    <3>1. [row[r] EXCEPT !.secret = k] \in Rows BY <1>0, CopyRows
    <3>2. [row[r] EXCEPT !.secret = k].key = row[r].key BY <1>0 DEF Rows
    <3> QED BY <1>1, <2>2, <3>1, <3>2
  <2>4. Untouched /\ \/ Serve(w1, Allocate(r, mine(Generated(row[r])), "api"))
                     \/ row[r].key # 0 /\ Serve(w1, Allocate(r, keyed, "api"))
                     \/ Serve(w1, script)
    BY <1>5 DEF RouterAdd
  <2> HIDE DEF keyed, mine
  <2>5. CASE Serve(w1, Allocate(r, mine(Generated(row[r])), "api"))
    <3>1. Script1' = Allocate(r, mine(Generated(row[r])), "api") BY <2>5, Loads
    <3>2. "api" \in Hows BY DEF Hows
    <3>3. mine(Generated(row[r])) \in Rows /\ mine(Generated(row[r])).key # 0
          /\ mine(Generated(row[r])).status = "pending"
      BY <1>1, <1>2
    <3> QED BY <1>4, <2>4, <3>1, <3>2, <3>3
  <2>6. CASE row[r].key # 0 /\ Serve(w1, Allocate(r, keyed, "api"))
    <3>1. Script1' = Allocate(r, keyed, "api") BY <2>6, Loads
    <3> QED BY <1>4, <2>3, <2>4, <2>6, <3>1 DEF Hows
  <2>7. CASE Serve(w1, script)
    <3>1. Script1' = Write(r, keyed) \o Set(row[r].key, row[r].ip, <<>>) \o Nas(r, keyed) BY <2>7, Loads
    <3>2. PICK a : a = <<[op |-> "set", key |-> row[r].key, ip |-> row[r].ip, else |-> <<>>]>> OBVIOUS
    <3>3. Through(a) BY <2>1, <3>2, AlwaysParts
    <3>4. Always(Nas(r, keyed)) BY <2>3, AlwaysParts
    <3>5. Set(row[r].key, row[r].ip, <<>>) = a \o Read BY <3>2 DEF Set
    <3>6. a \in Seq(Stmts) /\ Read \in Seq(Stmts) /\ Nas(r, keyed) \in Seq(Stmts) /\ Write(r, keyed) \in Seq(Stmts)
      <4>1. a \in Seq(Tunnelled(row)) BY <3>3 DEF Through
      <4>2. a \in Seq(Stmts) BY <4>1, SteadyTypes, Wider
      <4> QED BY <2>3, <4>2, RowFields, Pieces
    <3>7. Script1' = Write(r, keyed) \o (a \o (Read \o Nas(r, keyed)))
      <4>1. PICK b \in Seq(Stmts) : b = a \o Read BY <3>6, Chained
      <4>2. (Write(r, keyed) \o b) \o Nas(r, keyed) = Write(r, keyed) \o (b \o Nas(r, keyed))
        BY <3>6, <4>1, Regroup, ZenonT(60)
      <4>3. (a \o Read) \o Nas(r, keyed) = a \o (Read \o Nas(r, keyed)) BY <3>6, Regroup, ZenonT(60)
      <4> QED BY <3>1, <3>5, <4>1, <4>2, <4>3
    <3>8. keyed \in Fields /\ Known(keyed) BY <2>3, RowFields DEF Known, Rows
    <3> QED BY <1>3, <2>4, <3>3, <3>4, <3>7, <3>8, BeginsWrite
  <2> QED BY <2>4, <2>5, <2>6, <2>7
<1>6. CASE HandleMikrotikAdd(w1, r, o)
  <2>1. Serve(w1, Allocate(r, mine(Generated(row[r])), "page")) /\ Untouched BY <1>6 DEF HandleMikrotikAdd
  <2> HIDE DEF mine
  <2>2. Script1' = Allocate(r, mine(Generated(row[r])), "page") BY <2>1, Loads
  <2>3. mine(Generated(row[r])) \in Rows /\ mine(Generated(row[r])).key # 0
        /\ mine(Generated(row[r])).status = "pending"
    BY <1>1, <1>2
  <2>4. "page" \in Hows BY DEF Hows
  <2> QED BY <1>4, <2>1, <2>2, <2>3, <2>4
<1>7. CASE HandleOpenwrtAdd(w1, r, o)
  <2>1. PICK d : d = [row[r] EXCEPT !.owner = o, !.status = "pending", !.secret = Fresh] BY Zenon
  <2>2. d \in Rows BY <1>0, <2>1, CopyRows
  <2>3. d.key = row[r].key /\ d.status = "pending" BY <1>0, <2>1 DEF Rows
  <2>4. Serve(w1, Allocate(r, d, "page")) /\ Untouched BY <1>7, <2>1 DEF HandleOpenwrtAdd
  <2>5. Script1' = Allocate(r, d, "page") BY <2>4, Loads
  <2> QED BY <1>4, <2>2, <2>3, <2>4, <2>5 DEF Hows
<1> QED BY <1>5, <1>6, <1>7

LEMMA SettlesPeered == ASSUME TInv, InStep, Settles(w1) PROVE Peered'
<1> PICK r \in Routers : WifiConfig(w1, r) \/ Topology(w1, r) \/ Redeploy(w1, r) BY DEF Settles
<1>1. PICK f, g : f = [settings |-> Fresh, needs |-> TRUE] /\ g = [needs |-> TRUE] OBVIOUS
<1>2. f \in Fields /\ g \in Fields BY <1>1, FreshNat, Columns DEF Statuses, Owners
<1>3. NoPair(f) /\ NoPair(g) /\ Known(f) /\ Known(g) BY <1>1 DEF NoPair, Pair, Known
<1>4. Always(Write(r, f)) /\ Always(Write(r, g)) BY <1>2, <1>3, AlwaysParts
<1>5. Untouched /\ (Serve(w1, Write(r, f)) \/ Load(w1, Write(r, g)))
  BY <1>1 DEF WifiConfig, Topology, Redeploy
<1>6. Always(Script1') BY <1>4, <1>5, Loads
<1> QED BY <1>5, <1>6, UntouchedInStep, BeginsAlways DEF Untouched

LEMMA SeenKnown == ASSUME NEW c, NEW f \in Seen(c) PROVE NoPair(f) /\ Known(f)
<1>1. f = <<>> \/ f = [status |-> "provisioned"] BY DEF Seen
<1>2. CASE f = <<>>
  <2>1. DOMAIN f = {} BY <1>2
  <2> QED BY <2>1 DEF NoPair, Known
<1>3. CASE f = [status |-> "provisioned"] BY <1>3 DEF NoPair, Known, Pair
<1> QED BY <1>1, <1>2, <1>3

LEMMA BeatAlways == ASSUME NEW r \in Routers, NEW c \in Rows, NEW f \in Seen(c) PROVE Always(Beat(r, c, f))
<1> DEFINE g == [status |-> "provisioned", needs |-> FALSE]
           t == IF c.owner # NoOne /\ (c.status = "pending" \/ c.needs) /\ c.private # 0
                THEN Write(r, g) \o Respond(r, Script(c)) ELSE <<>>
<1>1. NoPair(g) /\ Known(g) BY DEF NoPair, Pair, Known
<1>2. Always(Write(r, g)) /\ Always(Respond(r, Script(c))) /\ Always(Write(r, f))
  BY <1>1, AlwaysParts, Online, Pieces, TypedSeen, SeenKnown
<1>3. Always(t) BY <1>2, AlwaysJoin, AlwaysParts
<1>4. Beat(r, c, f) = Write(r, f) \o t BY DEF Beat
<1> HIDE DEF t
<1> QED BY <1>2, <1>3, <1>4, AlwaysJoin

LEMMA SameKeyPeered == ASSUME TInv, TInv', InStep, SameKey(w1) PROVE Peered'
<1> PICK r \in Routers : \/ HeartbeatMikrotik(w1, r)
                         \/ HeartbeatOpenwrt(w1, r) /\ (row[r].ip = 0 \/ row[r].key = device[r].key)
  BY DEF SameKey
<1>1. CASE HeartbeatMikrotik(w1, r)
  <2>1. PICK f \in Seen(row[r]) : Load(w1, Beat(r, row[r], f)) BY <1>1, BeatLoads
  <2>2. Always(Script1') BY <2>1, RowOf, BeatAlways, Loads
  <2>3. InStep' BY <1>1, BeatLoads, UntouchedInStep DEF Untouched
  <2> QED BY <2>2, <2>3, BeginsAlways
<1>2. CASE HeartbeatOpenwrt(w1, r) /\ (row[r].ip = 0 \/ row[r].key = device[r].key)
  <2>1. PICK c, k : c = Registered(r) /\ k = device[r].key OBVIOUS
  <2>2. PICK f \in Seen(c) : Load(w1, BeatOpen(r, c, k, f)) BY <1>2, <2>1, BeatOpenLoads
  <2>3. c \in Rows /\ k \in Nat /\ f \in Fields BY <2>1, RowOf, KeyNat, TypedSeen
  <2>4. InStep' /\ row'[r] = c /\ (k # c.key => c.ip = 0) BY <1>2, <2>1, BeatOpenLoads, RegisterInStep
  <2>5. PICK t : t = IF Rekey(c, k).owner # NoOne /\ Rekey(c, k).status = "pending" THEN Answer(r, Rekey(c, k)) ELSE <<>>
    OBVIOUS
  <2>6. Always(t) BY <2>3, <2>5, RekeyRow, AlwaysParts
  <2>7. t \in Seq(Stmts)
    <3>1. t \in Seq(Steady(row)) BY <2>6 DEF Always
    <3> QED BY <3>1, SteadyTypes, Wider
  <2>8. CASE k = c.key
    <3>1. Write(r, f) \in Seq(Stmts) BY <2>3, Pieces
    <3>2. BeatOpen(r, c, k, f) = Write(r, f) \o t
      <4>1. BeatOpen(r, c, k, f) = (<<>> \o Write(r, f)) \o t BY <2>5, <2>8 DEF BeatOpen
      <4> QED BY <3>1, <4>1
    <3>3. Always(Write(r, f)) BY <2>3, SeenKnown, AlwaysParts
    <3>4. Always(Script1') BY <2>2, <2>6, <3>2, <3>3, AlwaysJoin, Loads
    <3> QED BY <2>4, <3>4, BeginsAlways
  <2>9. CASE k # c.key
    <3>1. PICK g : g = Keyed(f, k) OBVIOUS
    <3>2. g \in Fields BY <2>3, <3>1, KeyedColumns
    <3>3. DOMAIN g = {"key"} \cup DOMAIN f /\ ("status" \in DOMAIN f => g.status = f.status) BY <3>1 DEF Keyed
    <3>4. Known(g) /\ "ip" \notin DOMAIN g BY <3>3, SeenKnown DEF Known, NoPair, Pair
    <3>5. Swap(c, k) = <<>> BY <2>4, <2>9 DEF Swap
    <3>6. Write(r, g) \in Seq(Stmts) BY <3>2, Pieces
    <3>7. BeatOpen(r, c, k, f) = Write(r, g) \o t
      <4>1. BeatOpen(r, c, k, f) = (<<>> \o Write(r, g)) \o t BY <2>5, <2>9, <3>1, <3>5 DEF BeatOpen
      <4> QED BY <3>6, <4>1
    <3>8. Script1' = Write(r, g) \o t BY <2>2, <3>7, Loads
    <3> QED BY <2>4, <2>6, <2>9, <3>2, <3>4, <3>8, BeginsMute
  <2> QED BY <2>8, <2>9
<1> QED BY <1>1, <1>2

LEMMA RegisteredPeered ==
  ASSUME TInv, InStep, NEW r \in Routers, RouterProvision(w1, r) PROVE Peered'
<1>1. PICK c : c = Registered(r) OBVIOUS
<1>2. c \in Rows /\ c.key \in Nat BY <1>1, RowOf DEF Rows
<1>3. InStep' /\ row'[r] = c /\ c.status # "unknown" BY <1>1, ProvisionLoads, RegisterInStep
<1>4. Script1' = <<>> \/ Script1' = Deliver(r, c) \/ Script1' = Rearm(r, c)
  BY <1>1, ProvisionLoads, Loads
<1>5. CASE Script1' = <<>> BY <1>3, <1>5, Empty, BeginsSynced
<1>6. CASE Script1' = Deliver(r, c)
  <2>1. PairAs(c, row'[r]) BY <1>2, <1>3 DEF PairAs, Pair, Rows
  <2>2. Deliver(r, c) \in Seq(Steady(row')) BY <1>2, <2>1, SteadyParts
  <2> QED BY <1>3, <1>6, <2>2, BeginsSynced
<1>7. CASE Script1' = Rearm(r, c)
  <2>1. Generated(c) \in Rows BY <1>2, FreshNat, CopyRows DEF Generated, Owners, Statuses
  <2>2. Fresh # 0 BY BoundAssumption DEF TInv, Fresh
  <2>3. Generated(c).key # 0 /\ Generated(c).status # "unknown" BY <1>2, <1>3, <2>2 DEF Generated, Rows
  <2>4. Unset(c.key) \in Seq(Given1)
    <3>1. Unset(c.key) \in Seq(Tunnelled(row)) BY <1>2, AlwaysParts DEF Through
    <3> QED BY <3>1, SteadyTypes, Wider
  <2>5. "phone" \in Hows BY DEF Hows
  <2> QED BY <1>3, <1>7, <2>1, <2>3, <2>4, <2>5, BeginsAlloc DEF Rearm
<1> QED BY <1>4, <1>5, <1>6, <1>7

LEMMA OpenPeered == ASSUME TInv, TInv', InStep, NEW r \in Routers, OpenwrtProvision(w1, r) PROVE Peered'
<1>1. PICK c, k : c = Registered(r) /\ k = device[r].key OBVIOUS
<1>2. c \in Rows /\ c.key \in Nat /\ c.ip \in Nat /\ k \in Nat /\ Fresh \in Nat BY <1>1, RowOf, KeyNat, FreshNat DEF Rows
<1>3. InStep' /\ row'[r] = c /\ c.status # "unknown" /\ k # 0 BY <1>1, OpenLoads, RegisterInStep
<1>4. Rekey(c, k) \in Rows /\ Readied(c, k) \in Rows BY <1>2 DEF Rekey, Readied, Rows
<1>5. Readied(c, k).key # 0 /\ Readied(c, k).status # "unknown" BY <1>2, <1>3 DEF Rekey, Readied, Rows
<1>6. PICK f : f = [key |-> k] OBVIOUS
<1>7. f \in Fields /\ Known(f) /\ "ip" \notin DOMAIN f
  <2>1. f \in Fields BY <1>2, <1>6, Columns DEF Owners, Statuses
  <2>2. DOMAIN f = {"key"} BY <1>6
  <2> QED BY <2>1, <2>2 DEF Known
<1>8. PICK t : t = Answer(r, Rekey(c, k)) OBVIOUS
<1>9. Always(t) /\ Always(<<>>) /\ t \in Seq(Stmts)
  <2>1. Always(t) BY <1>4, <1>8, AlwaysParts
  <2>2. t \in Seq(Steady(row)) BY <2>1 DEF Always
  <2> QED BY <2>1, <2>2, AlwaysParts, SteadyTypes, Wider
<1>10. PICK p : p = Swapped(r, c, k) OBVIOUS
<1>11. Script1' = p \/ Script1' = p \o t \/ Script1' = p \o Allocate(r, Readied(c, k), "phone")
  BY <1>1, <1>8, <1>10, OpenLoads, Loads
<1>12. Unset(c.key) \in Seq(Stmts) /\ Write(r, f) \in Seq(Stmts) /\ Read \in Seq(Stmts) BY <1>2, <1>7, Pieces
<1>13. PICK a : a = <<[op |-> "set", key |-> k, ip |-> c.ip, else |-> <<>>]>> OBVIOUS
<1>14. Through(a) /\ Through(Unset(c.key)) /\ Through(Unset(c.key) \o a) BY <1>2, <1>13, AlwaysParts, ThroughJoin
<1>15. a \in Seq(Stmts) /\ Unset(c.key) \o a \in Seq(Stmts)
  <2>1. a \in Seq(Tunnelled(row)) BY <1>14 DEF Through
  <2>2. a \in Seq(Stmts) BY <2>1, SteadyTypes, Wider
  <2> QED BY <1>12, <2>2, Chained
<1>16. k # c.key => p = Write(r, f) \o Swap(c, k) BY <1>6, <1>10 DEF Swapped
<1>17. k = c.key => p = <<>> BY <1>10 DEF Swapped
<1>18. c.ip # 0 => Swap(c, k) = (Unset(c.key) \o a) \o Read
  <2>1. Set(k, c.ip, <<>>) = a \o Read BY <1>13 DEF Set
  <2>2. Unset(c.key) \o (a \o Read) = (Unset(c.key) \o a) \o Read BY <1>12, <1>15
  <2> QED BY <2>1, <2>2 DEF Swap
<1>19. c.ip = 0 => Swap(c, k) = <<>> BY DEF Swap
<1>20. CASE Script1' = p \o Allocate(r, Readied(c, k), "phone")
  <2>1. p \in Seq(Given1)
    <3>1. Write(r, f) \in Seq(Given1)
      <4>1. [op |-> "write", router |-> r, fields |-> f] \in Given1 BY <1>7, Words DEF Given1, Named
      <4> QED BY <4>1, Only DEF Write
    <3>2. Swap(c, k) \in Seq(Given1)
      <4>1. Through((Unset(c.key) \o a) \o Read)
        <5>1. Through(Read) BY SteadyParts DEF Through
        <5> QED BY <1>14, <5>1, ThroughJoin
      <4>2. (Unset(c.key) \o a) \o Read \in Seq(Tunnelled(row)) BY <4>1 DEF Through
      <4>3. Seq(Tunnelled(row)) \subseteq Seq(Given1) BY SteadyTypes, Wider
      <4> QED BY <1>18, <1>19, <4>2, <4>3, Empty
    <3> QED BY <1>16, <1>17, <3>1, <3>2, Chained, Empty
  <2>2. "phone" \in Hows BY DEF Hows
  <2> QED BY <1>3, <1>4, <1>5, <1>20, <2>1, <2>2, BeginsAlloc
<1>21. ASSUME NEW u, Always(u), u \in Seq(Stmts), Script1' = p \o u PROVE Peered'
  <2>1. CASE k = c.key
    <3>1. Script1' = u BY <1>17, <1>21, <2>1
    <3> QED BY <1>3, <1>21, <3>1, BeginsAlways
  <2>2. CASE k # c.key /\ c.ip = 0
    <3>0. Write(r, f) \o <<>> = Write(r, f) BY <1>12
    <3>1. Script1' = Write(r, f) \o u BY <1>16, <1>19, <1>21, <2>2, <3>0
    <3> QED BY <1>3, <1>7, <1>21, <2>2, <3>1, BeginsMute
  <2>3. CASE k # c.key /\ c.ip # 0
    <3>1. PICK b \in Seq(Stmts) : b = Unset(c.key) \o a BY <1>15
    <3>2. Script1' = (Write(r, f) \o (b \o Read)) \o u BY <1>16, <1>18, <1>21, <2>3, <3>1
    <3>3. (Write(r, f) \o (b \o Read)) \o u = Write(r, f) \o (b \o (Read \o u))
      <4>1. b \o Read \in Seq(Stmts) BY <1>12, <1>21, <3>1, Chained, Pieces
      <4>2. (Write(r, f) \o (b \o Read)) \o u = Write(r, f) \o ((b \o Read) \o u) BY <1>12, <1>21, <4>1, Regroup, ZenonT(60)
      <4>3. (b \o Read) \o u = b \o (Read \o u) BY <1>12, <1>21, Regroup, ZenonT(60)
      <4> QED BY <4>2, <4>3, Zenon
    <3>4. Through(b) BY <1>14, <3>1
    <3> QED BY <1>3, <1>7, <1>21, <3>2, <3>3, <3>4, BeginsWrite
  <2> QED BY <2>1, <2>2, <2>3
<1>22. CASE Script1' = p
  <2>1. p \in Seq(Stmts)
    <3>1. Swap(c, k) \in Seq(Stmts) BY <1>2, TypedSwap
    <3> QED BY <1>12, <1>16, <1>17, <3>1, Chained, Empty
  <2>2. p = p \o <<>> BY <2>1
  <2>3. Script1' = p \o <<>> BY <1>22, <2>2
  <2> QED BY <1>9, <1>21, <2>3, Empty
<1>23. CASE Script1' = p \o t BY <1>9, <1>21, <1>23
<1> QED BY <1>11, <1>20, <1>22, <1>23

LEMMA SweepsPeered == ASSUME TInv, InStep, Sweeps(w1) PROVE Peered'
<1>1. PICK flag \in BOOLEAN : CheckRouters(w1, flag) BY DEF Sweeps
<1>2. PICK s \in Seq(SweepWrites(flag)) : Load(w1, s) BY <1>1, SweepLoads
<1>3. ASSUME NEW rows PROVE SweepWrites(flag) \subseteq Steady(rows)
  <2>1. ASSUME NEW r \in Swept PROVE [op |-> "write", router |-> r, fields |-> Verdict(r, flag)] \in Steady(rows)
    <3>1. r \in Routers /\ row[r].status # "unknown" BY DEF Swept
    <3>2. PICK f \in Fields : f = Verdict(r, flag) BY <3>1, TypedVerdict
    <3>3. DOMAIN f = {"status", "shook", "needs"} /\ f.status = row[r].status BY <3>2 DEF Verdict
    <3>4. Known(f) /\ NoPair(f) BY <3>1, <3>3 DEF Known, NoPair, Pair
    <3>5. PICK o \in Stmts : o = [op |-> "write", router |-> r, fields |-> f] BY <3>1, Words
    <3>6. o.op = "write" /\ o.fields = f BY <3>5
    <3>7. o \in Steady(rows) BY <3>4, <3>6 DEF Steady, Tunnelled, Given1, Named, Tunnelling
    <3> QED BY <3>2, <3>5, <3>7
  <2> QED BY <2>1 DEF SweepWrites
<1>4. Script1' = s BY <1>2, Loads
<1>5. Script1' \in Seq(Steady(row')) BY <1>3, <1>4, Wider
<1>6. InStep' BY <1>1, SweepLoads, UntouchedInStep DEF Untouched
<1> QED BY <1>5, <1>6, BeginsSynced

LEMMA ReconcilePeered == ASSUME TInv, InStep, ReconcileCommand(w1) PROVE Peered'
<1>1. InStep' /\ Script1' = Read BY UntouchedInStep, Loads DEF ReconcileCommand, Untouched
<1>2. PICK o \in Stmts : o = [op |-> "read"] BY DEF Stmts
<1>3. Read \in Seq(Stmts) BY <1>2, Only DEF Read
<1>4. Script1' = Read \o <<>> /\ Read \o <<>> \in Seq(Stmts) BY <1>1, <1>3
<1>5. Script1' \in Before(Tunnelled(row'), Read \o <<>>) BY <1>4, Opens
<1>6. QRead' BY <1>5, Empty DEF QRead, ReadThen
<1> QED BY <1>1, <1>6 DEF Peered, InStep

LEMMA DevicesPeered == ASSUME TInv, InStep, Script1 = <<>>, Devices PROVE Peered'
<1> PICK r \in Routers : Boot(r) \/ RouterWifi(r) \/ ImportSerials(r) BY DEF Devices
<1>1. Script1' = <<>> BY DEF Boot, RouterWifi, ImportSerials, Script1
<1>2. InStep'
  <2>1. CASE ImportSerials(r) BY <2>1, RegisterInStep DEF ImportSerials
  <2>2. CASE Boot(r) \/ RouterWifi(r) BY <2>2, UntouchedInStep DEF Boot, RouterWifi
  <2> QED BY <2>1, <2>2
<1> QED BY <1>1, <1>2, Empty, BeginsSynced

\* One request at a time, and nothing fails: between requests the peers are
\* those of the rows.
LEMMA PeeredSteps ==
  ASSUME TInv, TInv', Peered, Statement(w1) \/ (Script1 = <<>> /\ (Quiet(w1) \/ Devices)) PROVE Peered'
<1>1. CASE Statement(w1) BY <1>1, PeeredGoes
<1>2. CASE Script1 = <<>> /\ Devices BY <1>2, InStepBetween, DevicesPeered
<1>3. CASE Script1 = <<>> /\ Quiet(w1)
  <2>1. InStep BY <1>3, InStepBetween
  <2>2. CASE PhoneHomes(w1) BY <2>1, <2>2, RegisteredPeered, OpenPeered DEF PhoneHomes
  <2> QED BY <1>3, <2>1, <2>2, ClaimsPeered, SettlesPeered, SweepsPeered, ReconcilePeered, SameKeyPeered DEF Quiet
<1> QED BY <1>1, <1>2, <1>3

-----------------------------------------------------------------------------
(* Settings, while one request runs at a time and nothing fails            *)

Safe(q) == Claimed(q) /\ device[q].settings < row[q].settings /\ device[q].key # 0
             => row[q].needs \/ row[q].status = "pending"
Low == \A q \in Mikrotiks : row[q].settings <= served
AllSafe == Low /\ \A q \in Mikrotiks : Safe(q)

\* Columns that can be saved over a row: no flag is taken back, and settings
\* or an owner come with one.
Gentle(c, f, n) ==
  /\ "needs" \in DOMAIN f /\ c.needs => f.needs
  /\ "status" \in DOMAIN f /\ c.status = "pending" => f.status = "pending"
  /\ "settings" \in DOMAIN f =>
       f.settings = c.settings \/ ("needs" \in DOMAIN f /\ f.needs /\ f.settings <= n)
  /\ "owner" \in DOMAIN f => f.owner = c.owner \/ ("status" \in DOMAIN f /\ f.status = "pending")
\* g: what a script saves of each MikroTik.
Gently(g) == g \in [Mikrotiks -> Fields] /\ \A q \in Mikrotiks : Gentle(row[q], g[q], served)
Tame(g) == {o \in Stmts : /\ o.op # "allocate"
                          /\ o.op = "respond" => o.router \notin Mikrotiks
                          /\ o.op = "write" /\ o.router \in Mikrotiks => o.fields = g[o.router]}
Nothing == [q \in Mikrotiks |-> <<>>]
Saves(r, f) == [q \in Mikrotiks |-> IF q = r THEN f ELSE <<>>]
\* What leads to the answer to r, whose settings are k.
Same(r, k) == {o \in Stmts : /\ o.op \notin {"respond", "allocate"}
                             /\ o.op = "write" => /\ o.router = r
                                                  /\ "settings" \in DOMAIN o.fields => o.fields.settings = k}

\* The phases: nothing is delivered; a MikroTik, an OpenWrt device is about to
\* get an address; settings are on their way to r.
SCalm == AllSafe /\ \E g : Gently(g) /\ Script1 \in Seq(Tame(g))
Earns(o) ==
  /\ o.op = "allocate" /\ o.router \in Mikrotiks
  /\ o.copy.settings = row[o.router].settings /\ (row[o.router].needs => o.copy.needs)
  /\ o.how = "phone" \/ o.copy.status = "pending"
SEarn == AllSafe /\ \E o \in Stmts : Earns(o) /\ Script1 \in Before(Tunnels, <<o>>)
SOpen == AllSafe /\ \E o \in Stmts : /\ o.op = "allocate" /\ o.router \notin Mikrotiks
                                     /\ Script1 \in Before(Tame(Nothing), <<o>>)
Answers(r, k, o) == o \in Stmts /\ o.op = "respond" /\ o.router = r /\ o.script.settings = k
SAnswer(r) == Low /\ (\A q \in Mikrotiks \ {r} : Safe(q))
              /\ \E o : Answers(r, row[r].settings, o) /\ Script1 \in Before(Same(r, row[r].settings), <<o>>)
Delivered == SCalm \/ SEarn \/ SOpen \/ \E r \in Mikrotiks : SAnswer(r)

LEMMA TameTypes == \A g, r, k : Tame(g) \subseteq Stmts /\ Same(r, k) \subseteq Stmts /\ Tunnels \subseteq Stmts
                                /\ Tunnels \subseteq Tame(g) /\ Tunnels \subseteq Same(r, k)
BY DEF Tame, Same, Tunnels, Tunnelling

LEMMA GentleNothing == Gently(Nothing) /\ \A r, f : f \in Fields => Saves(r, f) \in [Mikrotiks -> Fields]
<1>1. <<>> \in Fields BY Columns DEF Statuses, Owners
<1>2. \A c, n : Gentle(c, <<>>, n)
  <2>1. DOMAIN <<>> = {} OBVIOUS
  <2> QED BY <2>1 DEF Gentle
<1> QED BY <1>1, <1>2 DEF Gently, Nothing, Saves

LEMMA GentlySaves ==
  ASSUME NEW r, NEW f \in Fields, r \in Mikrotiks => Gentle(row[r], f, served) PROVE Gently(Saves(r, f))
<1>1. \A c, n : Gentle(c, <<>>, n)
  <2>1. DOMAIN <<>> = {} OBVIOUS
  <2> QED BY <2>1 DEF Gentle
<1> QED BY <1>1, GentleNothing DEF Gently, Saves

LEMMA WriteSaves ==
  ASSUME TInv, Statement(w1), Head(Script1).op = "write"
  PROVE  /\ row' = After(Head(Script1).router, Head(Script1).fields)
         /\ UNCHANGED <<device, served>> /\ Script1' = Tail(Script1)
<1>0. Script1 # <<>> BY NextNow
<1>1. DoWrite(w1) BY <1>0, Executed DEF Goes1
<1>2. Script1' = Tail(Script1) BY <1>0, <1>1, Finished DEF DoWrite
<1> QED BY <1>1, <1>2 DEF DoWrite, Now, Script1, After

\* A statement that neither saves, hands out an address nor answers.
LEMMA CallStep ==
  ASSUME TInv, Statement(w1), Head(Script1).op \notin {"write", "allocate", "respond"}
  PROVE  UNCHANGED <<row, device, served>> /\ \E a \in Seq(Tunnels) : Script1' = a \o Tail(Script1)
<1>1. UNCHANGED <<row, device, served>>
  BY DEF Statement, DoWrite, DoAllocate, DoNas, DoRestart, DoSet, DoReconcile, DoRespond, At, Script1
<1>2. \/ Continue(w1, MoveOf(RowPeers)) \/ Continue(w1, SyncOf(file)) \/ Continue(w1, <<>>)
  BY DEF Statement, DoWrite, DoAllocate, DoNas, DoRestart, DoSet, DoReconcile, DoRespond, At, Script1,
         MoveOf, SyncOf, Done
<1>3. ASSUME NEW p \in SUBSET Peers PROVE MoveOf(p) \in Seq(Tunnels) /\ SyncOf(p) \in Seq(Tunnels)
  <2>1. /\ [op |-> "move", peers |-> p] \in Tunnels /\ [op |-> "strip"] \in Tunnels
        /\ [op |-> "sync", peers |-> p] \in Tunnels
    BY DEF Tunnels, Tunnelling, Stmts
  <2> QED BY <2>1, Both, Only DEF MoveOf, SyncOf
<1>4. file \subseteq Peers BY DEF TInv
<1>5. MoveOf(RowPeers) \in Seq(Tunnels) /\ SyncOf(file) \in Seq(Tunnels) BY <1>3, <1>4, PeersOfRows
<1>6. PICK a \in Seq(Tunnels) : Continue(w1, a) BY <1>2, <1>5, Empty
<1> QED BY <1>1, <1>6, Going

LEMMA RespondStep ==
  ASSUME TInv, Statement(w1), Head(Script1).op = "respond", Script1 # <<>>
  PROVE  /\ UNCHANGED <<row, served>> /\ Script1' = Tail(Script1)
         /\ \A q \in Routers \ {Head(Script1).router} : device'[q] = device[q]
         /\ device'[Head(Script1).router].settings = Head(Script1).script.settings
<1> DEFINE o == Head(Script1)
<1>1. DoRespond(w1)
  BY DEF Statement, DoWrite, DoAllocate, DoNas, DoRestart, DoSet, DoReconcile, DoRespond, At, Script1
<1>2. o \in Stmts /\ o.op = "respond" BY HeadTail, ThreadAssumption DEF TInv, Script1
<1>3. o.router \in Routers /\ o.script \in Scripts BY <1>2, Parts
<1>4. device' = [device EXCEPT ![o.router] = [o.script EXCEPT !.key = IF o.router \in OpenWrts
                                                                     THEN device[o.router].key ELSE @]]
  BY <1>1 DEF DoRespond, Now, Script1
<1>5. Script1' = Tail(Script1) BY <1>1, Finished DEF DoRespond
<1> HIDE DEF o
<1>6. \A q \in Routers \ {o.router} : device'[q] = device[q] BY <1>4 DEF TInv
<1>7. device'[o.router].settings = o.script.settings BY <1>3, <1>4 DEF TInv, Scripts
<1> QED BY <1>1, <1>5, <1>6, <1>7 DEF DoRespond, o

LEMMA SafeKept ==
  ASSUME NEW q, row'[q] = row[q], device'[q] = device[q], Safe(q) PROVE Safe(q)'
BY DEF Safe, Claimed

LEMMA GentleSaved ==
  ASSUME TInv, NEW r \in Mikrotiks, NEW f \in Fields, Gentle(row[r], f, served), Safe(r), row[r].settings <= served,
         row'[r] = Saved(row[r], f), UNCHANGED <<device, served>>
  PROVE  Gentle(row'[r], f, served') /\ Safe(r)' /\ row'[r].settings <= served'
<1>1. row[r] \in Rows BY RowOf DEF Routers
<1>2. DOMAIN row[r] = Names BY <1>1 DEF Rows, Names
<1>3. \A n \in Names : row'[r][n] = IF n \in DOMAIN f THEN f[n] ELSE row[r][n] BY <1>2 DEF Saved
<1>4. row'[r].needs = (IF "needs" \in DOMAIN f THEN f.needs ELSE row[r].needs)
      /\ row'[r].status = (IF "status" \in DOMAIN f THEN f.status ELSE row[r].status)
      /\ row'[r].settings = (IF "settings" \in DOMAIN f THEN f.settings ELSE row[r].settings)
      /\ row'[r].owner = (IF "owner" \in DOMAIN f THEN f.owner ELSE row[r].owner)
  BY <1>3 DEF Names
<1>5. row'[r].settings <= served' BY <1>4 DEF Gentle
<1>6. Gentle(row'[r], f, served') BY <1>4 DEF Gentle
<1>7. Safe(r)' BY <1>4 DEF Gentle, Safe, Claimed
<1> QED BY <1>5, <1>6, <1>7

LEMMA TameStep ==
  ASSUME TInv, AllSafe, NEW g, Gently(g), Statement(w1), Head(Script1) \in Tame(g)
  PROVE  AllSafe' /\ Gently(g)' /\ \E a \in Seq(Tunnels) : Script1' = a \o Tail(Script1)
<1> DEFINE o == Head(Script1)
<1>0. Script1 # <<>> /\ Tail(Script1) \in Seq(Stmts) BY NextNow, HeadTail, ThreadAssumption DEF TInv, Script1
<1>1. o \in Stmts /\ o.op # "allocate" BY DEF Tame
<1>2. Tail(Script1) = <<>> \o Tail(Script1) BY <1>0
<1>3. CASE o.op = "write"
  <2>1. row' = After(o.router, o.fields) /\ UNCHANGED <<device, served>> /\ Script1' = Tail(Script1)
    BY <1>3, WriteSaves
  <2>2. o.router \in Routers /\ o.fields \in Fields BY <1>1, <1>3, Parts
  <2>3. o.router \in Mikrotiks => o.fields = g[o.router] BY <1>3 DEF Tame
  <2> HIDE DEF o
  <2>4. row'[o.router] = Saved(row[o.router], o.fields) BY <2>1, <2>2 DEF After, TInv
  <2>5. \A q \in Routers \ {o.router} : row'[q] = row[q] BY <2>1 DEF After, TInv
  <2>6. ASSUME NEW q \in Mikrotiks PROVE Gentle(row'[q], g[q], served') /\ Safe(q)' /\ row'[q].settings <= served'
    <3>1. q \in Routers /\ Safe(q) /\ Gentle(row[q], g[q], served) /\ row[q].settings <= served
      BY InRouters DEF AllSafe, Low, Gently
    <3>2. CASE q = o.router
      <4>1. g[q] \in Fields /\ row'[q] = Saved(row[q], g[q]) BY <2>2, <2>3, <2>4, <3>2
      <4> QED BY <2>1, <3>1, <4>1, GentleSaved
    <3>3. CASE q # o.router
      <4>1. row'[q] = row[q] BY <2>5, <3>1, <3>3
      <4> QED BY <2>1, <3>1, <4>1, SafeKept DEF Gentle
    <3> QED BY <3>2, <3>3
  <2>7. AllSafe' /\ Gently(g)' BY <2>6 DEF AllSafe, Low, Gently
  <2> QED BY <1>2, <2>1, <2>7, Empty
<1>4. CASE o.op = "respond"
  <2>1. /\ UNCHANGED <<row, served>> /\ Script1' = Tail(Script1)
        /\ \A q \in Routers \ {o.router} : device'[q] = device[q]
    BY <1>0, <1>4, RespondStep
  <2>2. o.router \notin Mikrotiks BY <1>4 DEF Tame
  <2>3. \A q \in Mikrotiks : device'[q] = device[q] BY <2>1, <2>2, InRouters
  <2>4. AllSafe' BY <2>1, <2>3, SafeKept DEF AllSafe, Low
  <2>5. Gently(g)' BY <2>1 DEF Gently, Gentle
  <2> QED BY <1>2, <2>1, <2>4, <2>5, Empty
<1>5. CASE o.op \notin {"write", "respond"}
  <2>1. UNCHANGED <<row, device, served>> /\ \E a \in Seq(Tunnels) : Script1' = a \o Tail(Script1)
    BY <1>1, <1>5, CallStep
  <2>2. AllSafe' /\ Gently(g)' BY <2>1, SafeKept DEF AllSafe, Low, Gently, Gentle
  <2> QED BY <2>1, <2>2
<1> QED BY <1>3, <1>4, <1>5

LEMMA TameParts ==
  ASSUME NEW r \in Routers, NEW g
  PROVE  /\ \A c \in Rows : Nas(r, c) \in Seq(Tame(g))
         /\ \A f \in Fields : (r \in Mikrotiks => f = g[r]) => Write(r, f) \in Seq(Tame(g))
         /\ r \notin Mikrotiks => \A s \in Scripts : Respond(r, s) \in Seq(Tame(g))
         /\ r \notin Mikrotiks => \A c \in Rows : Answer(r, c) \in Seq(Tame(g))
         /\ \A k, i \in Nat, e \in Elses : Set(k, i, e) \in Seq(Tame(g))
         /\ \A k \in Nat : Unset(k) \in Seq(Tame(g))
<1>1. ASSUME NEW c \in Rows PROVE Nas(r, c) \in Seq(Tame(g))
  <2>1. c.ip \in Nat /\ c.secret \in Nat BY DEF Rows
  <2>2. ASSUME NEW o \in Stmts, o.op \notin {"write", "allocate", "respond"} PROVE o \in Tame(g) BY <2>2 DEF Tame
  <2>3. /\ [op |-> "nasstale", router |-> r, ip |-> c.ip] \in Tame(g) /\ [op |-> "restart"] \in Tame(g)
        /\ [op |-> "nasput", router |-> r, ip |-> c.ip, secret |-> c.secret] \in Tame(g)
    BY <2>1, <2>2, Words
  <2> QED BY <2>3, All3 DEF Nas
<1>2. ASSUME NEW f \in Fields, r \in Mikrotiks => f = g[r] PROVE Write(r, f) \in Seq(Tame(g))
  <2>1. PICK o \in Stmts : o = [op |-> "write", router |-> r, fields |-> f] BY Words
  <2>2. o.op = "write" /\ o.router = r /\ o.fields = f BY <2>1
  <2>3. o \in Tame(g) BY <1>2, <2>2 DEF Tame
  <2> QED BY <2>1, <2>3, Only DEF Write
<1>3. ASSUME r \notin Mikrotiks, NEW s \in Scripts PROVE Respond(r, s) \in Seq(Tame(g))
  <2>1. PICK o \in Stmts : o = [op |-> "respond", router |-> r, script |-> s] BY Words
  <2>2. o.op = "respond" /\ o.router = r BY <2>1
  <2>3. o \in Tame(g) BY <1>3, <2>2 DEF Tame
  <2> QED BY <2>1, <2>3, Only DEF Respond
<1>4. ASSUME r \notin Mikrotiks, NEW c \in Rows PROVE Answer(r, c) \in Seq(Tame(g))
  <2>1. Write(r, [status |-> "provisioned"]) \in Seq(Tame(g)) BY <1>2, <1>4, Online
  <2>2. Respond(r, Script(c)) \in Seq(Tame(g)) BY <1>3, <1>4, Pieces
  <2> QED BY <2>1, <2>2, Chained DEF Answer
<1>5. Seq(Tunnels) \subseteq Seq(Tame(g)) BY TameTypes, Wider
<1>6. \A k, i \in Nat, e \in Elses : Set(k, i, e) \in Seq(Tame(g)) BY <1>5, PeerCalls
<1>7. \A k \in Nat : Unset(k) \in Seq(Tame(g)) BY <1>5, PeerCalls
<1> QED BY <1>1, <1>2, <1>3, <1>4, <1>6, <1>7

LEMMA SameParts ==
  ASSUME NEW r \in Routers, NEW k
  PROVE  /\ \A c \in Rows : Nas(r, c) \in Seq(Same(r, k))
         /\ \A f \in Fields : ("settings" \in DOMAIN f => f.settings = k) => Write(r, f) \in Seq(Same(r, k))
         /\ \A key, i \in Nat, e \in Elses : Set(key, i, e) \in Seq(Same(r, k))
<1>1. ASSUME NEW c \in Rows PROVE Nas(r, c) \in Seq(Same(r, k))
  <2>1. c.ip \in Nat /\ c.secret \in Nat BY DEF Rows
  <2>2. ASSUME NEW o \in Stmts, o.op \notin {"write", "allocate", "respond"} PROVE o \in Same(r, k) BY <2>2 DEF Same
  <2>3. /\ [op |-> "nasstale", router |-> r, ip |-> c.ip] \in Same(r, k) /\ [op |-> "restart"] \in Same(r, k)
        /\ [op |-> "nasput", router |-> r, ip |-> c.ip, secret |-> c.secret] \in Same(r, k)
    BY <2>1, <2>2, Words
  <2> QED BY <2>3, All3 DEF Nas
<1>2. ASSUME NEW f \in Fields, "settings" \in DOMAIN f => f.settings = k PROVE Write(r, f) \in Seq(Same(r, k))
  <2>1. PICK o \in Stmts : o = [op |-> "write", router |-> r, fields |-> f] BY Words
  <2>2. o.op = "write" /\ o.router = r /\ o.fields = f BY <2>1
  <2>3. o \in Same(r, k) BY <1>2, <2>2 DEF Same
  <2> QED BY <2>1, <2>3, Only DEF Write
<1>3. Seq(Tunnels) \subseteq Seq(Same(r, k)) BY TameTypes, Wider
<1>4. \A key, i \in Nat, e \in Elses : Set(key, i, e) \in Seq(Same(r, k)) BY <1>3, PeerCalls
<1> QED BY <1>1, <1>2, <1>4

\* What follows the address delivers nothing to a MikroTik, unless it phoned.
LEMMA CredentialedTame ==
  ASSUME NEW r \in Routers, NEW c \in Rows, NEW how, NEW g, r \in Mikrotiks => how # "phone" /\ c = g[r]
  PROVE  Credentialed(r, c, how) \in Seq(Tame(g))
<1> DEFINE failed == IF how = "api" THEN Write(r, [status |-> "failed"]) ELSE <<>>
           else == IF r \in Mikrotiks THEN failed ELSE <<>>
           peer == IF c.key = 0 THEN <<>> ELSE Set(c.key, c.ip, else)
           first == r \in Mikrotiks \/ how = "page"
           both == IF first THEN Nas(r, c) \o peer ELSE peer \o Nas(r, c)
           last == IF how # "phone" THEN <<>>
                   ELSE IF r \in Mikrotiks THEN Deliver(r, c)
                   ELSE Write(r, [status |-> "provisioned"]) \o Respond(r, Script(c))
<1>0. c.key \in Nat /\ c.ip \in Nat BY DEF Rows
<1>1. else \in Elses BY DEF Elses
<1> HIDE DEF else
<1>2. peer \in Seq(Tame(g)) BY <1>0, <1>1, TameParts, Empty
<1> HIDE DEF peer
<1>3. last \in Seq(Tame(g)) BY TameParts, Empty DEF Answer
<1> HIDE DEF last
<1>4. Credentialed(r, c, how) = Write(r, c) \o both \o last
  BY DEF Credentialed, both, last, peer, else, first
<1>5. both \in Seq(Tame(g)) BY <1>2, TameParts, Chained
<1> HIDE DEF both
<1>6. Write(r, c) \in Seq(Tame(g)) BY RowFields, TameParts
<1>7. (Write(r, c) \o both) \o last \in Seq(Tame(g)) BY <1>3, <1>5, <1>6, Chained
<1> QED BY <1>4, <1>7

\* A MikroTik that phoned is answered with the settings of the row.
LEMMA CredentialedAnswers ==
  ASSUME NEW r \in Mikrotiks, NEW c \in Rows
  PROVE  \E o : Answers(r, c.settings, o) /\ Credentialed(r, c, "phone") \in Before(Same(r, c.settings), <<o>>)
<1> DEFINE peer == IF c.key = 0 THEN <<>> ELSE Set(c.key, c.ip, <<>>)
           S == Same(r, c.settings)
<1>0. r \in Routers /\ c.key \in Nat /\ c.ip \in Nat /\ <<>> \in Elses BY InRouters DEF Rows, Elses
<1>1. peer \in Seq(S) BY <1>0, SameParts, Empty
<1> HIDE DEF peer
<1>2. PICK d : d = [c EXCEPT !.status = "provisioned"] OBVIOUS
<1>3. d \in Rows /\ d.settings = c.settings BY <1>2 DEF Rows
<1>4. Script(d) \in Scripts /\ Script(d).settings = c.settings BY <1>0, <1>3, Pieces DEF Script
<1>5. PICK o \in Stmts : o = [op |-> "respond", router |-> r, script |-> Script(d)] BY <1>0, <1>4, Words
<1>6. Answers(r, c.settings, o) BY <1>4, <1>5 DEF Answers
<1>7. Credentialed(r, c, "phone") = (Write(r, c) \o (Nas(r, c) \o peer)) \o (Write(r, d) \o <<o>>)
  BY <1>2, <1>5 DEF Credentialed, peer, Deliver, Respond
<1>8. Write(r, c) \in Seq(S) /\ Write(r, d) \in Seq(S) /\ Nas(r, c) \in Seq(S)
  <2>1. c \in Fields /\ d \in Fields BY <1>3, RowFields
  <2> QED BY <1>0, <1>3, <2>1, SameParts
<1>9. PICK a : a = Write(r, c) \o (Nas(r, c) \o peer) OBVIOUS
<1>10. a \in Seq(S) /\ a \o Write(r, d) \in Seq(S) BY <1>1, <1>8, <1>9, Chained
<1>11. a \o (Write(r, d) \o <<o>>) = (a \o Write(r, d)) \o <<o>>
  <2>1. a \in Seq(Stmts) /\ Write(r, d) \in Seq(Stmts) /\ <<o>> \in Seq(Stmts) BY <1>8, <1>10, TameTypes, Wider, Only
  <2> QED BY <2>1
<1>12. Credentialed(r, c, "phone") \in Before(S, <<o>>) BY <1>7, <1>9, <1>10, <1>11 DEF Before
<1> QED BY <1>6, <1>12

LEMMA CalmGoes == ASSUME TInv, SCalm, Statement(w1) PROVE Delivered'
<1>1. PICK g : Gently(g) /\ Script1 \in Seq(Tame(g)) BY DEF SCalm
<1>2. Head(Script1) \in Tame(g) /\ Tail(Script1) \in Seq(Tame(g)) BY <1>1, NextNow, HeadTail
<1>3. AllSafe' /\ Gently(g)' /\ \E a \in Seq(Tunnels) : Script1' = a \o Tail(Script1)
  BY <1>1, <1>2, TameStep DEF SCalm
<1>4. Script1' \in Seq(Tame(g)) BY <1>2, <1>3, TameTypes, Wider, Chained
<1>5. SCalm' BY <1>3, <1>4 DEF SCalm
<1> QED BY <1>5 DEF Delivered

\* What an allocation leaves to do.
LEMMA Allocates ==
  ASSUME TInv, NEW o \in Stmts, o.op = "allocate", Script1 = <<o>>, Statement(w1)
  PROVE  /\ UNCHANGED <<row, device, served>>
         /\ \E c \in Rows : /\ Script1' = Credentialed(o.router, c, o.how)
                            /\ c.settings = o.copy.settings /\ c.needs = o.copy.needs /\ c.status = o.copy.status
<1>1. Script1 # <<>> /\ Head(Script1) = o /\ Tail(Script1) = <<>> OBVIOUS
<1>2. DoAllocate(w1) BY <1>1, Executed DEF Goes1
<1>3. PICK c : c = [o.copy EXCEPT !.ip = NextAddress] OBVIOUS
<1>4. o.copy \in Rows /\ o.router \in Routers BY Parts
<1>5. c \in Rows /\ c.settings = o.copy.settings /\ c.needs = o.copy.needs /\ c.status = o.copy.status
  BY <1>3, <1>4, NextApart DEF Rows
<1>6. UNCHANGED <<row, device, served>> /\ Continue(w1, Credentialed(o.router, c, o.how))
  BY <1>1, <1>2, <1>3 DEF DoAllocate, Now, Script1
<1>7. Script1' = Credentialed(o.router, c, o.how) \o <<>> BY <1>1, <1>6, Going
<1>8. Credentialed(o.router, c, o.how) \in Seq(Stmts) BY <1>4, <1>5, TypedCredentialed
<1>9. Script1' = Credentialed(o.router, c, o.how) BY <1>7, <1>8
<1> QED BY <1>5, <1>6, <1>9

LEMMA OpenGoes == ASSUME TInv, SOpen, Statement(w1) PROVE Delivered'
<1>1. PICK o \in Stmts : o.op = "allocate" /\ o.router \notin Mikrotiks /\ Script1 \in Before(Tame(Nothing), <<o>>)
  BY DEF SOpen
<1>2. <<o>> \in Seq(Stmts) /\ o.router \in Routers BY <1>1, Only, Parts
<1>3. CASE Script1 = <<o>>
  <2>1. UNCHANGED <<row, device, served>> /\ \E c \in Rows : Script1' = Credentialed(o.router, c, o.how)
    BY <1>1, <1>3, Allocates
  <2>2. Script1' \in Seq(Tame(Nothing)) BY <1>1, <1>2, <2>1, CredentialedTame
  <2>3. AllSafe' /\ Gently(Nothing)' BY <2>1, GentleNothing, SafeKept DEF SOpen, AllSafe, Low, Gently, Gentle
  <2>4. SCalm' BY <2>2, <2>3 DEF SCalm
  <2> QED BY <2>4 DEF Delivered
<1>4. CASE Script1 # <<o>>
  <2>1. Head(Script1) \in Tame(Nothing) BY <1>1, <1>2, <1>4, TameTypes, Leads
  <2>2. AllSafe' /\ \E a \in Seq(Tunnels) : Script1' = a \o Tail(Script1)
    BY <2>1, GentleNothing, TameStep DEF SOpen
  <2>3. Script1' \in Before(Tame(Nothing), <<o>>)
    <3>1. PICK a \in Seq(Tunnels) : Script1' = a \o Tail(Script1) BY <2>2
    <3>2. a \in Seq(Tame(Nothing)) BY TameTypes, Wider
    <3> QED BY <1>1, <1>2, <1>4, <3>1, <3>2, TameTypes, Onwards
  <2>4. SOpen' BY <1>1, <2>2, <2>3 DEF SOpen
  <2> QED BY <2>4 DEF Delivered
<1> QED BY <1>3, <1>4

LEMMA EarnGoes == ASSUME TInv, SEarn, Statement(w1) PROVE Delivered'
<1>1. PICK o \in Stmts : Earns(o) /\ Script1 \in Before(Tunnels, <<o>>) BY DEF SEarn
<1>2. <<o>> \in Seq(Stmts) /\ o.router \in Routers /\ o.op = "allocate" /\ o.router \in Mikrotiks
  BY <1>1, Only, Parts DEF Earns
<1>3. CASE Script1 = <<o>>
  <2>1. UNCHANGED <<row, device, served>> BY <1>2, <1>3, Allocates
  <2>2. PICK c \in Rows :
          /\ Script1' = Credentialed(o.router, c, o.how)
          /\ c.settings = o.copy.settings /\ c.needs = o.copy.needs /\ c.status = o.copy.status
    BY <1>2, <1>3, Allocates
  <2>3. AllSafe' BY <2>1, SafeKept DEF SEarn, AllSafe, Low
  <2>4. CASE o.how = "phone"
    <3>1. PICK e : Answers(o.router, c.settings, e)
                   /\ Credentialed(o.router, c, "phone") \in Before(Same(o.router, c.settings), <<e>>)
      BY <1>2, CredentialedAnswers
    <3>2. c.settings = row'[o.router].settings BY <1>1, <2>1, <2>2 DEF Earns
    <3>3. SAnswer(o.router)' BY <1>2, <2>2, <2>3, <2>4, <3>1, <3>2 DEF SAnswer, AllSafe
    <3> QED BY <1>2, <3>3 DEF Delivered
  <2>5. CASE o.how # "phone"
    <3>1. PICK g : g = Saves(o.router, c) OBVIOUS
    <3>2. Gentle(row[o.router], c, served)
      <4>1. c.status = "pending" /\ (row[o.router].needs => c.needs) /\ c.settings = row[o.router].settings
            /\ "status" \in DOMAIN c
        BY <1>1, <2>2, <2>5 DEF Earns, Rows
      <4> QED BY <4>1 DEF Gentle
    <3>3. Gently(g)
      <4>1. c \in Fields BY RowFields
      <4> QED BY <3>1, <3>2, <4>1, GentlySaves
    <3>4. g[o.router] = c BY <1>2, <3>1 DEF Saves
    <3>5. Script1' \in Seq(Tame(g)) BY <1>2, <2>2, <2>5, <3>4, CredentialedTame
    <3>6. Gently(g)' BY <2>1, <3>3 DEF Gently
    <3>7. SCalm' BY <2>3, <3>5, <3>6 DEF SCalm
    <3> QED BY <3>7 DEF Delivered
  <2> QED BY <2>4, <2>5
<1>4. CASE Script1 # <<o>>
  <2>1. Head(Script1) \in Tunnels BY <1>1, <1>2, <1>4, TameTypes, Leads
  <2>2. Head(Script1).op \notin {"write", "allocate", "respond"} BY <2>1 DEF Tunnels, Tunnelling
  <2>3. UNCHANGED <<row, device, served>> /\ \E a \in Seq(Tunnels) : Script1' = a \o Tail(Script1)
    BY <2>2, CallStep
  <2>4. Script1' \in Before(Tunnels, <<o>>) BY <1>1, <1>2, <1>4, <2>3, TameTypes, Onwards
  <2>5. AllSafe' BY <2>3, SafeKept DEF SEarn, AllSafe, Low
  <2>6. SEarn' BY <1>1, <2>3, <2>4, <2>5 DEF SEarn, Earns
  <2> QED BY <2>6 DEF Delivered
<1> QED BY <1>3, <1>4

LEMMA AnswerGoes == ASSUME TInv, NEW r \in Mikrotiks, SAnswer(r), Statement(w1) PROVE Delivered'
<1>0. r \in Routers BY InRouters
<1>1. PICK k : k = row[r].settings OBVIOUS
<1>2. PICK o : Answers(r, k, o) /\ Script1 \in Before(Same(r, k), <<o>>) BY <1>1 DEF SAnswer
<1>3. <<o>> \in Seq(Stmts) BY <1>2, Only DEF Answers
<1>4. CASE Script1 = <<o>>
  <2>1. Head(Script1) = o /\ Tail(Script1) = <<>> /\ Script1 # <<>> BY <1>4
  <2>2. o.op = "respond" /\ o.router = r /\ o.script.settings = k BY <1>2 DEF Answers
  <2>3. /\ UNCHANGED <<row, served>> /\ Script1' = <<>>
        /\ \A q \in Routers \ {r} : device'[q] = device[q] /\ device'[r].settings = k
    BY <2>1, <2>2, RespondStep
  <2>4. device'[r].settings = k BY <2>1, <2>2, RespondStep
  <2>5. Safe(r)'
    <3>1. row[r].settings \in Nat BY <1>0, RowOf DEF Rows
    <3>2. ~(device'[r].settings < row'[r].settings) BY <1>1, <2>3, <2>4, <3>1
    <3> QED BY <3>2 DEF Safe
  <2>6. AllSafe'
    <3>1. ASSUME NEW q \in Mikrotiks \ {r} PROVE Safe(q)'
      <4>1. row'[q] = row[q] /\ device'[q] = device[q] BY <2>3, InRouters
      <4> QED BY <4>1, SafeKept DEF SAnswer
    <3> QED BY <2>3, <2>5, <3>1 DEF SAnswer, AllSafe, Low
  <2>7. Gently(Nothing)' BY <2>3, GentleNothing DEF Gently, Gentle
  <2>8. SCalm' BY <2>3, <2>6, <2>7, Empty DEF SCalm
  <2> QED BY <2>8 DEF Delivered
<1>5. CASE Script1 # <<o>>
  <2>1. Head(Script1) \in Same(r, k) BY <1>2, <1>3, <1>5, TameTypes, Leads
  <2>2. Head(Script1) \in Stmts /\ Head(Script1).op \notin {"respond", "allocate"} BY <2>1 DEF Same
  <2>3. /\ device' = device /\ served' = served /\ row'[r].settings = k
        /\ \A q \in Mikrotiks \ {r} : row'[q] = row[q]
        /\ \E a \in Seq(Tunnels) : Script1' = a \o Tail(Script1)
    <3>1. CASE Head(Script1).op # "write"
      <4>1. UNCHANGED <<row, device, served>> /\ \E a \in Seq(Tunnels) : Script1' = a \o Tail(Script1)
        BY <2>2, <3>1, CallStep
      <4> QED BY <1>1, <4>1
    <3>2. CASE Head(Script1).op = "write"
      <4>1. PICK f \in Fields : f = Head(Script1).fields BY <2>2, <3>2, Parts
      <4>2. Head(Script1).router = r /\ ("settings" \in DOMAIN f => f.settings = k) BY <2>1, <3>2, <4>1 DEF Same
      <4>3. row' = After(r, f) /\ UNCHANGED <<device, served>> /\ Script1' = Tail(Script1)
        BY <3>2, <4>1, <4>2, WriteSaves
      <4>4. row'[r] = Saved(row[r], f) /\ \A q \in Routers \ {r} : row'[q] = row[q]
        BY <1>0, <4>3 DEF After, TInv
      <4>5. row[r] \in Rows BY <1>0, RowOf
      <4>6. row'[r].settings = k BY <1>1, <4>2, <4>4, <4>5 DEF Saved, Rows
      <4>7. Tail(Script1) \in Seq(Stmts) BY NextNow, HeadTail, ThreadAssumption DEF TInv, Script1
      <4>8. Tail(Script1) = <<>> \o Tail(Script1) BY <4>7
      <4> QED BY <4>3, <4>4, <4>6, <4>8, Empty, InRouters
    <3> QED BY <3>1, <3>2
  <2>4. Script1' \in Before(Same(r, k), <<o>>)
    <3>1. PICK a \in Seq(Tunnels) : Script1' = a \o Tail(Script1) BY <2>3
    <3>2. a \in Seq(Same(r, k)) BY TameTypes, Wider
    <3> QED BY <1>2, <1>3, <1>5, <3>1, <3>2, TameTypes, Onwards
  <2>5. Low' BY <1>1, <2>3 DEF SAnswer, Low
  <2>6. \A q \in Mikrotiks \ {r} : Safe(q)' BY <2>3, SafeKept DEF SAnswer
  <2>7. SAnswer(r)' BY <1>2, <2>3, <2>4, <2>5, <2>6 DEF SAnswer
  <2> QED BY <2>7 DEF Delivered
<1> QED BY <1>4, <1>5

LEMMA DeliveredGoes == ASSUME TInv, Delivered, Statement(w1) PROVE Delivered'
BY CalmGoes, EarnGoes, OpenGoes, AnswerGoes DEF Delivered

-----------------------------------------------------------------------------
(* Settings: what a request begins                                         *)

LEMMA SafeBetween == ASSUME TInv, Delivered, Script1 = <<>> PROVE AllSafe
<1>1. ASSUME NEW A, A \subseteq Stmts, NEW o \in Stmts, Script1 \in Before(A, <<o>>) PROVE FALSE
  <2>1. <<o>> \in Seq(Stmts) /\ <<o>> # <<>> BY Only
  <2> QED BY <1>1, <2>1, Starts
<1>2. \A g, r, k : Tame(g) \subseteq Stmts /\ Same(r, k) \subseteq Stmts /\ Tunnels \subseteq Stmts BY TameTypes
<1>3. ~SEarn BY <1>1, <1>2 DEF SEarn
<1>4. ~SOpen BY <1>1, <1>2 DEF SOpen
<1>5. \A r \in Mikrotiks : ~SAnswer(r) BY <1>1, <1>2 DEF SAnswer, Answers
<1> QED BY <1>3, <1>4, <1>5 DEF Delivered, SCalm

LEMMA UntouchedSafe == ASSUME TInv, AllSafe, UNCHANGED <<row, device>>, served' = served \/ served' = Fresh PROVE AllSafe'
<1>1. served \in Nat BY FreshNat
<1>2. \A q \in Mikrotiks : row[q].settings \in Nat BY RowOf, InRouters DEF Rows
<1>3. Low' BY <1>1, <1>2 DEF AllSafe, Low, Fresh
<1> QED BY <1>3, SafeKept DEF AllSafe

LEMMA BeginsTame == ASSUME AllSafe', NEW g, Gently(g)', Script1' \in Seq(Tame(g)) PROVE Delivered'
BY DEF Delivered, SCalm
LEMMA BeginsNothing == ASSUME AllSafe', Script1' \in Seq(Tame(Nothing)) PROVE Delivered'
<1>1. Gently(Nothing)'
  <2>1. \A c, n : Gentle(c, <<>>, n)
    <3>1. DOMAIN <<>> = {} OBVIOUS
    <3> QED BY <3>1 DEF Gentle
  <2> QED BY <2>1, GentleNothing DEF Gently, Nothing
<1> QED BY <1>1, BeginsTame

LEMMA BeginsSave ==
  ASSUME AllSafe', NEW r \in Routers, NEW f \in Fields, r \in Mikrotiks => Gentle(row'[r], f, served'),
         Script1' = Write(r, f)
  PROVE  Delivered'
<1>1. PICK g : g = Saves(r, f) OBVIOUS
<1>2. Gently(g)'
  <2>1. \A c, n : Gentle(c, <<>>, n)
    <3>1. DOMAIN <<>> = {} OBVIOUS
    <3> QED BY <3>1 DEF Gentle
  <2> QED BY <1>1, <2>1, GentleNothing DEF Gently, Saves
<1>3. r \in Mikrotiks => f = g[r] BY <1>1 DEF Saves
<1>4. Script1' \in Seq(Tame(g)) BY <1>3, TameParts
<1> QED BY <1>2, <1>4, BeginsTame

LEMMA BeginsEarn ==
  ASSUME AllSafe', NEW r \in Mikrotiks, NEW c \in Rows, NEW h \in Hows, c.settings = row'[r].settings,
         row'[r].needs => c.needs, h = "phone" \/ c.status = "pending",
         NEW a \in Seq(Tunnels), Script1' = a \o Allocate(r, c, h)
  PROVE  Delivered'
<1>1. PICK o \in Stmts : o = [op |-> "allocate", router |-> r, copy |-> c, how |-> h] BY Words, InRouters
<1>2. o.op = "allocate" /\ o.router = r /\ o.copy = c /\ o.how = h BY <1>1
<1>3. Script1' = a \o <<o>> BY <1>1 DEF Allocate
<1>4. Script1' \in Before(Tunnels, <<o>>) BY <1>3 DEF Before
<1>5. Earns(o)' BY <1>2 DEF Earns
<1>6. SEarn' BY <1>4, <1>5 DEF SEarn
<1> QED BY <1>6 DEF Delivered

LEMMA BeginsOpen ==
  ASSUME AllSafe', NEW r \in OpenWrts, NEW c \in Rows, NEW h \in Hows,
         NEW a \in Seq(Tame(Nothing)), Script1' = a \o Allocate(r, c, h)
  PROVE  Delivered'
<1>1. PICK o \in Stmts : o = [op |-> "allocate", router |-> r, copy |-> c, how |-> h] BY Words, InRouters
<1>2. o.op = "allocate" /\ o.router = r BY <1>1
<1>3. Script1' = a \o <<o>> BY <1>1 DEF Allocate
<1>4. Script1' \in Before(Tame(Nothing), <<o>>) BY <1>3 DEF Before
<1>5. o.router \notin Mikrotiks BY <1>2, DeviceAssumption
<1>6. SOpen' BY <1>2, <1>4, <1>5 DEF SOpen
<1> QED BY <1>6 DEF Delivered

LEMMA BeginsAnswer ==
  ASSUME AllSafe', NEW r \in Mikrotiks, NEW s \in Scripts, s.settings = row'[r].settings,
         NEW a \in Seq(Same(r, s.settings)), Script1' = a \o Respond(r, s)
  PROVE  Delivered'
<1>1. PICK o \in Stmts : o = [op |-> "respond", router |-> r, script |-> s] BY Words, InRouters
<1>2. Answers(r, s.settings, o) BY <1>1 DEF Answers
<1>3. Script1' = a \o <<o>> BY <1>1 DEF Respond
<1>4. Script1' \in Before(Same(r, s.settings), <<o>>) BY <1>3 DEF Before
<1>5. SAnswer(r)' BY <1>2, <1>4 DEF SAnswer, AllSafe
<1> QED BY <1>5 DEF Delivered

LEMMA RegisterSafe ==
  ASSUME TInv, AllSafe, NEW r \in Routers, Register(r), device' = device, served' = served \/ served' = Fresh
  PROVE  AllSafe' /\ row'[r] = Registered(r)
<1>0. served \in Nat BY FreshNat
<1>1. row'[r] = Registered(r) /\ \A q \in Routers \ {r} : row'[q] = row[q] BY DEF Register, TInv
<1>2. row'[r] = row[r] \/ (row'[r].owner = NoOne /\ row'[r].settings = 0) BY <1>1 DEF Registered, Blank
<1>3. ASSUME NEW q \in Mikrotiks PROVE Safe(q)' /\ row'[q].settings <= served'
  <2>0. q \in Routers /\ row[q].settings \in Nat /\ row[q].settings <= served /\ Safe(q)
    BY RowOf, InRouters DEF Rows, AllSafe, Low
  <2>1. CASE row'[q] = row[q] BY <1>0, <2>0, <2>1, SafeKept DEF Fresh
  <2>2. CASE row'[q] # row[q]
    <3>1. row'[q].owner = NoOne /\ row'[q].settings = 0 BY <1>1, <1>2, <2>0, <2>2
    <3>2. ~Claimed(q)' BY <3>1 DEF Claimed
    <3> QED BY <1>0, <3>1, <3>2 DEF Safe, Fresh
  <2> QED BY <2>1, <2>2
<1> QED BY <1>1, <1>3 DEF AllSafe, Low

-----------------------------------------------------------------------------
(* Settings: every request, and the devices                                *)

LEMMA ServeSafe ==
  ASSUME TInv, AllSafe, Untouched, NEW s, Serve(w1, s) \/ (Load(w1, s) /\ Unserved)
  PROVE  AllSafe' /\ Script1' = s /\ row' = row /\ (Serve(w1, s) => served' = Fresh)
<1>1. served' = served \/ served' = Fresh BY DEF Serve, Unserved
<1>2. UNCHANGED <<row, device>> BY DEF Untouched
<1>3. AllSafe' BY <1>1, <1>2, UntouchedSafe
<1> QED BY <1>2, <1>3, Loads DEF Serve

LEMMA ClaimsDeliver == ASSUME TInv, AllSafe, Claims(w1) PROVE Delivered'
<1> PICK r \in Routers, o \in Resellers :
      RouterAdd(w1, r, o) \/ HandleMikrotikAdd(w1, r, o) \/ HandleOpenwrtAdd(w1, r, o)
  BY DEF Claims
<1> DEFINE mine(d) == [d EXCEPT !.owner = o, !.status = "pending"]
<1>0. row[r] \in Rows /\ Fresh \in Nat /\ o \in Owners /\ "pending" \in Statuses
  BY RowOf, FreshNat DEF Owners, Statuses
<1>1. ASSUME NEW d \in Rows
      PROVE  mine(d) \in Rows /\ mine(d).status = "pending" /\ mine(d).settings = d.settings /\ mine(d).needs = d.needs
  <2>1. mine(d) \in Rows BY <1>0, CopyRows
  <2>2. mine(d).status = "pending" /\ mine(d).settings = d.settings /\ mine(d).needs = d.needs BY DEF Rows
  <2> HIDE DEF mine
  <2> QED BY <2>1, <2>2
<1>2. Generated(row[r]) \in Rows /\ Generated(row[r]).settings = row[r].settings /\ Generated(row[r]).needs = row[r].needs
  <2>1. Generated(row[r]) \in Rows BY <1>0, CopyRows DEF Generated
  <2>2. Generated(row[r]).settings = row[r].settings /\ Generated(row[r]).needs = row[r].needs
    BY <1>0 DEF Generated, Rows
  <2> QED BY <2>1, <2>2
<1>3. ASSUME r \in Mikrotiks, NEW c \in Rows, NEW h \in Hows, Serve(w1, Allocate(r, c, h)), Untouched,
             c.status = "pending", c.settings = row[r].settings, c.needs = row[r].needs
      PROVE  Delivered'
  <2>1. AllSafe' /\ Script1' = Allocate(r, c, h) /\ row' = row BY <1>3, ServeSafe
  <2>2. Allocate(r, c, h) \in Seq(Stmts) BY Pieces
  <2>3. Script1' = <<>> \o Allocate(r, c, h) BY <2>1, <2>2
  <2> QED BY <1>3, <2>1, <2>3, Empty, BeginsEarn
<1>4. ASSUME r \in OpenWrts, NEW c \in Rows, NEW h \in Hows, Serve(w1, Allocate(r, c, h)), Untouched
      PROVE  Delivered'
  <2>1. AllSafe' /\ Script1' = Allocate(r, c, h) BY <1>4, ServeSafe
  <2>2. Allocate(r, c, h) \in Seq(Stmts) BY Pieces
  <2>3. Script1' = <<>> \o Allocate(r, c, h) BY <2>1, <2>2
  <2> QED BY <1>4, <2>1, <2>3, Empty, BeginsOpen
<1>5. CASE RouterAdd(w1, r, o)
  <2> DEFINE keyed == mine([row[r] EXCEPT !.secret = IF @ = 0 THEN Fresh ELSE @])
             script == Write(r, keyed) \o Set(row[r].key, row[r].ip, <<>>) \o Nas(r, keyed)
  <2>1. row[r].secret \in Nat /\ row[r].key \in Nat /\ row[r].ip \in Nat BY <1>0 DEF Rows
  <2>2. PICK k \in Nat : k = IF row[r].secret = 0 THEN Fresh ELSE row[r].secret BY <1>0, <2>1
  <2>3. keyed \in Rows
    <3>1. [row[r] EXCEPT !.secret = k] \in Rows BY <1>0, CopyRows
    <3> QED BY <1>1, <2>2, <3>1
  <2>4. Untouched /\ \/ r \in Mikrotiks /\ Serve(w1, Allocate(r, mine(Generated(row[r])), "api"))
                     \/ r \in OpenWrts /\ Serve(w1, Allocate(r, keyed, "api"))
                     \/ r \in OpenWrts /\ Serve(w1, script)
    BY <1>5 DEF RouterAdd
  <2>5. /\ mine(Generated(row[r])) \in Rows /\ mine(Generated(row[r])).status = "pending"
        /\ mine(Generated(row[r])).settings = row[r].settings /\ mine(Generated(row[r])).needs = row[r].needs
    BY <1>1, <1>2
  <2> HIDE DEF keyed, mine
  <2>6. CASE r \in Mikrotiks /\ Serve(w1, Allocate(r, mine(Generated(row[r])), "api"))
    BY <1>3, <2>4, <2>5, <2>6 DEF Hows
  <2>7. CASE r \in OpenWrts /\ Serve(w1, Allocate(r, keyed, "api")) BY <1>4, <2>3, <2>4, <2>7 DEF Hows
  <2>8. CASE r \in OpenWrts /\ Serve(w1, script)
    <3>1. r \notin Mikrotiks /\ <<>> \in Elses BY <2>8, DeviceAssumption DEF Elses
    <3>2. Write(r, keyed) \in Seq(Tame(Nothing)) /\ Nas(r, keyed) \in Seq(Tame(Nothing))
      BY <2>3, <3>1, RowFields, TameParts
    <3>3. Set(row[r].key, row[r].ip, <<>>) \in Seq(Tame(Nothing)) BY <2>1, <3>1, TameParts
    <3>4. script \in Seq(Tame(Nothing)) BY <3>2, <3>3, Chained
    <3> HIDE DEF script
    <3>5. AllSafe' /\ Script1' = script BY <2>4, <2>8, ServeSafe
    <3> QED BY <3>4, <3>5, BeginsNothing
  <2> QED BY <2>4, <2>6, <2>7, <2>8
<1>6. CASE HandleMikrotikAdd(w1, r, o)
  <2>1. r \in Mikrotiks /\ Serve(w1, Allocate(r, mine(Generated(row[r])), "page")) /\ Untouched
    BY <1>6 DEF HandleMikrotikAdd
  <2>2. /\ mine(Generated(row[r])) \in Rows /\ mine(Generated(row[r])).status = "pending"
        /\ mine(Generated(row[r])).settings = row[r].settings /\ mine(Generated(row[r])).needs = row[r].needs
    BY <1>1, <1>2
  <2> HIDE DEF mine
  <2> QED BY <1>3, <2>1, <2>2 DEF Hows
<1>7. CASE HandleOpenwrtAdd(w1, r, o)
  <2>1. PICK d : d = [row[r] EXCEPT !.owner = o, !.status = "pending", !.secret = Fresh] BY Zenon
  <2>2. d \in Rows BY <1>0, <2>1, CopyRows
  <2>3. r \in OpenWrts /\ Serve(w1, Allocate(r, d, "page")) /\ Untouched BY <1>7, <2>1 DEF HandleOpenwrtAdd
  <2> QED BY <1>4, <2>2, <2>3 DEF Hows
<1> QED BY <1>5, <1>6, <1>7

LEMMA SettlesDeliver == ASSUME TInv, AllSafe, Settles(w1) PROVE Delivered'
<1> PICK r \in Routers : WifiConfig(w1, r) \/ Topology(w1, r) \/ Redeploy(w1, r) BY DEF Settles
<1>1. PICK f, g : f = [settings |-> Fresh, needs |-> TRUE] /\ g = [needs |-> TRUE] OBVIOUS
<1>2. f \in Fields /\ g \in Fields /\ Fresh \in Nat BY <1>1, FreshNat, Columns DEF Statuses, Owners
<1>3. Untouched /\ (Serve(w1, Write(r, f)) \/ (Load(w1, Write(r, g)) /\ Unserved))
  BY <1>1 DEF WifiConfig, Topology, Redeploy
<1>4. \A c : Gentle(c, f, Fresh) BY <1>1, <1>2 DEF Gentle
<1>5. \A c, n : Gentle(c, g, n) BY <1>1 DEF Gentle
<1>6. CASE Serve(w1, Write(r, f))
  <2>1. AllSafe' /\ Script1' = Write(r, f) /\ served' = Fresh BY <1>3, <1>6, ServeSafe
  <2>2. Gentle(row'[r], f, served') BY <1>4, <2>1
  <2> QED BY <1>2, <2>1, <2>2, BeginsSave
<1>7. CASE Load(w1, Write(r, g)) /\ Unserved
  <2>1. AllSafe' /\ Script1' = Write(r, g) BY <1>3, <1>7, ServeSafe
  <2> QED BY <1>2, <1>5, <2>1, BeginsSave
<1> QED BY <1>3, <1>6, <1>7

LEMMA ProvisionDelivers == ASSUME TInv, AllSafe, NEW r \in Routers, RouterProvision(w1, r) PROVE Delivered'
<1>1. PICK c : c = Registered(r) OBVIOUS
<1>2. c \in Rows /\ c.key \in Nat BY <1>1, RowOf DEF Rows
<1>3. r \in Mikrotiks /\ Register(r) /\ device' = device
  BY ProvisionLoads
<1>4. served' = served \/ served' = Fresh BY ProvisionLoads DEF Serve, Unserved
<1>5. AllSafe' /\ row'[r] = c BY <1>1, <1>3, <1>4, RegisterSafe
<1>6. Script1' = <<>> \/ Script1' = Deliver(r, c) \/ Script1' = Rearm(r, c) BY <1>1, ProvisionLoads, Loads
<1>7. CASE Script1' = <<>> BY <1>5, <1>7, Empty, BeginsNothing
<1>8. CASE Script1' = Deliver(r, c)
  <2>1. PICK d : d = [c EXCEPT !.status = "provisioned"] OBVIOUS
  <2>2. d \in Rows /\ d.settings = c.settings BY <1>2, <2>1 DEF Rows
  <2>3. PICK s \in Scripts : s = Script(d) BY <2>2, Pieces
  <2>4. s.settings = c.settings BY <2>2, <2>3 DEF Script
  <2>5. Write(r, d) \in Seq(Same(r, s.settings)) BY <2>2, <2>4, RowFields, SameParts
  <2>6. Script1' = Write(r, d) \o Respond(r, s) BY <1>8, <2>1, <2>3 DEF Deliver
  <2> QED BY <1>3, <1>5, <2>4, <2>5, <2>6, BeginsAnswer
<1>9. CASE Script1' = Rearm(r, c)
  <2>1. Generated(c) \in Rows BY <1>2, FreshNat, CopyRows DEF Generated, Owners, Statuses
  <2>2. Generated(c).settings = c.settings /\ Generated(c).needs = c.needs BY <1>2 DEF Generated, Rows
  <2>3. Unset(c.key) \in Seq(Tunnels) BY <1>2, PeerCalls
  <2>4. "phone" \in Hows BY DEF Hows
  <2> QED BY <1>3, <1>5, <1>9, <2>1, <2>2, <2>3, <2>4, BeginsEarn DEF Rearm
<1> QED BY <1>6, <1>7, <1>8, <1>9

LEMMA SwapTame == ASSUME NEW r \in Routers, NEW c \in Rows, NEW k \in Nat PROVE Swap(c, k) \in Seq(Tame(Nothing))
<1>1. c.key \in Nat /\ c.ip \in Nat /\ <<>> \in Elses BY DEF Rows, Elses
<1>2. Unset(c.key) \in Seq(Tame(Nothing)) /\ Set(k, c.ip, <<>>) \in Seq(Tame(Nothing)) BY <1>1, TameParts
<1> QED BY <1>2, Empty, Chained DEF Swap

LEMMA OpenDelivers == ASSUME TInv, AllSafe, NEW r \in Routers, OpenwrtProvision(w1, r) PROVE Delivered'
<1>1. PICK c, k : c = Registered(r) /\ k = device[r].key OBVIOUS
<1>2. c \in Rows /\ k \in Nat /\ Fresh \in Nat BY <1>1, RowOf, KeyNat, FreshNat
<1>3. r \in OpenWrts /\ Register(r) /\ device' = device BY OpenLoads
<1>4. r \notin Mikrotiks BY <1>3, DeviceAssumption
<1>5. served' = served \/ served' = Fresh BY OpenLoads DEF Serve, Unserved
<1>6. AllSafe' BY <1>3, <1>5, RegisterSafe
<1>7. Rekey(c, k) \in Rows /\ Readied(c, k) \in Rows BY <1>2 DEF Rekey, Readied, Rows
<1>8. PICK a \in Seq(Tame(Nothing)) : a = Swapped(r, c, k)
  <2>1. PICK f : f = [key |-> k] OBVIOUS
  <2>2. f \in Fields BY <1>2, <2>1, Columns DEF Owners, Statuses
  <2>3. Write(r, f) \o Swap(c, k) \in Seq(Tame(Nothing)) BY <1>2, <1>4, <2>2, SwapTame, TameParts, Chained
  <2> QED BY <2>1, <2>3, Empty DEF Swapped
<1>9. \/ Script1' = a \/ Script1' = a \o Answer(r, Rekey(c, k))
      \/ Script1' = a \o Allocate(r, Readied(c, k), "phone")
  BY <1>1, <1>8, OpenLoads, Loads
<1>10. a \o Answer(r, Rekey(c, k)) \in Seq(Tame(Nothing)) BY <1>4, <1>7, TameParts, Chained
<1>11. CASE Script1' = a \o Allocate(r, Readied(c, k), "phone") BY <1>3, <1>6, <1>7, <1>11, BeginsOpen DEF Hows
<1> QED BY <1>6, <1>9, <1>10, <1>11, BeginsNothing

\* What a heartbeat saves takes no flag back and changes no setting.
LEMMA SeenGentle == ASSUME NEW c, NEW f \in Seen(c), NEW n PROVE Gentle(c, f, n) /\ "settings" \notin DOMAIN f
<1>1. f = <<>> \/ (f = [status |-> "provisioned"] /\ c.status # "pending") BY DEF Seen
<1>2. CASE f = <<>>
  <2>1. DOMAIN f = {} BY <1>2
  <2> QED BY <2>1 DEF Gentle
<1>3. CASE f = [status |-> "provisioned"] /\ c.status # "pending"
  <2>1. DOMAIN f = {"status"} BY <1>3
  <2> QED BY <1>3, <2>1 DEF Gentle
<1> QED BY <1>1, <1>2, <1>3

LEMMA BeatDelivers == ASSUME TInv, AllSafe, NEW r \in Routers, HeartbeatMikrotik(w1, r) PROVE Delivered'
<1>1. PICK f \in Seen(row[r]) : Load(w1, Beat(r, row[r], f)) BY BeatLoads
<1>2. r \in Mikrotiks /\ Unserved /\ Untouched BY BeatLoads
<1>3. AllSafe' /\ Script1' = Beat(r, row[r], f) /\ row' = row BY <1>1, <1>2, ServeSafe
<1>4. PICK c : c = row[r] OBVIOUS
<1>5. c \in Rows /\ f \in Fields BY <1>4, RowOf, TypedSeen
<1>6. Write(r, f) \in Seq(Stmts) BY <1>5, Pieces
<1>7. CASE c.owner # NoOne /\ (c.status = "pending" \/ c.needs) /\ c.private # 0
  <2>1. PICK g : g = [status |-> "provisioned", needs |-> FALSE] OBVIOUS
  <2>2. g \in Fields /\ "settings" \notin DOMAIN g BY <2>1, Online
  <2>3. "settings" \notin DOMAIN f BY SeenGentle
  <2>4. PICK s \in Scripts : s = Script(c) BY <1>5, Pieces
  <2>5. s.settings = c.settings BY <2>4 DEF Script
  <2>6. Write(r, f) \in Seq(Same(r, s.settings)) /\ Write(r, g) \in Seq(Same(r, s.settings))
    BY <1>5, <2>2, <2>3, SameParts
  <2>7. PICK a : a = Write(r, f) \o Write(r, g) OBVIOUS
  <2>8. a \in Seq(Same(r, s.settings)) BY <2>6, <2>7, Chained
  <2>9. Beat(r, c, f) = Write(r, f) \o (Write(r, g) \o Respond(r, s)) BY <1>7, <2>1, <2>4 DEF Beat
  <2>10. Write(r, f) \o (Write(r, g) \o Respond(r, s)) = a \o Respond(r, s)
    <3>1. Write(r, g) \in Seq(Stmts) /\ Respond(r, s) \in Seq(Stmts) BY <2>2, Pieces
    <3> QED BY <1>6, <2>7, <3>1
  <2>11. Script1' = a \o Respond(r, s) BY <1>3, <1>4, <2>9, <2>10
  <2> QED BY <1>2, <1>3, <1>4, <2>5, <2>8, <2>11, BeginsAnswer
<1>8. CASE ~(c.owner # NoOne /\ (c.status = "pending" \/ c.needs) /\ c.private # 0)
  <2>1. Beat(r, c, f) = Write(r, f) \o <<>> BY <1>8 DEF Beat
  <2>2. Write(r, f) \o <<>> = Write(r, f) BY <1>6
  <2>3. Script1' = Write(r, f) BY <1>3, <1>4, <2>1, <2>2
  <2>4. Gentle(c, f, served') BY <1>4, SeenGentle
  <2> QED BY <1>3, <1>4, <1>5, <2>3, <2>4, BeginsSave
<1> QED BY <1>7, <1>8

LEMMA BeatOpenDelivers == ASSUME TInv, AllSafe, NEW r \in Routers, HeartbeatOpenwrt(w1, r) PROVE Delivered'
<1>1. PICK c, k : c = Registered(r) /\ k = device[r].key OBVIOUS
<1>2. PICK f \in Seen(c) : Load(w1, BeatOpen(r, c, k, f)) BY <1>1, BeatOpenLoads
<1>3. r \in OpenWrts /\ Register(r) /\ device' = device /\ served' = served BY BeatOpenLoads DEF Unserved
<1>4. r \notin Mikrotiks BY <1>3, DeviceAssumption
<1>5. c \in Rows /\ k \in Nat /\ f \in Fields BY <1>1, RowOf, KeyNat, TypedSeen
<1>6. AllSafe' BY <1>3, RegisterSafe
<1> DEFINE g == IF k # c.key THEN Keyed(f, k) ELSE f
           p == IF k # c.key THEN Swap(c, k) ELSE <<>>
           t == IF Rekey(c, k).owner # NoOne /\ Rekey(c, k).status = "pending" THEN Answer(r, Rekey(c, k)) ELSE <<>>
<1>7. g \in Fields BY <1>5, KeyedColumns
<1>8. p \in Seq(Tame(Nothing)) BY <1>5, SwapTame, Empty
<1>9. t \in Seq(Tame(Nothing)) BY <1>4, <1>5, RekeyRow, TameParts, Empty
<1>10. BeatOpen(r, c, k, f) = (p \o Write(r, g)) \o t BY DEF BeatOpen
<1> HIDE DEF g, p, t
<1>11. Write(r, g) \in Seq(Tame(Nothing)) BY <1>4, <1>7, TameParts
<1>12. (p \o Write(r, g)) \o t \in Seq(Tame(Nothing)) BY <1>8, <1>9, <1>11, Chained
<1>13. Script1' \in Seq(Tame(Nothing)) BY <1>2, <1>10, <1>12, Loads
<1> QED BY <1>6, <1>13, BeginsNothing

LEMMA SweepsDeliver == ASSUME TInv, AllSafe, Sweeps(w1) PROVE Delivered'
<1>1. PICK flag \in BOOLEAN : CheckRouters(w1, flag) BY DEF Sweeps
<1>2. PICK s \in Seq(SweepWrites(flag)) : Load(w1, s) BY <1>1, SweepLoads
<1>3. Unserved /\ Untouched BY <1>1, SweepLoads
<1>4. AllSafe' /\ Script1' = s /\ row' = row BY <1>2, <1>3, ServeSafe
<1>5. PICK g : g = [q \in Mikrotiks |-> Verdict(q, flag)] OBVIOUS
<1>6. SweepWrites(flag) \subseteq Tame(g)
  <2>1. ASSUME NEW r \in Swept PROVE [op |-> "write", router |-> r, fields |-> Verdict(r, flag)] \in Tame(g)
    <3>1. r \in Routers BY DEF Swept
    <3>2. PICK f \in Fields : f = Verdict(r, flag) BY <3>1, TypedVerdict
    <3>3. PICK o \in Stmts : o = [op |-> "write", router |-> r, fields |-> f] BY <3>1, Words
    <3>4. o.op = "write" /\ o.router = r /\ o.fields = f BY <3>3
    <3>5. r \in Mikrotiks => f = g[r] BY <1>5, <3>2
    <3>6. o \in Tame(g) BY <3>4, <3>5 DEF Tame
    <3> QED BY <3>2, <3>3, <3>6
  <2> QED BY <2>1 DEF SweepWrites
<1>7. ASSUME NEW q \in Mikrotiks, NEW n PROVE Gentle(row[q], Verdict(q, flag), n)
  <2>1. DOMAIN Verdict(q, flag) = {"status", "shook", "needs"} /\ Verdict(q, flag).status = row[q].status
        /\ (row[q].needs => Verdict(q, flag).needs)
    BY DEF Verdict
  <2> QED BY <2>1 DEF Gentle
<1>8. Gently(g)'
  <2>1. g \in [Mikrotiks -> Fields] BY <1>5, InRouters, TypedVerdict
  <2>2. \A q \in Mikrotiks : Gentle(row'[q], g[q], served') BY <1>4, <1>5, <1>7
  <2> QED BY <2>1, <2>2 DEF Gently
<1>9. Script1' \in Seq(Tame(g)) BY <1>4, <1>6, Wider
<1> QED BY <1>4, <1>8, <1>9, BeginsTame

LEMMA DevicesDeliver == ASSUME TInv, AllSafe, Script1 = <<>>, Devices PROVE Delivered'
<1> PICK r \in Routers : Boot(r) \/ RouterWifi(r) \/ ImportSerials(r) BY DEF Devices
<1>0. Script1' = <<>> BY DEF Boot, RouterWifi, ImportSerials, Script1
<1>1. served \in Nat BY FreshNat
<1>2. \A q \in Mikrotiks : q \in Routers /\ row[q].settings \in Nat /\ row[q].settings <= served /\ Safe(q)
  BY RowOf, InRouters DEF Rows, AllSafe, Low
<1>3. CASE Boot(r)
  <2>1. row' = row /\ served' = Fresh BY <1>3 DEF Boot
  <2>2. \A q \in Routers \ {r} : device'[q] = device[q] BY <1>3 DEF Boot, TInv
  <2>3. r \in Mikrotiks => device'[r].key = 0 BY <1>3, DeviceAssumption DEF Boot, TInv
  <2>4. ASSUME NEW q \in Mikrotiks PROVE Safe(q)'
    <3>1. CASE q = r BY <2>3, <3>1 DEF Safe
    <3>2. CASE q # r BY <1>2, <2>1, <2>2, <3>2, SafeKept
    <3> QED BY <3>1, <3>2
  <2>5. Low' BY <1>1, <1>2, <2>1 DEF Low, Fresh
  <2> QED BY <1>0, <2>4, <2>5, Empty, BeginsNothing DEF AllSafe
<1>4. CASE RouterWifi(r)
  <2>1. row' = row /\ served' = Fresh BY <1>4 DEF RouterWifi
  <2>2. \A q \in Routers \ {r} : device'[q] = device[q] BY <1>4 DEF RouterWifi, TInv
  <2>3. device'[r].settings = Fresh BY <1>4 DEF RouterWifi, TInv, Scripts
  <2>4. ASSUME NEW q \in Mikrotiks PROVE Safe(q)'
    <3>1. CASE q = r
      <4>1. ~(device'[q].settings < row'[q].settings) BY <1>1, <1>2, <2>1, <2>3, <3>1 DEF Fresh
      <4> QED BY <4>1 DEF Safe
    <3>2. CASE q # r BY <1>2, <2>1, <2>2, <3>2, SafeKept
    <3> QED BY <3>1, <3>2
  <2>5. Low' BY <1>1, <1>2, <2>1 DEF Low, Fresh
  <2> QED BY <1>0, <2>4, <2>5, Empty, BeginsNothing DEF AllSafe
<1>5. CASE ImportSerials(r)
  <2>1. Register(r) /\ device' = device /\ served' = served BY <1>5 DEF ImportSerials
  <2>2. AllSafe' BY <2>1, RegisterSafe
  <2> QED BY <1>0, <2>2, Empty, BeginsNothing
<1> QED BY <1>3, <1>4, <1>5

\* One request at a time, and nothing fails: between requests every setting of
\* a MikroTik is on the device or on its way.
LEMMA DeliveredSteps ==
  ASSUME TInv, Delivered, Statement(w1) \/ (Script1 = <<>> /\ (Quiet(w1) \/ Devices)) PROVE Delivered'
<1>1. CASE Statement(w1) BY <1>1, DeliveredGoes
<1>2. CASE Script1 = <<>> /\ Devices BY <1>2, SafeBetween, DevicesDeliver
<1>3. CASE Script1 = <<>> /\ Quiet(w1)
  <2>1. AllSafe BY <1>3, SafeBetween
  <2>2. CASE PhoneHomes(w1) BY <2>1, <2>2, ProvisionDelivers, OpenDelivers DEF PhoneHomes
  <2>3. CASE SameKey(w1) BY <2>1, <2>3, BeatDelivers, BeatOpenDelivers DEF SameKey
  <2>4. CASE ReconcileCommand(w1)
    <3>1. AllSafe' /\ Script1' = Read BY <2>1, <2>4, ServeSafe DEF ReconcileCommand
    <3>2. Read \in Seq(Tame(Nothing)) BY PeerCalls, TameTypes, Wider
    <3> QED BY <3>1, <3>2, BeginsNothing
  <2> QED BY <1>3, <2>1, <2>2, <2>3, <2>4, ClaimsDeliver, SettlesDeliver, SweepsDeliver DEF Quiet
<1> QED BY <1>1, <1>2, <1>3

-----------------------------------------------------------------------------
(* The modes                                                               *)

\* The thread w1 alone serves requests.
Single == \A w \in Workers \ {w1} : todo[w] = <<>>
MInv ==
  /\ TInv
  /\ mode # "overlap" => Single /\ Placed
  /\ mode = "quiet" => Peered /\ Delivered

LEMMA BeginsAt == ASSUME MCInit PROVE served \in 0..MaxRequests
<1>1. mode \in {"quiet", "churn", "serial", "faulty", "overlap"} /\ DOMAIN First = {"quiet", "churn", "serial", "faulty", "overlap"}
  BY DEF MCInit, First
<1>2. First[mode] \in Nat BY <1>1 DEF First
<1>3. First[mode] <= MaxRequests BY <1>1, FirstAssumption
<1> QED BY <1>2, <1>3, BoundAssumption DEF MCInit

LEMMA Opening == MCInit => MInv
<1> SUFFICES ASSUME MCInit PROVE MInv OBVIOUS
<1>1. TInv BY BeginsAt, TypedBegin DEF MCInit
<1>2. row = [r \in Routers |-> Blank] /\ nas = {} /\ kernel = {} /\ file = {} /\ Script1 = <<>> /\ Single
  BY ThreadAssumption DEF MCInit, Begin, Script1, Single
<1>3. \A r \in Routers : row[r] = Blank BY <1>2
<1>4. Placed
  <2>1. AddressesDistinct BY <1>3 DEF AddressesDistinct, Blank
  <2>2. \A q \in Routers : Held(q) BY <1>3 DEF Held, Claimed, Blank
  <2> QED BY <1>2, <2>1, <2>2, Empty DEF Placed, Resting
<1>5. Peered
  <2>1. Unknown BY <1>3 DEF Unknown, Blank
  <2>2. PeersOf(row) = {} BY <1>3 DEF PeersOf, Blank
  <2> QED BY <1>2, <2>1, <2>2, Empty DEF Peered, QSynced, Synced
<1>6. Delivered
  <2>1. \A q \in Mikrotiks : row[q] = Blank BY <1>3, InRouters
  <2>2. AllSafe
    <3>1. served \in Nat BY <1>1, FreshNat
    <3> QED BY <2>1, <3>1 DEF AllSafe, Low, Safe, Claimed, Blank
  <2>3. Gently(Nothing) BY GentleNothing
  <2> QED BY <1>2, <2>2, <2>3, Empty DEF Delivered, SCalm
<1> QED BY <1>1, <1>2, <1>4, <1>5, <1>6 DEF MInv

LEMMA QuietRequests == /\ Quiet(w1) => Request(w1)
                       /\ Serial(w1) => Request(w1)
                       /\ Churn(w1) => Request(w1)
                       /\ \A w : Overlap(w) => Request(w)
<1>1. Quiet(w1) => Request(w1) BY DEF Quiet, Request, SameKey, Heartbeats
<1>2. Serial(w1) => Request(w1) BY DEF Serial, Request, PhoneHomes
<1>3. Churn(w1) => Request(w1) BY DEF Churn, Request, Heartbeats, PhoneHomes
<1>4. \A w : Overlap(w) => Request(w) BY InRouters DEF Overlap, Request, Claims, Releases, PhoneHomes
<1> QED BY <1>1, <1>2, <1>3, <1>4

\* What a thread does changes only its own script.
LEMMA Alone ==
  ASSUME TInv, Single, Request(w1) \/ Goes1 \/ Devices PROVE Single'
<1>1. CASE Devices BY <1>1 DEF Devices, Boot, RouterWifi, ImportSerials, Single
<1>2. ASSUME NEW s, todo' = [todo EXCEPT ![w1] = s] PROVE Single' BY <1>2 DEF TInv, Single
<1>3. CASE Request(w1)
  <2>1. PICK s : Load(w1, s) \/ Serve(w1, s)
    BY <1>3 DEF Request, Claims, Releases, Settles, Heartbeats, PhoneHomes, Sweeps, ReconcileCommand, MarkOffline,
       RouterAdd, HandleMikrotikAdd, HandleOpenwrtAdd, RouterRemove, MarkAvailable, WifiConfig, Topology, Redeploy,
       HeartbeatMikrotik, HeartbeatOpenwrt, RouterProvision, OpenwrtProvision, CheckRouters
  <2>2. todo' = [todo EXCEPT ![w1] = s] BY <2>1 DEF Load, Serve
  <2> QED BY <1>2, <2>2
<1>4. CASE Statement(w1)
  <2>1. PICK s : Continue(w1, s)
    BY <1>4 DEF Statement, DoWrite, DoAllocate, DoNas, DoRestart, DoSet, DoReconcile, DoRespond, Done
  <2>2. todo' = [todo EXCEPT ![w1] = s \o Tail(todo[w1])] BY <2>1, ThreadAssumption DEF Continue, TInv
  <2> QED BY <1>2, <2>2
<1>5. CASE Faults(w1)
  BY <1>2, <1>5 DEF Faults, WireGuardFails, RestartFails, ResponseLost, Done, Continue
<1> QED BY <1>1, <1>3, <1>4, <1>5 DEF Goes1

LEMMA Rests == ASSUME UNCHANGED vars, MInv, mode' = mode PROVE MInv'
<1>0. UNCHANGED <<row, nas, clients, kernel, file, device, todo, served, mode>> BY DEF vars, wireguard
<1>1. TInv' BY <1>0 DEF MInv, TInv
<1>2. Single => Single' BY <1>0 DEF Single
<1>3. AddressesDistinct => AddressesDistinct' BY <1>0 DEF AddressesDistinct
<1>4. \A q : (Held(q) <=> Held(q)') /\ (HeldBut(q) => HeldBut(q)') BY <1>0 DEF Held, HeldBut, Claimed
<1>5. Resting => Resting' BY <1>0, <1>4 DEF Resting, Script1
<1>6. \A r : Leaving(r) => Leaving(r)' BY <1>0, <1>4 DEF Leaving, Script1
<1>7. \A r : Entering(r) => Entering(r)' BY <1>0, <1>4 DEF Entering, Script1
<1>8. \A r : Saving(r) => Saving(r)' BY <1>0, <1>4 DEF Saving, Apart, Script1
<1>9. \A r : Staling(r) => Staling(r)' BY <1>0, <1>4 DEF Staling, Script1
<1>10. \A r : Putting(r) => Putting(r)' BY <1>0, <1>4 DEF Putting, Script1
<1>11. Placed => Placed' BY <1>3, <1>5, <1>6, <1>7, <1>8, <1>9, <1>10 DEF Placed, Phase
<1>12. Synced => Synced' BY <1>0 DEF Synced
<1>13. Unknown => Unknown' BY <1>0 DEF Unknown
<1>14. \A r, f : After(r, f)' = After(r, f) BY <1>0 DEF After
<1>15. (QSynced => QSynced') /\ (QRead => QRead') /\ (QMove => QMove') /\ (QStrip => QStrip') /\ (QSync => QSync')
  BY <1>0, <1>12 DEF QSynced, QRead, QMove, QStrip, QSync, Script1
<1>16. QMute => QMute' BY <1>0, <1>12, <1>14 DEF QMute, Script1
<1>17. QAlloc => QAlloc' BY <1>0, <1>12 DEF QAlloc, Script1
<1>18. QWrite => QWrite' BY <1>0, <1>14 DEF QWrite, Script1
<1>19. Peered => Peered' BY <1>13, <1>15, <1>16, <1>17, <1>18 DEF Peered
<1>20. \A q : Safe(q) => Safe(q)' BY <1>0 DEF Safe, Claimed
<1>21. Low => Low' BY <1>0 DEF Low
<1>22. AllSafe => AllSafe' BY <1>20, <1>21 DEF AllSafe
<1>23. \A g : Gently(g) => Gently(g)' BY <1>0 DEF Gently
<1>24. SCalm => SCalm' BY <1>0, <1>22, <1>23 DEF SCalm, Script1
<1>25. SEarn => SEarn' BY <1>0, <1>22 DEF SEarn, Earns, Script1
<1>26. SOpen => SOpen' BY <1>0, <1>22 DEF SOpen, Script1
<1>27. \A r : SAnswer(r) => SAnswer(r)' BY <1>0, <1>20, <1>21 DEF SAnswer, Script1
<1>28. Delivered => Delivered' BY <1>24, <1>25, <1>26, <1>27 DEF Delivered
<1> QED BY <1>0, <1>1, <1>2, <1>11, <1>19, <1>28 DEF MInv

LEMMA Moves == ASSUME MInv, MCNext PROVE MInv'
<1>0. mode' = mode /\ TInv /\ w1 \in Workers BY ThreadAssumption DEF MCNext, MInv
<1>1. Idle => Script1 = <<>> BY <1>0 DEF Idle, Script1
<1>2. Boots => Devices BY DEF Boots, Devices
<1>3. \/ \E w \in Workers : mode = "overlap" /\ (Statement(w) \/ Request(w))
      \/ mode # "overlap" /\ (Statement(w1) \/ Faults(w1) \/ Request(w1) \/ (Script1 = <<>> /\ Devices))
  BY <1>0, <1>1, <1>2, QuietRequests DEF MCNext, Step, Faults
<1>4. TInv'
  <2>1. Next BY <1>0, <1>3 DEF Next
  <2> QED BY <1>0, <2>1, TypedSteps
<1>5. mode # "overlap" => Single' /\ Placed'
  <2>1. mode # "overlap" => Request(w1) \/ Goes1 \/ (Devices /\ Script1 = <<>>) BY <1>3 DEF Goes1
  <2> QED BY <1>0, <2>1, Alone, PlacedSteps DEF MInv
<1>6. mode = "quiet" => Peered' /\ Delivered'
  <2>1. mode = "quiet" => Statement(w1) \/ (Script1 = <<>> /\ (Quiet(w1) \/ Devices))
    BY <1>0, <1>1 DEF MCNext, Step
  <2> QED BY <1>0, <1>4, <2>1, PeeredSteps, DeliveredSteps DEF MInv
<1> QED BY <1>0, <1>4, <1>5, <1>6 DEF MInv

LEMMA Agreeing == MInv => RowsAgree
<1> SUFFICES ASSUME MInv PROVE RowsAgree OBVIOUS
<1>0. TInv /\ w1 \in Workers BY ThreadAssumption DEF MInv
<1>1. TypeOK BY <1>0 DEF TInv, TypeOK
<1>2. Idle => Script1 = <<>> BY <1>0 DEF Idle, Script1
<1>3. ASSUME mode # "overlap" PROVE AddressesDistinct /\ NasFollowsRow
  <2>1. Placed BY <1>3 DEF MInv
  <2>2. AddressesDistinct BY <2>1 DEF Placed
  <2>3. Idle => \A q \in Routers : Held(q) BY <1>0, <1>2, <2>1, Rested DEF Settled
  <2> QED BY <2>2, <2>3 DEF NasFollowsRow, Held
<1>4. ASSUME mode = "quiet" PROVE PeersFollowRows /\ SettingNotLost
  <2>1. Peered /\ Delivered BY <1>4 DEF MInv
  <2>2. PeersOf(row) = RowPeers BY DEF PeersOf, RowPeers
  <2>3. PeersFollowRows BY <1>0, <1>2, <2>1, <2>2, InStepBetween DEF PeersFollowRows, InStep, Synced
  <2>4. Idle => AllSafe BY <1>0, <1>2, <2>1, SafeBetween
  <2>5. SettingNotLost BY <2>4 DEF SettingNotLost, AllSafe, Safe
  <2> QED BY <2>3, <2>5
<1> QED BY <1>1, <1>3, <1>4 DEF RowsAgree

\* RowsAgree: whatever fails or is lost, while one request runs at a time no
\* two routers have one tunnel address, and between requests a claimed router
\* has the one NAS row that goes with its row; and when nothing fails and no
\* tunnel is given up, between requests the peers of the interface and of
\* wg0.conf are those of the rows, and every setting of a claimed MikroTik is
\* on the device or will be delivered.
THEOREM RowsKeepAgreeing == MCSpec => []RowsAgree
<1>1. MInv /\ [MCNext]_modal => MInv'
  <2> SUFFICES ASSUME MInv, [MCNext]_modal PROVE MInv' OBVIOUS
  <2>1. UNCHANGED modal => UNCHANGED vars /\ mode' = mode BY DEF modal
  <2> QED BY <2>1, Moves, Rests
<1> QED BY <1>1, Opening, Agreeing, PTL DEF MCSpec
=============================================================================
