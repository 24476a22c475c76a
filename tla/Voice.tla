-------------------------------- MODULE Voice --------------------------------
(***************************************************************************)
(* One telephone call as the platform sees it (voice/views.py and          *)
(* voice/services.py): the events the switch posts about it, in any number *)
(* and, when they are handled at once, in any order; and the turns of its  *)
(* conversation with the assistant, each appended to the call's running    *)
(* transcript and cost from a copy read before the language model answers. *)
(***************************************************************************)
EXTENDS Integers, Sequences, FiniteSets, FiniteSetsExt

CONSTANTS Handlers, \* requests under way at once
          MaxTurns, MaxDigits \* bounds: utterances of the caller, keys pressed

VARIABLES line,    \* the call at the switch: how far it is, how it ended
          posted,  \* the events the switch has posted so far
          heard,   \* those that were handled
          pressed, \* keys pressed
          call,    \* the VoiceCall row
          turns,   \* the VoiceTurn rows: utterance, direction, cost
          thread,  \* the messages of the call's conversation; "none" without one
          paused,  \* ai_paused_at of the reseller, or voice disabled
          phone, memo \* where each request is, and what it has read

voiceVars == <<line, posted, heard, pressed, call, turns, thread, paused, phone, memo>>

Ends == {"completed", "failed"}
Events == {"started", "answered", "recording"} \cup Ends
Turns == [n : 1..MaxTurns, way : {"in", "out"}, cost : {0, 1}]
Calls == [made : BOOLEAN, status : {"ringing", "in_progress"} \cup Ends, answered : BOOLEAN,
          ended : BOOLEAN, url : BOOLEAN, transcript : SUBSET Turns, cost : Nat, digits : Nat]
NoCall == [made |-> FALSE, status |-> "ringing", answered |-> FALSE, ended |-> FALSE,
           url |-> FALSE, transcript |-> {}, cost |-> 0, digits |-> 0]
Nobody == [event |-> "started", n |-> 0, copy |-> NoCall, cost |-> 0]
\* What the requests use of the row they load: events, turns, keys.
Marks(row) == [NoCall EXCEPT !.answered = row.answered, !.ended = row.ended, !.url = row.url]
Sums(row) == [NoCall EXCEPT !.transcript = row.transcript, !.cost = row.cost]
Keys(row) == [NoCall EXCEPT !.digits = row.digits]

Hold(h, place, x) == phone' = [phone EXCEPT ![h] = place] /\ memo' = [memo EXCEPT ![h] = x]
Drop(h) == Hold(h, "idle", Nobody)

VoiceInit ==
  /\ line = "none" /\ posted = {} /\ heard = {} /\ pressed = 0 /\ call = NoCall
  /\ turns = {} /\ thread = {} /\ paused = FALSE
  /\ phone = [h \in Handlers |-> "idle"] /\ memo = [h \in Handlers |-> Nobody]

(* The switch, and the dashboard's pause. **********************************)

Post(e) == line' = e /\ posted' = posted \cup {e}
Ring == line = "none" /\ Post("started")
Pick == line = "started" /\ Post("answered")
HangUp(e) == line \in {"started", "answered"} /\ Post(e)
Recorded == line = "completed" /\ Post("recording")
Switch ==
  /\ Ring \/ Pick \/ Recorded \/ \E e \in Ends : HangUp(e)
  /\ UNCHANGED <<heard, pressed, call, turns, thread, paused, phone, memo>>
Pause == paused' = ~paused /\ UNCHANGED <<line, posted, heard, pressed, call, turns, thread, phone, memo>>

(* The events: voice_webhook, _dispatch_event. *****************************)

\* record_call_started: get_or_create, by the call's unique identifier.
Start(h) ==
  /\ phone[h] = "idle" /\ "started" \in posted
  /\ call' = IF call.made THEN call ELSE [call EXCEPT !.made = TRUE]
  /\ heard' = heard \cup {"started"}
  /\ UNCHANGED <<line, posted, pressed, turns, thread, paused, phone, memo>>

\* The other events load the row, then save some of its fields; without a row
\* they are dropped.
Load(h, e) ==
  /\ phone[h] = "idle" /\ e \in posted \ {"started"}
  /\ IF call.made THEN Hold(h, "event", [Nobody EXCEPT !.event = e, !.copy = Marks(call)]) /\ UNCHANGED heard
     ELSE heard' = heard \cup {e} /\ UNCHANGED <<phone, memo>>
  /\ UNCHANGED <<line, posted, pressed, call, turns, thread, paused>>

\* mark_call_answered and mark_call_completed: once each, by the copy; the
\* latter saves the copy's recording too, or the one the event brings.
Answer(copy) == IF copy.answered THEN call
                ELSE [call EXCEPT !.answered = TRUE, !.status = "in_progress"]
Complete(copy, e, url) == IF copy.ended THEN call
                          ELSE [call EXCEPT !.ended = TRUE, !.status = e, !.url = copy.url \/ url]
SaveEvent(h) ==
  LET e == memo[h].event  copy == memo[h].copy IN
  /\ phone[h] = "event" /\ Drop(h) /\ heard' = heard \cup {e}
  /\ \E url \in BOOLEAN :
       call' = CASE e = "answered" -> Answer(copy)
                 [] e = "recording" -> [call EXCEPT !.url = TRUE]
                 [] OTHER -> Complete(copy, e, url)
  /\ UNCHANGED <<line, posted, pressed, turns, thread, paused>>

\* A key is added to the list of the copy, and the list is written back.
Press(h) ==
  /\ phone[h] = "idle" /\ call.made /\ pressed < MaxDigits /\ pressed' = pressed + 1
  /\ Hold(h, "digit", [Nobody EXCEPT !.copy = Keys(call)])
  /\ UNCHANGED <<line, posted, heard, call, turns, thread, paused>>
SaveDigit(h) ==
  /\ phone[h] = "digit" /\ Drop(h)
  /\ call' = [call EXCEPT !.digits = memo[h].copy.digits + 1]
  /\ UNCHANGED <<line, posted, heard, pressed, turns, thread, paused>>

(* The turns: voice_turn. **************************************************)

\* The row is fetched, or made when no event made it; a paused reseller's
\* caller gets no turn. The conversation is made for the first one.
Utter(h) ==
  LET now == IF call.made THEN call ELSE [call EXCEPT !.made = TRUE, !.status = "in_progress"]
      n == Cardinality({t \in turns : t.way = "in"})
           + Cardinality({g \in Handlers : phone[g] = "hear"}) + 1
  IN /\ phone[h] = "idle" /\ n <= MaxTurns /\ call' = now
     /\ IF paused THEN UNCHANGED <<phone, memo>>
        ELSE Hold(h, "hear", [Nobody EXCEPT !.n = n, !.copy = Sums(now)])
     /\ UNCHANGED <<line, posted, heard, pressed, turns, thread, paused>>

\* Fault for mutation: the cost is set, not added.
Cost_Set(old, c) == IF c = 0 THEN old ELSE c
Cost(old, c) == old + c

\* append_turn: the turn's row, and the copy with it, whose transcript and cost
\* are written; then record_voice_message.
Append1(h, way, place) ==
  LET t == [n |-> memo[h].n, way |-> way, cost |-> memo[h].cost]
      now == [memo[h].copy EXCEPT !.transcript = @ \cup {t}, !.cost = Cost(@, t.cost)]
  IN /\ turns' = turns \cup {t}
     /\ call' = [call EXCEPT !.transcript = now.transcript, !.cost = now.cost]
     /\ Hold(h, place, [memo[h] EXCEPT !.copy = now])
     /\ UNCHANGED <<line, posted, heard, pressed, thread, paused>>
Hear(h) == phone[h] = "hear" /\ Append1(h, "in", "note_in")
Say(h) == phone[h] = "say" /\ Append1(h, "out", "note_out")
Note(h, way, place) ==
  /\ thread' = thread \cup {<<memo[h].n, way>>} /\ Hold(h, place, memo[h])
  /\ UNCHANGED <<line, posted, heard, pressed, call, turns, paused>>
NoteIn(h) == phone[h] = "note_in" /\ Note(h, "in", "ask")
NoteOut(h) ==
  /\ phone[h] = "note_out" /\ thread' = thread \cup {<<memo[h].n, "out">>} /\ Drop(h)
  /\ UNCHANGED <<line, posted, heard, pressed, call, turns, paused>>

\* The model's answer, with its cost, or the apology when it fails, for free.
Ask(h, c) ==
  /\ phone[h] = "ask" /\ Hold(h, "say", [memo[h] EXCEPT !.cost = c])
  /\ UNCHANGED <<line, posted, heard, pressed, call, turns, thread, paused>>

Speak(h) == Hear(h) \/ NoteIn(h) \/ (\E c \in {0, 1} : Ask(h, c)) \/ Say(h) \/ NoteOut(h)
Handle(h) == SaveEvent(h) \/ SaveDigit(h) \/ Speak(h)
VoiceNext == \/ Switch \/ Pause
             \/ \E h \in Handlers : \/ Start(h) \/ Press(h) \/ Utter(h) \/ Handle(h)
                                    \/ \E e \in Events : Load(h, e)
VoiceSpec == VoiceInit /\ [][VoiceNext]_voiceVars

(* Properties. *************************************************************)

\* The types of the row, of what the switch posted and of the requests.
VoiceType ==
  /\ call \in Calls /\ turns \subseteq Turns /\ thread \subseteq (1..MaxTurns) \X {"in", "out"}
  /\ line \in Events \cup {"none"} /\ heard \subseteq posted /\ posted \subseteq Events
  /\ pressed \in 0..MaxDigits /\ paused \in BOOLEAN
  /\ phone \in [Handlers -> {"idle", "event", "digit", "hear", "note_in", "ask", "say", "note_out"}]
  /\ \A h \in Handlers : memo[h].copy \in Calls /\ memo[h].n \in 0..MaxTurns

\* The call's transcript, cost, keys and thread are those of its turns and keys
\* once no request is under way, whatever events of the call were handled
\* meanwhile; it needs turns, and keys, one at a time, and no worker killed
\* between the row of a turn and the sums, which are two commits (append_turn:
\* "Keep the call-level transcript + cost roll-up in sync").
RollUp ==
  (\A h \in Handlers : phone[h] = "idle") =>
    /\ call.transcript = turns /\ call.digits = pressed
    /\ call.cost = MapThenSumSet(LAMBDA t : t.cost, turns)
    /\ thread = {<<t.n, t.way>> : t \in turns}

\* A call that has ended keeps its end, however often its events are repeated;
\* it needs that each is handled before the next one is posted
\* (mark_call_answered, mark_call_completed).
EndStep == call.ended => call'.ended /\ call'.status = call.status
==============================================================================
