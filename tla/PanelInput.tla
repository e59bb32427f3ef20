----------------------------- MODULE PanelInput -----------------------------
(* Front-panel input: the controls of emu/gui.py queue events on the UI    *)
(* thread, the worker takes them between two chunks of emulation           *)
(* (Emulator._drain_input), and emu/panelin.py turns them into wire        *)
(* messages in the receive ring of UART8.  The wire carries the state of a *)
(* channel's eight buttons; the firmware derives the edges itself.         *)
EXTENDS Integers, FiniteSets, Sequences

CONSTANTS
  Button,     \* button codes
  Wire,       \* [Button -> channel]: where the product has them ...
  Nowhere,    \* ... and the channel of the codes it has no wire for
  Latching,   \* buttons of the latching groups
  Encoder,    \* encoder codes
  Dwells,     \* what --panel-dwell may be: PANEL_DWELL_CHUNKS, 0: no pacing
  RingSize,   \* messages the receive ring goes round in
  MaxEvents,  \* bound: events the user makes
  FeedFails   \* whether panelin.feed can raise

Channel == {Wire[b] : b \in Button} \ {Nowhere}

ASSUME PanelAssumption ==
  /\ Latching \subseteq Button
  /\ Dwells \subseteq Nat /\ MaxEvents \in Nat /\ RingSize \in Nat \ {0}
  /\ FeedFails \in BOOLEAN

Press(b)   == [kind |-> "press", code |-> b]
Release(b) == [kind |-> "release", code |-> b]
Turn(e)    == [kind |-> "turn", code |-> e]
Far(e)     == [kind |-> "far", code |-> e]     \* by more than a signed byte

Events == [kind : {"press", "release"}, code : Button] \cup [kind : {"turn", "far"}, code : Encoder]

VARIABLES
  made,      \* history: every event the user made, in order
  down,      \* buttons the user holds or has latched
  paused,    \* Emulator.pause
  inbox,     \* Emulator.inbox, as indices into made
  step,      \* what the worker does: top, taking, spinning
  took,      \* _drain_input's took_button
  deferred,  \* its deferred events
  out,       \* its byte stream, one message per event
  held,      \* Held.masks: the buttons down, per channel
  chunks,    \* _chunks_since_delivery
  delivered, \* _delivered_before
  ring,      \* messages in the receive ring the firmware has not read
  got,       \* history: the messages the firmware has read
  since,     \* history: chunks run since a button was last fed, up to dwell
  dwell,     \* Emulator._dwell_chunks
  lost       \* history: feed has raised, or gone round the ring

user   == <<made, down, paused, dwell>>
drain  == <<took, deferred, out>>
pacing == <<chunks, delivered, since>>
guest  == <<ring, got, lost>>
vars   == <<user, inbox, step, drain, held, pacing, guest>>

On(c, S) == {b \in S : Wire[b] = c}

-----------------------------------------------------------------------------
(* The UI thread, at any moment: send_input appends to the deque.          *)
Send(ev) ==
  /\ Len(made) < MaxEvents
  /\ made' = Append(made, ev)
  /\ inbox' = Append(inbox, Len(made) + 1)
  /\ UNCHANGED <<paused, dwell, step, drain, held, pacing, guest>>

(* One pointer: a momentary key is held alone among those, and let go      *)
(* before another; a latching one toggles on each click.                   *)
PressKey(b) ==
  /\ b \notin down
  /\ down \subseteq Latching
  /\ down' = down \cup {b}
  /\ Send(Press(b))

ReleaseKey(b) ==
  /\ b \in down
  /\ b \in Latching => down \subseteq Latching
  /\ down' = down \ {b}
  /\ Send(Release(b))

(* The steps of a drag: what the pointer moved since the last event.       *)
TurnKnob(e) ==
  /\ (Send(Turn(e)) \/ Send(Far(e)))
  /\ UNCHANGED down

(* The PAUSE key.                                                          *)
Pause ==
  /\ ~paused
  /\ paused' = TRUE
  /\ UNCHANGED <<made, down, dwell, inbox, step, drain, held, pacing, guest>>

Unpause ==
  /\ paused
  /\ paused' = FALSE
  /\ UNCHANGED <<made, down, dwell, inbox, step, drain, held, pacing, guest>>

-----------------------------------------------------------------------------
(* Inside the dwell of the last delivery nothing is taken.                 *)
Dwelling == dwell > 0 /\ delivered /\ chunks < dwell

(* The chunk is not counted.                                               *)
WaitBug ==
  /\ step = "top" /\ ~paused
  /\ Dwelling
  /\ step' = "spinning"
  /\ UNCHANGED <<user, inbox, drain, held, pacing, guest>>

(* Not taking: one more chunk goes by.                                     *)
Wait ==
  /\ step = "top" /\ ~paused
  /\ Dwelling
  /\ chunks' = chunks + 1
  /\ step' = "spinning"
  /\ UNCHANGED <<user, inbox, drain, held, delivered, guest, since>>

(* Top of the worker's loop, not paused.                                   *)
Begin ==
  /\ step = "top" /\ ~paused
  /\ ~Dwelling
  /\ step' = "taking"
  /\ took' = FALSE /\ deferred' = <<>> /\ out' = <<>>
  /\ UNCHANGED <<user, inbox, held, pacing, guest>>

Event == made[Head(inbox)]

(* One event leaves the deque.                                             *)
Pop ==
  /\ step = "taking"
  /\ inbox # <<>>
  /\ inbox' = Tail(inbox)
  /\ UNCHANGED <<user, step, pacing, guest>>

TakeTurn ==
  /\ Pop
  /\ Event.kind = "turn"
  /\ out' = Append(out, [event |-> Head(inbox), channel |-> Nowhere, mask |-> {}])
  /\ UNCHANGED <<took, deferred, held>>

(* encode_encoder refuses it, outside of what catches a failing feed: the  *)
(* thread dies with what it took and deferred, and its status unchanged.   *)
TurnRaises ==
  /\ step = "taking"
  /\ inbox # <<>> /\ Event.kind = "far"
  /\ inbox' = Tail(inbox)
  /\ step' = "dead"
  /\ UNCHANGED <<user, drain, held, pacing, guest>>

(* Only the last deferred event is put back.                               *)
LossBug == IF deferred = <<>> THEN <<>> ELSE <<deferred[Len(deferred)]>>

(* The deferred events are put back one by one from the first.             *)
RequeueBug ==
  [k \in 1..Len(deferred) |-> deferred[Len(deferred) + 1 - k]]

(* What goes back to the front of the deque, in its order.                 *)
Requeue == deferred

(* Held.press and Held.release: the whole channel lets go.                 *)
MaskBug(c, ev) ==
  IF ev.kind = "press" THEN held[c] \cup {ev.code} ELSE {}

(* Held._apply: one bit of the channel's mask.                             *)
Mask(c, ev) ==
  IF ev.kind = "press" THEN held[c] \cup {ev.code} ELSE held[c] \ {ev.code}

(* A paced pass takes one button transition; the rest waits.               *)
Defer ==
  /\ Pop
  /\ Event.kind \in {"press", "release"}
  /\ dwell > 0 /\ took
  /\ deferred' = Append(deferred, Head(inbox))
  /\ UNCHANGED <<took, out, held>>

TakeButton ==
  /\ Pop
  /\ Event.kind \in {"press", "release"}
  /\ ~(dwell > 0 /\ took)
  /\ took' = TRUE
  /\ LET c == Wire[Event.code]
         mask == Mask(c, Event)
     IN  IF c = Nowhere
           THEN UNCHANGED <<out, held>>
           ELSE /\ held' = [held EXCEPT ![c] = mask]
                /\ out' = Append(out, [event |-> Head(inbox), channel |-> c, mask |-> mask])
  /\ UNCHANGED deferred

(* The deque is empty: what was deferred goes back to its front, and what  *)
(* was encoded, if anything, is fed.                                       *)
EndPass ==
  /\ step = "taking"
  /\ inbox = <<>>
  /\ inbox' = Requeue
  /\ step' = "spinning"
  /\ deferred' = <<>> /\ out' = <<>>
  /\ UNCHANGED <<user, took, held, got>>

EndEmpty ==
  /\ EndPass
  /\ out = <<>>
  /\ UNCHANGED <<pacing, ring, lost>>

IsButton(m) == m.channel # Nowhere
HasButton(msgs) == \E k \in 1..Len(msgs) : IsButton(msgs[k])

(* The counter of chunks is not restarted.                                 *)
RestartBug == chunks' = chunks /\ delivered' = TRUE

(* The dwell starts anew with every delivery, of whatever kind.            *)
Restart == chunks' = 0 /\ delivered' = TRUE

(* What the firmware finds between its index and DADDR, which goes round   *)
(* the ring.                                                               *)
Wrapped(msgs) ==
  SubSeq(msgs, Len(msgs) - (Len(msgs) % RingSize) + 1, Len(msgs))

(* Button states go first.                                                 *)
StreamBug == SelectSeq(out, IsButton) \o SelectSeq(out, LAMBDA m : ~IsButton(m))

(* The byte stream is in the order the events were taken.                  *)
Stream == out

(* panelin.feed: the bytes go into the ring, however many it still holds.  *)
Feed ==
  /\ EndPass
  /\ out # <<>>
  /\ Restart
  /\ ring' = Wrapped(ring \o Stream)
  /\ lost' = (lost \/ Len(ring \o Stream) >= RingSize)
  /\ since' = IF HasButton(out) THEN 0 ELSE since

(* It raises: the status line says so and the bytes are gone.              *)
FeedRaises ==
  /\ FeedFails
  /\ EndPass
  /\ out # <<>>
  /\ Restart
  /\ lost' = TRUE
  /\ UNCHANGED <<ring, since>>

-----------------------------------------------------------------------------
(* A chunk of emulation: the firmware's ISR for vector 154 reads from the  *)
(* ring, then or in a later chunk.                                         *)
Rx ==
  /\ step = "spinning"
  /\ ring # <<>>
  /\ got' = Append(got, Head(ring))
  /\ ring' = Tail(ring)
  /\ UNCHANGED <<user, inbox, step, drain, held, pacing, lost>>

EndChunk ==
  /\ step = "spinning"
  /\ step' = "top"
  /\ since' = IF since < dwell THEN since + 1 ELSE since
  /\ UNCHANGED <<user, inbox, drain, held, chunks, delivered, guest>>

Init ==
  /\ made = <<>> /\ down = {} /\ paused = FALSE /\ inbox = <<>>
  /\ step = "top" /\ took = FALSE /\ deferred = <<>> /\ out = <<>>
  /\ held = [c \in Channel |-> {}]
  /\ dwell \in Dwells
  /\ chunks = 0 /\ delivered = FALSE /\ since = dwell
  /\ ring = <<>> /\ got = <<>> /\ lost = FALSE

User ==
  \/ \E b \in Button : PressKey(b) \/ ReleaseKey(b)
  \/ \E e \in Encoder : TurnKnob(e)
  \/ Pause \/ Unpause

Worker ==
  \/ Wait \/ Begin
  \/ TakeTurn \/ TurnRaises \/ Defer \/ TakeButton
  \/ EndEmpty \/ Feed \/ FeedRaises
  \/ EndChunk

Next == User \/ Worker \/ Rx

(* The worker thread keeps going.  The ISR runs first in the chunk its     *)
(* vector was raised for, and a chunk is far longer than a full ring, so   *)
(* it is not left behind in every chunk; nobody owes an event.             *)
Fairness == WF_vars(Worker) /\ SF_vars(Rx)

Spec == Init /\ [][Next]_vars /\ Fairness
-----------------------------------------------------------------------------
(* Properties.                                                             *)

Index    == 1..MaxEvents
Message  == [event : Index, channel : Channel \cup {Nowhere}, mask : SUBSET Button]
Sends(i) ==
  \/ made[i].kind = "turn"
  \/ made[i].kind \in {"press", "release"} /\ Wire[made[i].code] # Nowhere
Reads(i) == \E k \in 1..Len(got) : got[k].event = i

(* Every variable keeps the shape the code gives it.                       *)
TypeOK ==
  /\ made \in Seq(Events) /\ down \subseteq Button /\ paused \in BOOLEAN
  /\ inbox \in Seq(Index) /\ deferred \in Seq(Index)
  /\ step \in {"top", "taking", "spinning", "dead"} /\ took \in BOOLEAN
  /\ out \in Seq(Message) /\ ring \in Seq(Message) /\ got \in Seq(Message)
  /\ held \in [Channel -> SUBSET Button]
  /\ dwell \in Dwells /\ chunks \in 0..dwell /\ since \in 0..dwell
  /\ delivered \in BOOLEAN /\ lost \in BOOLEAN

(* The buttons down after the user's first i events.                       *)
DownAfter(i) ==
  {b \in Button :
     \E j \in 1..i :
       /\ made[j] = Press(b)
       /\ \A k \in (j + 1)..i : made[k] # Release(b)}

(* "holding FUNC, tap a page button": every state sent for a channel is    *)
(* the one the user had it in at that event, however late it goes out and  *)
(* whatever was lost before it.                                            *)
MaskIsHeld ==
  \A msgs \in {out, ring, got} : \A k \in 1..Len(msgs) :
    IsButton(msgs[k]) =>
      msgs[k].mask = On(msgs[k].channel, DownAfter(msgs[k].event))

(* "Nothing queued is ever dropped, only delayed until its dwell elapses": *)
(* with nothing queued and nothing left in the ring, the firmware has read *)
(* every event this product has a wire for, short of a feed that failed.   *)
NothingDropped ==
  step = "top" /\ inbox = <<>> /\ ring = <<>> /\ ~lost =>
    \A i \in 1..Len(made) : Sends(i) => Reads(i)

(* Deferring, putting back and the user's own appends never change the     *)
(* order of button transitions, whatever is lost.                          *)
InOrder ==
  \A k, l \in 1..Len(got) :
    k < l /\ IsButton(got[k]) /\ IsButton(got[l]) =>
      got[k].event < got[l].event

(* Encoders may overtake deferred buttons and nothing else: a turn is never*)
(* read after an event made later, so one made while a modifier was held   *)
(* is not applied after its release.                                       *)
TurnNeverLate ==
  \A k, l \in 1..Len(got) :
    k < l /\ ~IsButton(got[l]) => got[k].event < got[l].event

(* "a press/release is held back until _dwell_chunks have passed since the *)
(* last one was delivered": the firmware never gets two transitions closer *)
(* than that, in one feed or in two.                                       *)
Spaced ==
  [][dwell > 0 /\ step = "taking" /\ step' = "spinning" /\ HasButton(out) =>
       /\ since = dwell
       /\ \A k, l \in 1..Len(out) : IsButton(out[k]) /\ IsButton(out[l]) => k = l]_vars

(* Every event is delivered in the end, unless the user pauses, a feed     *)
(* failed or a far turn ended the worker: dwelling starves nobody.         *)
Delivered ==
  \A i \in Index :
    Len(made) >= i /\ Sends(i) ~> Reads(i) \/ paused \/ lost \/ step = "dead"
=============================================================================
