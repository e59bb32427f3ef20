---------------------------- MODULE PanelProofs -----------------------------
(***************************************************************************)
(* Theorems of PanelInput, for every set of buttons, encoders, channels    *)
(* and dwells, every ring and every number of events.                      *)
(***************************************************************************)
EXTENDS PanelInput, Functions, SequenceTheorems, TLAPS

(* Sequences and what is in them.                                          *)
LEMMA RangeIs == ASSUME NEW T, NEW s \in Seq(T) PROVE Range(s) = {s[k] : k \in 1..Len(s)}
  BY DEF Range

LEMMA RangeEmpty == Range(<<>>) = {} /\ \A T : <<>> \in Seq(T)
  BY DEF Range

LEMMA RangeAppend ==
  ASSUME NEW T, NEW s \in Seq(T), NEW e \in T
  PROVE  Append(s, e) \in Seq(T) /\ Range(Append(s, e)) = Range(s) \cup {e}
PROOF
  <1>1. Append(s, e) \in Seq(T)
    OBVIOUS
  <1>2. Len(Append(s, e)) = Len(s) + 1 /\ Len(s) \in Nat
    OBVIOUS
  <1>3. \A k \in 1..Len(s) : Append(s, e)[k] = s[k]
    OBVIOUS
  <1>4. Append(s, e)[Len(s) + 1] = e
    OBVIOUS
  <1>5. 1..(Len(s) + 1) = (1..Len(s)) \cup {Len(s) + 1}
    BY <1>2
  <1>6. Range(Append(s, e)) = {Append(s, e)[k] : k \in 1..(Len(s) + 1)}
    BY <1>1, <1>2, RangeIs
  <1>7. Range(s) = {s[k] : k \in 1..Len(s)}
    BY RangeIs
  <1> QED
    BY <1>1, <1>2, <1>3, <1>4, <1>5, <1>6, <1>7

LEMMA RangeTail ==
  ASSUME NEW T, NEW s \in Seq(T), s # <<>>
  PROVE  /\ Head(s) \in T /\ Tail(s) \in Seq(T)
         /\ Range(s) = Range(Tail(s)) \cup {Head(s)}
PROOF
  <1>1. Head(s) \in T /\ Tail(s) \in Seq(T) /\ Head(s) = s[1]
    OBVIOUS
  <1>2. Len(Tail(s)) = Len(s) - 1 /\ Len(s) \in Nat /\ Len(s) > 0
    OBVIOUS
  <1>3. \A k \in 1..(Len(s) - 1) : Tail(s)[k] = s[k + 1]
    OBVIOUS
  <1> DEFINE t == Tail(s)
  <1>0. Range(s) = {s[k] : k \in 1..Len(s)} /\ Range(t) = {t[k] : k \in 1..(Len(s) - 1)}
    <2>1. Range(t) = {t[k] : k \in 1..Len(t)}
      BY <1>1, RangeIs
    <2> QED
      BY <1>2, <2>1, RangeIs
  <1>4. \A x \in Range(s) : x \in Range(Tail(s)) \cup {Head(s)}
    <2> TAKE x \in Range(s)
    <2>1. PICK k \in 1..Len(s) : x = s[k]
      BY RangeIs
    <2>2. CASE k = 1
      BY <2>1, <2>2, <1>1
    <2>3. CASE k # 1
      <3>1. k - 1 \in 1..(Len(s) - 1) /\ (k - 1) + 1 = k
        BY <2>3, <1>2
      <3>2. Tail(s)[k - 1] = x
        BY <2>1, <3>1, <1>3
      <3> QED
        BY <1>0, <3>1, <3>2
    <2> QED
      BY <2>2, <2>3
  <1>5. \A x \in Range(Tail(s)) : x \in Range(s)
    <2> TAKE x \in Range(Tail(s))
    <2>1. PICK k \in 1..(Len(s) - 1) : x = Tail(s)[k]
      BY <1>0
    <2>2. k + 1 \in 1..Len(s) /\ x = s[k + 1]
      BY <2>1, <1>2, <1>3
    <2> QED
      BY <2>2, <1>0
  <1>6. Head(s) \in Range(s)
    BY <1>1, <1>2, RangeIs
  <1> QED
    BY <1>1, <1>4, <1>5, <1>6

LEMMA RangeConcat ==
  ASSUME NEW T, NEW s \in Seq(T), NEW t \in Seq(T)
  PROVE  s \o t \in Seq(T) /\ Range(s \o t) = Range(s) \cup Range(t)
PROOF
  <1>1. s \o t \in Seq(T) /\ Len(s \o t) = Len(s) + Len(t) /\ Len(s) \in Nat /\ Len(t) \in Nat
    OBVIOUS
  <1>2. \A k \in 1..Len(s) : (s \o t)[k] = s[k]
    OBVIOUS
  <1>3. \A k \in 1..Len(t) : (s \o t)[Len(s) + k] = t[k]
    OBVIOUS
  <1> DEFINE u == s \o t
  <1>0. /\ Range(u) = {u[k] : k \in 1..(Len(s) + Len(t))}
        /\ Range(s) = {s[k] : k \in 1..Len(s)} /\ Range(t) = {t[k] : k \in 1..Len(t)}
    <2>1. Range(u) = {u[k] : k \in 1..Len(u)}
      BY <1>1, RangeIs
    <2> QED
      BY <1>1, <2>1, RangeIs
  <1>4. \A x \in Range(s \o t) : x \in Range(s) \cup Range(t)
    <2> TAKE x \in Range(s \o t)
    <2>1. PICK k \in 1..(Len(s) + Len(t)) : x = (s \o t)[k]
      BY <1>0
    <2>2. CASE k <= Len(s)
      BY <2>1, <2>2, <1>0, <1>1, <1>2
    <2>3. CASE ~(k <= Len(s))
      <3>1. k - Len(s) \in 1..Len(t) /\ Len(s) + (k - Len(s)) = k
        BY <2>1, <2>3, <1>1
      <3> QED
        BY <2>1, <3>1, <1>0, <1>3
    <2> QED
      BY <2>2, <2>3
  <1>5. \A x \in Range(s) : x \in Range(s \o t)
    <2> TAKE x \in Range(s)
    <2>1. PICK k \in 1..Len(s) : x = s[k]
      BY RangeIs
    <2>2. k \in 1..Len(s \o t) /\ (s \o t)[k] = x
      BY <2>1, <1>1, <1>2
    <2> QED
      BY <2>2, <1>0, <1>1
  <1>6. \A x \in Range(t) : x \in Range(s \o t)
    <2> TAKE x \in Range(t)
    <2>1. PICK k \in 1..Len(t) : x = t[k]
      BY RangeIs
    <2>2. Len(s) + k \in 1..Len(s \o t) /\ (s \o t)[Len(s) + k] = x
      BY <2>1, <1>1, <1>3
    <2> QED
      BY <2>2, <1>0, <1>1
  <1> QED
    BY <1>1, <1>4, <1>5, <1>6
-----------------------------------------------------------------------------
(* The deque and the deferred events hold rising indices into made.        *)
Rising(s) == \A k, l \in 1..Len(s) : k < l => s[k] < s[l]

LEMMA RisingEmpty == Rising(<<>>)
  BY DEF Rising

LEMMA RisingAppend ==
  ASSUME NEW s \in Seq(Nat), NEW n \in Nat, Rising(s), \A i \in Range(s) : i < n
  PROVE  Rising(Append(s, n))
PROOF
  <1> DEFINE t == Append(s, n)
  <1>1. Len(t) = Len(s) + 1 /\ Len(s) \in Nat
    OBVIOUS
  <1>2. \A k \in 1..Len(s) : t[k] = s[k] /\ s[k] < n
    BY RangeIs
  <1>3. t[Len(s) + 1] = n
    OBVIOUS
  <1> SUFFICES ASSUME NEW k \in 1..Len(t), NEW l \in 1..Len(t), k < l PROVE t[k] < t[l]
    BY DEF Rising
  <1>4. k \in 1..Len(s)
    BY <1>1
  <1>5. CASE l \in 1..Len(s)
    BY <1>2, <1>4, <1>5 DEF Rising
  <1>6. CASE l = Len(s) + 1
    BY <1>2, <1>3, <1>4, <1>6
  <1> QED
    BY <1>1, <1>5, <1>6

LEMMA RisingTail ==
  ASSUME NEW s \in Seq(Nat), s # <<>>, Rising(s)
  PROVE  Rising(Tail(s)) /\ \A i \in Range(Tail(s)) : Head(s) < i
PROOF
  <1> DEFINE t == Tail(s)
  <1>1. Len(t) = Len(s) - 1 /\ Len(s) \in Nat /\ Len(s) > 0 /\ t \in Seq(Nat)
    OBVIOUS
  <1>2. \A k \in 1..Len(t) : t[k] = s[k + 1] /\ k + 1 \in 1..Len(s)
    OBVIOUS
  <1>3. Rising(t)
    BY <1>1, <1>2 DEF Rising
  <1>4. \A i \in Range(t) : Head(s) < i
    <2> TAKE i \in Range(t)
    <2>1. PICK k \in 1..Len(t) : i = t[k]
      BY <1>1, RangeIs
    <2>2. 1 \in 1..Len(s) /\ 1 < k + 1
      BY <1>1
    <2> QED
      BY <1>2, <2>1, <2>2 DEF Rising
  <1> QED
    BY <1>3, <1>4

(* A message that must be read before another one has the earlier event:   *)
(* only a turn may have been made after a button read later.               *)
Ordered(p, q)  == IsButton(p) \/ ~IsButton(q) => p.event < q.event
InLine(s)      == \A k, l \in 1..Len(s) : k < l => Ordered(s[k], s[l])
Before(S, T)   == \A p \in S, q \in T : Ordered(p, q)

LEMMA LineEmpty == InLine(<<>>)
  BY DEF InLine

LEMMA LineAppend ==
  ASSUME NEW T, NEW s \in Seq(T), NEW q \in T, InLine(s), Before(Range(s), {q})
  PROVE  InLine(Append(s, q))
PROOF
  <1> DEFINE t == Append(s, q)
  <1>1. Len(t) = Len(s) + 1 /\ Len(s) \in Nat
    OBVIOUS
  <1>2. \A k \in 1..Len(s) : t[k] = s[k] /\ Ordered(s[k], q)
    BY RangeIs DEF Before
  <1>3. t[Len(s) + 1] = q
    OBVIOUS
  <1> SUFFICES ASSUME NEW k \in 1..Len(t), NEW l \in 1..Len(t), k < l
               PROVE  Ordered(t[k], t[l])
    BY DEF InLine
  <1>4. k \in 1..Len(s)
    BY <1>1
  <1>5. CASE l \in 1..Len(s)
    BY <1>2, <1>4, <1>5 DEF InLine
  <1>6. CASE l = Len(s) + 1
    BY <1>2, <1>3, <1>4, <1>6
  <1> QED
    BY <1>1, <1>5, <1>6

LEMMA LineTail ==
  ASSUME NEW T, NEW s \in Seq(T), s # <<>>, InLine(s)
  PROVE  InLine(Tail(s)) /\ Before({Head(s)}, Range(Tail(s)))
PROOF
  <1> DEFINE t == Tail(s)
  <1>1. Len(t) = Len(s) - 1 /\ Len(s) \in Nat /\ Len(s) > 0 /\ t \in Seq(T) /\ Head(s) = s[1]
    OBVIOUS
  <1>2. \A k \in 1..Len(t) : t[k] = s[k + 1] /\ k + 1 \in 1..Len(s)
    OBVIOUS
  <1>3. InLine(t)
    BY <1>1, <1>2 DEF InLine
  <1>4. \A q \in Range(t) : Ordered(Head(s), q)
    <2> TAKE q \in Range(t)
    <2>1. PICK k \in 1..Len(t) : q = t[k]
      BY <1>1, RangeIs, ZenonT(40)
    <2>2. 1 \in 1..Len(s) /\ 1 < k + 1
      BY <1>1
    <2> QED
      BY <1>1, <1>2, <2>1, <2>2 DEF InLine
  <1> QED
    BY <1>3, <1>4 DEF Before

LEMMA LineConcat ==
  ASSUME NEW T, NEW s \in Seq(T), NEW t \in Seq(T),
         InLine(s), InLine(t), Before(Range(s), Range(t))
  PROVE  InLine(s \o t)
PROOF
  <1> DEFINE u == s \o t
  <1>1. Len(u) = Len(s) + Len(t) /\ Len(s) \in Nat /\ Len(t) \in Nat
    OBVIOUS
  <1>2. \A k \in 1..Len(s) : u[k] = s[k] /\ s[k] \in Range(s)
    BY RangeIs
  <1>3. \A k \in 1..Len(u) : k > Len(s) =>
           /\ k - Len(s) \in 1..Len(t)
           /\ u[k] = t[k - Len(s)] /\ u[k] \in Range(t)
    <2> TAKE k \in 1..Len(u)
    <2> HAVE k > Len(s)
    <2>1. k - Len(s) \in 1..Len(t)
      BY <1>1
    <2>2. u[k] = t[k - Len(s)]
      BY <1>1
    <2> QED
      BY <2>1, <2>2, RangeIs
  <1> SUFFICES ASSUME NEW k \in 1..Len(u), NEW l \in 1..Len(u), k < l
               PROVE  Ordered(u[k], u[l])
    BY DEF InLine
  <1>4. CASE l <= Len(s)
    <2>1. k \in 1..Len(s) /\ l \in 1..Len(s)
      BY <1>1, <1>4
    <2> QED
      BY <1>2, <2>1 DEF InLine
  <1>5. CASE k <= Len(s) /\ l > Len(s)
    <2>1. k \in 1..Len(s)
      BY <1>1, <1>5
    <2> QED
      BY <1>2, <1>3, <1>5, <2>1 DEF Before
  <1>6. CASE k > Len(s) /\ l > Len(s)
    <2>1. k - Len(s) < l - Len(s)
      BY <1>1
    <2> QED
      BY <1>3, <1>6, <2>1 DEF InLine
  <1> QED
    BY <1>1, <1>4, <1>5, <1>6

(* Going round the ring loses its oldest messages.                         *)
LEMMA WrappedKeeps ==
  ASSUME NEW T, NEW s \in Seq(T)
  PROVE  /\ Wrapped(s) \in Seq(T) /\ Range(Wrapped(s)) \subseteq Range(s)
         /\ InLine(s) => InLine(Wrapped(s))
         /\ Len(s) < RingSize => Wrapped(s) = s
PROOF
  <1> DEFINE r == Len(s) % RingSize
             d == Len(s) - r
             w == Wrapped(s)
  <1>1. Len(s) \in Nat /\ r \in 0..Len(s) /\ (Len(s) < RingSize => r = Len(s))
    BY PanelAssumption
  <1>2. w = SubSeq(s, d + 1, Len(s)) /\ d \in 0..Len(s)
    BY <1>1 DEF Wrapped
  <1> HIDE DEF r, d, w
  <1>3. w \in Seq(T) /\ Len(w) = Len(s) - d
    BY <1>1, <1>2
  <1>4. \A k \in 1..Len(w) : w[k] = s[d + k] /\ d + k \in 1..Len(s)
    BY <1>1, <1>2, <1>3
  <1>5. Range(w) \subseteq Range(s)
    <2> SUFFICES ASSUME NEW x \in Range(w) PROVE x \in Range(s)
      OBVIOUS
    <2>1. PICK k \in 1..Len(w) : x = w[k]
      BY <1>3, RangeIs
    <2> QED
      BY <2>1, <1>4, RangeIs
  <1>6. InLine(s) => InLine(w)
    <2> SUFFICES ASSUME InLine(s), NEW k \in 1..Len(w), NEW l \in 1..Len(w), k < l
                 PROVE  Ordered(w[k], w[l])
      BY DEF InLine
    <2>1. d + k < d + l
      BY <1>2
    <2> QED
      BY <1>4, <2>1 DEF InLine
  <1>7. Len(s) < RingSize => w = s
    <2> HAVE Len(s) < RingSize
    <2>1. d = 0
      BY <1>1 DEF d
    <2> QED
      BY <1>2, <2>1
  <1> QED
    BY <1>3, <1>5, <1>6, <1>7 DEF w
-----------------------------------------------------------------------------
(* The invariant.  Events are pending while the deque or the deferred      *)
(* events hold them; the rest was taken, and no event was taken while one  *)
(* that must precede it was pending.                                       *)
Pending          == Range(inbox) \cup Range(deferred)
Taken            == (1..Len(made)) \ Pending
IsTransition(i)  == made[i].kind \in {"press", "release"}
Precedes(i, j)   == IsTransition(i) \/ ~IsTransition(j) => i < j

QueueInv ==
  /\ Rising(inbox) /\ Rising(deferred)
  /\ Pending \subseteq 1..Len(made)
  /\ \A i \in Range(deferred) : IsTransition(i) /\ \A j \in Range(inbox) : i < j
  /\ \A i \in Taken, j \in Pending : Precedes(i, j)

(* A pass defers only after a transition, and ends with nothing left.      *)
PassInv ==
  /\ deferred # <<>> => took /\ dwell > 0
  /\ step \in {"top", "spinning"} => deferred = <<>> /\ out = <<>>

(* What was sent is of events taken, in line from the firmware backwards.  *)
Sent == Range(out) \cup Range(ring) \cup Range(got)

MessageInv == \A p \in Sent : p.event \in Taken /\ (IsButton(p) <=> IsTransition(p.event))

LineInv ==
  /\ InLine(got) /\ InLine(ring) /\ InLine(out)
  /\ Before(Range(got), Range(ring) \cup Range(out))
  /\ Before(Range(ring), Range(out))

(* Unless something was lost, every event taken that has a wire was sent.  *)
SentInv == ~lost => \A i \in Taken : Sends(i) => \E p \in Sent : p.event = i

(* The masks are of the button transitions taken.                          *)
DownTaken ==
  {b \in Button :
     \E j \in Taken :
       /\ made[j] = Press(b)
       /\ \A k \in Taken : k > j => made[k] # Release(b)}

HeldInv ==
  /\ \A c \in Channel : held[c] = On(c, DownTaken)
  /\ \A p \in Sent : IsButton(p) => p.mask = On(p.channel, DownAfter(p.event))

(* Chunks counted and chunks run since the last delivery.                  *)
PaceInv ==
  /\ step = "taking" \/ ~delivered => since = dwell
  /\ step = "top" => since = dwell \/ since > chunks
  /\ step = "spinning" => since = dwell \/ since >= chunks
  /\ dwell > 0 => /\ ~took => ~HasButton(out)
                  /\ \A k, l \in 1..Len(out) : IsButton(out[k]) /\ IsButton(out[l]) => k = l

Inv == TypeOK /\ QueueInv /\ PassInv /\ MessageInv /\ LineInv /\ SentInv /\ HeldInv /\ PaceInv

LEMMA InitInv == Init => Inv
PROOF
  <1> SUFFICES ASSUME Init PROVE Inv
    OBVIOUS
  <1> USE DEF Init
  <1>1. /\ Range(inbox) = {} /\ Range(deferred) = {} /\ Range(out) = {}
        /\ Range(ring) = {} /\ Range(got) = {} /\ 1..Len(made) = {}
    BY RangeEmpty
  <1>2. TypeOK
    <2>1. held \in [Channel -> SUBSET Button]
      OBVIOUS
    <2>2. chunks \in 0..dwell /\ since \in 0..dwell
      BY PanelAssumption
    <2> QED
      BY <2>1, <2>2, RangeEmpty DEF TypeOK
  <1>3. QueueInv /\ PassInv /\ MessageInv /\ LineInv /\ SentInv
    BY <1>1, RisingEmpty, LineEmpty
       DEF QueueInv, PassInv, MessageInv, LineInv, SentInv, Pending, Taken, Sent, Before
  <1>4. HeldInv
    BY <1>1 DEF HeldInv, DownTaken, Taken, Sent, On
  <1>5. PaceInv
    BY PanelAssumption DEF PaceInv, HasButton
  <1> QED
    BY <1>2, <1>3, <1>4, <1>5 DEF Inv

-----------------------------------------------------------------------------
(* What a step does to the queues and to what was sent.                    *)
Adds(ev) ==
  /\ made' = Append(made, ev)
  /\ inbox' = Append(inbox, Len(made) + 1)
  /\ UNCHANGED <<dwell, step, drain, held, pacing, guest>>

Takes ==
  /\ inbox # <<>> /\ inbox' = Tail(inbox)
  /\ IsTransition(Head(inbox)) => deferred = <<>>
  /\ UNCHANGED <<made, deferred, ring, got, lost>>

TakesAnd(q) ==
  /\ Takes
  /\ q \in Message /\ q.event = Head(inbox)
  /\ IsButton(q) <=> IsTransition(Head(inbox))
  /\ out' = Append(out, q)

TakesOnly == Takes /\ ~Sends(Head(inbox)) /\ UNCHANGED out

Defers ==
  /\ inbox # <<>> /\ inbox' = Tail(inbox)
  /\ IsTransition(Head(inbox))
  /\ deferred' = Append(deferred, Head(inbox))
  /\ UNCHANGED <<made, out, ring, got, lost>>

Ends ==
  /\ inbox = <<>> /\ inbox' = deferred /\ deferred' = <<>> /\ out' = <<>>
  /\ UNCHANGED <<made, got>>
  /\ ring' \in {ring, Wrapped(ring \o out)}
  /\ ~lost' => ~lost /\ Range(ring') = Range(ring) \cup Range(out)

Reading ==
  /\ ring # <<>> /\ got' = Append(got, Head(ring)) /\ ring' = Tail(ring)
  /\ UNCHANGED <<made, inbox, deferred, out, lost>>

Still == UNCHANGED <<made, inbox, deferred, out, ring, got, lost>>

LEMMA UserSteps ==
  ASSUME User
  PROVE  (\E ev \in Events : Adds(ev) /\ Len(made) < MaxEvents)
           \/ UNCHANGED <<made, dwell, inbox, step, drain, held, pacing, guest>>
PROOF
  <1>1. CASE \E b \in Button : PressKey(b) \/ ReleaseKey(b)
    <2>1. PICK b \in Button : PressKey(b) \/ ReleaseKey(b)
      BY <1>1
    <2>2. Press(b) \in Events /\ Release(b) \in Events
      BY DEF Events, Press, Release
    <2> QED
      BY <2>1, <2>2 DEF PressKey, ReleaseKey, Send, Adds
  <1>2. CASE \E e \in Encoder : TurnKnob(e)
    <2>1. PICK e \in Encoder : TurnKnob(e)
      BY <1>2
    <2>2. Turn(e) \in Events /\ Far(e) \in Events
      BY DEF Events, Turn, Far
    <2> QED
      BY <2>1, <2>2 DEF TurnKnob, Send, Adds
  <1>3. CASE Pause \/ Unpause
    BY <1>3 DEF Pause, Unpause
  <1> QED
    BY <1>1, <1>2, <1>3 DEF User

(* The next event of a pass.                                               *)
LEMMA NextEvent ==
  ASSUME TypeOK, QueueInv, inbox # <<>>
  PROVE  /\ Head(inbox) \in Index /\ Head(inbox) \in 1..Len(made)
         /\ Head(inbox) \in Pending /\ Tail(inbox) \in Seq(Index)
         /\ Event \in Events /\ Event = made[Head(inbox)]
         /\ Event.kind \in {"press", "release"} => Event.code \in Button
PROOF
  <1>1. /\ Head(inbox) \in Index /\ Tail(inbox) \in Seq(Index)
        /\ Head(inbox) \in Range(inbox)
    BY RangeTail DEF TypeOK
  <1>2. Head(inbox) \in Pending /\ Head(inbox) \in 1..Len(made)
    BY <1>1 DEF QueueInv, Pending
  <1>3. Event \in Events
    BY <1>2 DEF Event, TypeOK
  <1>4. Event.kind \in {"press", "release"} => Event.code \in Button
    BY <1>3 DEF Events
  <1> QED
    BY <1>1, <1>2, <1>3, <1>4 DEF Event

LEMMA TurnSteps == ASSUME Inv, TakeTurn PROVE \E q \in Message : TakesAnd(q)
PROOF
  <1> DEFINE q == [event |-> Head(inbox), channel |-> Nowhere, mask |-> {}]
  <1>1. inbox # <<>> /\ inbox' = Tail(inbox) /\ out' = Append(out, q)
    BY DEF TakeTurn, Pop
  <1>2. Head(inbox) \in Index /\ Event = made[Head(inbox)]
    BY <1>1, NextEvent DEF Inv
  <1>3. q \in Message /\ q.event = Head(inbox) /\ ~IsButton(q)
    BY <1>2 DEF Message, IsButton
  <1>4. ~IsTransition(Head(inbox))
    BY <1>2 DEF TakeTurn, IsTransition
  <1>5. Takes
    BY <1>1, <1>4 DEF TakeTurn, Pop, Takes, user, guest
  <1> QED
    BY <1>1, <1>3, <1>4, <1>5 DEF TakesAnd

LEMMA ButtonSteps ==
  ASSUME Inv, TakeButton PROVE TakesOnly \/ \E q \in Message : TakesAnd(q)
PROOF
  <1> DEFINE c == Wire[Event.code]
             mask == Mask(c, Event)
             q == [event |-> Head(inbox), channel |-> c, mask |-> mask]
  <1>1. inbox # <<>> /\ inbox' = Tail(inbox)
    BY DEF TakeButton, Pop
  <1>2. /\ Head(inbox) \in Index /\ Event = made[Head(inbox)]
        /\ Event.code \in Button /\ IsTransition(Head(inbox))
    BY <1>1, NextEvent DEF Inv, TakeButton, IsTransition
  <1>3. deferred = <<>>
    BY DEF TakeButton, Inv, PassInv
  <1>4. Takes
    BY <1>1, <1>3 DEF TakeButton, Pop, Takes, user, guest
  <1>5. CASE c = Nowhere
    <2>1. ~Sends(Head(inbox))
      BY <1>2, <1>5 DEF Sends, IsTransition
    <2> QED
      BY <1>4, <1>5, <2>1 DEF TakeButton, TakesOnly
  <1>6. CASE c # Nowhere
    <2>1. c \in Channel
      BY <1>2, <1>6 DEF Channel
    <2>2. held[c] \subseteq Button
      BY <2>1 DEF Inv, TypeOK
    <2>3. mask \subseteq Button
      BY <1>2, <2>2 DEF Mask
    <2> HIDE DEF mask
    <2>4. q \in Message /\ q.event = Head(inbox) /\ IsButton(q)
      BY <1>2, <1>6, <2>1, <2>3 DEF Message, IsButton
    <2>5. out' = Append(out, q)
      BY <1>6 DEF TakeButton, mask
    <2> QED
      BY <1>2, <1>4, <2>4, <2>5 DEF TakesAnd
  <1> QED
    BY <1>5, <1>6

LEMMA FarSteps == ASSUME Inv, TurnRaises PROVE TakesOnly
PROOF
  <1>1. inbox # <<>> /\ inbox' = Tail(inbox)
    BY DEF TurnRaises
  <1>2. Event = made[Head(inbox)]
    BY DEF Event
  <1>3. ~IsTransition(Head(inbox)) /\ ~Sends(Head(inbox))
    BY <1>2 DEF TurnRaises, IsTransition, Sends
  <1> QED
    BY <1>1, <1>3 DEF TurnRaises, TakesOnly, Takes, user, drain, guest

LEMMA DeferSteps == ASSUME Inv, Defer PROVE Defers
PROOF
  <1>1. IsTransition(Head(inbox))
    BY DEF Defer, Event, IsTransition
  <1> QED
    BY <1>1 DEF Defer, Pop, Defers, user, guest

LEMMA EndSteps == ASSUME Inv, EndEmpty \/ Feed \/ FeedRaises PROVE Ends
PROOF
  <1>1. EndPass
    BY DEF EndEmpty, Feed, FeedRaises
  <1>2. /\ inbox = <<>> /\ inbox' = deferred /\ deferred' = <<>> /\ out' = <<>>
        /\ UNCHANGED <<made, got>>
    BY <1>1 DEF EndPass, Requeue, user
  <1>3. CASE EndEmpty
    BY <1>2, <1>3, RangeEmpty DEF EndEmpty, Ends
  <1>4. CASE FeedRaises
    BY <1>2, <1>4 DEF FeedRaises, Ends
  <1>5. CASE Feed
    <2> DEFINE fed == ring \o out
    <2>1. fed \in Seq(Message) /\ Range(fed) = Range(ring) \cup Range(out)
      BY RangeConcat DEF Inv, TypeOK
    <2>2. Len(fed) \in Nat /\ RingSize \in Nat
      BY <2>1, PanelAssumption
    <2>3. ring' = Wrapped(fed) /\ lost' = (lost \/ Len(fed) >= RingSize)
      BY <1>5 DEF Feed, Stream
    <2>4. ~lost' => ~lost /\ Wrapped(fed) = fed
      <3> HIDE DEF fed
      <3>1. ~lost' => ~lost /\ ~(Len(fed) >= RingSize)
        BY <2>3
      <3>2. ~(Len(fed) >= RingSize) => Len(fed) < RingSize
        BY <2>2
      <3> QED
        BY <2>1, <3>1, <3>2, WrappedKeeps
    <2> QED
      BY <1>2, <2>1, <2>3, <2>4 DEF Ends
  <1> QED
    BY <1>3, <1>4, <1>5

LEMMA StepKinds ==
  ASSUME Inv, [Next]_vars
  PROVE  \/ (\E ev \in Events : Adds(ev) /\ Len(made) < MaxEvents)
         \/ (\E q \in Message : TakesAnd(q)) \/ TakesOnly
         \/ Defers \/ Ends \/ Reading \/ Still
PROOF
  <1>1. CASE User
    BY <1>1, UserSteps DEF Still, drain, guest
  <1>2. CASE Worker
    <2>1. CASE Wait
      BY <2>1 DEF Wait, Still, user, drain, guest
    <2>2. CASE Begin
      BY <2>2 DEF Begin, Still, user, guest, Inv, PassInv
    <2>3. CASE EndChunk
      BY <2>3 DEF EndChunk, Still, user, drain, guest
    <2> QED
      BY <1>2, <2>1, <2>2, <2>3, TurnSteps, FarSteps, DeferSteps, ButtonSteps, EndSteps
         DEF Worker
  <1>3. CASE Rx
    BY <1>3 DEF Rx, Reading, user, drain
  <1>4. CASE UNCHANGED vars
    BY <1>4 DEF vars, Still, user, drain, guest
  <1> QED
    BY <1>1, <1>2, <1>3, <1>4 DEF Next

(* Appending an event leaves those made before as they were.               *)
LEMMA MadeKept ==
  ASSUME TypeOK, NEW ev \in Events, made' = Append(made, ev)
  PROVE  /\ Len(made') = Len(made) + 1 /\ Len(made) \in Nat
         /\ 1..Len(made') = (1..Len(made)) \cup {Len(made) + 1}
         /\ \A i \in 1..Len(made) : made'[i] = made[i]
         /\ made' \in Seq(Events)
PROOF
  <1>1. made \in Seq(Events)
    BY DEF TypeOK
  <1>2. Len(made') = Len(made) + 1 /\ Len(made) \in Nat /\ made' \in Seq(Events)
    BY <1>1
  <1>3. \A i \in 1..Len(made) : made'[i] = made[i]
    BY <1>1
  <1> QED
    BY <1>2, <1>3

LEMMA QueuesOfNumbers ==
  ASSUME TypeOK PROVE inbox \in Seq(Nat) /\ deferred \in Seq(Nat) /\ Index \subseteq Nat
PROOF
  <1>1. Index \subseteq Nat
    BY PanelAssumption DEF Index
  <1>2. Seq(Index) \subseteq Seq(Nat)
    BY <1>1, SeqMonotonic
  <1> QED
    BY <1>1, <1>2 DEF TypeOK

(* What is pending and taken after each kind of step.                      *)
LEMMA AddEffect ==
  ASSUME TypeOK, QueueInv, NEW ev \in Events, Adds(ev)
  PROVE  /\ Range(inbox') = Range(inbox) \cup {Len(made) + 1}
         /\ Range(deferred') = Range(deferred)
         /\ Pending' = Pending \cup {Len(made) + 1}
         /\ Taken' = Taken
PROOF
  <1>1. inbox \in Seq(Nat) /\ Len(made) + 1 \in Nat
    BY QueuesOfNumbers, MadeKept DEF Adds
  <1>2. Range(inbox') = Range(inbox) \cup {Len(made) + 1}
    BY <1>1, RangeAppend DEF Adds
  <1>3. deferred' = deferred
    BY DEF Adds, drain
  <1>4. Pending' = Pending \cup {Len(made) + 1}
    BY <1>2, <1>3 DEF Pending
  <1>5. 1..Len(made') = (1..Len(made)) \cup {Len(made) + 1} /\ Len(made) \in Nat
    BY MadeKept DEF Adds
  <1>6. Len(made) + 1 \notin 1..Len(made)
    BY <1>5
  <1>7. Taken' = Taken
    BY <1>4, <1>5, <1>6 DEF Taken, QueueInv
  <1> QED
    BY <1>2, <1>3, <1>4, <1>7

LEMMA TakeEffect ==
  ASSUME TypeOK, QueueInv, inbox # <<>>, inbox' = Tail(inbox), made' = made
  PROVE  /\ Range(inbox) = Range(inbox') \cup {Head(inbox)}
         /\ Rising(inbox') /\ \A i \in Range(inbox') : Head(inbox) < i
         /\ \A i \in Range(deferred) : i < Head(inbox)
         /\ Head(inbox) \in Nat
         /\ deferred' = deferred =>
              /\ Pending = Pending' \cup {Head(inbox)} /\ Head(inbox) \notin Pending'
              /\ Taken' = Taken \cup {Head(inbox)}
PROOF
  <1> DEFINE h == Head(inbox)
  <1>1. inbox \in Seq(Nat) /\ h \in Nat
    BY QueuesOfNumbers, NextEvent
  <1>2. Range(inbox) = Range(inbox') \cup {h}
    BY <1>1, RangeTail
  <1>3. Rising(inbox') /\ \A i \in Range(inbox') : h < i
    BY <1>1, RisingTail DEF QueueInv
  <1>4. \A i \in Range(deferred) : i < h
    BY <1>2 DEF QueueInv
  <1>5. ASSUME deferred' = deferred
        PROVE  /\ Pending = Pending' \cup {h} /\ h \notin Pending'
               /\ Taken' = Taken \cup {h}
    <2>1. Pending = Pending' \cup {h}
      BY <1>2, <1>5 DEF Pending
    <2>2. h \notin Range(inbox') /\ h \notin Range(deferred)
      BY <1>1, <1>3, <1>4
    <2>3. h \notin Pending'
      BY <2>2, <1>5 DEF Pending
    <2>4. h \in 1..Len(made)
      BY NextEvent
    <2>5. Taken' = Taken \cup {h}
      BY <2>1, <2>3, <2>4 DEF Taken
    <2> QED
      BY <2>1, <2>3, <2>5
  <1> QED
    BY <1>1, <1>2, <1>3, <1>4, <1>5

LEMMA DeferEffect ==
  ASSUME TypeOK, QueueInv, Defers
  PROVE  /\ Range(deferred') = Range(deferred) \cup {Head(inbox)} /\ Rising(deferred')
         /\ Pending' = Pending /\ Taken' = Taken
PROOF
  <1>1. deferred \in Seq(Nat) /\ Head(inbox) \in Nat
    BY QueuesOfNumbers, NextEvent DEF Defers
  <1>2. Range(deferred') = Range(deferred) \cup {Head(inbox)}
    BY <1>1, RangeAppend DEF Defers
  <1>3. /\ Range(inbox) = Range(inbox') \cup {Head(inbox)}
        /\ \A i \in Range(deferred) : i < Head(inbox)
    BY TakeEffect DEF Defers
  <1>4. Rising(deferred')
    BY <1>1, <1>3, RisingAppend DEF QueueInv, Defers
  <1>5. Pending' = Pending
    BY <1>2, <1>3 DEF Pending
  <1> QED
    BY <1>2, <1>4, <1>5 DEF Taken, Defers

LEMMA EndEffect ==
  ASSUME Ends
  PROVE  /\ Range(inbox) = {} /\ Range(deferred') = {} /\ Range(inbox') = Range(deferred)
         /\ Pending' = Pending /\ Taken' = Taken
PROOF
  <1>1. Range(inbox) = {} /\ Range(deferred') = {} /\ Range(inbox') = Range(deferred)
    BY RangeEmpty DEF Ends
  <1>2. Pending' = Pending
    BY <1>1 DEF Pending
  <1> QED
    BY <1>1, <1>2 DEF Taken, Ends
-----------------------------------------------------------------------------
(* The queues: one step per kind.                                          *)
LEMMA QueueStep == ASSUME Inv, [Next]_vars PROVE QueueInv'
PROOF
  <1> USE DEF Inv
  <1>1. ASSUME NEW ev \in Events, Adds(ev) PROVE QueueInv'
    <2> DEFINE n == Len(made) + 1
    <2>1. /\ Range(inbox') = Range(inbox) \cup {n} /\ Range(deferred') = Range(deferred)
          /\ Pending' = Pending \cup {n} /\ Taken' = Taken
      BY <1>1, AddEffect
    <2>2. /\ Len(made') = n /\ Len(made) \in Nat
          /\ \A i \in 1..Len(made) : made'[i] = made[i]
      BY <1>1, MadeKept DEF Adds
    <2>3. \A i \in Pending \cup Taken : i \in 1..Len(made) /\ i < n
      BY <2>2 DEF QueueInv, Taken
    <2>4. \A i \in Pending \cup Taken : IsTransition(i)' = IsTransition(i)
      BY <2>2, <2>3 DEF IsTransition
    <2>5. Rising(inbox')
      <3>1. \A i \in Range(inbox) : i < n
        BY <2>3 DEF Pending
      <3>2. inbox \in Seq(Nat) /\ n \in Nat /\ inbox' = Append(inbox, n)
        BY <1>1, <2>2, QueuesOfNumbers DEF Adds
      <3> QED
        BY <3>1, <3>2, RisingAppend DEF QueueInv
    <2>6. Rising(deferred')
      BY <1>1 DEF Adds, drain, QueueInv
    <2>7. Pending' \subseteq 1..Len(made')
      BY <2>1, <2>2, <2>3
    <2>8. \A i \in Range(deferred') : IsTransition(i)' /\ \A j \in Range(inbox') : i < j
      BY <2>1, <2>3, <2>4 DEF QueueInv, Pending
    <2>9. \A i \in Taken', j \in Pending' : Precedes(i, j)'
      BY <2>1, <2>3, <2>4 DEF QueueInv, Precedes
    <2> QED
      BY <2>5, <2>6, <2>7, <2>8, <2>9 DEF QueueInv
  <1>2. ASSUME Takes PROVE QueueInv'
    <2> DEFINE h == Head(inbox)
    <2>1. made' = made /\ deferred' = deferred /\ inbox # <<>> /\ inbox' = Tail(inbox)
      BY <1>2 DEF Takes
    <2>2. /\ Range(inbox) = Range(inbox') \cup {h} /\ Rising(inbox')
          /\ \A i \in Range(inbox') : h < i
          /\ Pending = Pending' \cup {h} /\ Taken' = Taken \cup {h}
      BY <2>1, TakeEffect
    <2>3. \A i : IsTransition(i)' = IsTransition(i)
      BY <2>1 DEF IsTransition
    <2>4. \A j \in Pending' : Precedes(h, j)
      <3> TAKE j \in Pending'
      <3>1. CASE j \in Range(inbox')
        BY <2>2, <3>1 DEF Precedes
      <3>2. CASE j \in Range(deferred)
        <4>1. IsTransition(j) /\ deferred # <<>>
          BY <3>2, RangeEmpty DEF QueueInv
        <4> QED
          BY <1>2, <4>1 DEF Precedes, Takes
      <3> QED
        BY <2>1, <3>1, <3>2 DEF Pending
    <2>5. \A i \in Taken', j \in Pending' : Precedes(i, j)'
      <3>1. \A i \in Taken', j \in Pending' : Precedes(i, j)
        BY <2>2, <2>4 DEF QueueInv
      <3> QED
        BY <2>3, <3>1 DEF Precedes
    <2>6. \A i \in Range(deferred') : IsTransition(i)' /\ \A j \in Range(inbox') : i < j
      BY <2>1, <2>2, <2>3 DEF QueueInv
    <2> QED
      BY <2>1, <2>2, <2>5, <2>6 DEF QueueInv
  <1>3. ASSUME Defers PROVE QueueInv'
    <2> DEFINE h == Head(inbox)
    <2>1. /\ Range(deferred') = Range(deferred) \cup {h} /\ Rising(deferred')
          /\ Pending' = Pending /\ Taken' = Taken
      BY <1>3, DeferEffect
    <2>2. /\ Range(inbox) = Range(inbox') \cup {h} /\ Rising(inbox')
          /\ \A i \in Range(inbox') : h < i
      BY <1>3, TakeEffect DEF Defers
    <2>3. made' = made /\ IsTransition(h)
      BY <1>3 DEF Defers
    <2>4. \A i \in Range(deferred') : IsTransition(i)' /\ \A j \in Range(inbox') : i < j
      BY <2>1, <2>2, <2>3 DEF QueueInv, IsTransition
    <2>5. \A i \in Taken', j \in Pending' : Precedes(i, j)'
      BY <2>1, <2>3 DEF QueueInv, Precedes, IsTransition
    <2> QED
      BY <2>1, <2>2, <2>3, <2>4, <2>5 DEF QueueInv
  <1>4. ASSUME Ends PROVE QueueInv'
    <2>1. /\ Range(deferred') = {} /\ Pending' = Pending /\ Taken' = Taken
      BY <1>4, EndEffect
    <2>2. made' = made /\ inbox' = deferred /\ deferred' = <<>>
      BY <1>4 DEF Ends
    <2>3. \A i \in Taken', j \in Pending' : Precedes(i, j)'
      BY <2>1, <2>2 DEF QueueInv, Precedes, IsTransition
    <2> QED
      BY <2>1, <2>2, <2>3, RisingEmpty DEF QueueInv
  <1>5. ASSUME Reading \/ Still PROVE QueueInv'
    <2>1. made' = made /\ inbox' = inbox /\ deferred' = deferred
      BY <1>5 DEF Reading, Still
    <2>2. Pending' = Pending /\ Taken' = Taken
      BY <2>1 DEF Pending, Taken
    <2>3. \A i : IsTransition(i)' = IsTransition(i)
      BY <2>1 DEF IsTransition
    <2>4. \A i \in Taken', j \in Pending' : Precedes(i, j)'
      BY <2>2, <2>3 DEF QueueInv, Precedes
    <2> QED
      BY <2>1, <2>2, <2>3, <2>4 DEF QueueInv
  <1> QED
    BY <1>1, <1>2, <1>3, <1>4, <1>5, StepKinds DEF TakesAnd, TakesOnly

(* The deferred events and the stream belong to a pass.                    *)
LEMMA PassStep == ASSUME Inv, [Next]_vars PROVE PassInv'
PROOF
  <1> USE DEF Inv, PassInv
  <1>1. CASE User
    BY <1>1, UserSteps DEF Adds, drain
  <1>2. CASE Wait
    BY <1>2 DEF Wait, user, drain
  <1>3. CASE Begin
    BY <1>3 DEF Begin, user
  <1>4. CASE TakeTurn \/ Defer
    BY <1>4 DEF TakeTurn, Defer, Pop, user
  <1>5. CASE TakeButton
    BY <1>5 DEF TakeButton, Pop, user
  <1>6. CASE TurnRaises
    BY <1>6 DEF TurnRaises, user, drain
  <1>7. CASE EndEmpty \/ Feed \/ FeedRaises
    BY <1>7 DEF EndEmpty, Feed, FeedRaises, EndPass, user
  <1>8. CASE EndChunk
    BY <1>8 DEF EndChunk, user, drain
  <1>9. CASE Rx
    BY <1>9 DEF Rx, user, drain
  <1>10. CASE UNCHANGED vars
    BY <1>10 DEF vars, user, drain
  <1> QED
    BY <1>1, <1>2, <1>3, <1>4, <1>5, <1>6, <1>7, <1>8, <1>9, <1>10 DEF Next, Worker

(* The messages sent after each kind of step.                              *)
LEMMA SentEffect ==
  ASSUME TypeOK, QueueInv
  PROVE  /\ \A ev \in Events : Adds(ev) => Sent' = Sent
         /\ \A q \in Message : TakesAnd(q) => Sent' = Sent \cup {q}
         /\ TakesOnly \/ Defers \/ Reading \/ Still => Sent' = Sent
         /\ Ends => Sent' \subseteq Sent /\ (~lost' => ~lost /\ Sent' = Sent)
PROOF
  <1>1. out \in Seq(Message) /\ ring \in Seq(Message) /\ got \in Seq(Message)
    BY DEF TypeOK
  <1>2. \A ev \in Events : Adds(ev) => Sent' = Sent
    BY DEF Adds, drain, guest, Sent
  <1>3. \A q \in Message : TakesAnd(q) => Sent' = Sent \cup {q}
    <2> SUFFICES ASSUME NEW q \in Message, TakesAnd(q) PROVE Sent' = Sent \cup {q}
      OBVIOUS
    <2>1. Range(out') = Range(out) \cup {q}
      BY <1>1, RangeAppend DEF TakesAnd
    <2> QED
      BY <2>1 DEF TakesAnd, Takes, Sent
  <1>4. TakesOnly \/ Defers \/ Still => Sent' = Sent
    BY DEF TakesOnly, Takes, Defers, Still, Sent
  <1>5. Reading => Sent' = Sent
    <2> HAVE Reading
    <2>1. Head(ring) \in Message /\ Range(ring) = Range(ring') \cup {Head(ring)}
      BY <1>1, RangeTail DEF Reading
    <2>2. Range(got') = Range(got) \cup {Head(ring)}
      BY <1>1, <2>1, RangeAppend DEF Reading
    <2> QED
      BY <2>1, <2>2 DEF Reading, Sent
  <1>6. Ends => Sent' \subseteq Sent /\ (~lost' => ~lost /\ Sent' = Sent)
    <2> HAVE Ends
    <2>1. Range(out') = {} /\ got' = got
      BY RangeEmpty DEF Ends
    <2>2. Range(ring') \subseteq Range(ring) \cup Range(out)
      <3>1. ring \o out \in Seq(Message) /\ Range(ring \o out) = Range(ring) \cup Range(out)
        BY <1>1, RangeConcat
      <3>2. Range(Wrapped(ring \o out)) \subseteq Range(ring \o out)
        BY <3>1, WrappedKeeps
      <3> QED
        BY <3>1, <3>2 DEF Ends
    <2> QED
      BY <2>1, <2>2 DEF Ends, Sent
  <1> QED
    BY <1>2, <1>3, <1>4, <1>5, <1>6

(* What was made, taken and sent by any step.                              *)
LEMMA TakenGrows ==
  ASSUME Inv, [Next]_vars
  PROVE  /\ \A i \in 1..Len(made) : made'[i] = made[i]
         /\ Taken \subseteq Taken' /\ Taken' \subseteq 1..Len(made)
PROOF
  <1> USE DEF Inv
  <1>1. Taken \subseteq 1..Len(made)
    BY DEF Taken
  <1>2. ASSUME NEW ev \in Events, Adds(ev)
        PROVE  Taken' = Taken /\ \A i \in 1..Len(made) : made'[i] = made[i]
    BY <1>2, AddEffect, MadeKept DEF Adds
  <1>3. ASSUME Takes PROVE made' = made /\ Taken' = Taken \cup {Head(inbox)}
    BY <1>3, TakeEffect DEF Takes
  <1>4. ASSUME Takes PROVE Head(inbox) \in 1..Len(made)
    BY <1>4, NextEvent DEF Takes
  <1>5. Defers => made' = made /\ Taken' = Taken
    BY DeferEffect DEF Defers
  <1>6. Ends => made' = made /\ Taken' = Taken
    BY EndEffect DEF Ends
  <1>7. Reading \/ Still => made' = made /\ Taken' = Taken
    BY DEF Reading, Still, Taken, Pending
  <1> QED
    BY <1>1, <1>2, <1>3, <1>4, <1>5, <1>6, <1>7, StepKinds DEF TakesAnd, TakesOnly

LEMMA MessageStep == ASSUME Inv, [Next]_vars PROVE MessageInv'
PROOF
  <1> USE DEF Inv
  <1>1. \A i \in 1..Len(made) : IsTransition(i)' = IsTransition(i)
    BY TakenGrows DEF IsTransition
  <1>2. ASSUME NEW p \in Sent
        PROVE  p.event \in Taken' /\ (IsButton(p) <=> IsTransition(p.event)')
    <2>1. p.event \in Taken /\ (IsButton(p) <=> IsTransition(p.event))
      BY DEF MessageInv
    <2>2. p.event \in 1..Len(made)
      BY <2>1 DEF Taken
    <2> QED
      BY <1>1, <2>1, <2>2, TakenGrows
  <1>3. ASSUME NEW q \in Message, TakesAnd(q)
        PROVE  q.event \in Taken' /\ (IsButton(q) <=> IsTransition(q.event)')
    <2>1. made' = made /\ q.event \in Taken'
      BY <1>3, TakeEffect DEF TakesAnd, Takes
    <2> QED
      BY <1>3, <2>1 DEF TakesAnd, IsTransition
  <1>4. \A p \in Sent' : p \in Sent \/ \E q \in Message : TakesAnd(q) /\ p = q
    BY SentEffect, StepKinds
  <1> SUFFICES ASSUME NEW p \in Sent'
               PROVE  p.event \in Taken' /\ (IsButton(p) <=> IsTransition(p.event)')
    BY DEF MessageInv
  <1> QED
    BY <1>2, <1>3, <1>4

(* Unless something was lost, what is taken is sent.                       *)
LEMMA SentStep == ASSUME Inv, [Next]_vars PROVE SentInv'
PROOF
  <1> USE DEF Inv
  <1> SUFFICES ASSUME ~lost', NEW i \in Taken', Sends(i)' PROVE \E p \in Sent' : p.event = i
    BY DEF SentInv
  <1>1. i \in 1..Len(made) /\ made'[i] = made[i]
    BY TakenGrows
  <1>2. Sends(i)
    BY <1>1 DEF Sends
  <1>3. ~lost /\ Sent \subseteq Sent'
    <2>1. \A ev \in Events : Adds(ev) => lost' = lost
      BY DEF Adds, guest
    <2>2. \A q \in Message : TakesAnd(q) => lost' = lost
      BY DEF TakesAnd, Takes
    <2>3. TakesOnly \/ Defers \/ Reading \/ Still => lost' = lost
      BY DEF TakesOnly, Takes, Defers, Reading, Still
    <2> QED
      BY <2>1, <2>2, <2>3, SentEffect, StepKinds
  <1>4. CASE i \in Taken
    BY <1>2, <1>3, <1>4 DEF SentInv
  <1>5. CASE i \notin Taken
    <2>1. (\E q \in Message : TakesAnd(q)) \/ TakesOnly
      <3>1. \A ev \in Events : Adds(ev) => Taken' = Taken
        BY AddEffect
      <3>2. Reading \/ Still => Taken' = Taken
        BY DEF Reading, Still, Taken, Pending
      <3> QED
        BY <1>5, <3>1, <3>2, StepKinds, DeferEffect, EndEffect
    <2>2. i = Head(inbox)
      BY <1>5, <2>1, TakeEffect DEF TakesAnd, TakesOnly, Takes
    <2> QED
      BY <1>2, <2>1, <2>2, SentEffect DEF TakesAnd, TakesOnly
  <1> QED
    BY <1>4, <1>5

(* The line of messages, from the firmware back to the pass.               *)
LEMMA LineStep == ASSUME Inv, [Next]_vars PROVE LineInv'
PROOF
  <1> USE DEF Inv
  <1>0. out \in Seq(Message) /\ ring \in Seq(Message) /\ got \in Seq(Message)
    BY DEF TypeOK
  <1>1. ASSUME NEW q \in Message, TakesAnd(q) PROVE LineInv'
    <2>1. inbox # <<>> /\ q.event \in Pending
      BY <1>1, NextEvent DEF TakesAnd, Takes
    <2>2. ASSUME NEW p \in Sent PROVE Ordered(p, q)
      <3>1. p.event \in Taken /\ (IsButton(p) <=> IsTransition(p.event))
        BY DEF MessageInv
      <3>2. Precedes(p.event, q.event)
        BY <2>1, <3>1 DEF QueueInv
      <3>3. IsButton(q) <=> IsTransition(q.event)
        BY <1>1 DEF TakesAnd
      <3> QED
        BY <3>1, <3>2, <3>3 DEF Precedes, Ordered
    <2>3. InLine(Append(out, q))
      <3>1. Before(Range(out), {q})
        BY <2>2 DEF Before, Sent
      <3> QED
        BY <1>0, <3>1, LineAppend DEF LineInv
    <2>4. Range(out') = Range(out) \cup {q}
      BY <1>0, <1>1, RangeAppend DEF TakesAnd
    <2>5. Before(Range(got), {q}) /\ Before(Range(ring), {q})
      BY <2>2 DEF Before, Sent
    <2> QED
      BY <1>1, <2>3, <2>4, <2>5 DEF LineInv, Before, TakesAnd, Takes
  <1>2. ASSUME Reading PROVE LineInv'
    <2> DEFINE h == Head(ring)
    <2>1. h \in Message /\ Range(ring) = Range(ring') \cup {h}
      BY <1>0, <1>2, RangeTail DEF Reading
    <2>2. Range(got') = Range(got) \cup {h}
      BY <1>0, <1>2, <2>1, RangeAppend DEF Reading
    <2>3. InLine(ring') /\ Before({h}, Range(ring'))
      BY <1>0, <1>2, LineTail DEF Reading, LineInv
    <2>4. InLine(got')
      <3>1. Before(Range(got), {h})
        BY <2>1 DEF LineInv, Before
      <3> QED
        BY <1>0, <1>2, <2>1, <3>1, LineAppend DEF LineInv, Reading
    <2>5. out' = out
      BY <1>2 DEF Reading
    <2> QED
      BY <2>1, <2>2, <2>3, <2>4, <2>5 DEF LineInv, Before
  <1>3. ASSUME Ends PROVE LineInv'
    <2> DEFINE fed == ring \o out
    <2>1. fed \in Seq(Message) /\ Range(fed) = Range(ring) \cup Range(out) /\ InLine(fed)
      BY <1>0, RangeConcat, LineConcat DEF LineInv
    <2>2. /\ Range(Wrapped(fed)) \subseteq Range(fed)
          /\ InLine(Wrapped(fed))
      BY <2>1, WrappedKeeps
    <2>3. InLine(ring') /\ Range(ring') \subseteq Range(ring) \cup Range(out)
      BY <1>3, <2>1, <2>2 DEF Ends, LineInv
    <2>4. InLine(out') /\ Range(out') = {} /\ got' = got
      BY <1>3, LineEmpty, RangeEmpty DEF Ends
    <2> QED
      BY <2>3, <2>4 DEF LineInv, Before
  <1>4. ASSUME UNCHANGED <<out, ring, got>> PROVE LineInv'
    BY <1>4 DEF LineInv
  <1>5. \A ev \in Events : Adds(ev) => UNCHANGED <<out, ring, got>>
    BY DEF Adds, drain, guest
  <1>6. TakesOnly \/ Defers \/ Still => UNCHANGED <<out, ring, got>>
    BY DEF TakesOnly, Takes, Defers, Still
  <1> QED
    BY <1>1, <1>2, <1>3, <1>4, <1>5, <1>6, StepKinds
-----------------------------------------------------------------------------
(* The masks.  A step changes the buttons down only by taking one.         *)
LEMMA DownKept ==
  ASSUME Inv, [Next]_vars PROVE \A i \in Taken : DownAfter(i)' = DownAfter(i)
PROOF
  <1> SUFFICES ASSUME NEW i \in Taken PROVE DownAfter(i)' = DownAfter(i)
    OBVIOUS
  <1>1. i \in 1..Len(made) /\ Len(made) \in Nat
    BY DEF Taken, Inv, TypeOK
  <1>2. \A j \in 1..i : made'[j] = made[j]
    BY <1>1, TakenGrows
  <1>3. \A j \in 1..i : \A k \in (j + 1)..i : k \in 1..i
    BY <1>1
  <1> QED
    BY <1>2, <1>3 DEF DownAfter

LEMMA DownSame ==
  ASSUME Inv, [Next]_vars, \A i \in Taken' \ Taken : ~IsTransition(i)
  PROVE  DownTaken' = DownTaken
PROOF
  <1>1. Taken \subseteq Taken' /\ \A i \in Taken' : made'[i] = made[i]
    BY TakenGrows
  <1>2. \A i \in Taken' \ Taken, b \in Button : made[i] # Press(b) /\ made[i] # Release(b)
    BY DEF IsTransition, Press, Release
  <1> QED
    BY <1>1, <1>2 DEF DownTaken

LEMMA TransitionTaken ==
  ASSUME Inv, Takes, IsTransition(Head(inbox))
  PROVE  /\ Taken' = Taken \cup {Head(inbox)} /\ made' = made
         /\ 1..Head(inbox) \subseteq Taken'
         /\ \A i \in Taken : IsTransition(i) => i < Head(inbox)
PROOF
  <1> USE DEF Inv
  <1> DEFINE h == Head(inbox)
  <1>1. inbox # <<>> /\ inbox' = Tail(inbox) /\ made' = made /\ deferred = <<>> /\ deferred' = <<>>
    BY DEF Takes
  <1>2. /\ Pending = Pending' \cup {h} /\ Taken' = Taken \cup {h}
        /\ \A i \in Range(inbox') : h < i
    BY <1>1, TakeEffect
  <1>3. h \in 1..Len(made) /\ h \in Pending /\ Len(made) \in Nat
    BY <1>1, NextEvent DEF TypeOK
  <1>4. \A i \in Taken : IsTransition(i) => i < h
    BY <1>3 DEF QueueInv, Precedes
  <1>5. Pending' = Range(inbox')
    BY <1>1, RangeEmpty DEF Pending
  <1>6. \A i \in 1..h : i \in 1..Len(made) /\ i \notin Pending'
    BY <1>2, <1>3, <1>5
  <1>7. Taken' = (1..Len(made)) \ Pending'
    BY <1>1 DEF Taken
  <1> QED
    BY <1>1, <1>2, <1>4, <1>6, <1>7

LEMMA DownButton ==
  ASSUME Inv, Takes, NEW b \in Button, NEW S, NEW h, h = Head(inbox),
         \/ made[h] = Press(b) /\ S = DownTaken \cup {b}
         \/ made[h] = Release(b) /\ S = DownTaken \ {b}
  PROVE  DownTaken' = S /\ DownAfter(h)' = S
PROOF
  <1>1. IsTransition(h)
    BY DEF IsTransition, Press, Release
  <1>2. /\ Taken' = Taken \cup {h} /\ made' = made /\ 1..h \subseteq Taken'
        /\ \A i \in Taken : IsTransition(i) => i < h
    BY <1>1, TransitionTaken
  <1>3. h \in Nat /\ h > 0 /\ Taken \subseteq Nat
    BY NextEvent DEF Takes, Inv, TypeOK, Taken
  <1>4. h \notin Taken
    BY <1>1, <1>2, <1>3
  <1>5. \A i \in Taken', a \in Button :
           made[i] = Press(a) \/ made[i] = Release(a) => i <= h /\ (i = h <=> i \notin Taken)
    <2> SUFFICES ASSUME NEW i \in Taken', NEW a \in Button,
                        made[i] = Press(a) \/ made[i] = Release(a)
                 PROVE  i <= h /\ (i = h <=> i \notin Taken)
      OBVIOUS
    <2>1. IsTransition(i)
      BY DEF IsTransition, Press, Release
    <2> QED
      BY <1>2, <1>3, <1>4, <2>1
  <1>6. DownTaken' = S
    <2>1. CASE made[h] = Press(b) /\ S = DownTaken \cup {b}
      <3>1. \A a \in Button : made[h] # Release(a) /\ (made[h] = Press(a) <=> a = b)
        BY <2>1 DEF Press, Release
      <3>2. \A a \in Button : a \in DownTaken' <=> a \in S
        <4> TAKE a \in Button
        <4>1. CASE a = b
          BY <1>2, <1>3, <1>5, <2>1, <3>1, <4>1 DEF DownTaken
        <4>2. CASE a # b
          BY <1>2, <1>4, <2>1, <3>1, <4>2 DEF DownTaken
        <4> QED
          BY <4>1, <4>2
      <3> QED
        BY <2>1, <3>2 DEF DownTaken
    <2>2. CASE made[h] = Release(b) /\ S = DownTaken \ {b}
      <3>1. \A a \in Button : made[h] # Press(a) /\ (made[h] = Release(a) <=> a = b)
        BY <2>2 DEF Press, Release
      <3>2. \A a \in Button : a \in DownTaken' <=> a \in S
        <4> TAKE a \in Button
        <4>1. CASE a = b
          <5>1. a \notin DownTaken'
            <6> SUFFICES ASSUME NEW j \in Taken', made[j] = Press(a)
                         PROVE  \E k \in Taken' : k > j /\ made[k] = Release(a)
              BY <1>2 DEF DownTaken
            <6>1. j < h
              BY <1>3, <1>5, <1>2, <3>1
            <6> QED
              BY <1>2, <2>2, <4>1, <6>1
          <5> QED
            BY <2>2, <4>1, <5>1
        <4>2. CASE a # b
          BY <1>2, <1>4, <2>2, <3>1, <4>2 DEF DownTaken
        <4> QED
          BY <4>1, <4>2
      <3> QED
        BY <2>2, <3>2 DEF DownTaken
    <2> QED
      BY <2>1, <2>2
  <1>7. DownAfter(h)' = DownTaken'
    <2> SUFFICES ASSUME NEW a \in Button PROVE a \in DownAfter(h)' <=> a \in DownTaken'
      BY DEF DownAfter, DownTaken
    <2>1. ASSUME NEW j \in Taken', made[j] = Press(a)
          PROVE  /\ j \in 1..h
                 /\ (\A k \in Taken' : k > j => made[k] # Release(a))
                      <=> \A k \in (j + 1)..h : made[k] # Release(a)
      <3>1. j \in 1..h
        <4>1. j \in Nat /\ j > 0
          BY NextEvent, <1>2 DEF Inv, TypeOK, Taken, Takes
        <4> QED
          BY <1>3, <1>5, <2>1, <4>1
      <3>2. \A k \in Taken' : k > j /\ made[k] = Release(a) => k \in (j + 1)..h
        BY <1>2, <1>3, <1>5, <3>1
      <3>3. \A k \in (j + 1)..h : k \in Taken' /\ k > j
        BY <1>2, <1>3, <3>1
      <3> QED
        BY <3>1, <3>2, <3>3
    <2>2. \A j \in 1..h : made'[j] = made[j] /\ j \in Taken'
      BY <1>2
    <2>3. a \in DownAfter(h)' <=>
            \E j \in 1..h : made[j] = Press(a) /\ \A k \in (j + 1)..h : made[k] # Release(a)
      BY <1>2 DEF DownAfter
    <2>4. a \in DownTaken' <=>
            \E j \in Taken' : made[j] = Press(a) /\ \A k \in Taken' : k > j => made[k] # Release(a)
      BY <1>2 DEF DownTaken
    <2> QED
      BY <2>1, <2>2, <2>3, <2>4
  <1> QED
    BY <1>6, <1>7

LEMMA HeldTaken ==
  ASSUME Inv, TakeButton
  PROVE  /\ \A c \in Channel : held'[c] = On(c, DownTaken')
         /\ \A p \in Sent' \ Sent : IsButton(p) => p.mask = On(p.channel, DownAfter(p.event)')
PROOF
  <1> USE DEF Inv
  <1>0. PICK h : h = Head(inbox)
    OBVIOUS
  <1>1. Takes
    BY ButtonSteps DEF TakesOnly, TakesAnd
  <1>2. /\ Event \in Events /\ Event = made[h] /\ Event.code \in Button
        /\ Event.kind \in {"press", "release"}
    BY <1>0, <1>1, NextEvent DEF Takes, TakeButton
  <1> DEFINE b == Event.code
             c == Wire[b]
             S == IF Event.kind = "press" THEN DownTaken \cup {b} ELSE DownTaken \ {b}
             mask == Mask(c, Event)
             q == [event |-> h, channel |-> c, mask |-> mask]
  <1>3. \/ made[h] = Press(b) /\ S = DownTaken \cup {b}
        \/ made[h] = Release(b) /\ S = DownTaken \ {b}
    <2>1. CASE Event.kind = "press"
      BY <1>2, <2>1 DEF Press, Events
    <2>2. CASE Event.kind = "release"
      BY <1>2, <2>2 DEF Release, Events
    <2> QED
      BY <1>2, <2>1, <2>2
  <1>4. DownTaken' = S /\ DownAfter(h)' = S
    <2> HIDE DEF S
    <2> QED
      BY <1>0, <1>1, <1>2, <1>3, DownButton
  <1>5. ASSUME NEW d \in Channel, d # c PROVE On(d, S) = On(d, DownTaken)
    BY <1>5 DEF On
  <1>6. \A d \in Channel : held[d] = On(d, DownTaken) /\ held \in [Channel -> SUBSET Button]
    BY DEF HeldInv, TypeOK
  <1>7. CASE c = Nowhere
    <2>1. held' = held /\ out' = out
      BY <1>7 DEF TakeButton
    <2>2. \A d \in Channel : d # c
      BY <1>7 DEF Channel
    <2>3. Sent' = Sent
      BY <1>1, <2>1 DEF Sent, Takes
    <2> HIDE DEF S, c
    <2> QED
      BY <1>4, <1>5, <1>6, <2>1, <2>2, <2>3
  <1>8. CASE c # Nowhere
    <2>1. held' = [held EXCEPT ![c] = mask] /\ out' = Append(out, q)
      BY <1>0, <1>8 DEF TakeButton
    <2>2. c \in Channel
      BY <1>2, <1>8 DEF Channel
    <2>3. mask = On(c, S)
      BY <1>2, <1>6, <2>2 DEF Mask, On
    <2>4. \A d \in Channel : held'[d] = On(d, S)
      <3> HIDE DEF S, c, mask
      <3> QED
        BY <1>5, <1>6, <2>1, <2>2, <2>3
    <2>5. Sent' = Sent \cup {q}
      <3>1. q \in Message
        <4>1. h \in Index /\ held[c] \subseteq Button
          BY <1>0, <1>1, <1>6, <2>2, NextEvent DEF Takes
        <4>2. mask \subseteq Button
          BY <1>2, <4>1 DEF Mask
        <4> HIDE DEF mask
        <4> QED
          BY <2>2, <4>1, <4>2 DEF Message
      <3>2. Range(out') = Range(out) \cup {q}
        <4> HIDE DEF q
        <4> QED
          BY <2>1, <3>1, RangeAppend DEF TypeOK
      <3> QED
        BY <1>1, <3>2 DEF Sent, Takes
    <2>6. \A p \in Sent' \ Sent : p.mask = On(p.channel, DownAfter(p.event)')
      BY <1>4, <2>3, <2>5
    <2> QED
      BY <1>4, <2>4, <2>6
  <1> QED
    BY <1>7, <1>8

LEMMA HeldStep == ASSUME Inv, [Next]_vars PROVE HeldInv'
PROOF
  <1> USE DEF Inv
  <1>1. \A p \in Sent : IsButton(p) => p.mask = On(p.channel, DownAfter(p.event)')
    BY DownKept DEF HeldInv, MessageInv
  <1>2. CASE TakeButton
    BY <1>1, <1>2, HeldTaken DEF HeldInv
  <1>3. ASSUME held' = held, \A i \in Taken' \ Taken : ~IsTransition(i),
               \A p \in Sent' \ Sent : ~IsButton(p)
        PROVE  HeldInv'
    BY <1>1, <1>3, DownSame DEF HeldInv
  <1>4. CASE TakeTurn
    <2>1. PICK q \in Message : TakesAnd(q)
      BY <1>4, TurnSteps
    <2>2. ~IsTransition(Head(inbox)) /\ held' = held
      BY <1>4 DEF TakeTurn, IsTransition, Event
    <2>3. Taken' = Taken \cup {Head(inbox)} /\ Sent' = Sent \cup {q}
      BY <2>1, TakeEffect, SentEffect DEF TakesAnd, Takes
    <2> QED
      BY <1>3, <2>1, <2>2, <2>3 DEF TakesAnd
  <1>5. CASE TurnRaises
    <2>1. TakesOnly
      BY <1>5, FarSteps
    <2>2. ~IsTransition(Head(inbox)) /\ held' = held
      BY <1>5 DEF TurnRaises, IsTransition, Event
    <2>3. Taken' = Taken \cup {Head(inbox)} /\ Sent' = Sent
      BY <2>1, TakeEffect, SentEffect DEF TakesOnly, Takes
    <2> QED
      BY <1>3, <2>2, <2>3
  <1>6. CASE Defer
    <2>1. Taken' = Taken /\ Sent' = Sent
      BY <1>6, DeferSteps, DeferEffect, SentEffect
    <2> QED
      BY <1>3, <1>6, <2>1 DEF Defer
  <1>7. CASE EndEmpty \/ Feed \/ FeedRaises
    <2>1. Taken' = Taken /\ Sent' \subseteq Sent
      BY <1>7, EndSteps, EndEffect, SentEffect
    <2>2. held' = held
      BY <1>7 DEF EndEmpty, Feed, FeedRaises, EndPass
    <2> QED
      BY <1>3, <2>1, <2>2
  <1>8. CASE User
    <2>1. CASE UNCHANGED <<made, dwell, inbox, step, drain, held, pacing, guest>>
      <3>1. Still /\ held' = held
        BY <2>1 DEF Still, drain, guest
      <3>2. Taken' = Taken /\ Sent' = Sent
        BY <3>1, SentEffect DEF Still, Taken, Pending
      <3> QED
        BY <1>3, <3>1, <3>2
    <2>2. ASSUME NEW ev \in Events, Adds(ev) PROVE HeldInv'
      <3>1. held' = held /\ Taken' = Taken /\ Sent' = Sent
        BY <2>2, AddEffect, SentEffect DEF Adds
      <3> QED
        BY <1>3, <3>1
    <2> QED
      BY <1>8, <2>1, <2>2, UserSteps
  <1>9. CASE Wait \/ Begin \/ EndChunk \/ Rx \/ UNCHANGED vars
    <2>1. held' = held
      BY <1>9 DEF Wait, Begin, EndChunk, Rx, vars
    <2>2. Reading \/ Still
      <3>1. CASE Wait
        BY <3>1 DEF Wait, Still, user, drain, guest
      <3>2. CASE Begin
        BY <3>2 DEF Begin, Still, user, guest, PassInv
      <3>3. CASE EndChunk
        BY <3>3 DEF EndChunk, Still, user, drain, guest
      <3>4. CASE Rx
        BY <3>4 DEF Rx, Reading, user, drain
      <3>5. CASE UNCHANGED vars
        BY <3>5 DEF vars, Still, user, drain, guest
      <3> QED
        BY <1>9, <3>1, <3>2, <3>3, <3>4, <3>5
    <2>3. Taken' = Taken /\ Sent' = Sent
      BY <2>2, SentEffect DEF Reading, Still, Taken, Pending
    <2> QED
      BY <1>3, <2>1, <2>3
  <1> QED
    BY <1>2, <1>4, <1>5, <1>6, <1>7, <1>8, <1>9 DEF Next, Worker
-----------------------------------------------------------------------------
(* The dwell.                                                              *)
AtMostOne(s) == \A k, l \in 1..Len(s) : IsButton(s[k]) /\ IsButton(s[l]) => k = l

LEMMA OneAppend ==
  ASSUME NEW T, NEW s \in Seq(T), NEW q \in T
  PROVE  /\ ~IsButton(q) /\ ~HasButton(s) => ~HasButton(Append(s, q))
         /\ ~IsButton(q) /\ AtMostOne(s) => AtMostOne(Append(s, q))
         /\ ~HasButton(s) => AtMostOne(Append(s, q))
PROOF
  <1> DEFINE t == Append(s, q)
  <1>1. Len(t) = Len(s) + 1 /\ Len(s) \in Nat
    OBVIOUS
  <1>2. \A k \in 1..Len(t) : (k \in 1..Len(s) /\ t[k] = s[k]) \/ (k = Len(s) + 1 /\ t[k] = q)
    <2>1. \A k \in 1..Len(s) : t[k] = s[k]
      OBVIOUS
    <2>2. t[Len(s) + 1] = q
      OBVIOUS
    <2> HIDE DEF t
    <2>3. \A k \in 1..Len(t) : k \in 1..Len(s) \/ k = Len(s) + 1
      BY <1>1
    <2> QED
      BY <2>1, <2>2, <2>3
  <1> HIDE DEF t
  <1>3. ~IsButton(q) /\ ~HasButton(s) => ~HasButton(t)
    BY <1>2 DEF HasButton
  <1>4. ~IsButton(q) /\ AtMostOne(s) => AtMostOne(t)
    BY <1>2 DEF AtMostOne
  <1>5. ~HasButton(s) => AtMostOne(t)
    BY <1>2 DEF AtMostOne, HasButton
  <1> QED
    BY <1>3, <1>4, <1>5 DEF t

LEMMA OneStep ==
  ASSUME Inv, [Next]_vars
  PROVE  dwell' = dwell /\ (dwell > 0 => (~took' => ~HasButton(out')) /\ AtMostOne(out'))
PROOF
  <1> USE DEF Inv
  <1> DEFINE One(t, s) == dwell > 0 => (~t => ~HasButton(s)) /\ AtMostOne(s)
  <1>0. One(took, out) /\ out \in Seq(Message)
    BY DEF PaceInv, AtMostOne, TypeOK
  <1>1. \A t \in BOOLEAN : One(t, <<>>)
    BY DEF HasButton, AtMostOne
  <1> SUFFICES dwell' = dwell /\ One(took', out')
    OBVIOUS
  <1>2. CASE User
    BY <1>0, <1>2, UserSteps DEF Adds, drain
  <1>3. CASE Wait \/ EndChunk
    BY <1>0, <1>3 DEF Wait, EndChunk, user, drain
  <1>4. CASE Begin
    BY <1>1, <1>4 DEF Begin, user
  <1>5. CASE TakeTurn
    <2>1. PICK q \in Message : TakesAnd(q)
      BY <1>5, TurnSteps
    <2>2. ~IsTransition(Head(inbox)) /\ took' = took /\ dwell' = dwell
      BY <1>5 DEF TakeTurn, Pop, user, IsTransition, Event
    <2>3. out' = Append(out, q) /\ ~IsButton(q)
      BY <2>1, <2>2 DEF TakesAnd
    <2> HIDE DEF Inv
    <2> QED
      BY <1>0, <2>2, <2>3, OneAppend
  <1>6. CASE TakeButton
    <2>1. took' = TRUE /\ dwell' = dwell /\ ~(dwell > 0 /\ took)
      BY <1>6 DEF TakeButton, Pop, user
    <2>2. out' = out \/ \E q \in Message : out' = Append(out, q)
      BY <1>6, ButtonSteps DEF TakesOnly, TakesAnd
    <2> HIDE DEF Inv
    <2> QED
      BY <1>0, <2>1, <2>2, OneAppend
  <1>7. CASE TurnRaises \/ Defer
    BY <1>0, <1>7 DEF TurnRaises, Defer, Pop, user, drain
  <1>8. CASE EndEmpty \/ Feed \/ FeedRaises
    BY <1>1, <1>8 DEF EndEmpty, Feed, FeedRaises, EndPass, user, TypeOK
  <1>9. CASE Rx \/ UNCHANGED vars
    BY <1>0, <1>9 DEF Rx, vars, user, drain
  <1> QED
    BY <1>2, <1>3, <1>4, <1>5, <1>6, <1>7, <1>8, <1>9 DEF Next, Worker

(* Chunks since a button was fed, and what the worker counted.             *)
LEMMA ClockStep ==
  ASSUME Inv, [Next]_vars
  PROVE  /\ chunks' \in 0..dwell /\ since' \in 0..dwell
         /\ step' = "taking" \/ ~delivered' => since' = dwell
         /\ step' = "top" => since' = dwell \/ since' > chunks'
         /\ step' = "spinning" => since' = dwell \/ since' >= chunks'
PROOF
  <1>0. /\ chunks \in 0..dwell /\ since \in 0..dwell /\ dwell \in Nat
        /\ step = "taking" \/ ~delivered => since = dwell
        /\ step = "top" => since = dwell \/ since > chunks
        /\ step = "spinning" => since = dwell \/ since >= chunks
        /\ delivered \in BOOLEAN
    BY PanelAssumption DEF Inv, TypeOK, PaceInv
  <1>1. CASE User
    BY <1>0, <1>1, UserSteps DEF Adds, pacing
  <1>2. CASE Wait
    BY <1>0, <1>2 DEF Wait, Dwelling
  <1>3. CASE Begin
    BY <1>0, <1>3 DEF Begin, Dwelling, pacing
  <1>4. CASE TakeTurn \/ Defer \/ TakeButton
    BY <1>0, <1>4 DEF TakeTurn, Defer, TakeButton, Pop, pacing
  <1>5. CASE TurnRaises
    BY <1>0, <1>5 DEF TurnRaises, pacing
  <1>6. CASE EndEmpty
    BY <1>0, <1>6 DEF EndEmpty, EndPass, pacing
  <1>7. CASE Feed
    BY <1>0, <1>7 DEF Feed, EndPass, Restart
  <1>8. CASE FeedRaises
    BY <1>0, <1>8 DEF FeedRaises, EndPass, Restart
  <1>9. CASE EndChunk
    BY <1>0, <1>9 DEF EndChunk
  <1>10. CASE Rx \/ UNCHANGED vars
    BY <1>0, <1>10 DEF Rx, vars, pacing
  <1> QED
    BY <1>1, <1>2, <1>3, <1>4, <1>5, <1>6, <1>7, <1>8, <1>9, <1>10 DEF Next, Worker

LEMMA PaceStep == ASSUME Inv, [Next]_vars PROVE PaceInv'
  BY OneStep, ClockStep DEF PaceInv, AtMostOne
-----------------------------------------------------------------------------
(* The types.                                                              *)
LEMMA SequencesStep ==
  ASSUME Inv, [Next]_vars
  PROVE  /\ made' \in Seq(Events) /\ inbox' \in Seq(Index) /\ deferred' \in Seq(Index)
         /\ out' \in Seq(Message) /\ ring' \in Seq(Message) /\ got' \in Seq(Message)
PROOF
  <1> USE DEF Inv
  <1>1. /\ made \in Seq(Events) /\ inbox \in Seq(Index) /\ deferred \in Seq(Index)
        /\ out \in Seq(Message) /\ ring \in Seq(Message) /\ got \in Seq(Message)
    BY DEF TypeOK
  <1>2. ASSUME NEW ev \in Events, Adds(ev), Len(made) < MaxEvents
        PROVE  made' \in Seq(Events) /\ inbox' \in Seq(Index)
    <2>1. Len(made) + 1 \in Index
      BY <1>1, <1>2, PanelAssumption DEF Index
    <2> QED
      BY <1>1, <1>2, <2>1, RangeAppend DEF Adds
  <1>3. \A ev \in Events : Adds(ev) => UNCHANGED <<deferred, out, ring, got>>
    BY DEF Adds, drain, guest
  <1>4. inbox # <<>> => Head(inbox) \in Index /\ Tail(inbox) \in Seq(Index)
    BY NextEvent
  <1>5. ASSUME NEW q \in Message, TakesAnd(q) PROVE out' \in Seq(Message)
    BY <1>1, <1>5, RangeAppend DEF TakesAnd
  <1>6. Defers => deferred' \in Seq(Index)
    BY <1>1, <1>4, RangeAppend DEF Defers
  <1>7. Ends => ring' \in Seq(Message) /\ out' \in Seq(Message) /\ deferred' \in Seq(Index)
    <2>1. Wrapped(ring \o out) \in Seq(Message)
      BY <1>1, RangeConcat, WrappedKeeps
    <2> QED
      BY <1>1, <2>1, RangeEmpty DEF Ends
  <1>8. Reading => ring' \in Seq(Message) /\ got' \in Seq(Message)
    <2> HAVE Reading
    <2>1. Head(ring) \in Message /\ Tail(ring) \in Seq(Message)
      BY <1>1, RangeTail DEF Reading
    <2> QED
      BY <1>1, <2>1, RangeAppend DEF Reading
  <1>9. CASE \E ev \in Events : Adds(ev) /\ Len(made) < MaxEvents
    BY <1>1, <1>2, <1>3, <1>9
  <1>10. CASE (\E q \in Message : TakesAnd(q)) \/ TakesOnly
    BY <1>1, <1>4, <1>5, <1>10 DEF TakesAnd, TakesOnly, Takes
  <1>11. CASE Defers \/ Ends \/ Reading \/ Still
    BY <1>1, <1>4, <1>6, <1>7, <1>8, <1>11 DEF Defers, Ends, Reading, Still
  <1> QED
    BY <1>9, <1>10, <1>11, StepKinds

LEMMA ScalarsStep ==
  ASSUME Inv, [Next]_vars
  PROVE  /\ down' \subseteq Button /\ paused' \in BOOLEAN /\ took' \in BOOLEAN
         /\ step' \in {"top", "taking", "spinning", "dead"}
         /\ delivered' \in BOOLEAN /\ lost' \in BOOLEAN
PROOF
  <1>0. /\ down \subseteq Button /\ paused \in BOOLEAN /\ took \in BOOLEAN
        /\ step \in {"top", "taking", "spinning", "dead"}
        /\ delivered \in BOOLEAN /\ lost \in BOOLEAN
    BY DEF Inv, TypeOK
  <1>1. CASE User
    <2>1. CASE \E b \in Button : PressKey(b) \/ ReleaseKey(b)
      BY <1>0, <2>1 DEF PressKey, ReleaseKey, Send, drain, pacing, guest
    <2>2. CASE \E e \in Encoder : TurnKnob(e)
      BY <1>0, <2>2 DEF TurnKnob, Send, drain, pacing, guest
    <2>3. CASE Pause \/ Unpause
      BY <1>0, <2>3 DEF Pause, Unpause, drain, pacing, guest
    <2> QED
      BY <1>1, <2>1, <2>2, <2>3 DEF User
  <1>2. CASE Wait \/ Begin \/ EndChunk
    <2>1. CASE Wait
      BY <1>0, <2>1 DEF Wait, user, drain, guest
    <2>2. CASE Begin
      BY <1>0, <2>2 DEF Begin, user, pacing, guest
    <2>3. CASE EndChunk
      BY <1>0, <2>3 DEF EndChunk, user, drain, guest
    <2> QED
      BY <1>2, <2>1, <2>2, <2>3
  <1>3. CASE TakeTurn \/ Defer \/ TakeButton
    BY <1>0, <1>3 DEF TakeTurn, Defer, TakeButton, Pop, user, pacing, guest
  <1>4. CASE TurnRaises
    BY <1>0, <1>4 DEF TurnRaises, user, drain, pacing, guest
  <1>5. CASE EndEmpty
    BY <1>0, <1>5 DEF EndEmpty, EndPass, user, pacing
  <1>6. CASE Feed \/ FeedRaises
    <2>1. lost' = TRUE \/ lost' = (lost \/ Len(ring \o Stream) >= RingSize)
      BY <1>6 DEF Feed, FeedRaises
    <2>2. lost' \in BOOLEAN
      BY <2>1
    <2>3. step' = "spinning" /\ delivered' = TRUE /\ UNCHANGED <<down, paused, took>>
      BY <1>6 DEF Feed, FeedRaises, EndPass, Restart, user
    <2> QED
      BY <1>0, <2>2, <2>3
  <1>7. CASE Rx
    BY <1>0, <1>7 DEF Rx, user, drain, pacing
  <1>8. CASE UNCHANGED vars
    BY <1>0, <1>8 DEF vars, user, drain, pacing, guest
  <1> QED
    BY <1>1, <1>2, <1>3, <1>4, <1>5, <1>6, <1>7, <1>8 DEF Next, Worker

LEMMA MasksStep == ASSUME Inv, [Next]_vars PROVE held' \in [Channel -> SUBSET Button]
PROOF
  <1>0. held \in [Channel -> SUBSET Button]
    BY DEF Inv, TypeOK
  <1>1. CASE TakeButton
    <2> DEFINE c == Wire[Event.code]
               mask == Mask(c, Event)
    <2>1. Event.code \in Button
      BY <1>1, NextEvent DEF TakeButton, Pop, Inv
    <2>2. c \in Channel => mask \subseteq Button
      BY <1>0, <2>1 DEF Mask
    <2>3. held' = held \/ held' = [held EXCEPT ![c] = mask]
      BY <1>1 DEF TakeButton
    <2>4. CASE c \in Channel
      <3> HIDE DEF c, mask
      <3> QED
        BY <1>0, <2>2, <2>3, <2>4
    <2>5. CASE c \notin Channel
      <3> HIDE DEF c, mask
      <3> QED
        BY <1>0, <2>3, <2>5
    <2> QED
      BY <2>4, <2>5
  <1>2. CASE User
    BY <1>0, <1>2, UserSteps DEF Adds
  <1>3. CASE Wait \/ Begin \/ TakeTurn \/ TurnRaises \/ Defer \/ EndChunk \/ Rx \/ UNCHANGED vars
    BY <1>0, <1>3 DEF Wait, Begin, TakeTurn, TurnRaises, Defer, EndChunk, Rx, vars
  <1>4. CASE EndEmpty \/ Feed \/ FeedRaises
    BY <1>0, <1>4 DEF EndEmpty, Feed, FeedRaises, EndPass
  <1> QED
    BY <1>1, <1>2, <1>3, <1>4 DEF Next, Worker

LEMMA TypeStep == ASSUME Inv, [Next]_vars PROVE TypeOK'
PROOF
  <1>1. dwell' = dwell /\ dwell \in Dwells
    BY OneStep DEF Inv, TypeOK
  <1> QED
    BY <1>1, SequencesStep, ScalarsStep, MasksStep, ClockStep DEF TypeOK

LEMMA InvStep == Inv /\ [Next]_vars => Inv'
  BY TypeStep, QueueStep, PassStep, MessageStep, LineStep, SentStep, HeldStep, PaceStep DEF Inv

LEMMA InvAlways == Spec => []Inv
  BY InitInv, InvStep, PTL DEF Spec
-----------------------------------------------------------------------------
(* Every variable keeps the shape the code gives it.                       *)
THEOREM TypeCorrect == Spec => []TypeOK
PROOF
  <1>1. Inv => TypeOK
    BY DEF Inv
  <1> QED
    BY <1>1, InvAlways, PTL

(* Every mask _drain_input encodes, whether still in its stream, in the    *)
(* receive ring or read, is what the user held on that channel at that     *)
(* event: deferral, requeueing and failed feeds included.                  *)
THEOREM MasksHeld == Spec => []MaskIsHeld
PROOF
  <1>1. Inv => MaskIsHeld
    <2> SUFFICES ASSUME Inv PROVE MaskIsHeld
      OBVIOUS
    <2>1. \A msgs \in {out, ring, got} : \A k \in 1..Len(msgs) : msgs[k] \in Sent
      BY RangeIs DEF Inv, TypeOK, Sent
    <2> QED
      BY <2>1 DEF Inv, HeldInv, MaskIsHeld
  <1> QED
    BY <1>1, InvAlways, PTL

(* The worker leaves no event behind: once the deque and the ring are      *)
(* empty between two passes, everything the user made that has a wire has  *)
(* been read, unless a feed raised or went round the ring.                 *)
THEOREM NothingLost == Spec => []NothingDropped
PROOF
  <1>1. Inv => NothingDropped
    <2> SUFFICES ASSUME Inv, step = "top", inbox = <<>>, ring = <<>>, ~lost,
                        NEW i \in 1..Len(made), Sends(i)
                 PROVE  Reads(i)
      BY DEF NothingDropped
    <2>1. deferred = <<>> /\ out = <<>>
      BY DEF Inv, PassInv
    <2>2. Pending = {} /\ Sent = Range(got)
      BY <2>1, RangeEmpty DEF Pending, Sent
    <2>3. i \in Taken
      BY <2>2 DEF Taken
    <2>4. PICK p \in Range(got) : p.event = i
      BY <2>2, <2>3 DEF Inv, SentInv
    <2>5. PICK k \in 1..Len(got) : p = got[k]
      BY RangeIs DEF Inv, TypeOK
    <2> QED
      BY <2>4, <2>5 DEF Reads
  <1> QED
    BY <1>1, InvAlways, PTL

(* The firmware reads the button transitions in the order the user made    *)
(* them, whatever a pass deferred and put back before the user's appends.  *)
THEOREM TransitionsInOrder == Spec => []InOrder
PROOF
  <1>1. Inv => InOrder
    BY DEF Inv, LineInv, InLine, Ordered, InOrder
  <1> QED
    BY <1>1, InvAlways, PTL

(* A turn of an encoder may overtake deferred buttons but is never read    *)
(* after an event made later.                                              *)
THEOREM TurnsNeverLate == Spec => []TurnNeverLate
PROOF
  <1>1. Inv => TurnNeverLate
    BY DEF Inv, LineInv, InLine, Ordered, TurnNeverLate
  <1> QED
    BY <1>1, InvAlways, PTL

(* With pacing on, two transitions are fed at least _dwell_chunks chunks   *)
(* of emulation apart, in whatever turns and pauses come between.          *)
THEOREM DwellsKept == Spec => Spaced
PROOF
  <1>1. Inv => (dwell > 0 /\ step = "taking" =>
                  /\ since = dwell
                  /\ \A k, l \in 1..Len(out) : IsButton(out[k]) /\ IsButton(out[l]) => k = l)
    BY DEF Inv, PaceInv
  <1>2. Inv => [dwell > 0 /\ step = "taking" /\ step' = "spinning" /\ HasButton(out) =>
                  /\ since = dwell
                  /\ \A k, l \in 1..Len(out) : IsButton(out[k]) /\ IsButton(out[l]) => k = l]_vars
    BY <1>1
  <1> QED
    BY <1>2, InvAlways, PTL DEF Spaced
=============================================================================
