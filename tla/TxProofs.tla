------------------------------ MODULE TxProofs ------------------------------
(* Theorems of TxChannel, for every size of the ring and every amount of   *)
(* traffic.                                                                *)
EXTENDS TxChannel, TLAPS

(* The types, but for the console's bytes.                                 *)
ShapeInv ==
  /\ session \in {"cold", "legacy", "stateful"} /\ stripped \in BOOLEAN
  /\ guest \in GuestType /\ pending \in Nat
  /\ snap.kind \in {"none", "legacy", "stateful"} /\ snap.guest \in GuestType
  /\ snap.pending \in Nat /\ snap.stripped \in BOOLEAN

(* One completion is owed to an armed transfer, and none to an idle one.   *)
Owes(g, p) == p + (IF g.inIsr THEN 1 ELSE 0) = (IF g.armed THEN 1 ELSE 0)

(* Nothing has run this guest's transfer, and a kick will.                 *)
Unserved(g) == ~g.inIsr /\ (g.armed => g.citer > 0)

(* The session, and the one that would be resumed.                         *)
LiveInv ==
  /\ session = "cold" => Unserved(guest) /\ pending = 0 /\ ~stripped
  /\ Modelled /\ ~stripped => Owes(guest, pending)

SavedInv ==
  /\ snap.kind = "legacy" /\ ~snap.stripped => Unserved(snap.guest)
  /\ snap.kind = "stateful" /\ ~snap.stripped => Owes(snap.guest, snap.pending)

Inv == ShapeInv /\ LiveInv /\ SavedInv

LEMMA RingFacts == RingSize \in Nat /\ RingSize > 1 /\ 0 \in Slot
  BY TxAssumption DEF Slot

LEMMA InitInv == Init => Inv
PROOF
  <1> SUFFICES ASSUME Init PROVE Inv
    OBVIOUS
  <1>1. Idle \in GuestType
    BY RingFacts DEF Idle, GuestType
  <1> QED
    BY <1>1 DEF Init, Inv, ShapeInv, LiveInv, SavedInv, Idle, NoSnapshot, Unserved,
                Modelled

(* The ring keeps its shape when bytes go in.                              *)
LEMMA FilledShape ==
  ASSUME NEW g \in GuestType, NEW n \in Nat
  PROVE  Filled(g, n) \in [Slot -> Nat]
PROOF
  <1>1. ASSUME NEW s \in Slot
        PROVE  Filled(g, n)[s] \in Nat
    <2> DEFINE New == {b \in (g.queued + 1)..(g.queued + n) : (b - 1) % RingSize = s}
    <2>1. CASE \E b \in (g.queued + 1)..(g.queued + n) : (b - 1) % RingSize = s
      <3>1. Filled(g, n)[s] \in (g.queued + 1)..(g.queued + n)
        BY <2>1 DEF Filled
      <3> QED
        BY <3>1 DEF GuestType
    <2>2. CASE ~\E b \in (g.queued + 1)..(g.queued + n) : (b - 1) % RingSize = s
      BY <2>2 DEF Filled, GuestType
    <2> QED
      BY <2>1, <2>2
  <1> QED
    BY <1>1 DEF Filled

LEMMA TransferShape ==
  ASSUME NEW g \in GuestType
  PROVE  /\ Transfer(g) \in GuestType
         /\ Transfer(g).armed = g.armed /\ Transfer(g).inIsr = g.inIsr
PROOF
  <1>1. (g.saddr + g.citer) % RingSize \in Slot
    <2>1. g.saddr \in Nat /\ g.citer \in Nat
      BY RingFacts DEF GuestType, Slot
    <2> QED
      BY <2>1, RingFacts DEF Slot
  <1> QED
    BY <1>1 DEF Transfer, GuestType

(* What a SERQ write for some bytes does to the guest and what it owes.    *)
LEMMA RequestEffect ==
  ASSUME NEW g \in GuestType, NEW n \in Nat \ {0}, pending \in Nat,
         Request(Program(g, n))
  PROVE  /\ guest' \in GuestType /\ guest'.armed /\ guest'.inIsr = g.inIsr
         /\ ~Modelled => guest'.citer > 0 /\ pending' = pending
         /\ Modelled => pending' = pending + 1
PROOF
  <1> DEFINE p == Program(g, n)
  <1>1. p \in GuestType /\ p.armed /\ p.inIsr = g.inIsr /\ p.citer = n
    BY DEF Program, GuestType
  <1>2. CASE Modelled
    <2>1. guest' = Transfer(p) /\ pending' = pending + 1
      BY <1>1, <1>2 DEF Request, RunMajor
    <2> QED
      BY <1>1, <1>2, <2>1, TransferShape
  <1>3. CASE ~Modelled
    BY <1>1, <1>3 DEF Request
  <1> QED
    BY <1>2, <1>3

(* The firmware's steps.                                                   *)
LEMMA GuestSteps ==
  ASSUME Inv, (\E n \in 1..MaxWrite : Enqueue(n)) \/ Put \/ Deliver \/ Isr
  PROVE  Inv'
PROOF
  <1> USE DEF Inv, ShapeInv, LiveInv, SavedInv
  <1>1. ASSUME NEW n \in 1..MaxWrite, Enqueue(n) PROVE Inv'
    BY <1>1, TxAssumption DEF Enqueue, GuestType, Unserved, Owes, Modelled
  <1>2. CASE Put
    <2> DEFINE n == guest.wants
               g == [guest EXCEPT !.ring = Filled(guest, n), !.queued = @ + n, !.wants = 0,
                                  !.behind = @ + n]
    <2>1. n \in Nat \ {0} /\ ~guest.inIsr
      BY <1>2 DEF Put, GuestType
    <2>2. g \in GuestType /\ g.armed = guest.armed /\ g.inIsr = guest.inIsr
          /\ g.citer = guest.citer /\ g.behind \in Nat \ {0}
      <3>1. Filled(guest, n) \in [Slot -> Nat]
        BY <2>1, FilledShape
      <3>2. guest.queued + n \in Nat /\ guest.behind + n \in Nat \ {0}
        BY <2>1 DEF GuestType
      <3> HIDE DEF n
      <3> QED
        BY <3>1, <3>2 DEF GuestType
    <2>3. UNCHANGED <<session, stripped, snap>>
      BY <1>2 DEF Put
    <2>4. CASE guest.armed
      <3>1. guest' = g /\ pending' = pending
        BY <1>2, <2>4 DEF Put
      <3> QED
        BY <2>2, <2>3, <3>1 DEF Unserved, Owes, Modelled
    <2>5. CASE ~guest.armed
      <3>1. Request(Program(g, g.behind))
        BY <1>2, <2>5 DEF Put
      <3>2. /\ guest' \in GuestType /\ guest'.armed /\ ~guest'.inIsr
            /\ ~Modelled => guest'.citer > 0 /\ pending' = pending
            /\ Modelled => pending' = pending + 1
        BY <2>1, <2>2, <3>1, RequestEffect
      <3> QED
        BY <2>1, <2>3, <2>5, <3>2 DEF Unserved, Owes, Modelled
    <2> QED
      BY <2>4, <2>5
  <1>3. CASE Deliver
    <2>1. /\ Modelled /\ pending > 0 /\ ~guest.inIsr /\ pending' = pending - 1
          /\ guest' = [guest EXCEPT !.inIsr = TRUE]
          /\ UNCHANGED <<session, stripped, snap>>
      BY <1>3 DEF Deliver
    <2>2. guest' \in GuestType /\ guest'.inIsr /\ guest'.armed = guest.armed
      BY <2>1 DEF GuestType
    <2>3. pending' \in Nat
      BY <2>1
    <2> QED
      BY <2>1, <2>2, <2>3 DEF Owes, Modelled
  <1>4. CASE Isr
    <2> DEFINE g == [guest EXCEPT !.inIsr = FALSE, !.flight = 0]
    <2>1. g \in GuestType /\ ~g.inIsr /\ g.behind = guest.behind
      BY DEF GuestType
    <2>2. guest.inIsr /\ UNCHANGED <<session, stripped, snap>>
      BY <1>4 DEF Isr
    <2>3. Modelled
      BY <2>2 DEF Unserved, Modelled
    <2>4. CASE guest.behind = 0
      <3>1. guest' = [g EXCEPT !.armed = FALSE] /\ pending' = pending
        BY <1>4, <2>1, <2>4 DEF Isr
      <3>2. guest' \in GuestType /\ ~guest'.armed /\ ~guest'.inIsr
        BY <2>1, <3>1 DEF GuestType
      <3> QED
        BY <2>2, <2>3, <3>1, <3>2 DEF GuestType, Owes, Modelled
    <2>5. CASE guest.behind # 0
      <3>1. Request(Program(g, g.behind)) /\ g.behind \in Nat \ {0}
        BY <1>4, <2>1, <2>5 DEF Isr, GuestType
      <3>2. /\ guest' \in GuestType /\ guest'.armed /\ ~guest'.inIsr
            /\ pending' = pending + 1
        BY <2>1, <2>3, <3>1, RequestEffect
      <3> QED
        BY <2>2, <2>3, <3>2 DEF GuestType, Owes, Modelled
    <2> QED
      BY <2>4, <2>5
  <1> QED
    BY <1>1, <1>2, <1>3, <1>4

(* Saving and resuming.                                                    *)
LEMMA SessionSteps ==
  ASSUME Inv, Save \/ Extend \/ Resume
  PROVE  Inv'
PROOF
  <1> USE DEF Inv, ShapeInv, LiveInv, SavedInv
  <1>1. CASE Save
    BY <1>1 DEF Save, Snapshot, Modelled, Unserved, Owes
  <1>2. CASE Extend
    BY <1>2 DEF Extend, Snapshot, Modelled, Unserved, Owes
  <1>3. CASE Resume
    <2>1. /\ snap.kind \in {"legacy", "stateful"} /\ session' = snap.kind
          /\ stripped' = snap.stripped /\ snap' = snap
      BY <1>3 DEF Resume
    <2>2. CASE NeedsKick /\ snap.guest.citer > 0
      <3>1. guest' = Transfer(snap.guest) /\ pending' = 1 /\ snap.kind = "legacy"
            /\ snap.guest.armed
        <4>1. snap.kind = "legacy" /\ snap.guest.armed
          BY <2>2 DEF NeedsKick
        <4>2. Owed = 0
          BY <4>1 DEF Owed
        <4>3. guest' = Transfer(snap.guest) /\ pending' = Owed + 1
          BY <1>3, <2>2, Zenon DEF Resume
        <4> QED
          BY <4>1, <4>2, <4>3
      <3> QED
        BY <2>1, <3>1, TransferShape DEF Modelled, Unserved, Owes
    <2>3. CASE ~(NeedsKick /\ snap.guest.citer > 0)
      <3>1. guest' = snap.guest /\ pending' = Owed
        BY <1>3, <2>3 DEF Resume
      <3>2. CASE snap.kind = "legacy"
        BY <2>1, <2>3, <3>1, <3>2 DEF Owed, NeedsKick, Modelled, Unserved, Owes, GuestType
      <3>3. CASE snap.kind = "stateful"
        BY <2>1, <3>1, <3>3 DEF Owed, Modelled, Unserved, Owes, GuestType
      <3> QED
        BY <2>1, <3>2, <3>3
    <2> QED
      BY <2>2, <2>3
  <1> QED
    BY <1>1, <1>2, <1>3

LEMMA NextInv == Inv /\ [Next]_vars => Inv'
PROOF
  <1> SUFFICES ASSUME Inv, [Next]_vars PROVE Inv'
    OBVIOUS
  <1>1. CASE UNCHANGED vars
    BY <1>1 DEF vars, Inv, ShapeInv, LiveInv, SavedInv, Unserved, Owes, Modelled
  <1>2. CASE Next
    BY <1>2, GuestSteps, SessionSteps DEF Next
  <1> QED
    BY <1>1, <1>2

(* The console's bytes are numbers, also those a snapshot brings.          *)
ConsoleInv == sent \in Seq(Nat) /\ snap.sent \in Seq(Nat)

LEMMA MovedShape ==
  ASSUME NEW g \in GuestType, NEW s \in Seq(Nat)
  PROVE  s \o Moved(g) \in Seq(Nat)
PROOF
  <1>1. g.citer \in Nat /\ g.saddr \in Nat /\ g.ring \in [Slot -> Nat]
    BY RingFacts DEF GuestType, Slot
  <1>2. ASSUME NEW i \in 1..g.citer
        PROVE  g.ring[(g.saddr + i - 1) % RingSize] \in Nat
    <2>1. g.saddr + i - 1 \in Nat
      BY <1>1
    <2>2. (g.saddr + i - 1) % RingSize \in Slot
      BY <2>1, RingFacts DEF Slot
    <2> QED
      BY <1>1, <2>2
  <1>3. Moved(g) \in [1..g.citer -> Nat]
    BY <1>2 DEF Moved
  <1>4. Moved(g) \in Seq(Nat)
    BY <1>1, <1>3, SMTT(30)
  <1> QED
    BY <1>4

LEMMA RequestSends ==
  ASSUME NEW g \in GuestType, NEW n \in Nat, sent \in Seq(Nat), Request(Program(g, n))
  PROVE  sent' \in Seq(Nat)
PROOF
  <1> DEFINE p == Program(g, n)
  <1>1. p \in GuestType
    BY DEF Program, GuestType
  <1>2. sent' = sent \/ sent' = sent \o Moved(p)
    BY DEF Request, RunMajor
  <1> HIDE DEF p
  <1> QED
    BY <1>1, <1>2, MovedShape

LEMMA ConsoleInit == Init => ConsoleInv
PROOF
  <1> SUFFICES ASSUME Init PROVE ConsoleInv
    OBVIOUS
  <1>1. sent = <<>> /\ snap.sent = <<>>
    BY DEF Init, NoSnapshot
  <1> QED
    BY <1>1 DEF ConsoleInv

LEMMA ConsoleStep == Inv /\ ConsoleInv /\ [Next]_vars => ConsoleInv'
PROOF
  <1> SUFFICES ASSUME Inv, ConsoleInv, [Next]_vars PROVE ConsoleInv'
    OBVIOUS
  <1>1. guest \in GuestType /\ snap.guest \in GuestType
    BY DEF Inv, ShapeInv
  <1>2. ASSUME snap' = snap, sent' \in Seq(Nat) PROVE ConsoleInv'
    BY <1>2 DEF ConsoleInv
  <1>3. CASE snap' = snap /\ sent' = sent
    BY <1>2, <1>3 DEF ConsoleInv
  <1>4. CASE Put
    <2> DEFINE n == guest.wants
               g == [guest EXCEPT !.ring = Filled(guest, n), !.queued = @ + n, !.wants = 0,
                                  !.behind = @ + n]
    <2>1. n \in Nat
      BY <1>1 DEF GuestType
    <2>2. Filled(guest, n) \in [Slot -> Nat]
      BY <1>1, <2>1, FilledShape
    <2>3. g \in GuestType /\ g.behind \in Nat
      <3>1. guest.queued + n \in Nat /\ guest.behind + n \in Nat
        BY <1>1, <2>1 DEF GuestType
      <3> HIDE DEF n
      <3> QED
        BY <1>1, <2>2, <3>1 DEF GuestType
    <2>4. snap' = snap /\ (sent' = sent \/ Request(Program(g, g.behind)))
      BY <1>4 DEF Put
    <2> HIDE DEF g, n
    <2> QED
      BY <1>2, <1>3, <2>3, <2>4, RequestSends DEF ConsoleInv
  <1>5. CASE Isr
    <2> DEFINE g == [guest EXCEPT !.inIsr = FALSE, !.flight = 0]
    <2>1. g \in GuestType /\ g.behind \in Nat
      BY <1>1 DEF GuestType
    <2>2. snap' = snap /\ (sent' = sent \/ Request(Program(g, g.behind)))
      BY <1>5 DEF Isr
    <2> HIDE DEF g
    <2> QED
      BY <1>2, <1>3, <2>1, <2>2, RequestSends DEF ConsoleInv
  <1>6. CASE Save \/ Extend
    <2>1. sent' = sent /\ snap'.sent = sent
      BY <1>6 DEF Save, Extend, Snapshot
    <2> QED
      BY <2>1 DEF ConsoleInv
  <1>7. CASE Resume
    <2>1. snap' = snap /\ (sent' = snap.sent \/ sent' = snap.sent \o Moved(snap.guest))
      BY <1>7 DEF Resume
    <2> QED
      BY <1>1, <1>2, <2>1, MovedShape DEF ConsoleInv
  <1> QED
    BY <1>3, <1>4, <1>5, <1>6, <1>7 DEF Next, Enqueue, Deliver, vars

(* The firmware's variables, the TCD and the console keep their types,     *)
(* whatever is saved and resumed; SADDR never leaves the ring.             *)
THEOREM TypeCorrect == Spec => []TypeOK
PROOF
  <1>1. Inv /\ ConsoleInv => TypeOK
    BY DEF Inv, ShapeInv, ConsoleInv, TypeOK
  <1> QED
    BY InitInv, NextInv, ConsoleInit, ConsoleStep, <1>1, PTL DEF Spec

(* An armed transfer is owed exactly one completion and an idle channel    *)
(* none, whatever is saved and resumed and whichever kind the snapshot is. *)
THEOREM CompletionsMatch == Spec => []OneCompletion
PROOF
  <1>1. Inv => OneCompletion
    BY DEF Inv, LiveInv, Owes, OneCompletion
  <1> QED
    BY InitInv, NextInv, <1>1, PTL DEF Spec
-----------------------------------------------------------------------------
(* Quotient and remainder, and that they are unique.                       *)
LEMMA Divided ==
  ASSUME NEW a \in Nat, NEW R \in Nat \ {0}
  PROVE  /\ a \div R \in Nat /\ a % R \in 0..(R - 1)
         /\ a = R * (a \div R) + (a % R)
  BY Z3

LEMMA Grows ==
  ASSUME NEW R \in Nat, NEW q \in Nat, NEW p \in Nat, q < p
  PROVE  R * q + R <= R * p
PROOF
  <1>1. PICK d \in Nat : p = q + 1 + d
    <2>1. p - q - 1 \in Nat /\ p = q + 1 + (p - q - 1)
      OBVIOUS
    <2> QED
      BY <2>1
  <1>2. R * p = R * q + R + R * d /\ R * d >= 0 /\ R * q \in Nat /\ R * d \in Nat
    BY <1>1
  <1> QED
    BY <1>2

LEMMA Unique ==
  ASSUME NEW R \in Nat \ {0}, NEW q \in Nat, NEW p \in Nat,
         NEW r \in 0..(R - 1), NEW s \in 0..(R - 1), R * q + r = R * p + s
  PROVE  r = s
PROOF
  <1>0. R * q \in Nat /\ R * p \in Nat
    OBVIOUS
  <1>1. CASE q < p
    <2>1. R * q + R <= R * p
      BY <1>1, Grows
    <2> QED
      BY <1>0, <2>1
  <1>2. CASE p < q
    <2>1. R * p + R <= R * q
      BY <1>2, Grows
    <2> QED
      BY <1>0, <2>1
  <1>3. CASE p = q
    <2>1. R * q = R * p
      BY <1>3
    <2> QED
      BY <1>0, <2>1
  <1> QED
    BY <1>1, <1>2, <1>3

LEMMA Small ==
  ASSUME NEW R \in Nat \ {0}, NEW a \in Nat, a < R
  PROVE  a % R = a
PROOF
  <1>1. PICK q \in Nat, r \in 0..(R - 1) : a = R * q + r /\ a % R = r
    BY Divided
  <1>2. R * 0 + a = R * q + r /\ a \in 0..(R - 1)
    BY <1>1
  <1>3. a = r
    BY <1>2, Unique
  <1> QED
    BY <1>1, <1>3

(* Numbers with one residue are a multiple of the ring apart.              *)
LEMMA Residues ==
  ASSUME NEW R \in Nat \ {0}, NEW a \in Nat, NEW b \in Nat, a % R = b % R, a < b
  PROVE  b - a >= R
PROOF
  <1> DEFINE q == a \div R  p == b \div R
  <1>1. /\ q \in Nat /\ p \in Nat /\ a % R \in 0..(R - 1)
        /\ a = R * q + (a % R) /\ b = R * p + (b % R)
    BY Divided
  <1> HIDE DEF q, p
  <1>2. R * q \in Nat /\ R * p \in Nat
    BY <1>1
  <1>3. q < p
    <2>1. CASE q = p
      <3>1. R * q = R * p
        BY <2>1
      <3> QED
        BY <1>1, <1>2, <3>1
    <2>2. CASE p < q
      <3>1. R * p + R <= R * q
        BY <2>2, <1>1, Grows
      <3> QED
        BY <1>1, <1>2, <3>1
    <2> QED
      BY <1>1, <2>1, <2>2
  <1>4. R * q + R <= R * p
    BY <1>1, <1>3, Grows
  <1> QED
    BY <1>1, <1>2, <1>4

(* Moving on from a reduced position is moving on from the position.       *)
LEMMA Shifted ==
  ASSUME NEW R \in Nat \ {0}, NEW a \in Nat, NEW k \in Nat
  PROVE  ((a % R) + k) % R = (a + k) % R
PROOF
  <1>1. PICK q \in Nat, r \in 0..(R - 1) : a = R * q + r /\ a % R = r
    BY Divided
  <1>2. r + k \in Nat /\ a + k \in Nat
    OBVIOUS
  <1>3. PICK p \in Nat, s \in 0..(R - 1) : r + k = R * p + s /\ (r + k) % R = s
    BY <1>2, Divided
  <1>4. PICK t \in Nat, u \in 0..(R - 1) : a + k = R * t + u /\ (a + k) % R = u
    BY <1>2, Divided
  <1>5. PICK x \in Nat : x = q + p
    OBVIOUS
  <1>6. R * x = R * q + R * p /\ R * q \in Nat /\ R * p \in Nat /\ R * x \in Nat
        /\ R * t \in Nat
    BY <1>5
  <1>7. R * x + s = R * t + u
    BY <1>1, <1>3, <1>4, <1>6
  <1>8. s = u
    BY <1>7, Unique
  <1> QED
    BY <1>1, <1>3, <1>4, <1>8

-----------------------------------------------------------------------------
(* Bytes that left: all queued but those behind the transfer and, while    *)
(* nothing has run it, those in it.                                        *)
Gone(g, live) == g.queued - g.behind - (IF live THEN 0 ELSE g.flight)

(* The first n bytes are on the console in order, the others are still in  *)
(* the ring at their places, and SADDR stands at the first of them.        *)
Stream(g, s, n) ==
  /\ n \in Nat /\ n <= g.queued /\ g.queued - n <= RingSize
  /\ Len(s) = n /\ \A i \in 1..n : s[i] = i
  /\ g.saddr = n % RingSize
  /\ \A b \in (n + 1)..g.queued : g.ring[(b - 1) % RingSize] = b

(* The counters agree; a transfer that nothing runs is the whole of CITER. *)
Counts(g, live) ==
  /\ g.citer = g.biter /\ g.wants <= MaxWrite
  /\ ~g.armed => g.behind = 0 /\ g.flight = 0
  /\ ~live => g.flight < RingSize /\ g.citer = g.flight

Console(g, s, live) == Counts(g, live) /\ Stream(g, s, Gone(g, live))

ExactInv ==
  /\ ~stripped => Console(guest, sent, Modelled)
  /\ snap.kind # "none" /\ ~snap.stripped =>
       Console(snap.guest, snap.sent, snap.kind = "stateful")

(* Bytes that fit the ring overwrite none that is still to go.             *)
LEMMA FilledKeeps ==
  ASSUME NEW g \in GuestType, NEW m \in Nat, NEW n \in Nat, n <= g.queued,
         g.queued + m - n <= RingSize,
         \A b \in (n + 1)..g.queued : g.ring[(b - 1) % RingSize] = b,
         NEW b \in (n + 1)..(g.queued + m)
  PROVE  Filled(g, m)[(b - 1) % RingSize] = b
PROOF
  <1> DEFINE slot == (b - 1) % RingSize
             New == (g.queued + 1)..(g.queued + m)
  <1>1. g.queued \in Nat /\ RingSize \in Nat \ {0} /\ b - 1 \in Nat
    BY RingFacts DEF GuestType
  <1>2. slot \in Slot
    BY <1>1, RingFacts DEF Slot
  <1>3. ASSUME NEW c \in New, (c - 1) % RingSize = slot
        PROVE  c = b
    <2>1. PICK x \in Nat : x = c - 1
      BY <1>1
    <2>2. PICK y \in Nat : y = b - 1
      BY <1>1
    <2>3. x % RingSize = y % RingSize
      BY <1>3, <2>1, <2>2
    <2>4. ~(x < y)
      <3>1. x < y => y - x >= RingSize
        BY <1>1, <2>3, Residues
      <3> QED
        BY <1>1, <2>1, <2>2, <3>1
    <2>5. ~(y < x)
      <3>1. y < x => x - y >= RingSize
        BY <1>1, <2>3, Residues
      <3> QED
        BY <1>1, <2>1, <2>2, <3>1
    <2> QED
      BY <1>1, <2>1, <2>2, <2>4, <2>5
  <1>4. CASE b > g.queued
    <2>1. b \in New
      BY <1>1, <1>4
    <2> DEFINE c == CHOOSE d \in New : (d - 1) % RingSize = slot
    <2>2. c \in New /\ (c - 1) % RingSize = slot
      BY <2>1
    <2>3. Filled(g, m)[slot] = c
      BY <1>2, <2>1 DEF Filled
    <2> HIDE DEF c, New
    <2> QED
      BY <1>3, <2>2, <2>3
  <1>5. CASE b <= g.queued
    <2>1. ~\E c \in New : (c - 1) % RingSize = slot
      BY <1>1, <1>3, <1>5
    <2>2. Filled(g, m)[slot] = g.ring[slot]
      BY <1>2, <2>1 DEF Filled
    <2>3. b \in (n + 1)..g.queued
      BY <1>1, <1>5
    <2> QED
      BY <2>2, <2>3
  <1> QED
    BY <1>1, <1>4, <1>5

(* A major loop puts the next CITER bytes on the console.                  *)
LEMMA TransferStreams ==
  ASSUME NEW g \in GuestType, NEW s \in Seq(Nat), NEW n, Stream(g, s, n),
         n + g.citer <= g.queued
  PROVE  Stream(Transfer(g), s \o Moved(g), n + g.citer)
PROOF
  <1> DEFINE k == g.citer
  <1>1. n \in Nat /\ k \in Nat /\ RingSize \in Nat \ {0} /\ g.queued \in Nat
        /\ n + k <= g.queued
    BY RingFacts DEF GuestType, Stream
  <1>2. Transfer(g).saddr = (n + k) % RingSize /\ Transfer(g).queued = g.queued
        /\ Transfer(g).ring = g.ring
    <2>1. ((n % RingSize) + k) % RingSize = (n + k) % RingSize
      BY <1>1, Shifted
    <2> QED
      BY <2>1 DEF Transfer, GuestType, Stream
  <1>3. ASSUME NEW i \in 1..k
        PROVE  Moved(g)[i] = n + i
    <2>1. Moved(g)[i] = g.ring[((n % RingSize) + i - 1) % RingSize]
      BY DEF Moved, Stream
    <2>2. i - 1 \in Nat /\ (n % RingSize) \in Nat
      BY <1>1
    <2>3. ((n % RingSize) + (i - 1)) % RingSize = (n + (i - 1)) % RingSize
      BY <1>1, <2>2, Shifted
    <2>4. (n % RingSize) + i - 1 = (n % RingSize) + (i - 1) /\ n + (i - 1) = (n + i) - 1
          /\ n + i \in (n + 1)..g.queued
      BY <1>1, <2>2
    <2>5. g.ring[((n + i) - 1) % RingSize] = n + i
      BY <2>4 DEF Stream
    <2> QED
      BY <2>1, <2>3, <2>4, <2>5
  <1>4. Moved(g) = [i \in 1..k |-> n + i]
    BY <1>3 DEF Moved
  <1> HIDE DEF k
  <1>5. Len(s \o Moved(g)) = n + k /\ \A i \in 1..(n + k) : (s \o Moved(g))[i] = i
    <2>1. Moved(g) \in Seq(Nat) /\ Len(Moved(g)) = k
      BY <1>1, <1>4
    <2>2. Len(s) = n /\ \A i \in 1..n : s[i] = i
      BY DEF Stream
    <2> QED
      BY <1>1, <1>4, <2>1, <2>2, SMTT(30)
  <1>6. \A b \in (n + k + 1)..g.queued : g.ring[(b - 1) % RingSize] = b
    BY <1>1 DEF Stream
  <1>7. n + k \in Nat /\ g.queued - (n + k) <= RingSize
    BY <1>1 DEF Stream
  <1>8. Stream(Transfer(g), s \o Moved(g), n + k)
    BY <1>1, <1>2, <1>5, <1>6, <1>7 DEF Stream
  <1> QED
    BY <1>8 DEF k

(* A transfer programmed for all that is behind: the host runs it, or it   *)
(* stays as it is while there is no host model.                            *)
LEMMA RequestStreams ==
  ASSUME NEW g \in GuestType, sent \in Seq(Nat), g.behind # 0, g.wants <= MaxWrite,
         Stream(g, sent, g.queued - g.behind),
         ~Modelled => g.behind < RingSize,
         Request(Program(g, g.behind))
  PROVE  Console(guest', sent', Modelled)
PROOF
  <1> DEFINE p == Program(g, g.behind)
             n == g.queued - g.behind
  <1>1. /\ p \in GuestType /\ p.citer = g.behind /\ p.biter = g.behind
        /\ p.flight = g.behind /\ p.behind = 0 /\ p.armed /\ p.queued = g.queued
        /\ p.wants = g.wants /\ p.ring = g.ring /\ p.saddr = g.saddr
    BY DEF Program, GuestType
  <1>2. g.behind \in Nat /\ g.queued \in Nat /\ n \in Nat /\ n + g.behind = g.queued
    BY DEF GuestType, Stream
  <1>3. Stream(p, sent, n)
    BY <1>1 DEF Stream
  <1>4. CASE Modelled
    <2>1. guest' = Transfer(p) /\ sent' = sent \o Moved(p)
      BY <1>1, <1>2, <1>4 DEF Request, RunMajor
    <2>2. Stream(Transfer(p), sent \o Moved(p), g.queued)
      BY <1>1, <1>2, <1>3, TransferStreams
    <2>3. /\ Transfer(p).citer = g.behind /\ Transfer(p).biter = g.behind
          /\ Transfer(p).wants = g.wants /\ Transfer(p).armed
          /\ Transfer(p).behind = 0 /\ Transfer(p).queued = g.queued
      BY <1>1 DEF Transfer, GuestType
    <2>4. Gone(Transfer(p), TRUE) = g.queued
      BY <1>2, <2>3 DEF Gone
    <2> HIDE DEF p, n
    <2> QED
      BY <1>4, <2>1, <2>2, <2>3, <2>4 DEF Console, Counts
  <1>5. CASE ~Modelled
    <2>1. guest' = p /\ sent' = sent
      BY <1>5 DEF Request
    <2>2. Gone(p, Modelled) = n
      BY <1>1, <1>2, <1>5 DEF Gone
    <2> HIDE DEF p, n
    <2>3. Counts(p, Modelled)
      BY <1>1, <1>5 DEF Counts
    <2>4. Console(p, sent, Modelled)
      BY <1>3, <2>2, <2>3 DEF Console
    <2> QED
      BY <2>1, <2>4
  <1> QED
    BY <1>4, <1>5

(* Queueing: what fits the free space fits beside the bytes still to go.   *)
LEMMA PutStreams ==
  ASSUME Inv, ConsoleInv, Console(guest, sent, Modelled), Put
  PROVE  Console(guest', sent', Modelled)
PROOF
  <1> DEFINE m == guest.wants
             n == Gone(guest, Modelled)
             g == [guest EXCEPT !.ring = Filled(guest, m), !.queued = @ + m, !.wants = 0,
                                !.behind = @ + m]
  <1>1. /\ guest \in GuestType /\ sent \in Seq(Nat) /\ m \in Nat /\ m > 0 /\ m <= MaxWrite
        /\ guest.queued \in Nat /\ guest.behind \in Nat /\ guest.flight \in Nat
    BY DEF Inv, ShapeInv, ConsoleInv, GuestType, Put, Console, Counts
  <1>2. RingSize \in Nat \ {0} /\ MaxWrite \in Nat /\ MaxWrite < RingSize
    BY TxAssumption
  <1>3. Counts(guest, Modelled) /\ Stream(guest, sent, n)
    BY DEF Console
  <1>4. guest.queued + m - n <= RingSize
    <2>1. CASE ~guest.armed
      BY <1>1, <1>2, <1>3, <2>1 DEF Counts, Gone
    <2>2. CASE guest.armed
      <3>1. Fits
        BY DEF Put
      <3>2. guest.citer - guest.biter + guest.flight = guest.flight
        BY <1>1, <1>3 DEF Counts, GuestType
      <3>3. RingSize - (guest.flight % RingSize) >= guest.behind + m
        BY <3>1, <3>2 DEF Fits
      <3>4. (guest.flight % RingSize) \in Nat
        BY <1>1, <1>2
      <3>5. CASE Modelled
        <4>1. n = guest.queued - guest.behind
          BY <1>1, <3>5 DEF Gone
        <4> HIDE DEF n
        <4> QED
          BY <1>1, <1>2, <3>3, <3>4, <4>1, SMTT(30)
      <3>6. CASE ~Modelled
        <4>1. guest.flight < RingSize
          BY <1>3, <3>6 DEF Counts
        <4>2. guest.flight % RingSize = guest.flight
          BY <1>1, <1>2, <4>1, Small
        <4>3. n = guest.queued - guest.behind - guest.flight
          BY <3>6 DEF Gone
        <4>4. RingSize - guest.flight >= guest.behind + m
          BY <3>3, <4>2
        <4> HIDE DEF n, m
        <4> QED
          BY <1>1, <1>2, <4>3, <4>4, SMTT(30)
      <3> QED
        BY <3>5, <3>6
    <2> QED
      BY <2>1, <2>2
  <1>5. /\ g \in GuestType /\ g.queued = guest.queued + m /\ g.behind = guest.behind + m
        /\ g.wants = 0 /\ g.armed = guest.armed /\ g.flight = guest.flight
        /\ g.citer = guest.citer /\ g.biter = guest.biter /\ g.saddr = guest.saddr
        /\ g.ring = Filled(guest, m)
    <2>1. Filled(guest, m) \in [Slot -> Nat]
      BY <1>1, FilledShape
    <2>2. guest.queued + m \in Nat /\ guest.behind + m \in Nat
      BY <1>1
    <2> HIDE DEF m
    <2> QED
      BY <1>1, <2>1, <2>2 DEF GuestType
  <1>6. Stream(g, sent, n)
    <2>1. n \in Nat /\ n <= guest.queued
      BY <1>3 DEF Stream
    <2>2. \A b \in (n + 1)..(guest.queued + m) : Filled(guest, m)[(b - 1) % RingSize] = b
      <3>1. \A b \in (n + 1)..guest.queued : guest.ring[(b - 1) % RingSize] = b
        BY <1>3 DEF Stream
      <3> HIDE DEF n, m
      <3> QED
        BY <1>1, <1>4, <2>1, <3>1, FilledKeeps
    <2>3. Len(sent) = n /\ (\A i \in 1..n : sent[i] = i) /\ guest.saddr = n % RingSize
      BY <1>3 DEF Stream
    <2> HIDE DEF n, m, g
    <2>4. n <= g.queued /\ g.queued - n <= RingSize
      BY <1>1, <1>4, <1>5, <2>1
    <2>5. \A b \in (n + 1)..g.queued : g.ring[(b - 1) % RingSize] = b
      BY <1>5, <2>2
    <2>6. g.saddr = n % RingSize
      BY <1>5, <2>3
    <2> QED
      BY <2>1, <2>3, <2>4, <2>5, <2>6 DEF Stream
  <1>7. Gone(g, Modelled) = n
    BY <1>1, <1>5 DEF Gone
  <1>8. CASE guest.armed
    <2>1. guest' = g /\ sent' = sent
      BY <1>8 DEF Put
    <2>2. Counts(g, Modelled)
      BY <1>2, <1>3, <1>5, <1>8 DEF Counts
    <2> HIDE DEF g, n, m
    <2> QED
      BY <1>6, <1>7, <2>1, <2>2 DEF Console
  <1>9. CASE ~guest.armed
    <2>1. Request(Program(g, g.behind))
      BY <1>9 DEF Put
    <2>2. guest.behind = 0 /\ guest.flight = 0
      BY <1>3, <1>9 DEF Counts
    <2>3. n = guest.queued
      BY <1>1, <2>2 DEF Gone
    <2> HIDE DEF g, n, m
    <2>4. g.behind = m /\ g.queued - g.behind = n
      BY <1>1, <1>5, <2>2, <2>3
    <2>5. g.behind # 0 /\ g.behind < RingSize /\ g.wants <= MaxWrite
      BY <1>1, <1>2, <1>5, <2>4
    <2>6. g \in GuestType /\ sent \in Seq(Nat) /\ Stream(g, sent, g.queued - g.behind)
      BY <1>1, <1>5, <1>6, <2>4
    <2> QED
      BY <2>1, <2>5, <2>6, RequestStreams
  <1> QED
    BY <1>8, <1>9

(* The handler: what it retires has left, what it chains leaves now.       *)
LEMMA IsrStreams ==
  ASSUME Inv, ConsoleInv, Console(guest, sent, Modelled), Isr
  PROVE  Console(guest', sent', Modelled)
PROOF
  <1> DEFINE g == [guest EXCEPT !.inIsr = FALSE, !.flight = 0]
  <1>1. Modelled
    BY DEF Inv, LiveInv, Unserved, Modelled, Isr
  <1>2. guest \in GuestType /\ sent \in Seq(Nat)
    BY DEF Inv, ShapeInv, ConsoleInv
  <1>3. /\ g \in GuestType /\ g.queued = guest.queued /\ g.behind = guest.behind
        /\ g.wants = guest.wants /\ g.flight = 0 /\ g.citer = guest.citer
        /\ g.biter = guest.biter /\ g.saddr = guest.saddr /\ g.ring = guest.ring
        /\ g.queued \in Nat /\ g.behind \in Nat
    BY <1>2 DEF GuestType
  <1>4. Gone(guest, TRUE) = g.queued - g.behind
    BY <1>3 DEF Gone
  <1>5. Stream(g, sent, g.queued - g.behind) /\ g.wants <= MaxWrite /\ g.citer = g.biter
    <2>1. Stream(guest, sent, g.queued - g.behind)
      BY <1>1, <1>4 DEF Console
    <2>2. guest.wants <= MaxWrite /\ guest.citer = guest.biter
      BY DEF Console, Counts
    <2> HIDE DEF g
    <2> QED
      BY <1>3, <2>1, <2>2 DEF Stream
  <1>6. CASE g.behind = 0
    <2>1. guest' = [g EXCEPT !.armed = FALSE] /\ sent' = sent
      BY <1>6 DEF Isr
    <2> HIDE DEF g
    <2>2. /\ guest'.queued = g.queued /\ guest'.behind = 0 /\ guest'.flight = 0
          /\ guest'.wants = g.wants /\ guest'.citer = g.citer /\ guest'.biter = g.biter
          /\ guest'.saddr = g.saddr /\ guest'.ring = g.ring
      BY <1>3, <1>6, <2>1 DEF GuestType
    <2>3. Gone(guest', TRUE) = g.queued - g.behind
      BY <1>3, <1>6, <2>2 DEF Gone
    <2>4. Stream(guest', sent', g.queued - g.behind)
      BY <1>5, <2>1, <2>2 DEF Stream
    <2>5. Counts(guest', TRUE)
      BY <1>5, <2>2 DEF Counts
    <2> QED
      BY <1>1, <2>3, <2>4, <2>5 DEF Console
  <1>7. CASE g.behind # 0
    <2>1. Request(Program(g, g.behind))
      BY <1>7 DEF Isr
    <2> HIDE DEF g
    <2> QED
      BY <1>1, <1>2, <1>3, <1>5, <1>7, <2>1, RequestStreams
  <1> QED
    BY <1>6, <1>7

(* Resuming: a legacy snapshot holds a transfer that nothing ran, and the  *)
(* kick runs it; a stateful one holds none.                                *)
LEMMA ResumeStreams ==
  ASSUME Inv, ConsoleInv, snap.kind \in {"legacy", "stateful"}, Resume,
         Console(snap.guest, snap.sent, snap.kind = "stateful")
  PROVE  Console(guest', sent', TRUE)
PROOF
  <1> DEFINE g == snap.guest
             live == snap.kind = "stateful"
             n == Gone(g, live)
  <1>1. /\ g \in GuestType /\ snap.sent \in Seq(Nat)
        /\ g.queued \in Nat /\ g.behind \in Nat /\ g.flight \in Nat /\ g.citer \in Nat
    BY DEF Inv, ShapeInv, ConsoleInv, GuestType
  <1>2. Counts(g, live) /\ Stream(g, snap.sent, n)
    BY DEF Console
  <1>3. CASE NeedsKick /\ g.citer > 0
    <2>1. snap.kind = "legacy" /\ g.armed
      BY <1>3 DEF NeedsKick
    <2>2. guest' = Transfer(g) /\ sent' = snap.sent \o Moved(g)
      BY <1>3, Zenon DEF Resume
    <2>3. n = g.queued - g.behind - g.flight /\ g.citer = g.flight
      BY <1>2, <2>1 DEF Gone, Counts
    <2>4. n + g.citer = g.queued - g.behind /\ n + g.citer <= g.queued
      BY <1>1, <2>3
    <2>5. Stream(Transfer(g), snap.sent \o Moved(g), g.queued - g.behind)
      <3> HIDE DEF g, n
      <3> QED
        BY <1>1, <1>2, <2>4, TransferStreams
    <2>6. /\ Transfer(g).citer = Transfer(g).biter /\ Transfer(g).wants = g.wants
          /\ Transfer(g).armed /\ Transfer(g).behind = g.behind
          /\ Transfer(g).queued = g.queued
      <3> HIDE DEF g
      <3> QED
        BY <1>1, <2>1 DEF Transfer, GuestType
    <2> HIDE DEF g, n
    <2>7. Gone(Transfer(g), TRUE) = g.queued - g.behind
      BY <1>1, <2>6 DEF Gone
    <2> QED
      BY <1>2, <2>2, <2>5, <2>6, <2>7 DEF Console, Counts
  <1>4. CASE ~(NeedsKick /\ g.citer > 0)
    <2>1. guest' = g /\ sent' = snap.sent
      BY <1>4 DEF Resume
    <2>2. ~live => g.flight = 0
      BY <1>1, <1>2, <1>4 DEF NeedsKick, Counts
    <2>3. Gone(g, TRUE) = n
      BY <1>1, <2>2 DEF Gone
    <2>4. Counts(g, TRUE)
      BY <1>2 DEF Counts
    <2> HIDE DEF g, n
    <2> QED
      BY <1>2, <2>1, <2>3, <2>4 DEF Console
  <1> QED
    BY <1>3, <1>4

LEMMA ExactInit == Init => ExactInv
PROOF
  <1> SUFFICES ASSUME Init PROVE ExactInv
    OBVIOUS
  <1>1. guest = Idle /\ sent = <<>> /\ snap.kind = "none"
    BY DEF Init, NoSnapshot
  <1>2. Gone(Idle, Modelled) = 0 /\ Counts(Idle, Modelled)
    BY TxAssumption DEF Idle, Gone, Counts
  <1>3. Stream(Idle, <<>>, 0)
    <2>1. 0 % RingSize = 0
      BY TxAssumption, Small
    <2> QED
      BY <2>1, TxAssumption DEF Idle, Stream
  <1> QED
    BY <1>1, <1>2, <1>3 DEF ExactInv, Console

LEMMA ExactStep == Inv /\ ConsoleInv /\ ExactInv /\ [Next]_vars => ExactInv'
PROOF
  <1> SUFFICES ASSUME Inv, ConsoleInv, ExactInv, [Next]_vars PROVE ExactInv'
    OBVIOUS
  <1>1. ASSUME UNCHANGED <<session, stripped, snap>>,
               Console(guest, sent, Modelled) => Console(guest', sent', Modelled)
        PROVE  ExactInv'
    BY <1>1 DEF ExactInv, Modelled
  <1>2. ASSUME NEW k \in 1..MaxWrite, Enqueue(k) PROVE ExactInv'
    <2>1. UNCHANGED <<session, stripped, snap, sent>> /\ guest' = [guest EXCEPT !.wants = k]
          /\ guest \in GuestType
      BY <1>2 DEF Enqueue, Inv, ShapeInv
    <2>2. /\ guest'.queued = guest.queued /\ guest'.behind = guest.behind
          /\ guest'.flight = guest.flight /\ guest'.armed = guest.armed
          /\ guest'.citer = guest.citer /\ guest'.biter = guest.biter
          /\ guest'.saddr = guest.saddr /\ guest'.ring = guest.ring /\ guest'.wants <= MaxWrite
      BY <2>1, TxAssumption DEF GuestType
    <2>3. Gone(guest', Modelled) = Gone(guest, Modelled)
      BY <2>2 DEF Gone
    <2>4. Counts(guest, Modelled) => Counts(guest', Modelled)
      BY <2>2 DEF Counts
    <2>5. Stream(guest, sent, Gone(guest, Modelled)) =>
            Stream(guest', sent', Gone(guest, Modelled))
      BY <2>1, <2>2 DEF Stream
    <2> QED
      BY <1>1, <2>1, <2>3, <2>4, <2>5 DEF Console
  <1>3. CASE Put
    BY <1>1, <1>3, PutStreams DEF Put
  <1>4. CASE Deliver
    <2>1. UNCHANGED <<session, stripped, snap, sent>> /\ guest' = [guest EXCEPT !.inIsr = TRUE]
          /\ guest \in GuestType
      BY <1>4 DEF Deliver, Inv, ShapeInv
    <2>2. /\ guest'.queued = guest.queued /\ guest'.behind = guest.behind
          /\ guest'.flight = guest.flight /\ guest'.armed = guest.armed
          /\ guest'.citer = guest.citer /\ guest'.biter = guest.biter
          /\ guest'.saddr = guest.saddr /\ guest'.ring = guest.ring
          /\ guest'.wants = guest.wants
      BY <2>1 DEF GuestType
    <2>3. Gone(guest', Modelled) = Gone(guest, Modelled)
      BY <2>2 DEF Gone
    <2>4. Counts(guest, Modelled) => Counts(guest', Modelled)
      BY <2>2 DEF Counts
    <2>5. Stream(guest, sent, Gone(guest, Modelled)) =>
            Stream(guest', sent', Gone(guest, Modelled))
      BY <2>1, <2>2 DEF Stream
    <2> QED
      BY <1>1, <2>1, <2>3, <2>4, <2>5 DEF Console
  <1>5. CASE Isr
    BY <1>1, <1>5, IsrStreams DEF Isr
  <1>6. CASE Save
    <2> DEFINE kind == IF Modelled THEN "stateful" ELSE "legacy"
    <2>1. /\ UNCHANGED <<session, guest, sent, stripped>> /\ stripped \in BOOLEAN
          /\ snap' = Snapshot(kind)
      BY <1>6 DEF Save, Inv, ShapeInv
    <2>2. /\ snap'.guest = guest /\ snap'.sent = sent /\ snap'.kind = kind
          /\ ~snap'.stripped => ~stripped
      BY <2>1 DEF Snapshot
    <2>3. CASE Modelled
      BY <2>1, <2>2, <2>3 DEF ExactInv, Modelled
    <2>4. CASE ~Modelled
      BY <2>1, <2>2, <2>4 DEF ExactInv, Modelled
    <2> QED
      BY <2>3, <2>4
  <1>7. CASE Extend
    <2>1. UNCHANGED <<session, guest, sent, stripped>> /\ snap'.stripped
      BY <1>7 DEF Extend, Snapshot, Modelled
    <2> QED
      BY <2>1 DEF ExactInv, Modelled
  <1>8. CASE Resume
    <2>1. /\ snap.kind \in {"legacy", "stateful"} /\ session' = snap.kind
          /\ stripped' = snap.stripped /\ snap' = snap
      BY <1>8 DEF Resume, Inv, ShapeInv
    <2>2. Modelled'
      BY <2>1 DEF Modelled
    <2>3. ~snap.stripped => Console(guest', sent', TRUE)
      BY <1>8, <2>1, ResumeStreams DEF ExactInv
    <2> QED
      BY <2>1, <2>2, <2>3 DEF ExactInv
  <1>9. CASE UNCHANGED vars
    BY <1>9 DEF vars, ExactInv, Modelled
  <1> QED
    BY <1>2, <1>3, <1>4, <1>5, <1>6, <1>7, <1>8, <1>9 DEF Next

(* The console has every byte of the firmware at most once, in order and   *)
(* unaltered, whatever is saved and resumed, as long as no session is      *)
(* saved without the model it had.                                         *)
THEOREM BytesExactlyOnce == Spec => []ExactlyOnce
PROOF
  <1>1. Inv /\ ConsoleInv /\ ExactInv => ExactlyOnce
    <2> SUFFICES ASSUME ExactInv, ~stripped PROVE Faithful
      BY DEF ExactlyOnce
    <2>1. Stream(guest, sent, Gone(guest, Modelled))
      BY DEF ExactInv, Console
    <2> QED
      BY <2>1 DEF Stream, Faithful
  <1> QED
    BY InitInv, NextInv, ConsoleInit, ConsoleStep, ExactInit, ExactStep, <1>1, PTL DEF Spec
=============================================================================
