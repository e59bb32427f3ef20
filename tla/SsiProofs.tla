----------------------------- MODULE SsiProofs ------------------------------
(* Proofs about the audio clock for every rate, loop and set of masks.     *)
(*                                                                         *)
(* Steady is an invariant of the clock alone.  Nested and InHandler rest   *)
(* on the shape of the exception stack: the two vectors alternate, each    *)
(* frame has saved the mask of the handler below it, vector 170 has done   *)
(* its work before anything is stacked on it, and vector 191 never sits    *)
(* on a frame that interrupted vector 191.  A snapshot holds the same.     *)
EXTENDS Ssi, SequenceTheorems, TLAPS

Level(v) == IF v = TX THEN TxLevel ELSE ForceLevel

(* The shape of the stack.                                                 *)
Stacked(fs) ==
  /\ fs \in Seq(Frame)
  /\ \A k \in 1..(Len(fs) - 1) :
       /\ fs[k].vec # fs[k + 1].vec
       /\ fs[k + 1].sr = Level(fs[k].vec)
       /\ fs[k].vec = TX => fs[k].at = "done"
  /\ \A k \in 1..(Len(fs) - 2) : fs[k].vec = TX

(* The mask is that of the handler that runs.                              *)
Masked(fs, i) == i \in Nat /\ (fs # <<>> => i = Level(fs[Len(fs)].vec))

TxOwed(p, fs) ==
  p = "delivered" => \E k \in 1..Len(fs) : fs[k].vec = TX /\ fs[k].at = "entered"

ForceOwed(f, fs) ==
  f = "delivered" <=> \E k \in 1..Len(fs) : fs[k].vec = FORCE /\ fs[k].at = "entered"

(* What the flags and the processor satisfy, in a session or a snapshot.   *)
Sound(p, f, i, fs) ==
  /\ p \in Flag /\ f \in Flag
  /\ Stacked(fs) /\ Masked(fs, i) /\ TxOwed(p, fs) /\ ForceOwed(f, fs)

OnGrid(d, c) == d \in 1..Ips /\ c \in Int /\ c + d = Ips

ClockInv ==
  OnGrid(due, clock) /\ \A k \in DOMAIN snap : OnGrid(snap[k].due, snap[k].clock)

StackInv ==
  /\ Sound(int50, force, ipl, frames)
  /\ \A k \in DOMAIN snap :
       Sound(snap[k].int50, snap[k].force, snap[k].ipl, snap[k].frames)

-----------------------------------------------------------------------------
(* The clock.                                                              *)

(* A boundary, however late, leaves the deadline ahead and on the grid.    *)
LEMMA ClockKept ==
  ASSUME NEW d \in Int, NEW c \in Int, NEW t \in Nat, OnGrid(d, c)
  PROVE  OnGrid(Advance(d - t), Kept(d - t, c + t))
BY SsiAssumption DEF OnGrid, Advance, Kept

LEMMA ClockAlways == Spec => []ClockInv
<1>1. Init => ClockInv
  BY SsiAssumption DEF Init, ClockInv, OnGrid
<1>2. ClockInv /\ [Next]_vars => ClockInv'
  <2> SUFFICES ASSUME ClockInv, [Next]_vars PROVE ClockInv'
    OBVIOUS
  <2>1. CASE Boundaries
    <3>1. PICK n \in 1..(Step + Slack) : Boundary(n)
      BY <2>1 DEF Boundaries
    <3>2. n * Hz \in Nat
      <4>1. n \in Nat
        BY <3>1, SsiAssumption DEF ClockInv, OnGrid, Step
      <4> QED BY <4>1, SsiAssumption
    <3>3. due' = Advance(due - n * Hz) /\ clock' = Kept(due - n * Hz, clock + n * Hz)
      BY <3>1 DEF Boundary
    <3>4. snap' = snap
      BY <3>1 DEF Boundary, Live
    <3>5. OnGrid(due', clock')
      <4> DEFINE t == n * Hz
      <4>1. due \in Int /\ clock \in Int /\ t \in Nat /\ OnGrid(due, clock)
        BY <3>2, SsiAssumption DEF ClockInv, OnGrid
      <4> HIDE DEF t
      <4>2. OnGrid(Advance(due - t), Kept(due - t, clock + t))
        BY <4>1, ClockKept
      <4> QED BY <4>2, <3>3 DEF t
    <3> QED BY <3>4, <3>5 DEF ClockInv
  <2>2. CASE UNCHANGED <<dma, snap>>
    BY <2>2 DEF ClockInv, dma
  <2>3. CASE Save
    BY <2>3 DEF ClockInv, Save, dma
  <2>4. CASE Resume
    BY <2>4 DEF ClockInv, Resume, Aligned
  <2> QED
    BY <2>1, <2>2, <2>3, <2>4
    DEF Next, Handlers, SetUp, SetIpl, Cint, SetForce, TxRte, ClearForce, ForceRte, Live,
        vars, dma
<1> QED BY <1>1, <1>2, PTL DEF Spec

(* No request is lost or moved: the count of Ssi0Dma.service follows the   *)
(* clock exactly, in and across sessions.                                  *)
THEOREM Grid == Spec => []Steady
<1>1. ClockInv => Steady
  BY DEF ClockInv, OnGrid, Steady
<1> QED BY <1>1, ClockAlways, PTL
-----------------------------------------------------------------------------
(* The stack.                                                              *)

(* At most three frames, of which two of one vector are of vector 170.     *)
LEMMA Depth ==
  ASSUME NEW fs, Stacked(fs)
  PROVE  /\ Len(fs) <= 3
         /\ \A j, k \in 1..Len(fs) :
              j < k /\ fs[j].vec = fs[k].vec => fs[j].vec = TX /\ fs[j].at = "done"
<1>1. Len(fs) \in Nat
  BY DEF Stacked
<1>2. Len(fs) <= 3
  <2> SUFFICES ASSUME Len(fs) > 3 PROVE FALSE
    BY <1>1
  <2>1. 1 \in 1..(Len(fs) - 2) /\ 2 \in 1..(Len(fs) - 2) /\ 1 \in 1..(Len(fs) - 1)
    BY <1>1
  <2>2. fs[1].vec = TX /\ fs[2].vec = TX /\ fs[1].vec # fs[1 + 1].vec
    BY <2>1 DEF Stacked
  <2> QED BY <2>2
<1>3. ASSUME NEW j \in 1..Len(fs), NEW k \in 1..Len(fs), j < k, fs[j].vec = fs[k].vec
      PROVE  fs[j].vec = TX /\ fs[j].at = "done"
  <2>1. j \in 1..(Len(fs) - 1)
    BY <1>1, <1>3
  <2>2. fs[j].vec # fs[j + 1].vec /\ (fs[j].vec = TX => fs[j].at = "done")
    BY <2>1 DEF Stacked
  <2>3. k # j + 1
    BY <2>2, <1>3
  <2>4. j \in 1..(Len(fs) - 2)
    BY <1>1, <1>3, <2>3
  <2> QED BY <2>2, <2>4 DEF Stacked
<1> QED BY <1>2, <1>3

(* A handler enters on a stack that it fits.                               *)
LEMMA Pushed ==
  ASSUME NEW fs, NEW i, NEW v \in {TX, FORCE},
         Stacked(fs), Masked(fs, i),
         fs # <<>> =>
           /\ fs[Len(fs)].vec # v
           /\ fs[Len(fs)].vec = TX => fs[Len(fs)].at = "done"
           /\ v = FORCE => Len(fs) = 1
  PROVE  LET gs == Append(fs, [vec |-> v, at |-> "entered", sr |-> i])
         IN  Stacked(gs) /\ Masked(gs, Level(v))
<1> DEFINE f == [vec |-> v, at |-> "entered", sr |-> i]
           gs == Append(fs, f)
           n == Len(fs)
<1>1. f \in Frame /\ fs \in Seq(Frame) /\ n \in Nat
  BY DEF Masked, Frame, Stacked
<1>2. /\ gs \in Seq(Frame) /\ Len(gs) = n + 1 /\ gs[n + 1] = f
      /\ \A k \in 1..n : gs[k] = fs[k]
  BY <1>1
<1>3. f.vec = v /\ f.sr = i
  OBVIOUS
<1>4. n > 0 => fs # <<>>
  OBVIOUS
<1> HIDE DEF gs, f
<1>5. ASSUME NEW k \in 1..(Len(gs) - 1)
      PROVE  /\ gs[k].vec # gs[k + 1].vec
             /\ gs[k + 1].sr = Level(gs[k].vec)
             /\ gs[k].vec = TX => gs[k].at = "done"
  <2>1. k \in 1..n
    BY <1>1, <1>2
  <2>2. CASE k = n
    BY <2>1, <2>2, <1>1, <1>2, <1>3, <1>4 DEF Masked
  <2>3. CASE k # n
    <3>1. k \in 1..(n - 1) /\ k + 1 \in 1..n
      BY <2>1, <2>3, <1>1
    <3> QED BY <3>1, <2>1, <1>2 DEF Stacked
  <2> QED BY <2>2, <2>3
<1>6. ASSUME NEW k \in 1..(Len(gs) - 2) PROVE gs[k].vec = TX
  <2>1. k \in 1..(n - 1) /\ n > 1
    BY <1>1, <1>2
  <2>2. v = TX
    BY <2>1, <1>4, <1>1
  <2>3. CASE k = n - 1
    <3>1. fs[k].vec # fs[k + 1].vec /\ k + 1 = n
      BY <2>1, <2>3, <1>1 DEF Stacked
    <3>2. fs[n].vec # TX
      BY <2>1, <2>2, <1>4
    <3>3. fs[k] \in Frame /\ fs[n] \in Frame
      BY <2>1, <1>1, ElementOfSeq
    <3>4. fs[k].vec = TX
      BY <3>1, <3>2, <3>3 DEF Frame
    <3> QED BY <3>4, <1>2, <2>1, <1>1
  <2>4. CASE k # n - 1
    <3>1. k \in 1..(n - 2) /\ k \in 1..n
      BY <2>1, <2>4, <1>1
    <3> QED BY <3>1, <1>2 DEF Stacked
  <2> QED BY <2>3, <2>4
<1>7. Stacked(gs)
  BY <1>2, <1>5, <1>6 DEF Stacked
<1>8. Masked(gs, Level(v))
  BY <1>2, <1>3, <1>1, SsiAssumption DEF Masked, Level
<1> QED BY <1>7, <1>8 DEF gs, f

(* A handler returns.                                                      *)
LEMMA Popped ==
  ASSUME NEW fs, Stacked(fs), fs # <<>>
  PROVE  LET gs == SubSeq(fs, 1, Len(fs) - 1)
         IN  /\ Stacked(gs) /\ Masked(gs, fs[Len(fs)].sr)
             /\ Len(gs) = Len(fs) - 1 /\ \A k \in 1..Len(gs) : gs[k] = fs[k]
<1> DEFINE n == Len(fs)
           gs == SubSeq(fs, 1, n - 1)
<1>1. fs \in Seq(Frame) /\ n \in Nat /\ n > 0
  BY DEF Stacked
<1>2. gs \in Seq(Frame) /\ Len(gs) = n - 1 /\ \A k \in 1..(n - 1) : gs[k] = fs[k]
  <2>1. \A k \in 1..(n - 1) : fs[k] \in Frame
    BY <1>1, ElementOfSeq
  <2>2. 1 \in Int /\ n - 1 \in Int
    BY <1>1
  <2>3. /\ gs \in Seq(Frame)
        /\ Len(gs) = IF 1 <= n - 1 THEN (n - 1) - 1 + 1 ELSE 0
        /\ \A k \in 1..((n - 1) - 1 + 1) : gs[k] = fs[1 + k - 1]
    BY <2>1, <2>2, SubSeqProperties
  <2> HIDE DEF gs, n
  <2>4. Len(gs) = n - 1
    BY <2>3, <1>1
  <2>5. (n - 1) - 1 + 1 = n - 1
    BY <1>1
  <2>6. \A k \in 1..(n - 1) : 1 + k - 1 = k
    BY <1>1
  <2> QED BY <2>3, <2>4, <2>5, <2>6
<1> HIDE DEF gs
<1>3. ASSUME NEW k \in 1..(Len(gs) - 1)
      PROVE  /\ gs[k].vec # gs[k + 1].vec
             /\ gs[k + 1].sr = Level(gs[k].vec)
             /\ gs[k].vec = TX => gs[k].at = "done"
  <2>1. k \in 1..(n - 1) /\ k + 1 \in 1..(n - 1)
    BY <1>1, <1>2
  <2> QED BY <2>1, <1>2 DEF Stacked
<1>4. ASSUME NEW k \in 1..(Len(gs) - 2) PROVE gs[k].vec = TX
  <2>1. k \in 1..(n - 2) /\ k \in 1..(n - 1)
    BY <1>1, <1>2
  <2> QED BY <2>1, <1>2 DEF Stacked
<1>5. Stacked(gs)
  BY <1>2, <1>3, <1>4 DEF Stacked
<1>6. fs[n].sr \in Nat
  <2>1. fs[n] \in Frame
    BY <1>1, ElementOfSeq
  <2> QED BY <2>1 DEF Frame
<1>7. ASSUME gs # <<>> PROVE fs[n].sr = Level(gs[Len(gs)].vec)
  <2>1. n - 1 \in 1..(n - 1)
    BY <1>1, <1>2, <1>7
  <2>2. fs[(n - 1) + 1].sr = Level(fs[n - 1].vec)
    BY <2>1 DEF Stacked
  <2> QED BY <2>1, <2>2, <1>1, <1>2
<1> QED BY <1>2, <1>5, <1>6, <1>7 DEF Masked, gs

(* A handler gets on.                                                      *)
With(fs, at) == [fs EXCEPT ![Len(fs)].at = at]

LEMMA Stepped ==
  ASSUME NEW fs, NEW i, NEW at \in {"entered", "acknowledged", "done"},
         Stacked(fs), Masked(fs, i), fs # <<>>,
         NEW gs, gs = With(fs, at)
  PROVE  /\ Stacked(gs) /\ Masked(gs, i)
         /\ Len(gs) = Len(fs)
         /\ \A k \in 1..(Len(fs) - 1) : gs[k] = fs[k]
         /\ gs[Len(fs)].vec = fs[Len(fs)].vec /\ gs[Len(fs)].at = at
<1> DEFINE n == Len(fs)
<1>1. fs \in Seq(Frame) /\ n \in Nat /\ n > 0 /\ n \in 1..n
  BY DEF Stacked
<1>2. fs[n] \in Frame
  BY <1>1, ElementOfSeq
<1>3. [fs[n] EXCEPT !.at = at] \in Frame
  BY <1>2 DEF Frame
<1>4. gs = [fs EXCEPT ![n] = [fs[n] EXCEPT !.at = at]]
  BY <1>1 DEF With
<1>5. gs \in Seq(Frame) /\ Len(gs) = n
  BY <1>1, <1>3, <1>4
<1>6. /\ \A k \in 1..(n - 1) : gs[k] = fs[k]
      /\ gs[n] = [fs[n] EXCEPT !.at = at]
  BY <1>1, <1>4
<1>7. gs[n].vec = fs[n].vec /\ gs[n].sr = fs[n].sr /\ gs[n].at = at
  BY <1>2, <1>6 DEF Frame
<1>8. \A k \in 1..n : gs[k].vec = fs[k].vec /\ gs[k].sr = fs[k].sr
  <2> SUFFICES ASSUME NEW k \in 1..n
               PROVE  gs[k].vec = fs[k].vec /\ gs[k].sr = fs[k].sr
    OBVIOUS
  <2>1. CASE k = n
    BY <2>1, <1>7
  <2>2. CASE k # n
    BY <2>2, <1>1, <1>6
  <2> QED BY <2>1, <2>2
<1>9. Stacked(gs)
  <2>1. ASSUME NEW k \in 1..(Len(gs) - 1)
        PROVE  /\ gs[k].vec # gs[k + 1].vec
               /\ gs[k + 1].sr = Level(gs[k].vec)
               /\ gs[k].vec = TX => gs[k].at = "done"
    <3>1. k \in 1..(n - 1) /\ k \in 1..n /\ k + 1 \in 1..n
      BY <1>1, <1>5
    <3> QED BY <3>1, <1>6, <1>8 DEF Stacked
  <2>2. ASSUME NEW k \in 1..(Len(gs) - 2) PROVE gs[k].vec = TX
    <3>1. k \in 1..(n - 2) /\ k \in 1..n
      BY <1>1, <1>5
    <3> QED BY <3>1, <1>8 DEF Stacked
  <2> QED BY <2>1, <2>2, <1>5 DEF Stacked
<1>10. Masked(gs, i)
  BY <1>5, <1>7, <1>1 DEF Masked
<1> QED BY <1>5, <1>6, <1>7, <1>9, <1>10
-----------------------------------------------------------------------------
(* The steps.                                                              *)

(* Init, and what a session and a snapshot hand to each other.             *)
LEMMA StackStarts == Init => StackInv
<1> SUFFICES ASSUME Init PROVE StackInv
  OBVIOUS
<1>1. Stacked(<<>>)
  BY DEF Stacked, Frame
<1>2. Masked(<<>>, ipl)
  BY SsiAssumption DEF Init, Masked
<1>3. Len(<<>>) = 0
  OBVIOUS
<1> QED BY <1>1, <1>2, <1>3 DEF Init, StackInv, Sound, Flag, TxOwed, ForceOwed

(* Entering vector 170.                                                    *)
LEMMA TxEntered ==
  ASSUME NEW p, NEW f, NEW i, NEW fs, Sound(p, f, i, fs), i < TxLevel
  PROVE  Sound("delivered", f, TxLevel, Append(fs, [vec |-> TX, at |-> "entered", sr |-> i]))
<1> DEFINE g == [vec |-> TX, at |-> "entered", sr |-> i]
           gs == Append(fs, g)
<1>1. fs \in Seq(Frame) /\ i \in Nat
  BY DEF Sound, Stacked, Masked
<1>2. fs # <<>> => fs[Len(fs)].vec = FORCE
  <2> SUFFICES ASSUME fs # <<>> PROVE fs[Len(fs)].vec = FORCE
    OBVIOUS
  <2>1. fs[Len(fs)] \in Frame
    BY <1>1, ElementOfSeq
  <2>2. i = Level(fs[Len(fs)].vec)
    BY DEF Sound, Masked
  <2>3. fs[Len(fs)].vec # TX
    BY <2>2, SsiAssumption DEF Level
  <2> QED BY <2>1, <2>3 DEF Frame
<1>3. Stacked(gs) /\ Masked(gs, Level(TX))
  <2>1. fs # <<>> =>
           /\ fs[Len(fs)].vec # TX
           /\ fs[Len(fs)].vec = TX => fs[Len(fs)].at = "done"
           /\ TX = FORCE => Len(fs) = 1
    BY <1>2 DEF TX, FORCE
  <2>2. Stacked(fs) /\ Masked(fs, i) /\ TX \in {TX, FORCE}
    BY DEF Sound
  <2> QED BY <2>1, <2>2, Pushed
<1>4. /\ Len(gs) = Len(fs) + 1 /\ Len(fs) \in Nat
      /\ gs[Len(fs) + 1] = g /\ \A k \in 1..Len(fs) : gs[k] = fs[k]
  BY <1>1
<1>5. g.vec = TX /\ g.at = "entered"
  OBVIOUS
<1> HIDE DEF gs, g
<1>6. TxOwed("delivered", gs)
  <2>1. Len(fs) + 1 \in 1..Len(gs)
    BY <1>4
  <2> QED BY <2>1, <1>4, <1>5 DEF TxOwed
<1>7. ForceOwed(f, gs)
  <2>1. TX # FORCE
    BY DEF TX, FORCE
  <2>2. \A k \in 1..Len(gs) : gs[k].vec = FORCE => k \in 1..Len(fs)
    BY <1>4, <1>5, <2>1
  <2>3. 1..Len(fs) \subseteq 1..Len(gs)
    BY <1>4
  <2>4. ForceOwed(f, fs)
    BY DEF Sound
  <2> QED BY <2>2, <2>3, <2>4, <1>4 DEF ForceOwed
<1>8. "delivered" \in Flag /\ f \in Flag
  BY DEF Sound, Flag
<1>9. Level(TX) = TxLevel
  BY DEF Level
<1> QED BY <1>3, <1>6, <1>7, <1>8, <1>9 DEF Sound, gs, g

(* Entering vector 191, on no frame or on the only one, at its RTE.        *)
LEMMA ForceEntered ==
  ASSUME NEW p, NEW i, NEW fs, Sound(p, "asserted", i, fs),
         fs # <<>> => Len(fs) = 1 /\ fs[1].vec = TX /\ fs[1].at = "done"
  PROVE  Sound(p, "delivered", ForceLevel,
               Append(fs, [vec |-> FORCE, at |-> "entered", sr |-> i]))
<1> DEFINE g == [vec |-> FORCE, at |-> "entered", sr |-> i]
           gs == Append(fs, g)
<1>1. fs \in Seq(Frame) /\ i \in Nat
  BY DEF Sound, Stacked, Masked
<1>2. TX # FORCE
  BY DEF TX, FORCE
<1>3. Stacked(gs) /\ Masked(gs, Level(FORCE))
  <2>1. fs # <<>> =>
           /\ fs[Len(fs)].vec # FORCE
           /\ fs[Len(fs)].vec = TX => fs[Len(fs)].at = "done"
           /\ FORCE = FORCE => Len(fs) = 1
    BY <1>2
  <2>2. Stacked(fs) /\ Masked(fs, i) /\ FORCE \in {TX, FORCE}
    BY DEF Sound
  <2> QED BY <2>1, <2>2, Pushed
<1>4. /\ Len(gs) = Len(fs) + 1 /\ Len(fs) \in Nat
      /\ gs[Len(fs) + 1] = g /\ \A k \in 1..Len(fs) : gs[k] = fs[k]
  BY <1>1
<1>5. g.vec = FORCE /\ g.at = "entered"
  OBVIOUS
<1> HIDE DEF gs, g
<1>6. TxOwed(p, gs)
  <2>1. TxOwed(p, fs)
    BY DEF Sound
  <2>2. 1..Len(fs) \subseteq 1..Len(gs)
    BY <1>4
  <2> QED BY <2>1, <2>2, <1>4 DEF TxOwed
<1>7. ForceOwed("delivered", gs)
  <2>1. Len(fs) + 1 \in 1..Len(gs)
    BY <1>4
  <2> QED BY <2>1, <1>4, <1>5 DEF ForceOwed
<1>8. p \in Flag /\ "delivered" \in Flag
  BY DEF Sound, Flag
<1>9. Level(FORCE) = ForceLevel
  BY <1>2 DEF Level
<1> QED BY <1>3, <1>6, <1>7, <1>8, <1>9 DEF Sound, gs, g

(* Returning from a handler that has acknowledged.                         *)
LEMMA Returned ==
  ASSUME NEW p, NEW f, NEW i, NEW fs, Sound(p, f, i, fs),
         fs # <<>>, fs[Len(fs)].at = "done"
  PROVE  Sound(p, f, fs[Len(fs)].sr, SubSeq(fs, 1, Len(fs) - 1))
<1> DEFINE gs == SubSeq(fs, 1, Len(fs) - 1)
<1>1. Stacked(fs) /\ Len(fs) \in Nat
  BY DEF Sound, Stacked
<1>2. /\ Stacked(gs) /\ Masked(gs, fs[Len(fs)].sr)
      /\ Len(gs) = Len(fs) - 1 /\ \A k \in 1..Len(gs) : gs[k] = fs[k]
  BY <1>1, Popped
<1> HIDE DEF gs
<1>3. \A k \in 1..Len(fs) : fs[k].at = "entered" => k \in 1..Len(gs)
  <2> SUFFICES ASSUME NEW k \in 1..Len(fs), fs[k].at = "entered" PROVE k \in 1..Len(gs)
    OBVIOUS
  <2>1. k # Len(fs)
    OBVIOUS
  <2> QED BY <2>1, <1>1, <1>2
<1>4. 1..Len(gs) \subseteq 1..Len(fs)
  BY <1>1, <1>2
<1>5. TxOwed(p, gs)
  <2>1. TxOwed(p, fs)
    BY DEF Sound
  <2> QED BY <2>1, <1>2, <1>3 DEF TxOwed
<1>6. ForceOwed(f, gs)
  <2>1. ForceOwed(f, fs)
    BY DEF Sound
  <2> QED BY <2>1, <1>2, <1>3, <1>4 DEF ForceOwed
<1> QED BY <1>2, <1>5, <1>6 DEF Sound, gs

(* A step of the handler that runs, when the flags follow it.              *)
LEMMA Worked ==
  ASSUME NEW p, NEW f, NEW i, NEW fs, NEW q \in Flag, NEW g \in Flag,
         NEW at \in {"entered", "acknowledged", "done"}, at # "entered",
         Sound(p, f, i, fs), fs # <<>>,
         q = "clear" \/ (q = p /\ (fs[Len(fs)].vec = TX => fs[Len(fs)].at # "entered")),
         IF fs[Len(fs)].vec = FORCE THEN fs[Len(fs)].at = "entered" /\ g # "delivered"
                                    ELSE g = "delivered" <=> f = "delivered",
         NEW gs, gs = With(fs, at)
  PROVE  Sound(q, g, i, gs)
<1> DEFINE n == Len(fs)
<1>1. Stacked(fs) /\ Masked(fs, i) /\ n \in Nat /\ n > 0
  BY DEF Sound, Stacked
<1>2. /\ Stacked(gs) /\ Masked(gs, i) /\ Len(gs) = n
      /\ \A k \in 1..(n - 1) : gs[k] = fs[k]
      /\ gs[n].vec = fs[n].vec /\ gs[n].at = at
  BY <1>1, Stepped
<1>3. \A k \in 1..n : k = n \/ k \in 1..(n - 1)
  BY <1>1
<1>4. TxOwed(q, gs)
  <2>1. TxOwed(p, fs)
    BY DEF Sound
  <2>2. CASE q = "clear"
    BY <2>2 DEF TxOwed
  <2>3. CASE q = p /\ (fs[n].vec = TX => fs[n].at # "entered")
    BY <2>1, <2>3, <1>2, <1>3 DEF TxOwed
  <2> QED BY <2>2, <2>3
<1>5. ForceOwed(g, gs)
  <2>1. ForceOwed(f, fs)
    BY DEF Sound
  <2>2. CASE fs[n].vec = FORCE
    <3>1. \A k \in 1..(n - 1) : fs[k].vec # FORCE
      <4> SUFFICES ASSUME NEW k \in 1..(n - 1), fs[k].vec = FORCE PROVE FALSE
        OBVIOUS
      <4>1. k \in 1..n /\ n \in 1..n /\ k < n
        BY <1>1
      <4>2. fs[k].vec = TX
        BY <4>1, <2>2, <1>1, Depth
      <4> QED BY <4>2 DEF TX, FORCE
    <3>2. g # "delivered" /\ at # "entered"
      BY <2>2
    <3> QED BY <3>1, <3>2, <1>2, <1>3 DEF ForceOwed
  <2>3. CASE fs[n].vec # FORCE
    <3>1. g = "delivered" <=> f = "delivered"
      BY <2>3
    <3>2. 1..(n - 1) \subseteq 1..n
      BY <1>1
    <3> QED BY <2>1, <2>3, <3>1, <3>2, <1>2, <1>3 DEF ForceOwed
  <2> QED BY <2>2, <2>3
<1> QED BY <1>2, <1>4, <1>5 DEF Sound

(* A boundary: the completion of a major loop counts anew, and the first of*)
(* the two vectors that can be taken is.                                   *)
LEMMA Delivered ==
  ASSUME Sound(int50, force, ipl, frames),
         NEW p \in {int50, "asserted"}, Deliver(p)
  PROVE  Sound(int50', force', ipl', frames')
<1>1. Sound(p, force, ipl, frames)
  BY DEF Sound, Flag, TxOwed
<1>2. CASE p = "asserted" /\ CanTx
  <2>1. /\ int50' = "delivered" /\ force' = force /\ ipl' = TxLevel
        /\ frames' = Append(frames, [vec |-> TX, at |-> "entered", sr |-> ipl])
    BY <1>2 DEF Deliver, Raise
  <2>2. ipl < TxLevel
    BY <1>2 DEF CanTx
  <2>3. Sound("delivered", force, TxLevel,
              Append(frames, [vec |-> TX, at |-> "entered", sr |-> ipl]))
    BY <1>1, <2>2, TxEntered
  <2> QED BY <2>1, <2>3
<1>3. CASE ~(p = "asserted" /\ CanTx) /\ force = "asserted" /\ CanForce
  <2>1. /\ int50' = p /\ force' = "delivered" /\ ipl' = ForceLevel
        /\ frames' = Append(frames, [vec |-> FORCE, at |-> "entered", sr |-> ipl])
    BY <1>3 DEF Deliver, Raise
  <2>2. frames = <<>>
    <3>1. ipl < ForceLevel
      BY <1>3 DEF CanForce
    <3>2. frames # <<>> => ipl \in {TxLevel, ForceLevel}
      BY DEF Sound, Masked, Level
    <3> QED BY <3>1, <3>2, SsiAssumption
  <2>3. Sound(p, "delivered", ForceLevel,
              Append(frames, [vec |-> FORCE, at |-> "entered", sr |-> ipl]))
    BY <1>1, <1>3, <2>2, ForceEntered
  <2> QED BY <2>1, <2>3
<1>4. CASE ~(p = "asserted" /\ CanTx) /\ ~(force = "asserted" /\ CanForce)
  <2>1. int50' = p /\ force' = force /\ ipl' = ipl /\ frames' = frames
    BY <1>4 DEF Deliver, cpu
  <2> QED BY <1>1, <2>1
<1> QED BY <1>2, <1>3, <1>4

LEMMA StackKept == StackInv /\ [Next]_vars => StackInv'
<1> SUFFICES ASSUME StackInv, [Next]_vars PROVE StackInv'
  OBVIOUS
<1>1. Sound(int50, force, ipl, frames)
  BY DEF StackInv
<1>2. ASSUME snap' = snap, Sound(int50', force', ipl', frames') PROVE StackInv'
  BY <1>2 DEF StackInv
<1>3. CASE Boundaries
  <2>1. PICK n \in 1..(Step + Slack) : Boundary(n)
    BY <1>3 DEF Boundaries
  <2>2. PICK p \in {int50, "asserted"} : Deliver(p)
    BY <2>1 DEF Boundary
  <2>3. Sound(int50', force', ipl', frames')
    BY <1>1, <2>2, Delivered
  <2> QED BY <1>2, <2>1, <2>3 DEF Boundary, Live
<1>4. ASSUME NEW v \in {TX, FORCE}, SetUp(v) PROVE StackInv'
  BY <1>1, <1>2, <1>4 DEF SetUp, Live, flags, cpu
<1>5. ASSUME NEW j \in TaskIpls, SetIpl(j) PROVE StackInv'
  <2>1. /\ int50' = int50 /\ force' = force /\ frames' = frames /\ frames = <<>>
        /\ ipl' = j /\ snap' = snap /\ j \in Nat
    BY <1>5, SsiAssumption DEF SetIpl, Live, flags
  <2> QED BY <1>1, <1>2, <2>1 DEF Sound, Masked
<1> DEFINE n == Len(frames)
<1>6. CASE Cint
  <2>1. /\ frames # <<>> /\ frames[n].vec = TX /\ int50' = "clear" /\ force' = force
        /\ ipl' = ipl /\ frames' = With(frames, "acknowledged") /\ snap' = snap
    BY <1>6 DEF Cint, Running, Top, Goto, Live, With
  <2>2. TX # FORCE /\ force \in Flag /\ "clear" \in Flag
    BY <1>1 DEF TX, FORCE, Sound, Flag
  <2>3. Sound("clear", force, ipl, frames')
    BY <1>1, <2>1, <2>2, Worked
  <2> QED BY <1>2, <2>1, <2>3
<1>7. CASE SetForce
  <2>1. /\ frames # <<>> /\ frames[n].vec = TX /\ frames[n].at = "acknowledged"
        /\ int50' = int50 /\ force' = Forced
        /\ ipl' = ipl /\ frames' = With(frames, "done") /\ snap' = snap
    BY <1>7 DEF SetForce, Running, Top, Goto, Live, With
  <2>2. TX # FORCE /\ force \in Flag /\ int50 \in Flag
    BY <1>1 DEF TX, FORCE, Sound
  <2>3. Forced \in Flag /\ (Forced = "delivered" <=> force = "delivered")
    BY <2>2 DEF Forced, Flag
  <2>4. Sound(int50, Forced, ipl, frames')
    BY <1>1, <2>1, <2>2, <2>3, Worked
  <2> QED BY <1>2, <2>1, <2>4
<1>8. ASSUME frames # <<>>, frames[n].at = "done", Return, UNCHANGED <<flags, snap>>
      PROVE  StackInv'
  <2>1. /\ frames' = SubSeq(frames, 1, n - 1) /\ ipl' = frames[n].sr
        /\ int50' = int50 /\ force' = force /\ snap' = snap
    BY <1>8 DEF Return, Top, flags
  <2>2. Sound(int50, force, frames[n].sr, SubSeq(frames, 1, n - 1))
    BY <1>1, <1>8, Returned
  <2> QED BY <1>2, <2>1, <2>2
<1>9. CASE TxRte
  <2>1. frames # <<>> /\ frames[n].vec = TX /\ frames[n].at = "done" /\ snap' = snap
    BY <1>9 DEF TxRte, Running, Top, Live
  <2>2. CASE Forces
    <3>1. /\ force' = "delivered" /\ int50' = int50 /\ ipl' = ForceLevel
          /\ frames' = Append(frames, [vec |-> FORCE, at |-> "entered", sr |-> ipl])
      BY <1>9, <2>2 DEF TxRte, Raise
    <3>2. force = "asserted" /\ frames[n].sr < ForceLevel
      BY <2>2 DEF Forces, Top
    <3>3. n = 1
      <4>1. frames \in Seq(Frame) /\ n \in Nat /\ n > 0
        BY <1>1, <2>1 DEF Sound, Stacked
      <4>2. ASSUME n > 1 PROVE FALSE
        <5>1. n - 1 \in 1..(n - 1)
          BY <4>1, <4>2
        <5>2. frames[(n - 1) + 1].sr = Level(frames[n - 1].vec)
          BY <5>1, <1>1 DEF Sound, Stacked
        <5>3. frames[n].sr \in {TxLevel, ForceLevel}
          BY <4>1, <5>2 DEF Level
        <5> QED BY <5>3, <3>2, SsiAssumption
      <4> HIDE DEF n
      <4> QED BY <4>1, <4>2
    <3>4. Sound(int50, "delivered", ForceLevel,
                Append(frames, [vec |-> FORCE, at |-> "entered", sr |-> ipl]))
      BY <1>1, <2>1, <3>2, <3>3, ForceEntered
    <3> QED BY <1>2, <2>1, <3>1, <3>4
  <2>3. CASE ~Forces
    BY <1>8, <1>9, <2>1, <2>3 DEF TxRte, flags
  <2> QED BY <2>2, <2>3
<1>10. CASE ClearForce
  <2>1. /\ frames # <<>> /\ frames[n].vec = FORCE /\ frames[n].at = "entered"
        /\ int50' = int50 /\ force' = "clear"
        /\ ipl' = ipl /\ frames' = With(frames, "done") /\ snap' = snap
    BY <1>10 DEF ClearForce, Running, Top, Goto, Live, With
  <2>2. TX # FORCE /\ int50 \in Flag /\ "clear" \in Flag
    BY <1>1 DEF TX, FORCE, Sound, Flag
  <2>3. Sound(int50, "clear", ipl, frames')
    BY <1>1, <2>1, <2>2, Worked
  <2> QED BY <1>2, <2>1, <2>3
<1>11. CASE ForceRte
  BY <1>8, <1>11 DEF ForceRte, Running, Top, Live
<1>12. CASE Save
  BY <1>1, <1>12 DEF Save, StackInv, flags, guest, cpu
<1>13. CASE Resume
  <2>1. PICK k \in DOMAIN snap : /\ int50' = snap[k].int50 /\ force' = snap[k].force
                                /\ ipl' = snap[k].ipl /\ frames' = snap[k].frames
    BY <1>13 DEF Resume
  <2>2. Sound(snap[k].int50, snap[k].force, snap[k].ipl, snap[k].frames)
    BY DEF StackInv
  <2>3. snap' = <<>>
    BY <1>13 DEF Resume
  <2> QED BY <2>1, <2>2, <2>3 DEF StackInv
<1>14. CASE UNCHANGED vars
  BY <1>1, <1>2, <1>14 DEF vars, flags, guest, cpu
<1> QED
  BY <1>3, <1>4, <1>5, <1>6, <1>7, <1>9, <1>10, <1>11, <1>12, <1>13, <1>14 DEF Next, Handlers

LEMMA StackAlways == Spec => []StackInv
BY StackStarts, StackKept, PTL DEF Spec

(* At most three frames are stacked, and neither handler is entered while  *)
(* it has yet to finish, though vector 191 runs below 170's mask.          *)
THEOREM NeverReentered == Spec => []Nested
<1>1. StackInv => Nested
  BY Depth DEF StackInv, Sound, Nested
<1> QED BY <1>1, StackAlways, PTL

(* A delivered flag stands for a handler on the stack that will clear it.  *)
THEOREM FlagsMatchHandlers == Spec => []InHandler
<1>1. StackInv => InHandler
  BY DEF StackInv, Sound, TxOwed, ForceOwed, InHandler
<1> QED BY <1>1, StackAlways, PTL

(* What is left of the types: CITER counts the minor loops of a major, and *)
(* the sources of interrupt set up are the two.                            *)
LoopInv ==
  /\ citer \in 1..Loop /\ ready \subseteq {TX, FORCE}
  /\ \A k \in DOMAIN snap : snap[k].citer \in 1..Loop /\ snap[k].ready \subseteq {TX, FORCE}

LEMMA LoopKept == LoopInv /\ [Next]_vars => LoopInv'
<1> SUFFICES ASSUME LoopInv, [Next]_vars PROVE LoopInv'
  OBVIOUS
<1>1. CASE Boundaries
  <2>1. citer' \in {citer, RunMinor} /\ ready' = ready /\ snap' = snap
    BY <1>1 DEF Boundaries, Boundary, Live
  <2>2. RunMinor \in 1..Loop
    BY SsiAssumption DEF RunMinor, LoopInv
  <2> QED BY <2>1, <2>2 DEF LoopInv
<1>2. ASSUME NEW v \in {TX, FORCE}, SetUp(v) PROVE LoopInv'
  BY <1>2 DEF SetUp, Live, LoopInv, dma
<1>3. CASE UNCHANGED <<dma, ready, snap>>
  BY <1>3 DEF LoopInv, dma
<1>4. CASE Save
  BY <1>4 DEF Save, LoopInv, dma, guest
<1>5. CASE Resume
  <2>1. PICK k \in DOMAIN snap : citer' = snap[k].citer /\ ready' = snap[k].ready
    BY <1>5 DEF Resume
  <2>2. snap' = <<>>
    BY <1>5 DEF Resume
  <2> QED BY <2>1, <2>2 DEF LoopInv
<1> QED
  BY <1>1, <1>2, <1>3, <1>4, <1>5
  DEF Next, Handlers, SetIpl, Cint, SetForce, TxRte, ClearForce, ForceRte, Live, vars, dma,
      guest

(* The clock, the loop count, the two sources and the stack keep the types *)
(* that the code gives them.                                               *)
THEOREM TypeCorrect == Spec => []TypeOK
<1>1. Init => LoopInv
  BY DEF Init, LoopInv
<1>2. Steady /\ StackInv /\ LoopInv /\ clock \in Int => TypeOK
  BY SsiAssumption DEF Steady, StackInv, Sound, Stacked, Masked, LoopInv, TypeOK
<1>3. ClockInv => clock \in Int /\ Steady
  BY DEF ClockInv, OnGrid, Steady
<1> QED BY <1>1, <1>2, <1>3, ClockAlways, StackAlways, LoopKept, PTL DEF Spec
=============================================================================
