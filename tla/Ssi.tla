-------------------------------- MODULE Ssi ---------------------------------
(* The audio clock (emu/ssi.py): SSI0's requests on the instruction clock, *)
(* the minor loops of eDMA channels 48 and 50 they run, the completion     *)
(* interrupt of channel 50, and the interrupt its handler forces; with the *)
(* firmware's two handlers, and a session saved and resumed at any         *)
(* instruction.                                                            *)
(*                                                                         *)
(* Distances on the clock are in instructions times Hz, so that a request  *)
(* every Ips / Hz instructions falls due on an integer.  The task stands   *)
(* for whatever the two handlers interrupt, the timers' handlers included. *)
EXTENDS Integers, Sequences

CONSTANTS
  Hz,          \* request_hz
  Ips,         \* instructions per second
  Slack,       \* instructions a block-bounded step may run over (0 when counted)
  Loop,        \* minor loops of a major one, BITER of every descriptor
  TxLevel,     \* interrupt level of vector 170
  ForceLevel,  \* and of vector 191
  TaskIpls     \* masks the interrupted code runs under

ASSUME SsiAssumption ==
  /\ Hz \in Nat \ {0} /\ Ips \in Nat \ {0} /\ Slack \in Nat
  /\ Loop \in Nat \ {0}
  /\ ForceLevel \in Nat /\ TxLevel \in Nat /\ ForceLevel < TxLevel
  /\ TaskIpls \subseteq Nat

VARIABLES
  due,      \* next - now, times Hz
  clock,    \* history: time since the clock started, less a period per request
  citer,    \* CITER of channel 50's descriptor: minor loops left
  int50,    \* int50_asserted and int50_delivered
  force,    \* force_asserted and force_delivered
  ipl,      \* the interrupt mask of SR
  frames,   \* exception frames: [vec, at, sr]; the last one's handler runs
  ready,    \* vectors with a handler in their slot and, for 170, not masked in IMR
  snap      \* the snapshot between two sessions, or <<>> while one runs

dma == <<due, clock, citer>>
flags == <<int50, force>>
cpu == <<ipl, frames>>
guest == <<cpu, ready>>
vars == <<dma, flags, guest, snap>>

TX == 170
FORCE == 191

(* A session runs.                                                         *)
Live == snap = <<>> /\ UNCHANGED snap

Flag == {"clear", "asserted", "delivered"}

Top == frames[Len(frames)]
Running(vec, at) == frames # <<>> /\ Top.vec = vec /\ Top.at = at

(* raise_vector: the interrupted mask goes to the frame, the handler runs  *)
(* under its own level.                                                    *)
Raise(vec, level) ==
  /\ frames' = Append(frames, [vec |-> vec, at |-> "entered", sr |-> ipl])
  /\ ipl' = level

-----------------------------------------------------------------------------
(* The host, between two runs of the guest.                                *)

(* Ssi0Dma.step: the distance to the deadline, rounded up.                 *)
Step == (due + Hz - 1) \div Hz

(* service: a period on from the deadline, or from now if that is past.    *)
Advance(d) == IF d > 0 THEN d ELSE IF d + Ips > 0 THEN d + Ips ELSE Ips

(* The same for a clock that has missed no request.                        *)
Kept(d, c) == IF d > 0 THEN c ELSE IF d + Ips > 0 THEN c - Ips ELSE 0

(* _run_minor: one minor loop fewer, and after the last one the descriptor *)
(* that DLAST points to, which has them all.                               *)
RunMinor == IF citer > 1 THEN citer - 1 ELSE Loop

(* Whether vector 170 can be taken: interrupt_level, the mask and the slot.*)
CanTx == ipl < TxLevel /\ TX \in ready

(* A forced source is not subject to the mask registers.                   *)
CanForce == ipl < ForceLevel /\ FORCE \in ready

(* Vector 191 is only ever entered from the hook.                          *)
DeliverBug(pending) ==
  /\ IF pending = "asserted" /\ CanTx
       THEN Raise(TX, TxLevel) /\ int50' = "delivered"
       ELSE int50' = pending /\ UNCHANGED cpu
  /\ UNCHANGED force

(* _deliver_vector170, then _deliver_vector191, which finds the mask that  *)
(* the former raised.                                                      *)
Deliver(pending) ==
  IF pending = "asserted" /\ CanTx
    THEN Raise(TX, TxLevel) /\ int50' = "delivered" /\ UNCHANGED force
  ELSE IF force = "asserted" /\ CanForce
    THEN Raise(FORCE, ForceLevel) /\ force' = "delivered" /\ int50' = pending
  ELSE int50' = pending /\ UNCHANGED <<force, cpu>>

(* spin: n instructions, as far as the nearest deadline of any source, and *)
(* then service.                                                           *)
Boundary(n) ==
  LET left == due - n * Hz
      served == left <= 0
      major == served /\ citer = 1
  IN  /\ Live
      /\ due' = Advance(left)
      /\ clock' = Kept(left, clock + n * Hz)
      /\ citer' = IF served THEN RunMinor ELSE citer
      /\ Deliver(IF major THEN "asserted" ELSE int50)
      /\ UNCHANGED ready

Boundaries == \E n \in 1..(Step + Slack) : Boundary(n)

-----------------------------------------------------------------------------
(* The guest.                                                              *)

(* The firmware sets its interrupts up, in any order.                      *)
SetUp(v) ==
  /\ Live
  /\ v \notin ready
  /\ ready' = ready \cup {v}
  /\ UNCHANGED <<dma, flags, cpu>>

(* The code that gets interrupted masks and unmasks interrupts.            *)
SetIpl(i) ==
  /\ Live
  /\ frames = <<>>
  /\ ipl' = i
  /\ UNCHANGED <<dma, flags, frames, ready>>

Goto(at) ==
  /\ frames' = [frames EXCEPT ![Len(frames)].at = at]
  /\ UNCHANGED ipl

Return ==
  /\ frames' = SubSeq(frames, 1, Len(frames) - 1)
  /\ ipl' = Top.sr

(* Vector 170's handler acknowledges (_on_cint) ...                        *)
Cint ==
  /\ Live
  /\ Running(TX, "entered")
  /\ Goto("acknowledged")
  /\ int50' = "clear"
  /\ UNCHANGED <<dma, force, ready>>

(* Every write of the bit asks for one more interrupt.                     *)
ForcedBug == "asserted"

(* _on_intfrch1: a source that is already forced stays as it is.           *)
Forced == IF force = "clear" THEN "asserted" ELSE force

(* ... sets the bit that forces vector 191 ...                             *)
SetForce ==
  /\ Live
  /\ Running(TX, "acknowledged")
  /\ Goto("done")
  /\ force' = Forced
  /\ UNCHANGED <<dma, int50, ready>>

(* The frame's mask is not looked at.                                      *)
ForcesBug == force = "asserted" /\ FORCE \in ready

(* _on_force_rte: the mask about to be restored lets vector 191 in.        *)
Forces == force = "asserted" /\ FORCE \in ready /\ Top.sr < ForceLevel

(* ... and returns; before the RTE the host may enter vector 191, in a     *)
(* frame that returns to this same RTE.                                    *)
TxRte ==
  /\ Live
  /\ Running(TX, "done")
  /\ IF Forces THEN Raise(FORCE, ForceLevel) /\ force' = "delivered"
               ELSE Return /\ UNCHANGED force
  /\ UNCHANGED <<dma, int50, ready>>

(* Vector 191's handler takes the bit back and returns.                    *)
ClearForce ==
  /\ Live
  /\ Running(FORCE, "entered")
  /\ Goto("done")
  /\ force' = "clear"
  /\ UNCHANGED <<dma, int50, ready>>

ForceRte ==
  /\ Live
  /\ Running(FORCE, "done")
  /\ Return
  /\ UNCHANGED <<dma, flags, ready>>

Handlers == Cint \/ SetForce \/ TxRte \/ ClearForce \/ ForceRte

-----------------------------------------------------------------------------
(* Sessions.                                                               *)

(* save_longrun with checkpoint_state, and the end of the session.  (One   *)
(* that goes on, or dies, and is wound back is this one's next session.)   *)
Save ==
  /\ snap = <<>>
  /\ snap' = <<[due |-> due, clock |-> clock, citer |-> citer, int50 |-> int50,
                force |-> force, ipl |-> ipl, frames |-> frames, ready |-> ready]>>
  /\ UNCHANGED <<dma, flags, guest>>

(* align gives every session a fresh deadline.                             *)
AlignedBug(s) == Ips

(* align: the deadline of the snapshot stands.                             *)
Aligned(s) == s.due

(* restore_checkpoint_state, and align at guirun's start.                  *)
Resume ==
  /\ \E s \in {snap[k] : k \in DOMAIN snap} :
       /\ due' = Aligned(s)
       /\ clock' = s.clock /\ citer' = s.citer
       /\ int50' = s.int50 /\ force' = s.force
       /\ ipl' = s.ipl /\ frames' = s.frames /\ ready' = s.ready
  /\ snap' = <<>>

(* arm_legacy and align on a snapshot from before the model: descriptors   *)
(* wherever they stand, no interrupt in flight, a clock that starts now.   *)
Init ==
  /\ due = Ips /\ clock = 0
  /\ citer \in 1..Loop
  /\ int50 = "clear" /\ force = "clear"
  /\ ipl \in TaskIpls /\ frames = <<>>
  /\ ready \in SUBSET {TX, FORCE}
  /\ snap = <<>>

Next ==
  \/ Boundaries
  \/ \E v \in {TX, FORCE} : SetUp(v)
  \/ \E i \in TaskIpls : SetIpl(i)
  \/ Handlers
  \/ Save \/ Resume

Taken(v) ==
  Boundaries /\ Len(frames') > Len(frames) /\ frames'[Len(frames')].vec = v

(* The guest runs, sets its interrupts up and unmasks them again and again.*)
(* Nothing ties what it masks to the clock, so an interrupt that could be  *)
(* taken at a boundary again and again is.                                 *)
Fairness ==
  /\ WF_vars(Handlers)
  /\ \A v \in {TX, FORCE} : WF_vars(SetUp(v)) /\ SF_vars(Taken(v))
  /\ \A i \in TaskIpls : WF_vars(SetIpl(i))

Spec == Init /\ [][Next]_vars /\ Fairness
-----------------------------------------------------------------------------
(* Properties.                                                             *)

Frame == [vec : {TX, FORCE}, at : {"entered", "acknowledged", "done"}, sr : Nat]

TypeOK ==
  /\ due \in Int /\ clock \in Int
  /\ citer \in 1..Loop
  /\ int50 \in Flag /\ force \in Flag
  /\ ipl \in Nat /\ frames \in Seq(Frame)
  /\ ready \subseteq {TX, FORCE}

(* The class's "exact deadline": whatever the other sources' steps, the    *)
(* rounding of a step to instructions and the sessions in between, the     *)
(* number of requests is the time since the clock started in periods,      *)
(* rounded down (but for those a boundary a whole period late drops), and  *)
(* none is overdue while the guest runs.                                   *)
Steady == due \in 1..Ips /\ clock + due = Ips

(* A source counts as delivered while its handler has yet to acknowledge   *)
(* it, and only then: with no such handler it would never be delivered     *)
(* again, and taken back while one runs it would be delivered twice.       *)
InHandler ==
  /\ int50 = "delivered" => \E k \in 1..Len(frames) : frames[k].vec = TX /\ frames[k].at = "entered"
  /\ force = "delivered" <=> \E k \in 1..Len(frames) : frames[k].vec = FORCE /\ frames[k].at = "entered"

(* "A nested frame that returns to this same RTE": vector 191 runs under a *)
(* lower mask than the handler it is entered from, which vector 170 may    *)
(* interrupt again; still at most three frames are ever stacked, and no    *)
(* handler is entered while it runs.                                       *)
Nested ==
  /\ Len(frames) <= 3
  /\ \A j, k \in 1..Len(frames) :
       j < k /\ frames[j].vec = frames[k].vec =>
         frames[j].vec = TX /\ frames[j].at = "done"

(* The guest is back in interruptible code before the next major is over. *)
KeepsUp == frames = <<>> /\ ipl < ForceLevel /\ int50 = "clear" /\ citer > 1

(* At last a session goes on.                                              *)
Settles == <>[](snap = <<>>)

(* Every completion of channel 50 is acknowledged, whatever masked it, held*)
(* it up or came between; and every forced source gets its handler, in a   *)
(* guest that is not kept busy by completions alone.                       *)
Served ==
  Settles => /\ int50 # "clear" ~> int50 = "clear"
             /\ []<>KeepsUp => (force # "clear" ~> force = "clear")
=============================================================================
