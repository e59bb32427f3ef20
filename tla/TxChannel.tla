----------------------------- MODULE TxChannel ------------------------------
(* eDMA channel 35, the UART8 transmit ring (emu/edma.py), with the        *)
(* firmware that feeds it, as the docstring of edma.py disassembles it,    *)
(* and with a session saved and resumed at any point.                      *)
(*                                                                         *)
(* The host runs a whole major loop at the moment the guest writes SERQ    *)
(* and owes it a completion interrupt, which it can only hand over at the  *)
(* free-space loop or the idle spin.  Bytes are numbered in the order the  *)
(* firmware queues them.                                                   *)
EXTENDS Integers, Sequences

CONSTANTS
  RingSize,   \* bytes in the ring (SMOD of the TCD; 4096 in the firmware)
  MaxBytes,   \* bound: bytes ever queued
  MaxWrite    \* bound: bytes queued by one call

ASSUME TxAssumption ==
  /\ RingSize \in Nat /\ MaxWrite \in 1..(RingSize - 1)
  /\ MaxBytes \in Nat

VARIABLES
  session,    \* how it began: a cold boot, or on a legacy or a stateful snapshot
  guest,      \* the firmware's variables, the ring and the TCD: guest memory
  pending,    \* TxChannel.pending: completions owed
  sent,       \* uart_out, with what was sent before the snapshot put in front
  stripped,   \* history: this session comes from one saved without its model
  snap        \* the snapshot: guest, pending and the histories

vars == <<session, guest, pending, sent, stripped, snap>>

Slot == 0..(RingSize - 1)

(* Only build installs the eDMA model; a cold boot has none.               *)
Modelled == session # "cold"

(* A guest before its first byte: nothing in the ring, nothing armed.      *)
Idle ==
  [ring   |-> [s \in Slot |-> 0],  \* what each slot holds (0 at reset)
   queued |-> 0,      \* bytes ever queued; the next goes to queued % RingSize
   flight |-> 0,      \* [cd88] - [cd94]: bytes in the transfer in flight
   behind |-> 0,      \* [cd90]: bytes queued behind it
   armed  |-> FALSE,  \* [cd74], TX_STATE
   wants  |-> 0,      \* length the enqueue routine waits for room for, or 0
   inIsr  |-> FALSE,  \* vector 155 was taken and its handler has not run yet
   saddr  |-> 0, citer |-> 0, biter |-> 0]   \* TCD35

Snapshot(kind) ==
  [kind |-> kind, guest |-> guest, pending |-> pending, sent |-> sent,
   stripped |-> stripped \/ (Modelled /\ kind = "legacy")]

NoSnapshot ==
  [kind |-> "none", guest |-> Idle, pending |-> 0, sent |-> <<>>, stripped |-> FALSE]

-----------------------------------------------------------------------------
(* TxChannel.run on the TCD: SADDR advances modulo the ring, CITER reloads.*)
Transfer(g) ==
  [g EXCEPT !.saddr = (g.saddr + g.citer) % RingSize, !.citer = g.biter]

(* The bytes that run moves: CITER of them from SADDR on.                  *)
Moved(g) == [i \in 1..g.citer |-> g.ring[(g.saddr + i - 1) % RingSize]]

(* The host's side of a SERQ write (or of kick): one major loop at once and*)
(* one completion owed; nothing with an exhausted CITER.                   *)
RunMajor(g) ==
  IF g.citer = 0
    THEN guest' = g /\ UNCHANGED <<pending, sent>>
    ELSE /\ guest' = Transfer(g)
         /\ pending' = pending + 1
         /\ sent' = sent \o Moved(g)

(* on_serq, when the session has the model.                                *)
Request(g) ==
  IF Modelled THEN RunMajor(g) ELSE guest' = g /\ UNCHANGED <<pending, sent>>

(* The firmware programs the channel for n bytes and writes SERQ.          *)
Program(g, n) ==
  [g EXCEPT !.flight = n, !.behind = 0, !.armed = TRUE, !.citer = n, !.biter = n]

-----------------------------------------------------------------------------
(* Firmware 0x4000220c: someone wants to queue n bytes.                    *)
Enqueue(n) ==
  /\ guest.wants = 0 /\ ~guest.inIsr
  /\ guest.queued + n <= MaxBytes
  /\ guest' = [guest EXCEPT !.wants = n]
  /\ UNCHANGED <<session, pending, sent, stripped, snap>>

(* The spin on free space: the bytes of the transfer in flight, as the TCD *)
(* and the ring indices tell them, against those queued behind it.         *)
Fits ==
  RingSize - ((guest.citer - guest.biter + guest.flight) % RingSize)
    >= guest.behind + guest.wants

(* The ring with the bytes after the first q, up to the first q + n.       *)
Filled(g, n) ==
  [s \in Slot |->
     IF \E b \in (g.queued + 1)..(g.queued + n) : (b - 1) % RingSize = s
       THEN CHOOSE b \in (g.queued + 1)..(g.queued + n) : (b - 1) % RingSize = s
       ELSE g.ring[s]]

(* With interrupts masked the bytes go into the ring; an idle channel is   *)
(* started.                                                                *)
Put ==
  /\ guest.wants > 0 /\ ~guest.inIsr
  /\ Fits
  /\ LET n == guest.wants
         g == [guest EXCEPT !.ring = Filled(guest, n), !.queued = @ + n, !.wants = 0,
                            !.behind = @ + n]
     IN  IF guest.armed THEN guest' = g /\ UNCHANGED <<pending, sent>>
                        ELSE Request(Program(g, g.behind))
  /\ UNCHANGED <<session, stripped, snap>>

(* Only the idle task hands completions over.                              *)
DeliverBug ==
  /\ Modelled /\ pending > 0
  /\ guest.wants = 0 /\ ~guest.inIsr
  /\ pending' = pending - 1
  /\ guest' = [guest EXCEPT !.inIsr = TRUE]
  /\ UNCHANGED <<session, sent, stripped, snap>>

(* TxChannel.deliver, at the head of the free-space loop or in the idle    *)
(* spin: never inside a handler, and never with interrupts masked.         *)
Deliver ==
  /\ Modelled /\ pending > 0
  /\ ~guest.inIsr
  /\ pending' = pending - 1
  /\ guest' = [guest EXCEPT !.inIsr = TRUE]
  /\ UNCHANGED <<session, sent, stripped, snap>>

(* Firmware 0x40001e7c: the transfer is done; park the channel, or chain   *)
(* the bytes queued meanwhile.                                             *)
Isr ==
  /\ guest.inIsr
  /\ LET g == [guest EXCEPT !.inIsr = FALSE, !.flight = 0]
     IN  IF g.behind = 0
           THEN guest' = [g EXCEPT !.armed = FALSE] /\ UNCHANGED <<pending, sent>>
           ELSE Request(Program(g, g.behind))
  /\ UNCHANGED <<session, stripped, snap>>

-----------------------------------------------------------------------------
(* A snapshot between two instructions: a cold boot has no components to   *)
(* save, a modelled session saves them.                                    *)
Save ==
  /\ snap' = Snapshot(IF Modelled THEN "stateful" ELSE "legacy")
  /\ UNCHANGED <<session, guest, pending, sent, stripped>>

(* checkpoint.extend resumes a legacy snapshot with the model and saves    *)
(* the guest alone (bound: not once more bytes went out than were queued). *)
Extend ==
  /\ session = "legacy"
  /\ Len(sent) <= guest.queued
  /\ snap' = Snapshot("legacy")
  /\ UNCHANGED <<session, guest, pending, sent, stripped>>

(* A transfer left armed is kicked whatever the snapshot held.             *)
NeedsKickBug == snap.guest.armed

(* needs_legacy_kick and kick: the snapshot had no model state, and the    *)
(* guest has a transfer armed.                                             *)
NeedsKick == snap.kind = "legacy" /\ snap.guest.armed

(* Completions are not part of the saved state.                            *)
OwedBug == 0

(* TxChannel.restore_checkpoint_state, or a new channel.                   *)
Owed == IF snap.kind = "stateful" THEN snap.pending ELSE 0

(* build on the snapshot, with the model: guest and channel restored, a    *)
(* legacy transfer kicked.                                                 *)
Resume ==
  /\ snap.kind # "none"
  /\ session' = snap.kind
  /\ stripped' = snap.stripped
  /\ IF NeedsKick /\ snap.guest.citer > 0
       THEN /\ guest' = Transfer(snap.guest)
            /\ pending' = Owed + 1
            /\ sent' = snap.sent \o Moved(snap.guest)
       ELSE /\ guest' = snap.guest
            /\ pending' = Owed
            /\ sent' = snap.sent
  /\ UNCHANGED snap

(* A cold boot from reset, without the model.                              *)
Init ==
  /\ session = "cold" /\ stripped = FALSE
  /\ guest = Idle /\ pending = 0 /\ sent = <<>> /\ snap = NoSnapshot

Next ==
  \/ \E n \in 1..MaxWrite : Enqueue(n)
  \/ Put \/ Deliver \/ Isr
  \/ Save \/ Extend \/ Resume

(* The guest keeps executing (its spin loop, its handlers, its idle task); *)
(* nobody has to queue, save or resume anything.                           *)
Fairness == WF_vars(Put) /\ WF_vars(Deliver) /\ WF_vars(Isr)

Spec == Init /\ [][Next]_vars /\ Fairness
-----------------------------------------------------------------------------
(* Properties.                                                             *)

GuestType ==
  [ring : [Slot -> Nat], queued : Nat, flight : Nat, behind : Nat, armed : BOOLEAN,
   wants : Nat, inIsr : BOOLEAN, saddr : Slot, citer : Nat, biter : Nat]

(* Every variable keeps the shape the code gives it; SADDR stays in the    *)
(* ring.                                                                   *)
TypeOK ==
  /\ session \in {"cold", "legacy", "stateful"} /\ stripped \in BOOLEAN
  /\ guest \in GuestType /\ pending \in Nat /\ sent \in Seq(Nat)
  /\ snap.kind \in {"none", "legacy", "stateful"} /\ snap.guest \in GuestType
  /\ snap.pending \in Nat /\ snap.sent \in Seq(Nat)
  /\ snap.stripped \in BOOLEAN

(* The console has seen the bytes the firmware queued, each once and in    *)
(* order.                                                                  *)
Faithful ==
  /\ Len(sent) <= guest.queued
  /\ \A i \in 1..Len(sent) : sent[i] = i

(* Whatever was interrupted, saved and resumed, the console stream is      *)
(* faithful, unless a session was saved without the model it had.          *)
ExactlyOnce == ~stripped => Faithful

(* An armed transfer is owed one completion, pending on the host or being  *)
(* handled by the guest, and an idle channel none: fewer and the channel   *)
(* stays half-started forever, more and the ISR retires a transfer twice.  *)
OneCompletion ==
  Modelled /\ ~stripped =>
    pending + (IF guest.inIsr THEN 1 ELSE 0) = (IF guest.armed THEN 1 ELSE 0)

(* Sessions stop being resumed at some point.                              *)
Settles == <>[][~Resume]_vars

(* Boot once stalled in the free-space loop because nothing drained the    *)
(* ring: with the model a call that waits for room gets it, and what was   *)
(* queued goes out unless a resume undoes it, whichever kind of snapshot   *)
(* the session came from.                                                  *)
RoomComes ==
  Settles => /\ Modelled /\ guest.wants > 0 ~> guest.wants = 0
             /\ \A b \in 1..MaxBytes :
                  Modelled /\ guest.queued >= b ~>
                    Len(sent) >= b \/ guest.queued < b
=============================================================================
