------------------------------- MODULE Esdhc --------------------------------
(* The SD/MMC controller and the eMMC behind it (emu/esdhc.py), with the   *)
(* firmware's storage driver as the docstrings of esdhc.py describe it and *)
(* with sessions saved and resumed between any two of its steps.           *)
(*                                                                         *)
(* A command completes inside the write of XFERTYP: the host moves the     *)
(* data through eDMA channel 59, posts the driver's semaphores and clears  *)
(* its status word.  The driver, and whoever else arms eDMA channels,      *)
(* interleave with that as they please.                                    *)
EXTENDS Integers, Sequences, FiniteSets

CONSTANTS
  Sectors,    \* sectors of the card that the driver uses
  Value,      \* what a sector can hold
  Zero,       \* a sector of zeros
  Image,      \* the backing image: a sequence of values, shorter than the card
  Stale,      \* what a buffer holds before a read
  ExtCsd,     \* the EXT_CSD register
  MaxLen,     \* bound: sectors of one request
  MaxJobs,    \* bound: requests of the driver
  Foreign     \* eDMA channels others arm, e.g. 35

DmaChan  == 59
NoChan   == -1
Word     == 0..3            \* DATPORT words, 2 bits wide
BusWord  == 1               \* what the driver sends under CMD19
Invert(w) == 3 - w

Sector == 0..(Sectors - 1)

ASSUME CardAssumption ==
  /\ Sectors \in Nat \ {0} /\ MaxLen \in Nat \ {0} /\ MaxJobs \in Nat
  /\ Zero \in Value /\ Stale \notin Value /\ ExtCsd \in Value
  /\ Image \in Seq(Value) /\ Len(Image) <= Sectors
  /\ Foreign \subseteq (0..63) \ {DmaChan}

VARIABLES
  session, \* how it began: a cold boot, or on a bare or a stateful snapshot
  guest,   \* the driver, its buffer and semaphores, TCD59 and DATPORT
  host,    \* Esdhc and its Card: overlay, armed, pattern
  snap,    \* the snapshot
  intact   \* history: the job under way lost nothing the controller held for it

vars == <<session, guest, host, snap, intact>>

(* The steps of a driver routine.                                          *)
Script ==
  [bustest  |-> <<"issue", "cmd19", "pendCmd", "put",
                  "issue", "cmd14", "pendCmd", "get">>,
   identify |-> <<"program", "arm", "issue", "cmd8", "pendCmd", "pendData", "poll">>,
   read     |-> <<"program", "arm", "issue", "cmd18", "pendCmd", "pendData", "pendDma">>,
   write    |-> <<"program", "arm", "issue", "cmd25", "pendCmd", "pendData", "pendDma">>,
   none     |-> <<"rest">>]

Transfers == {"identify", "read", "write"}

ResetGuest ==
  [job |-> "bustest", step |-> 1, at |-> 0, jobs |-> 0,
   buffer |-> <<>>,
   citer |-> 0, biter |-> 0, finished |-> FALSE,   \* TCD59, DONE included
   cmdarg |-> 0, status |-> 0, cmdSem |-> 0, dataSem |-> 0, dmaSem |-> 0,
   datport |-> 0]

(* Esdhc and Card as constructed.                                          *)
FreshHost == [overlay |-> [b \in {} |-> Zero], armed |-> NoChan, pattern |-> 0]

At(s) == Script[guest.job][guest.step] = s

(* The driver goes on to its next step, or rests after the last one.       *)
Advance(g) ==
  IF g.step < Len(Script[g.job]) THEN [g EXCEPT !.step = @ + 1]
                                 ELSE [g EXCEPT !.job = "none", !.step = 1]

-----------------------------------------------------------------------------
(* The card.                                                               *)

(* Card.data_for: the overlay over the image over zeros.                   *)
Content(h, b) ==
  IF b \in DOMAIN h.overlay THEN h.overlay[b]
  ELSE IF b < Len(Image) THEN Image[b + 1]
  ELSE Zero

(* The block a data-read command hands back, for a transfer of n.          *)
DataFor(idx, at, n) ==
  IF idx = 8 THEN <<ExtCsd>> ELSE [i \in 1..n |-> Content(host, at + i - 1)]

(* Card.write_data: CMD25 lays the payload over what was there.            *)
Written(idx, at, payload) ==
  LET new == {b \in Sector : b - at + 1 \in 1..Len(payload)}
  IN  IF idx # 25 THEN host.overlay
      ELSE [b \in DOMAIN host.overlay \cup new |->
              IF b \in new THEN payload[b - at + 1] ELSE host.overlay[b]]

(* Card.read_word: CMD14 returns the inverse of what CMD19 carried.        *)
ReadWord(idx) == IF idx = 14 THEN Invert(host.pattern) ELSE 0

-----------------------------------------------------------------------------
(* The host side of a command.                                             *)

(* Esdhc._post: an RTOS semaphore nobody has posted becomes one.           *)
Post(count) == IF count <= 0 THEN 1 ELSE count

(* Esdhc._dma_size; a foreign channel's TCD is idle.                       *)
DmaSize == IF host.armed = DmaChan THEN guest.citer ELSE 0

(* Esdhc._dma_out and _dma_in: nothing moves with an empty count; else     *)
(* CITER reloads and DONE is set.                                          *)
DmaOut(g, payload) ==
  IF DmaSize = 0 THEN g
  ELSE [g EXCEPT !.buffer = [i \in 1..DmaSize |-> IF i <= Len(payload) THEN payload[i]
                                                                     ELSE Zero],
                 !.citer = g.biter, !.finished = TRUE]

DmaIn(g) ==
  IF host.armed = DmaChan THEN [g EXCEPT !.citer = g.biter, !.finished = TRUE] ELSE g

(* What any command does besides its data.                                 *)
Completed(g) == [g EXCEPT !.status = 0, !.cmdSem = Post(@)]

(* The Esdhc of a cold boot (dspboot.run) is not given the eDMA semaphore. *)
GivenDmaSem == session # "cold"

DmaPosted(g) == IF GivenDmaSem THEN [g EXCEPT !.dmaSem = Post(@)] ELSE g
DataPosted(g) == [g EXCEPT !.dataSem = Post(@)]

(* Esdhc._on_xfertyp with DPSEL and DTDSEL, card to host.                  *)
CardToHost(idx) ==
  LET g == [guest EXCEPT !.datport = ReadWord(idx)]
  IN  IF idx \in {8, 18} /\ host.armed # NoChan
        THEN /\ guest' = Advance(Completed(DataPosted(DmaPosted(
                            DmaOut(g, DataFor(idx, guest.cmdarg, DmaSize))))))
             /\ host' = [host EXCEPT !.armed = NoChan]
        ELSE /\ guest' = Advance(Completed(DataPosted(g)))
             /\ UNCHANGED host

(* ... and with DPSEL alone, host to card.                                 *)
HostToCard(idx) ==
  IF host.armed # NoChan
    THEN /\ guest' = Advance(Completed(DataPosted(DmaPosted(DmaIn(guest)))))
         /\ host' = [host EXCEPT !.armed = NoChan,
                                 !.overlay = Written(idx, guest.cmdarg,
                                                     SubSeq(guest.buffer, 1, DmaSize))]
    ELSE /\ guest' = Advance(Completed(DataPosted(guest)))
         /\ UNCHANGED host

Xfertyp ==
  /\ \/ At("cmd8")  /\ CardToHost(8)
     \/ At("cmd14") /\ CardToHost(14)
     \/ At("cmd18") /\ CardToHost(18)
     \/ At("cmd19") /\ HostToCard(19)
     \/ At("cmd25") /\ HostToCard(25)
  /\ intact' = (intact /\ (GivenDmaSem \/ ~(At("cmd18") \/ At("cmd25"))))
  /\ UNCHANGED <<session, snap>>

(* Every SERQ writer is recorded.                                          *)
OnSerqBug(chan) == host' = [host EXCEPT !.armed = chan]

(* Esdhc._on_serq: channel 59 is remembered, for the next data command.    *)
OnSerq(chan) ==
  IF chan = DmaChan THEN host' = [host EXCEPT !.armed = DmaChan] ELSE UNCHANGED host

-----------------------------------------------------------------------------
(* The driver (external), and the other users of the eDMA.                 *)

(* Sectors, read or written, from sector at on; 1 for EXT_CSD.             *)
Start(kind, at, buffer) ==
  /\ guest.job = "none"
  /\ guest.jobs < MaxJobs
  /\ guest' = [guest EXCEPT !.job = kind, !.step = 1, !.at = at, !.jobs = @ + 1,
                            !.buffer = buffer]
  /\ intact' = TRUE
  /\ UNCHANGED <<session, host, snap>>

Blanks(n) == [i \in 1..n |-> Stale]

Identify == Start("identify", 0, Blanks(1))

Read(at, n) == at + n <= Sectors /\ Start("read", at, Blanks(n))

Write(at, data) == at + Len(data) <= Sectors /\ Start("write", at, data)

(* TCD59 is set up for the request ...                                     *)
Program ==
  /\ At("program")
  /\ guest' = Advance([guest EXCEPT !.citer = Len(guest.buffer),
                                    !.biter = Len(guest.buffer), !.finished = FALSE])
  /\ UNCHANGED <<session, host, snap, intact>>

(* ... and armed, before the command is issued.                            *)
Arm ==
  /\ At("arm")
  /\ OnSerq(DmaChan)
  /\ guest' = Advance(guest)
  /\ UNCHANGED <<session, snap, intact>>

ArmOther(chan) ==
  /\ OnSerq(chan)
  /\ UNCHANGED <<session, guest, snap, intact>>

(* The command primitive: the status word says "in progress", CMDARG is    *)
(* written, then XFERTYP, and a pend follows that ends with the status.    *)
Issue ==
  /\ At("issue")
  /\ guest' = Advance([guest EXCEPT !.status = 1, !.cmdarg = guest.at])
  /\ UNCHANGED <<session, host, snap, intact>>

PendCmd ==
  /\ At("pendCmd")
  /\ guest.cmdSem > 0 /\ guest.status = 0
  /\ guest' = Advance([guest EXCEPT !.cmdSem = @ - 1])
  /\ UNCHANGED <<session, host, snap, intact>>

(* The driver waits for its data.                                          *)
PendData ==
  /\ At("pendData")
  /\ guest.dataSem > 0
  /\ guest' = Advance([guest EXCEPT !.dataSem = @ - 1])
  /\ UNCHANGED <<session, host, snap, intact>>

PendDma ==
  /\ At("pendDma")
  /\ guest.dmaSem > 0
  /\ guest' = Advance([guest EXCEPT !.dmaSem = @ - 1])
  /\ UNCHANGED <<session, host, snap, intact>>

(* EXT_CSD is awaited by polling DONE instead.                             *)
Poll ==
  /\ At("poll")
  /\ guest.finished
  /\ guest' = Advance(guest)
  /\ UNCHANGED <<session, host, snap, intact>>

(* The bus test: a word out under CMD19, its inverse back under CMD14.     *)
Put ==
  /\ At("put")
  /\ guest' = Advance([guest EXCEPT !.datport = BusWord])
  /\ host' = [host EXCEPT !.pattern = BusWord]
  /\ UNCHANGED <<session, snap, intact>>

Get ==
  /\ At("get")
  /\ guest' = Advance(guest)
  /\ UNCHANGED <<session, host, snap, intact>>

-----------------------------------------------------------------------------
(* Sessions.                                                               *)

(* The controller holds what the job under way still needs: the armed      *)
(* channel, or the word of the bus test.                                   *)
Holds ==
  \/ host.armed # NoChan
  \/ /\ host.pattern # 0
     /\ \E i \in guest.step..Len(Script[guest.job]) : Script[guest.job][i] = "cmd14"

(* The controller's own state is saved with a stateful snapshot only.      *)
Snapshot(kind) ==
  [kind |-> kind, guest |-> guest,
   host |-> IF kind = "stateful" THEN host ELSE FreshHost,
   intact |-> intact /\ (kind = "stateful" \/ ~Holds)]

(* save_longrun, in a session of longrun.build.                            *)
Save ==
  /\ session # "cold"
  /\ snap' = Snapshot("stateful")
  /\ UNCHANGED <<session, guest, host, intact>>

(* checkpoint.make saves a cold boot, and checkpoint.extend a session on   *)
(* any snapshot, as soon as a count of instructions has passed, without    *)
(* components: the card's writes and what the controller holds are lost.   *)
Rung ==
  /\ snap' = Snapshot("bare")
  /\ UNCHANGED <<session, guest, host, intact>>

(* Only the card's contents are.                                           *)
RestoredPatternBug(h) == [FreshHost EXCEPT !.overlay = h.overlay]

(* Esdhc.restore_checkpoint_state: only channel 59 can have been armed.    *)
Restored(h) == [h EXCEPT !.armed = IF @ = DmaChan THEN @ ELSE NoChan]

(* build: a new controller, with the saved state if the snapshot has it.   *)
Resume ==
  /\ snap.kind # "none"
  /\ session' = snap.kind
  /\ guest' = snap.guest
  /\ host' = IF snap.kind = "stateful" THEN Restored(snap.host) ELSE FreshHost
  /\ intact' = snap.intact
  /\ UNCHANGED snap

(* A cold boot, from reset.                                                *)
Init ==
  /\ session = "cold"
  /\ guest = ResetGuest
  /\ host = FreshHost
  /\ snap = [kind |-> "none", guest |-> ResetGuest, host |-> FreshHost, intact |-> TRUE]
  /\ intact = TRUE

Buffers == UNION {[1..n -> Value] : n \in 1..MaxLen}

Driver ==
  \/ Program \/ Arm \/ Issue \/ Xfertyp
  \/ PendCmd \/ PendData \/ PendDma \/ Poll
  \/ Put \/ Get

Next ==
  \/ Identify
  \/ \E at \in Sector, n \in 1..MaxLen : Read(at, n)
  \/ \E at \in Sector, data \in Buffers : Write(at, data)
  \/ \E chan \in Foreign : ArmOther(chan)
  \/ Driver
  \/ Save \/ Rung \/ Resume

(* The driver's task goes on whenever it can.                              *)
Fairness == WF_vars(Driver)

Spec == Init /\ [][Next]_vars /\ Fairness
-----------------------------------------------------------------------------
(* Properties.                                                             *)

Overlays == UNION {[S -> Value] : S \in SUBSET Sector}

Hosts ==
  [overlay : Overlays,
   armed : {NoChan, DmaChan}, pattern : Word]

BufferType == UNION {[1..n -> Value \cup {Stale}] : n \in 0..MaxLen}

Guests ==
  [job : DOMAIN Script, step : 1..8, at : Sector, cmdarg : Sector, jobs : 0..MaxJobs,
   buffer : BufferType,
   citer : 0..MaxLen, biter : 0..MaxLen, finished : BOOLEAN,
   status : 0..1, cmdSem : 0..1, dataSem : 0..1, dmaSem : 0..1, datport : Word]

(* Every variable keeps the shape the code gives it.                       *)
TypeOK ==
  /\ session \in {"cold", "bare", "stateful"}
  /\ guest \in Guests /\ host \in Hosts
  /\ snap.kind \in {"none", "bare", "stateful"}
  /\ snap.guest \in Guests /\ snap.host \in Hosts
  /\ intact \in BOOLEAN /\ snap.intact \in BOOLEAN

(* What a machine in this state is to its driver.                          *)
Contents(h) == [b \in Sector |-> Content(h, b)]

Progress(g, h) ==
  LET issued == \E i \in 1..(g.step - 1) : Script[g.job][i] \in {"cmd8", "cmd18", "cmd25"}
      armed  == \E i \in 1..(g.step - 1) : Script[g.job][i] = "arm"
  IN  IF g.job \notin Transfers
        THEN [state |-> "idle", kind |-> "none", at |-> 0, data |-> g.buffer]
        ELSE [state |-> IF issued THEN "served"
                        ELSE IF armed /\ h.armed # DmaChan THEN "lost"
                        ELSE "asked",
              kind |-> g.job, at |-> g.at, data |-> g.buffer]

Abstract ==
  INSTANCE BlockDevice
    WITH Blank <- Contents(FreshHost),
         disk  <- Contents(host),
         op    <- Progress(guest, host),
         saved <- [disk |-> Contents(snap.host), op |-> Progress(snap.guest, snap.host)]

(* Whatever the driver, the other eDMA users, saves and resumes do in      *)
(* between, the controller is a card that answers with what was last       *)
(* written and lets no request return before that.  Two losses are         *)
(* BlockDevice's own: a session resumed from a rung finds the card as      *)
(* delivered, and a request whose rung fell between its SERQ and its       *)
(* command is passed over, without touching card or buffer.                *)
Device == Abstract!Spec

(* The bus test: CMD14 hands back the inverse of the word that went out    *)
(* under CMD19, also when the session was resumed in between, unless it    *)
(* was from a rung.                                                        *)
BusTestPasses == At("get") /\ intact => guest.datport = Invert(BusWord)

(* Sessions stop being resumed at some point.                              *)
Settles == <>[][~Resume]_vars

(* The driver used to block forever on semaphores nothing posted, or to    *)
(* give up polling DONE: in a session of longrun every request is          *)
(* answered, unless a rung fell while the controller held its channel or   *)
(* the cold boot, which has no semaphore to post for it, had served it.    *)
Answered ==
  Settles => (GivenDmaSem /\ guest.job # "none" ~> guest.job = "none" \/ ~intact)
=============================================================================
