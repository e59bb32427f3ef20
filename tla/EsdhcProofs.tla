----------------------------- MODULE EsdhcProofs -----------------------------
(* Theorems of Esdhc, for every card, every request and any number of      *)
(* sessions: the controller and its driver implement BlockDevice.          *)
EXTENDS Esdhc, TLAPS

(* How far the driver is and what the controller holds go together: a      *)
(* transfer is armed between the SERQ and its command and never else, with *)
(* a count of the whole buffer, which lies within the card; and as long as *)
(* nothing was lost, the word of the bus test is where it should be.       *)
Coherent(g, h, kept) ==
  /\ g.step <= Len(Script[g.job])
  /\ h.armed = DmaChan => g.job \in Transfers /\ g.step \in {3, 4}
  /\ g.job \in Transfers =>
       /\ Len(g.buffer) > 0 /\ g.at + Len(g.buffer) <= Sectors
       /\ g.job = "identify" => Len(g.buffer) = 1
       /\ g.step \in 2..4 => g.citer = Len(g.buffer)
       /\ g.step = 4 => g.cmdarg = g.at
       /\ g.job = "write" => \A i \in 1..Len(g.buffer) : g.buffer[i] \in Value
  /\ g.job = "bustest" /\ kept =>
       /\ g.step \in {5, 6} => h.pattern = BusWord
       /\ g.step \in {7, 8} => g.datport = Invert(BusWord)

Pair(g, h, kept) == g \in Guests /\ h \in Hosts /\ Coherent(g, h, kept)

(* The session; and the one that a snapshot would make.                    *)
Inv ==
  /\ session \in {"cold", "bare", "stateful"} /\ intact \in BOOLEAN
  /\ Pair(guest, host, intact)
  /\ snap.kind \in {"none", "bare", "stateful"} /\ snap.intact \in BOOLEAN
  /\ Pair(snap.guest, snap.host, snap.intact)
  /\ snap.kind = "bare" => snap.host = FreshHost

-----------------------------------------------------------------------------
(* The driver's routines.                                                  *)
LEMMA ScriptShape ==
  /\ DOMAIN Script = {"bustest", "identify", "read", "write", "none"}
  /\ Len(Script["bustest"]) = 8 /\ Len(Script["none"]) = 1
  /\ \A job \in Transfers : Len(Script[job]) = 7 /\ job \in DOMAIN Script
  BY DEF Script, Transfers

LEMMA Where ==
  ASSUME Pair(guest, host, intact)
  PROVE  /\ At("program") => guest.job \in Transfers /\ guest.step = 1
         /\ At("arm") => guest.job \in Transfers /\ guest.step = 2
         /\ At("issue") => \/ guest.job \in Transfers /\ guest.step = 3
                           \/ guest.job = "bustest" /\ guest.step \in {1, 5}
         /\ At("pendCmd") => \/ guest.job \in Transfers /\ guest.step = 5
                             \/ guest.job = "bustest" /\ guest.step \in {3, 7}
         /\ At("pendData") => guest.job \in Transfers /\ guest.step = 6
         /\ At("pendDma") => guest.job \in Transfers /\ guest.step = 7
         /\ At("poll") => guest.job \in Transfers /\ guest.step = 7
         /\ At("cmd8") => guest.job = "identify" /\ guest.step = 4
         /\ At("cmd18") => guest.job = "read" /\ guest.step = 4
         /\ At("cmd25") => guest.job = "write" /\ guest.step = 4
         /\ At("cmd19") => guest.job = "bustest" /\ guest.step = 2
         /\ At("cmd14") => guest.job = "bustest" /\ guest.step = 6
         /\ At("put") => guest.job = "bustest" /\ guest.step = 4
         /\ At("get") => guest.job = "bustest" /\ guest.step = 8
PROOF
  <1>1. guest.job \in DOMAIN Script /\ guest.step \in 1..8 /\ guest.step <= Len(Script[guest.job])
    BY DEF Pair, Coherent, Guests
  <1>2. CASE guest.job = "bustest"
    BY <1>1, <1>2 DEF At, Script, Transfers
  <1>3. CASE guest.job = "identify"
    BY <1>1, <1>3 DEF At, Script, Transfers
  <1>4. CASE guest.job = "read"
    BY <1>1, <1>4 DEF At, Script, Transfers
  <1>5. CASE guest.job = "write"
    BY <1>1, <1>5 DEF At, Script, Transfers
  <1>6. CASE guest.job = "none"
    BY <1>1, <1>6 DEF At, Script, Transfers
  <1> QED
    BY <1>1, <1>2, <1>3, <1>4, <1>5, <1>6, ScriptShape

(* What Advance leaves alone.                                              *)
LEMMA Advanced ==
  ASSUME NEW g \in Guests, g.step <= Len(Script[g.job])
  PROVE  /\ Advance(g) \in Guests
         /\ Advance(g).at = g.at /\ Advance(g).buffer = g.buffer
         /\ Advance(g).citer = g.citer /\ Advance(g).cmdarg = g.cmdarg
         /\ Advance(g).datport = g.datport
         /\ g.step < Len(Script[g.job]) => Advance(g).job = g.job /\ Advance(g).step = g.step + 1
         /\ g.step = Len(Script[g.job]) => Advance(g).job = "none" /\ Advance(g).step = 1
PROOF
  <1>1. PICK n \in 1..8 : n = Len(Script[g.job])
    BY ScriptShape DEF Guests, Transfers
  <1>0. g.step \in 1..8
    BY DEF Guests
  <1>2. CASE g.step < n
    <2>1. Advance(g) = [g EXCEPT !.step = g.step + 1]
      BY <1>1, <1>2 DEF Advance
    <2>2. g.step + 1 \in 1..8
      BY <1>0, <1>2
    <2>3. Advance(g) \in Guests
      BY <2>1, <2>2 DEF Guests
    <2> QED
      BY <1>1, <1>2, <2>1, <2>3 DEF Guests
  <1>3. CASE g.step = n
    <2>1. Advance(g) = [g EXCEPT !.job = "none", !.step = 1]
      BY <1>1, <1>3 DEF Advance
    <2>2. "none" \in DOMAIN Script
      BY ScriptShape
    <2>3. Advance(g) \in Guests
      <3> DEFINE rested == [g EXCEPT !.job = "none"]
      <3>1. rested \in Guests
        BY <2>2 DEF Guests
      <3>2. Advance(g) = [rested EXCEPT !.step = 1]
        BY <2>1
      <3> HIDE DEF rested
      <3> QED
        BY <3>1, <3>2 DEF Guests
    <2> QED
      BY <1>1, <1>3, <2>1, <2>3 DEF Guests
  <1> QED
    BY <1>1, <1>2, <1>3 DEF Guests

-----------------------------------------------------------------------------
(* The abstraction.                                                        *)
LEMMA ProgressIs ==
  ASSUME NEW g \in Guests, NEW h, g.step <= Len(Script[g.job])
  PROVE  /\ g.job \notin Transfers =>
              Progress(g, h) = [state |-> "idle", kind |-> "none", at |-> 0, data |-> g.buffer]
         /\ g.job \in Transfers /\ g.step \in {1, 2} =>
              Progress(g, h) = [state |-> "asked", kind |-> g.job, at |-> g.at,
                                data |-> g.buffer]
         /\ g.job \in Transfers /\ g.step \in {3, 4} /\ h.armed = DmaChan =>
              Progress(g, h) = [state |-> "asked", kind |-> g.job, at |-> g.at,
                                data |-> g.buffer]
         /\ g.job \in Transfers /\ g.step \in {3, 4} /\ h.armed # DmaChan =>
              Progress(g, h) = [state |-> "lost", kind |-> g.job, at |-> g.at,
                                data |-> g.buffer]
         /\ g.job \in Transfers /\ g.step > 4 =>
              Progress(g, h) = [state |-> "served", kind |-> g.job, at |-> g.at,
                                data |-> g.buffer]
PROOF
  <1> DEFINE issued == \E i \in 1..(g.step - 1) :
                         Script[g.job][i] \in {"cmd8", "cmd18", "cmd25"}
             armed  == \E i \in 1..(g.step - 1) : Script[g.job][i] = "arm"
  <1>1. g.step \in 1..8
    BY DEF Guests
  <1>2. g.job \in Transfers => (issued <=> g.step > 4) /\ (armed <=> g.step > 2)
    <2>1. ASSUME g.job \in Transfers
          PROVE  /\ Script[g.job][1] = "program" /\ Script[g.job][2] = "arm"
                 /\ Script[g.job][3] = "issue"
                 /\ Script[g.job][4] \in {"cmd8", "cmd18", "cmd25"}
      BY <2>1 DEF Script, Transfers
    <2>2. ASSUME g.job \in Transfers, g.step > 4 PROVE issued
      BY <1>1, <2>1, <2>2
    <2>3. ASSUME g.job \in Transfers, g.step <= 4 PROVE ~issued
      <3>1. \A i \in 1..(g.step - 1) : i = 1 \/ i = 2 \/ i = 3
        BY <1>1, <2>3
      <3> QED
        BY <2>1, <2>3, <3>1
    <2>4. ASSUME g.job \in Transfers, g.step > 2 PROVE armed
      BY <1>1, <2>1, <2>4
    <2>5. ASSUME g.job \in Transfers, g.step <= 2 PROVE ~armed
      <3>1. \A i \in 1..(g.step - 1) : i = 1
        BY <1>1, <2>5
      <3> QED
        BY <2>1, <2>5, <3>1
    <2> QED
      BY <1>1, <2>2, <2>3, <2>4, <2>5
  <1>3. Progress(g, h) =
          IF g.job \notin Transfers
            THEN [state |-> "idle", kind |-> "none", at |-> 0, data |-> g.buffer]
            ELSE [state |-> IF issued THEN "served"
                            ELSE IF armed /\ h.armed # DmaChan THEN "lost"
                            ELSE "asked",
                  kind |-> g.job, at |-> g.at, data |-> g.buffer]
    BY DEF Progress
  <1> HIDE DEF issued, armed
  <1>4. CASE g.job \notin Transfers
    BY <1>3, <1>4
  <1>5. CASE g.job \in Transfers /\ g.step > 4
    BY <1>1, <1>2, <1>3, <1>5
  <1>6. CASE g.job \in Transfers /\ g.step \in {3, 4}
    BY <1>1, <1>2, <1>3, <1>6
  <1>7. CASE g.job \in Transfers /\ g.step \in {1, 2}
    BY <1>1, <1>2, <1>3, <1>7
  <1> QED
    BY <1>1, <1>4, <1>5, <1>6, <1>7

LEMMA SameContents ==
  ASSUME NEW h, NEW k, h.overlay = k.overlay
  PROVE  Contents(h) = Contents(k)
  BY DEF Contents, Content

LEMMA Stutters ==
  ASSUME Progress(guest', host') = Progress(guest, host), Contents(host') = Contents(host), snap' = snap
  PROVE  UNCHANGED Abstract!vars
  BY DEF Abstract!vars

(* A buffer is a sequence.                                                 *)
LEMMA BufferIs ==
  ASSUME NEW g \in Guests
  PROVE  /\ g.buffer \in Seq(Value \cup {Stale}) /\ Len(g.buffer) \in 0..MaxLen
         /\ g.buffer \in [1..Len(g.buffer) -> Value \cup {Stale}]
PROOF
  <1>1. PICK n \in 0..MaxLen : g.buffer \in [1..n -> Value \cup {Stale}]
    BY DEF Guests, BufferType
  <1>2. MaxLen \in Nat /\ n \in Nat
    BY CardAssumption
  <1>3. g.buffer \in Seq(Value \cup {Stale}) /\ Len(g.buffer) = n
    BY <1>1, <1>2
  <1> QED
    BY <1>1, <1>3

(* What the card answers is something a sector can hold.                   *)
LEMMA ContentType ==
  ASSUME NEW h \in Hosts, NEW b \in Int, b >= 0
  PROVE  Content(h, b) \in Value
PROOF
  <1>1. PICK S \in SUBSET Sector : h.overlay \in [S -> Value]
    BY DEF Hosts, Overlays
  <1>2. b < Len(Image) => Image[b + 1] \in Value
    BY CardAssumption
  <1> QED
    BY <1>1, <1>2, CardAssumption DEF Content
-----------------------------------------------------------------------------
(* A step of the driver, in terms of the step it takes.                    *)
LEMMA Steps ==
  ASSUME NEW g \in Guests, NEW h \in Hosts, NEW kept, g.step <= Len(Script[g.job]),
         h.armed = DmaChan => g.job \in Transfers /\ g.step \in {2, 3},
         g.job \in Transfers =>
           /\ Len(g.buffer) > 0 /\ g.at + Len(g.buffer) <= Sectors
           /\ g.job = "identify" => Len(g.buffer) = 1
           /\ g.step \in 1..3 => g.citer = Len(g.buffer)
           /\ g.step = 3 => g.cmdarg = g.at
           /\ g.job = "write" => \A i \in 1..Len(g.buffer) : g.buffer[i] \in Value,
         g.job = "bustest" /\ kept =>
           /\ g.step \in {4, 5} => h.pattern = BusWord
           /\ g.step \in {6, 7} => g.datport = Invert(BusWord)
  PROVE  Pair(Advance(g), h, kept)
PROOF
  <1>1. PICK n \in 1..8 : n = Len(Script[g.job])
    BY ScriptShape DEF Guests, Transfers
  <1>2. g.step \in 1..8 /\ (g.job = "bustest" => n = 8) /\ (g.job \in Transfers => n = 7)
        /\ g.job \in DOMAIN Script
    BY <1>1, ScriptShape DEF Guests
  <1> DEFINE a == Advance(g)
  <1>3. /\ a \in Guests /\ a.at = g.at /\ a.buffer = g.buffer /\ a.citer = g.citer
        /\ a.cmdarg = g.cmdarg /\ a.datport = g.datport
        /\ g.step < n => a.job = g.job /\ a.step = g.step + 1
        /\ g.step = n => a.job = "none" /\ a.step = 1
    BY <1>1, Advanced
  <1> HIDE DEF a
  <1>4. ASSUME g.step = n PROVE Pair(a, h, kept)
    <2>1. a.job = "none" /\ a.step = 1 /\ "none" \notin Transfers /\ "none" # "bustest"
      BY <1>3, <1>4 DEF Transfers
    <2>3. a.step <= Len(Script[a.job])
      <3>1. Len(Script[a.job]) = 1
        BY <2>1, ScriptShape, Zenon
      <3> QED
        BY <2>1, <3>1
    <2>2. h.armed # DmaChan
      <3>1. CASE g.job \in Transfers
        BY <1>2, <1>4, <3>1
      <3>2. CASE g.job \notin Transfers
        BY <3>2
      <3> QED
        BY <3>1, <3>2
    <2>4. a.job \notin Transfers /\ a.job # "bustest"
      BY <2>1
    <2> QED
      BY <1>3, <2>2, <2>3, <2>4 DEF Pair, Coherent
  <1>5. ASSUME g.step < n PROVE Pair(a, h, kept)
    <2>1. a.step <= Len(Script[a.job])
      BY <1>1, <1>2, <1>3, <1>5
    <2>2. h.armed = DmaChan => a.job \in Transfers /\ a.step \in {3, 4}
      BY <1>2, <1>3, <1>5
    <2>3. a.job \in Transfers =>
            /\ Len(a.buffer) > 0 /\ a.at + Len(a.buffer) <= Sectors
            /\ a.job = "identify" => Len(a.buffer) = 1
            /\ a.step \in 2..4 => a.citer = Len(a.buffer)
            /\ a.step = 4 => a.cmdarg = a.at
            /\ a.job = "write" => \A i \in 1..Len(a.buffer) : a.buffer[i] \in Value
      BY <1>2, <1>3, <1>5
    <2>4. a.job = "bustest" /\ kept =>
            /\ a.step \in {5, 6} => h.pattern = BusWord
            /\ a.step \in {7, 8} => a.datport = Invert(BusWord)
      BY <1>2, <1>3, <1>5
    <2> QED
      BY <1>3, <2>1, <2>2, <2>3, <2>4 DEF Pair, Coherent
  <1> QED
    BY <1>1, <1>2, <1>4, <1>5 DEF a

(* Any step but a data command is a stutter, or the return of a request    *)
(* that was served.                                                        *)
LEMMA Stays ==
  ASSUME Pair(guest, host, intact), NEW g \in Guests,
         g.job = guest.job, g.step = guest.step, g.at = guest.at, g.buffer = guest.buffer,
         ~(guest.job \in Transfers /\ guest.step = 4), guest' = Advance(g),
         host'.overlay = host.overlay, snap' = snap,
         guest.job \in Transfers =>
           /\ guest.step = 2 => host'.armed = DmaChan
           /\ guest.step = 3 => host'.armed = host.armed
  PROVE  [Abstract!Next]_(Abstract!vars)
PROOF
  <1>1. guest \in Guests /\ guest.step <= Len(Script[guest.job]) /\ guest.step \in 1..8
    BY DEF Pair, Coherent, Guests
  <1>2. PICK n \in 1..8 : n = Len(Script[guest.job])
    BY <1>1, ScriptShape DEF Guests, Transfers
  <1>3. guest.job \in Transfers => n = 7
    BY <1>2, ScriptShape
  <1>4. /\ guest' \in Guests /\ guest'.at = guest.at /\ guest'.buffer = guest.buffer
        /\ guest.step < n => guest'.job = guest.job /\ guest'.step = guest.step + 1
        /\ guest.step = n => guest'.job = "none" /\ guest'.step = 1
    BY <1>1, <1>2, Advanced
  <1>5. guest'.step <= Len(Script[guest'.job])
    <2>1. CASE guest.step < n
      BY <1>1, <1>2, <1>4, <2>1
    <2>2. CASE guest.step = n
      <3>1. guest'.job = "none" /\ guest'.step = 1
        BY <1>4, <2>2
      <3>2. Len(Script[guest'.job]) = 1
        BY <3>1, ScriptShape, Zenon
      <3> QED
        BY <3>1, <3>2
    <2> QED
      BY <1>1, <1>2, <2>1, <2>2
  <1>6. Contents(host') = Contents(host)
    BY SameContents
  <1>7. CASE guest.job \notin Transfers
    <2>1. guest'.job \notin Transfers
      BY <1>1, <1>2, <1>4, <1>7 DEF Transfers
    <2>2. Progress(guest', host') = Progress(guest, host)
      BY <1>1, <1>4, <1>5, <1>7, <2>1, ProgressIs
    <2> QED
      BY <1>6, <2>2, Stutters
  <1>8. CASE guest.job \in Transfers /\ guest.step < n
    <2>1. Progress(guest', host') = Progress(guest, host)
      <3>1. CASE guest.step = 1
        <4>1. guest'.step = 2 /\ guest'.job = guest.job
          BY <1>4, <1>8, <3>1
        <4>2. Progress(guest, host) = [state |-> "asked", kind |-> guest.job,
                                       at |-> guest.at, data |-> guest.buffer]
          BY <1>1, <1>8, <3>1, ProgressIs
        <4>3. Progress(guest', host') = [state |-> "asked", kind |-> guest'.job,
                                         at |-> guest'.at, data |-> guest'.buffer]
          BY <1>4, <1>5, <1>8, <4>1, ProgressIs
        <4> QED
          BY <1>4, <4>1, <4>2, <4>3
      <3>3. CASE guest.step = 2
        <4>1. guest'.step = 3 /\ guest'.job = guest.job /\ host'.armed = DmaChan
          BY <1>4, <1>8, <3>3
        <4>2. Progress(guest, host) = [state |-> "asked", kind |-> guest.job,
                                       at |-> guest.at, data |-> guest.buffer]
          BY <1>1, <1>8, <3>3, ProgressIs
        <4>3. Progress(guest', host') = [state |-> "asked", kind |-> guest'.job,
                                         at |-> guest'.at, data |-> guest'.buffer]
          BY <1>4, <1>5, <1>8, <4>1, ProgressIs
        <4> QED
          BY <1>4, <4>1, <4>2, <4>3
      <3>4. CASE guest.step = 3
        <4>1. guest'.step = 4 /\ guest'.job = guest.job /\ host'.armed = host.armed
          BY <1>4, <1>8, <3>4
        <4>2. CASE host.armed = DmaChan
          <5>1. /\ Progress(guest, host) = [state |-> "asked", kind |-> guest.job,
                                            at |-> guest.at, data |-> guest.buffer]
                /\ Progress(guest', host') = [state |-> "asked", kind |-> guest'.job,
                                              at |-> guest'.at, data |-> guest'.buffer]
            BY <1>1, <1>4, <1>5, <1>8, <3>4, <4>1, <4>2, ProgressIs
          <5> QED
            BY <1>4, <4>1, <5>1
        <4>3. CASE host.armed # DmaChan
          <5>1. /\ Progress(guest, host) = [state |-> "lost", kind |-> guest.job,
                                            at |-> guest.at, data |-> guest.buffer]
                /\ Progress(guest', host') = [state |-> "lost", kind |-> guest'.job,
                                              at |-> guest'.at, data |-> guest'.buffer]
            BY <1>1, <1>4, <1>5, <1>8, <3>4, <4>1, <4>3, ProgressIs
          <5> QED
            BY <1>4, <4>1, <5>1
        <4> QED
          BY <4>2, <4>3
      <3>2. CASE guest.step > 4
        <4>1. guest'.step > 4 /\ guest'.job = guest.job
          BY <1>1, <1>2, <1>4, <1>8, <3>2
        <4>2. Progress(guest, host) = [state |-> "served", kind |-> guest.job,
                                       at |-> guest.at, data |-> guest.buffer]
          BY <1>1, <1>8, <3>2, ProgressIs
        <4>3. Progress(guest', host') = [state |-> "served", kind |-> guest'.job,
                                         at |-> guest'.at, data |-> guest'.buffer]
          BY <1>4, <1>5, <1>8, <4>1, ProgressIs
        <4> QED
          BY <1>4, <4>1, <4>2, <4>3
      <3> QED
        BY <1>1, <1>8, <3>1, <3>2, <3>3, <3>4
    <2> QED
      BY <1>6, <2>1, Stutters
  <1>9. CASE guest.job \in Transfers /\ guest.step = n
    <2>1. guest.step > 4 /\ guest'.job = "none" /\ "none" \notin Transfers
      BY <1>3, <1>4, <1>9 DEF Transfers
    <2>2. Progress(guest, host) = [state |-> "served", kind |-> guest.job, at |-> guest.at,
                             data |-> guest.buffer]
      BY <1>1, <1>9, <2>1, ProgressIs
    <2>3. Progress(guest', host') = [state |-> "idle", kind |-> "none", at |-> 0,
                              data |-> guest.buffer]
      BY <1>4, <1>5, <2>1, ProgressIs
    <2>4. Abstract!Answer
      BY <1>6, <2>2, <2>3 DEF Abstract!Answer
    <2> QED
      BY <2>4 DEF Abstract!Next
  <1> QED
    BY <1>1, <1>2, <1>7, <1>8, <1>9
-----------------------------------------------------------------------------
(* The steps of the driver that reach no card.                             *)
LEMMA DriverSteps ==
  ASSUME Pair(guest, host, intact),
         Program \/ Arm \/ Issue \/ PendCmd \/ PendData \/ PendDma \/ Poll \/ Put \/ Get
  PROVE  Pair(guest', host', intact) /\ [Abstract!Next]_(Abstract!vars)
PROOF
  <1>1. guest \in Guests /\ host \in Hosts /\ Coherent(guest, host, intact)
    BY DEF Pair
  <1>2. /\ guest.step \in 1..8 /\ guest.at \in Sector /\ guest.cmdSem \in 0..1
        /\ guest.dataSem \in 0..1 /\ guest.dmaSem \in 0..1
        /\ Len(guest.buffer) \in 0..MaxLen
        /\ "bustest" \notin Transfers
    BY <1>1, BufferIs DEF Guests, Transfers
  <1> DEFINE Same(g) == /\ g.job = guest.job /\ g.step = guest.step /\ g.at = guest.at
                        /\ g.buffer = guest.buffer
  <1>3. CASE Program
    <2> DEFINE g == [guest EXCEPT !.citer = Len(guest.buffer),
                                  !.biter = Len(guest.buffer), !.finished = FALSE]
    <2>1. g \in Guests /\ Same(g) /\ g.citer = Len(g.buffer)
      BY <1>1, <1>2 DEF Guests
    <2>2. guest' = Advance(g) /\ host' = host /\ snap' = snap
          /\ guest.job \in Transfers /\ guest.step = 1
      BY <1>3, Where DEF Program
    <2> HIDE DEF g
    <2>3. Pair(Advance(g), host, intact)
      BY <1>1, <1>2, <2>1, <2>2, Steps DEF Coherent
    <2> QED
      BY <2>1, <2>2, <2>3, Stays
  <1>4. CASE Arm
    <2>1. guest' = Advance(guest) /\ snap' = snap
          /\ guest.job \in Transfers /\ guest.step = 2 /\ host' = [host EXCEPT !.armed = DmaChan]
      BY <1>4, Where DEF Arm, OnSerq
    <2>2. host' \in Hosts /\ host'.armed = DmaChan /\ host'.overlay = host.overlay
      BY <1>1, <2>1 DEF Hosts
    <2>3. /\ guest.step <= Len(Script[guest.job])
          /\ Len(guest.buffer) > 0 /\ guest.at + Len(guest.buffer) <= Sectors
          /\ guest.job = "identify" => Len(guest.buffer) = 1
          /\ guest.citer = Len(guest.buffer)
          /\ guest.job = "write" => \A i \in 1..Len(guest.buffer) : guest.buffer[i] \in Value
      BY <1>1, <2>1 DEF Coherent
    <2>4. guest.job # "bustest" /\ guest.step \in {2, 3} /\ guest.step # 3
      BY <1>2, <2>1
    <2>5. Pair(Advance(guest), host', intact)
      BY <1>1, <2>1, <2>2, <2>3, <2>4, Steps
    <2> QED
      BY <1>1, <2>1, <2>2, <2>5, Stays
  <1>5. CASE Issue
    <2> DEFINE g == [guest EXCEPT !.status = 1, !.cmdarg = guest.at]
    <2>1. g \in Guests /\ Same(g) /\ g.citer = guest.citer /\ g.cmdarg = g.at
          /\ g.datport = guest.datport
      <3> DEFINE started == [guest EXCEPT !.status = 1]
      <3>1. started \in Guests /\ Same(started) /\ started.citer = guest.citer
            /\ started.datport = guest.datport
        BY <1>1 DEF Guests
      <3>2. g = [started EXCEPT !.cmdarg = started.at]
        BY <1>1 DEF Guests
      <3> HIDE DEF started, g
      <3> QED
        BY <1>2, <3>1, <3>2 DEF Guests
    <2>2. /\ guest' = Advance(g) /\ host' = host /\ snap' = snap
          /\ \/ guest.job \in Transfers /\ guest.step = 3
             \/ guest.job = "bustest" /\ guest.step \in {1, 5}
      BY <1>5, Where DEF Issue
    <2> HIDE DEF g
    <2>3. Pair(Advance(g), host, intact)
      BY <1>1, <1>2, <2>1, <2>2, Steps DEF Coherent
    <2>4. ~(guest.job \in Transfers /\ guest.step = 4)
      BY <2>2
    <2> QED
      BY <2>1, <2>2, <2>3, <2>4, Stays
  <1>6. CASE PendCmd
    <2> DEFINE g == [guest EXCEPT !.cmdSem = @ - 1]
    <2>0. guest.cmdSem - 1 \in 0..1
      BY <1>2, <1>6 DEF PendCmd
    <2>1. g \in Guests /\ Same(g) /\ g.datport = guest.datport
      BY <1>1, <2>0 DEF Guests
    <2>2. /\ guest' = Advance(g) /\ host' = host /\ snap' = snap
          /\ \/ guest.job \in Transfers /\ guest.step = 5
             \/ guest.job = "bustest" /\ guest.step \in {3, 7}
      BY <1>6, Where DEF PendCmd
    <2> HIDE DEF g
    <2>3. Pair(Advance(g), host, intact)
      BY <1>1, <1>2, <2>1, <2>2, Steps DEF Coherent
    <2>4. ~(guest.job \in Transfers /\ guest.step = 4)
      BY <2>2
    <2> QED
      BY <2>1, <2>2, <2>3, <2>4, Stays
  <1>7. CASE PendData
    <2> DEFINE g == [guest EXCEPT !.dataSem = @ - 1]
    <2>0. guest.dataSem - 1 \in 0..1
      BY <1>2, <1>7 DEF PendData
    <2>1. g \in Guests /\ Same(g)
      BY <1>1, <2>0 DEF Guests
    <2>2. guest' = Advance(g) /\ host' = host /\ snap' = snap
          /\ guest.job \in Transfers /\ guest.step = 6
      BY <1>7, Where DEF PendData
    <2> HIDE DEF g
    <2>3. Pair(Advance(g), host, intact)
      BY <1>1, <1>2, <2>1, <2>2, Steps DEF Coherent
    <2> QED
      BY <2>1, <2>2, <2>3, Stays
  <1>8. CASE PendDma
    <2> DEFINE g == [guest EXCEPT !.dmaSem = @ - 1]
    <2>0. guest.dmaSem - 1 \in 0..1
      BY <1>2, <1>8 DEF PendDma
    <2>1. g \in Guests /\ Same(g)
      BY <1>1, <2>0 DEF Guests
    <2>2. guest' = Advance(g) /\ host' = host /\ snap' = snap
          /\ guest.job \in Transfers /\ guest.step = 7
      BY <1>8, Where DEF PendDma
    <2> HIDE DEF g
    <2>3. Pair(Advance(g), host, intact)
      BY <1>1, <1>2, <2>1, <2>2, Steps DEF Coherent
    <2> QED
      BY <2>1, <2>2, <2>3, Stays
  <1>9. CASE Poll
    <2>1. guest' = Advance(guest) /\ host' = host /\ snap' = snap
          /\ guest.job \in Transfers /\ guest.step = 7
      BY <1>9, Where DEF Poll
    <2>2. Pair(Advance(guest), host, intact)
      BY <1>1, <1>2, <2>1, Steps DEF Coherent
    <2> QED
      BY <1>1, <2>1, <2>2, Stays
  <1>10. CASE Put
    <2> DEFINE g == [guest EXCEPT !.datport = BusWord]
    <2>1. g \in Guests /\ Same(g)
      BY <1>1 DEF Guests, BusWord, Word
    <2>2. guest' = Advance(g) /\ host' = [host EXCEPT !.pattern = BusWord] /\ snap' = snap
          /\ guest.job = "bustest" /\ guest.step = 4
      BY <1>10, Where DEF Put
    <2>3. host' \in Hosts /\ host'.overlay = host.overlay /\ host'.armed = host.armed
          /\ host'.pattern = BusWord
      BY <1>1, <2>2 DEF Hosts, BusWord, Word
    <2> HIDE DEF g
    <2>4. host'.armed # DmaChan /\ g.job \notin Transfers /\ g.step <= Len(Script[g.job])
          /\ ~(g.step \in {6, 7})
      BY <1>1, <1>2, <2>1, <2>2, <2>3 DEF Coherent
    <2>5. Pair(Advance(g), host', intact)
      BY <2>1, <2>3, <2>4, Steps
    <2> QED
      BY <1>2, <2>1, <2>2, <2>3, <2>5, Stays
  <1>11. CASE Get
    <2>1. guest' = Advance(guest) /\ host' = host /\ snap' = snap
          /\ guest.job = "bustest" /\ guest.step = 8
      BY <1>11, Where DEF Get
    <2>2. Pair(Advance(guest), host, intact)
      BY <1>1, <1>2, <2>1, Steps DEF Coherent
    <2> QED
      BY <1>1, <1>2, <2>1, <2>2, Stays
  <1> QED
    BY <1>3, <1>4, <1>5, <1>6, <1>7, <1>8, <1>9, <1>10, <1>11
-----------------------------------------------------------------------------
(* A command reaches a card.  What it does to the driver besides its data  *)
(* changes neither the step nor the request.                               *)
LEMMA Posted ==
  ASSUME NEW g \in Guests, NEW done \in Guests,
         done \in {Completed(DataPosted(g)), Completed(DataPosted(DmaPosted(g)))}
  PROVE  /\ done \in Guests /\ done.job = g.job /\ done.step = g.step /\ done.at = g.at
         /\ done.buffer = g.buffer /\ done.datport = g.datport
  BY DEF Completed, DataPosted, DmaPosted, Guests

LEMMA PostedType ==
  ASSUME NEW g \in Guests
  PROVE  Completed(DataPosted(g)) \in Guests /\ Completed(DataPosted(DmaPosted(g))) \in Guests
PROOF
  <1>1. \A count \in 0..1 : Post(count) \in 0..1
    BY DEF Post
  <1>2. ASSUME NEW k \in Guests PROVE DataPosted(k) \in Guests
    <2>1. Post(k.dataSem) \in 0..1
      BY <1>1 DEF Guests
    <2> QED
      BY <2>1 DEF DataPosted, Guests
  <1>3. ASSUME NEW k \in Guests PROVE DmaPosted(k) \in Guests
    <2>1. Post(k.dmaSem) \in 0..1
      BY <1>1 DEF Guests
    <2> QED
      BY <2>1 DEF DmaPosted, Guests
  <1>4. ASSUME NEW k \in Guests PROVE Completed(k) \in Guests
    <2>1. Post(k.cmdSem) \in 0..1
      BY <1>1 DEF Guests
    <2> DEFINE over == [k EXCEPT !.status = 0]
    <2>2. over \in Guests /\ over.cmdSem = k.cmdSem
      BY DEF Guests
    <2>3. Completed(k) = [over EXCEPT !.cmdSem = Post(over.cmdSem)]
      BY <2>2 DEF Completed, Guests
    <2> HIDE DEF over
    <2> QED
      BY <2>1, <2>2, <2>3 DEF Guests
  <1> QED
    BY <1>2, <1>3, <1>4

(* The bus test moves one word, and a command without a transfer no data.  *)
LEMMA BusCommands ==
  ASSUME Pair(guest, host, intact), snap' = snap,
         \/ At("cmd14") /\ CardToHost(14)
         \/ At("cmd19") /\ HostToCard(19)
  PROVE  Pair(guest', host', intact) /\ [Abstract!Next]_(Abstract!vars)
PROOF
  <1>1. guest \in Guests /\ host \in Hosts /\ Coherent(guest, host, intact)
    BY DEF Pair
  <1>2. guest.job = "bustest" /\ guest.step \in {2, 6} /\ guest.job \notin Transfers
    BY Where DEF Transfers
  <1>3. host.armed = NoChan
    BY <1>1, <1>2 DEF Coherent, Hosts
  <1> DEFINE g == IF At("cmd14") THEN [guest EXCEPT !.datport = ReadWord(14)] ELSE guest
             done == Completed(DataPosted(g))
  <1>4. ~(At("cmd14") /\ At("cmd19"))
    BY Where
  <1>5. guest' = Advance(done) /\ host' = host
    BY <1>3, <1>4 DEF CardToHost, HostToCard
  <1>6. g \in Guests /\ g.job = guest.job /\ g.step = guest.step /\ g.at = guest.at
        /\ g.buffer = guest.buffer
    BY <1>1 DEF Guests, ReadWord, Invert, Word, Hosts
  <1>7. intact /\ At("cmd14") => g.datport = Invert(BusWord)
    <2>1. intact /\ At("cmd14") => host.pattern = BusWord
      BY <1>1, Where DEF Coherent
    <2> QED
      BY <1>1, <2>1 DEF Guests, ReadWord
  <1>8. guest.step = 6 => At("cmd14")
    BY Where
  <1> HIDE DEF g
  <1>9. /\ done \in Guests /\ done.job = guest.job /\ done.step = guest.step
        /\ done.at = guest.at /\ done.buffer = guest.buffer /\ done.datport = g.datport
    BY <1>6, Posted, PostedType
  <1> HIDE DEF done
  <1>10. done.job \notin Transfers /\ done.step <= Len(Script[done.job]) /\ host.armed # DmaChan
         /\ ~(done.step \in {4, 5}) /\ (intact /\ done.step \in {6, 7} => done.datport = Invert(BusWord))
    BY <1>1, <1>2, <1>3, <1>7, <1>8, <1>9 DEF Coherent, DmaChan, NoChan
  <1>11. Pair(Advance(done), host, intact)
    BY <1>1, <1>9, <1>10, Steps
  <1> QED
    BY <1>2, <1>5, <1>9, <1>11, Stays
-----------------------------------------------------------------------------
(* A data command finds its transfer armed, for the whole buffer, unless   *)
(* the channel was lost.                                                   *)
LEMMA Armed ==
  ASSUME Pair(guest, host, intact), At("cmd8") \/ At("cmd18") \/ At("cmd25"),
         host.armed # NoChan
  PROVE  /\ guest \in Guests /\ host \in Hosts /\ guest.job \in Transfers /\ guest.step = 4
         /\ host.armed = DmaChan /\ host.armed # NoChan /\ guest.cmdarg = guest.at
         /\ DmaSize = Len(guest.buffer) /\ guest.citer = Len(guest.buffer)
         /\ Len(guest.buffer) \in 1..MaxLen /\ guest.at \in Sector
         /\ guest.at + Len(guest.buffer) <= Sectors
         /\ guest.step <= Len(Script[guest.job]) /\ guest.job # "bustest"
         /\ Progress(guest, host) = [state |-> "asked", kind |-> guest.job, at |-> guest.at,
                               data |-> guest.buffer]
PROOF
  <1>1. guest \in Guests /\ host \in Hosts /\ Coherent(guest, host, intact)
    BY DEF Pair
  <1>2. guest.job \in Transfers /\ guest.step = 4 /\ guest.job # "bustest"
    BY Where DEF Transfers
  <1>3. guest.step \in {3, 4} /\ guest.step \in 2..4
    BY <1>2
  <1>4. /\ host.armed = DmaChan /\ guest.cmdarg = guest.at
        /\ guest.citer = Len(guest.buffer) /\ Len(guest.buffer) > 0
        /\ guest.at + Len(guest.buffer) <= Sectors /\ guest.step <= Len(Script[guest.job])
    BY <1>1, <1>2, <1>3 DEF Coherent, Hosts
  <1>5. Len(guest.buffer) \in 1..MaxLen /\ guest.at \in Sector
    <2>1. Len(guest.buffer) \in 0..MaxLen
      BY <1>1, BufferIs
    <2> QED
      BY <1>1, <1>4, <2>1 DEF Guests
  <1>6. DmaSize = Len(guest.buffer) /\ host.armed # NoChan
    BY <1>4 DEF DmaSize, DmaChan, NoChan
  <1>7. Progress(guest, host) = [state |-> "asked", kind |-> guest.job, at |-> guest.at,
                           data |-> guest.buffer]
    BY <1>1, <1>2, <1>4, ProgressIs
  <1> QED
    BY <1>1, <1>2, <1>4, <1>5, <1>6, <1>7

(* ... and leaves it disarmed and the request served.                      *)
LEMMA Served ==
  ASSUME Pair(guest, host, intact), At("cmd8") \/ At("cmd18") \/ At("cmd25"),
         host.armed # NoChan, NEW g \in Guests, g.job = guest.job, g.step = guest.step, g.at = guest.at,
         Len(g.buffer) = Len(guest.buffer),
         g.job = "write" => g.buffer = guest.buffer,
         guest' = Advance(Completed(DataPosted(DmaPosted(g)))),
         host' \in Hosts, host'.armed = NoChan
  PROVE  /\ Pair(guest', host', intact)
         /\ Progress(guest', host') = [state |-> "served", kind |-> guest.job, at |-> guest.at,
                                data |-> g.buffer]
PROOF
  <1> DEFINE done == Completed(DataPosted(DmaPosted(g)))
  <1>1. /\ done \in Guests /\ done.job = guest.job /\ done.step = 4
        /\ done.at = guest.at /\ done.buffer = g.buffer
    BY Armed, Posted, PostedType
  <1>2. guest' = Advance(done)
    OBVIOUS
  <1> HIDE DEF done
  <1>3. Coherent(guest, host, intact)
    BY DEF Pair
  <1>4. /\ guest.job \in Transfers /\ guest.job # "bustest" /\ 4 <= Len(Script[guest.job])
        /\ Len(g.buffer) > 0 /\ guest.at + Len(g.buffer) <= Sectors
        /\ guest.job = "identify" => Len(g.buffer) = 1
        /\ guest.job = "write" => \A i \in 1..Len(g.buffer) : g.buffer[i] \in Value
    BY <1>3, Armed DEF Coherent
  <1>5. host'.armed # DmaChan
    BY DEF NoChan, DmaChan
  <1>6. Pair(guest', host', intact)
    BY <1>1, <1>2, <1>4, <1>5, Steps
  <1>7. /\ guest'.job = guest.job /\ guest'.step = 5 /\ guest'.at = guest.at
        /\ guest'.buffer = g.buffer
    <2>1. Len(Script[done.job]) = 7
      BY <1>1, <1>4, ScriptShape
    <2>2. done.step <= Len(Script[done.job]) /\ done.step < Len(Script[done.job])
      BY <1>1, <2>1
    <2> QED
      BY <1>1, <1>2, <2>2, Advanced
  <1> QED
    BY <1>4, <1>6, <1>7, ProgressIs DEF Pair, Coherent

(* What _dma_out leaves in the guest.                                      *)
LEMMA DmaOutIs ==
  ASSUME NEW g \in Guests, g.job = guest.job, g.step = guest.step, g.at = guest.at,
         DmaSize \in 1..MaxLen, NEW payload \in [1..DmaSize -> Value], Len(payload) = DmaSize
  PROVE  /\ DmaOut(g, payload) \in Guests
         /\ DmaOut(g, payload).job = guest.job /\ DmaOut(g, payload).step = guest.step
         /\ DmaOut(g, payload).at = guest.at /\ DmaOut(g, payload).buffer = payload
PROOF
  <1> DEFINE n == DmaSize
             filled == [i \in 1..n |-> IF i <= Len(payload) THEN payload[i] ELSE Zero]
  <1>1. filled = payload
    <2>1. filled = [i \in 1..n |-> payload[i]]
      OBVIOUS
    <2> QED
      BY <2>1
  <1>2. payload \in BufferType
    <2>1. payload \in [1..n -> Value \cup {Stale}] /\ n \in 0..MaxLen
      OBVIOUS
    <2> QED
      BY <2>1 DEF BufferType
  <1>3. DmaOut(g, payload) = [g EXCEPT !.buffer = filled, !.citer = g.biter, !.finished = TRUE]
    BY DEF DmaOut
  <1> HIDE DEF filled, n
  <1>4. DmaOut(g, payload) = [g EXCEPT !.buffer = payload, !.citer = g.biter,
                                       !.finished = TRUE]
    BY <1>1, <1>3
  <1> QED
    BY <1>2, <1>4 DEF Guests

(* CMD18 and CMD8: the buffer is filled from the card.                     *)
LEMMA ReadCommand ==
  ASSUME Pair(guest, host, intact), snap' = snap, At("cmd18"), CardToHost(18),
         host.armed # NoChan
  PROVE  Pair(guest', host', intact) /\ [Abstract!Next]_(Abstract!vars)
PROOF
  <1> DEFINE n == DmaSize
             payload == DataFor(18, guest.cmdarg, n)
             g0 == [guest EXCEPT !.datport = ReadWord(18)]
             g == DmaOut(g0, payload)
  <1>1. guest \in Guests /\ host \in Hosts /\ n = Len(guest.buffer) /\ n \in 1..MaxLen
        /\ guest.at \in Sector /\ guest.cmdarg = guest.at /\ guest.at + n <= Sectors
    BY Armed
  <1>2. payload = [i \in 1..n |-> Content(host, guest.at + i - 1)]
    BY <1>1 DEF DataFor
  <1>3. \A i \in 1..n : guest.at + i - 1 \in Sector
    BY <1>1, CardAssumption DEF Sector
  <1>4. payload \in [1..n -> Value] /\ Len(payload) = n
    <2>1. \A i \in 1..n : Content(host, guest.at + i - 1) \in Value
      BY <1>1, <1>3, ContentType DEF Sector
    <2> HIDE DEF n, payload
    <2>2. payload \in [1..n -> Value]
      BY <1>2, <2>1
    <2> QED
      BY <1>1, <2>2
  <1>5. /\ guest' = Advance(Completed(DataPosted(DmaPosted(g))))
        /\ host' = [host EXCEPT !.armed = NoChan]
    BY Armed DEF CardToHost
  <1>6. g0 \in Guests /\ g0.job = guest.job /\ g0.step = guest.step /\ g0.at = guest.at
    <2>1. g0 = [guest EXCEPT !.datport = 0]
      BY DEF ReadWord
    <2> HIDE DEF g0
    <2> QED
      BY <1>1, <2>1 DEF Guests, Word
  <1> HIDE DEF payload, g0
  <1>7. /\ g \in Guests /\ g.job = guest.job /\ g.step = guest.step /\ g.at = guest.at
        /\ g.buffer = payload
    BY <1>1, <1>4, <1>6, DmaOutIs
  <1>8. host' \in Hosts /\ host'.armed = NoChan /\ host'.overlay = host.overlay
    BY <1>1, <1>5 DEF Hosts
  <1>9. guest.job = "read" /\ g.job # "write"
    BY <1>7, Where
  <1> HIDE DEF n, g
  <1>10. /\ Pair(guest', host', intact)
         /\ Progress(guest', host') = [state |-> "served", kind |-> guest.job, at |-> guest.at,
                                data |-> payload]
    BY <1>1, <1>4, <1>5, <1>7, <1>8, <1>9, Served
  <1>11. payload = [i \in 1..Len(guest.buffer) |-> Contents(host)[guest.at + i - 1]]
    BY <1>1, <1>2, <1>3 DEF Contents
  <1>12. Contents(host') = Contents(host)
    BY <1>8, SameContents
  <1>13. Progress(guest, host) = [state |-> "asked", kind |-> "read", at |-> guest.at,
                            data |-> guest.buffer]
    BY <1>9, Armed
  <1>14. Abstract!ServeRead
    <2>1. /\ Progress(guest, host).state = "asked" /\ Progress(guest, host).kind = "read"
          /\ Progress(guest, host).at = guest.at /\ Progress(guest, host).data = guest.buffer
      BY <1>13
    <2>2. Progress(guest', host') = [Progress(guest, host) EXCEPT !.state = "served", !.data = payload]
      <3>1. Progress(guest, host) = [state |-> "asked", kind |-> guest.job, at |-> guest.at,
                               data |-> guest.buffer]
        BY Armed
      <3> DEFINE asked == Progress(guest, host)
                 filled == [state |-> "served", kind |-> guest.job, at |-> guest.at,
                            data |-> guest.buffer]
      <3>2. [asked EXCEPT !.state = "served"] = filled
        BY <3>1
      <3>3. [filled EXCEPT !.data = payload] = Progress(guest', host')
        BY <1>10
      <3> HIDE DEF asked, filled
      <3>4. Progress(guest', host') = [asked EXCEPT !.state = "served", !.data = payload]
        BY <3>2, <3>3
      <3> QED
        BY <3>4 DEF asked
    <2>3. payload = [i \in 1..Len(Progress(guest, host).data) |->
                       Contents(host)[Progress(guest, host).at + i - 1]]
      BY <1>11, <2>1
    <2> QED
      BY <1>12, <2>1, <2>2, <2>3 DEF Abstract!ServeRead
  <1> QED
    BY <1>10, <1>14 DEF Abstract!Next

LEMMA IdentifyCommand ==
  ASSUME Pair(guest, host, intact), snap' = snap, At("cmd8"), CardToHost(8),
         host.armed # NoChan
  PROVE  Pair(guest', host', intact) /\ [Abstract!Next]_(Abstract!vars)
PROOF
  <1> DEFINE n == DmaSize
             payload == <<ExtCsd>>
             g0 == [guest EXCEPT !.datport = ReadWord(8)]
             g == DmaOut(g0, payload)
  <1>1. guest \in Guests /\ host \in Hosts /\ guest.job = "identify"
    BY Armed, Where
  <1>2. n = 1 /\ Len(guest.buffer) = 1 /\ n \in 1..MaxLen
    <2>1. Len(guest.buffer) = 1
      BY <1>1 DEF Pair, Coherent, Transfers
    <2> QED
      BY <2>1, Armed
  <1>3. payload \in [1..n -> Value] /\ Len(payload) = n
    BY <1>2, CardAssumption
  <1>4. /\ guest' = Advance(Completed(DataPosted(DmaPosted(g))))
        /\ host' = [host EXCEPT !.armed = NoChan]
    BY Armed DEF CardToHost, DataFor
  <1>5. g0 \in Guests /\ g0.job = guest.job /\ g0.step = guest.step /\ g0.at = guest.at
    BY <1>1 DEF Guests, ReadWord, Word
  <1> HIDE DEF payload, g0
  <1>6. /\ g \in Guests /\ g.job = guest.job /\ g.step = guest.step /\ g.at = guest.at
        /\ g.buffer = payload
    BY <1>2, <1>3, <1>5, DmaOutIs
  <1>7. host' \in Hosts /\ host'.armed = NoChan /\ host'.overlay = host.overlay
    BY <1>1, <1>4 DEF Hosts
  <1> HIDE DEF n, g
  <1>8. /\ Pair(guest', host', intact)
        /\ Progress(guest', host') = [state |-> "served", kind |-> guest.job, at |-> guest.at,
                               data |-> payload]
    BY <1>1, <1>2, <1>3, <1>4, <1>6, <1>7, Served
  <1>9. Contents(host') = Contents(host)
    BY <1>7, SameContents
  <1>10. Progress(guest, host) = [state |-> "asked", kind |-> "identify", at |-> guest.at,
                            data |-> guest.buffer]
    BY <1>1, Armed
  <1>11. Abstract!ServeIdentify
    <2>1. Progress(guest, host).state = "asked" /\ Progress(guest, host).kind = "identify"
      BY <1>10
    <2>2. Progress(guest', host') = [Progress(guest, host) EXCEPT !.state = "served", !.data = payload]
      <3>1. Progress(guest, host) = [state |-> "asked", kind |-> guest.job, at |-> guest.at,
                               data |-> guest.buffer]
        BY Armed
      <3> DEFINE asked == Progress(guest, host)
                 filled == [state |-> "served", kind |-> guest.job, at |-> guest.at,
                            data |-> guest.buffer]
      <3>2. [asked EXCEPT !.state = "served"] = filled
        BY <3>1
      <3>3. [filled EXCEPT !.data = payload] = Progress(guest', host')
        BY <1>8
      <3> HIDE DEF asked, filled
      <3>4. Progress(guest', host') = [asked EXCEPT !.state = "served", !.data = payload]
        BY <3>2, <3>3
      <3> QED
        BY <3>4 DEF asked
    <2> QED
      BY <1>9, <2>1, <2>2 DEF Abstract!ServeIdentify, payload
  <1> QED
    BY <1>8, <1>11 DEF Abstract!Next

(* CMD25: the buffer is laid over the card.                                *)
LEMMA WriteCommand ==
  ASSUME Pair(guest, host, intact), snap' = snap, At("cmd25"), HostToCard(25),
         host.armed # NoChan
  PROVE  Pair(guest', host', intact) /\ [Abstract!Next]_(Abstract!vars)
PROOF
  <1> DEFINE n == Len(guest.buffer)
             b == guest.buffer
             at == guest.at
             new == {s \in Sector : s - at + 1 \in 1..n}
             over == [s \in DOMAIN host.overlay \cup new |->
                        IF s \in new THEN b[s - at + 1] ELSE host.overlay[s]]
             g == DmaIn(guest)
  <1>1. guest \in Guests /\ host \in Hosts /\ guest.job = "write" /\ n \in 1..MaxLen
        /\ at \in Sector /\ guest.cmdarg = at /\ at + n <= Sectors /\ DmaSize = n
    BY Armed, Where
  <1>2. b \in [1..n -> Value] /\ b \in Seq(Value \cup {Stale})
    <2>1. b \in [1..n -> Value \cup {Stale}] /\ b \in Seq(Value \cup {Stale})
      BY <1>1, BufferIs
    <2>2. \A i \in 1..n : b[i] \in Value
      BY <1>1 DEF Pair, Coherent, Transfers
    <2> HIDE DEF n, b
    <2> QED
      BY <2>1, <2>2
  <1>3. SubSeq(b, 1, DmaSize) = b
    <2> HIDE DEF b
    <2> QED
      BY <1>1, <1>2
  <1>4. Written(25, at, b) = over
    BY DEF Written
  <1>5. /\ guest' = Advance(Completed(DataPosted(DmaPosted(g))))
        /\ host' = [host EXCEPT !.armed = NoChan, !.overlay = over]
    BY <1>1, <1>3, <1>4, Armed DEF HostToCard
  <1>6. g \in Guests /\ g.job = guest.job /\ g.step = guest.step /\ g.at = at /\ g.buffer = b
    BY <1>1 DEF DmaIn, Guests
  <1> HIDE DEF g
  <1>7. over \in Overlays
    <2>1. PICK S \in SUBSET Sector : host.overlay \in [S -> Value]
      BY <1>1 DEF Hosts, Overlays
    <2>2. S \cup new \in SUBSET Sector
      OBVIOUS
    <2>3. \A s \in new : b[s - at + 1] \in Value
      BY <1>2
    <2>4. over \in [S \cup new -> Value]
      <3> HIDE DEF new, b, n
      <3> QED
        BY <2>1, <2>3
    <2> QED
      BY <2>2, <2>4 DEF Overlays
  <1>8. host' \in Hosts /\ host'.armed = NoChan /\ host'.overlay = over
    <2> HIDE DEF over
    <2> QED
      BY <1>1, <1>5, <1>7 DEF Hosts
  <1>9. Contents(host') =
          [s \in Sector |-> IF s - at + 1 \in 1..n THEN b[s - at + 1] ELSE Contents(host)[s]]
    <2>1. ASSUME NEW s \in Sector
          PROVE  Content(host', s) = IF s - at + 1 \in 1..n THEN b[s - at + 1]
                                                          ELSE Content(host, s)
      <3>1. CASE s \in new
        BY <1>8, <3>1 DEF Content
      <3>2. CASE s \notin new
        BY <1>8, <3>2 DEF Content
      <3> QED
        BY <3>1, <3>2
    <2> HIDE DEF over, new, n, b, at
    <2> QED
      BY <2>1 DEF Contents
  <1>10. /\ Pair(guest', host', intact)
         /\ Progress(guest', host') = [state |-> "served", kind |-> guest.job, at |-> at, data |-> b]
    <2> HIDE DEF over
    <2> QED
      BY <1>1, <1>5, <1>6, <1>8, Served
  <1>11. Progress(guest, host) = [state |-> "asked", kind |-> "write", at |-> at, data |-> b]
    BY <1>1, Armed
  <1> HIDE DEF over, new, n, b, at
  <1>12. Abstract!ServeWrite
    <2>1. /\ Progress(guest, host).state = "asked" /\ Progress(guest, host).kind = "write"
          /\ Progress(guest, host).at = at /\ Progress(guest, host).data = b
          /\ Len(Progress(guest, host).data) = n
      BY <1>11 DEF n, b
    <2>2. Progress(guest', host') = [Progress(guest, host) EXCEPT !.state = "served"]
      BY <1>1, <1>10, <1>11
    <2>3. Contents(host') =
            [s \in Sector |->
               IF s - Progress(guest, host).at + 1 \in 1..Len(Progress(guest, host).data)
                 THEN Progress(guest, host).data[s - Progress(guest, host).at + 1]
                 ELSE Contents(host)[s]]
      BY <1>9, <2>1
    <2> QED
      BY <2>1, <2>2, <2>3 DEF Abstract!ServeWrite
  <1> QED
    BY <1>10, <1>12 DEF Abstract!Next
(* A data command that finds nothing armed moves nothing.                  *)
LEMMA LostCommand ==
  ASSUME Pair(guest, host, intact), snap' = snap, host.armed = NoChan,
         \/ At("cmd8") /\ CardToHost(8)
         \/ At("cmd18") /\ CardToHost(18)
         \/ At("cmd25") /\ HostToCard(25)
  PROVE  Pair(guest', host', intact) /\ [Abstract!Next]_(Abstract!vars)
PROOF
  <1>1. /\ guest \in Guests /\ host \in Hosts /\ Coherent(guest, host, intact)
        /\ guest.job \in Transfers /\ guest.step = 4 /\ guest.job # "bustest"
    BY Where DEF Pair, Transfers
  <1> DEFINE g == IF At("cmd25") THEN guest ELSE [guest EXCEPT !.datport = 0]
             done == Completed(DataPosted(g))
  <1>2. ~(At("cmd25") /\ At("cmd8")) /\ ~(At("cmd25") /\ At("cmd18"))
    BY Where
  <1>3. guest' = Advance(done) /\ host' = host
    BY <1>2 DEF CardToHost, HostToCard, ReadWord
  <1>4. g \in Guests /\ g.job = guest.job /\ g.step = guest.step /\ g.at = guest.at
        /\ g.buffer = guest.buffer
    BY <1>1 DEF Guests, Word
  <1> HIDE DEF g
  <1>5. /\ done \in Guests /\ done.job = guest.job /\ done.step = 4
        /\ done.at = guest.at /\ done.buffer = guest.buffer
    BY <1>1, <1>4, Posted, PostedType
  <1> HIDE DEF done
  <1>6. /\ Len(Script[done.job]) = 7 /\ host.armed # DmaChan
        /\ done.step <= Len(Script[done.job]) /\ done.step < Len(Script[done.job])
    <2>1. Len(Script[done.job]) = 7
      BY <1>1, <1>5, ScriptShape
    <2> QED
      BY <1>5, <2>1 DEF NoChan, DmaChan
  <1>7. Pair(Advance(done), host, intact)
    <2>1. /\ Len(guest.buffer) > 0 /\ guest.at + Len(guest.buffer) <= Sectors
          /\ guest.job = "identify" => Len(guest.buffer) = 1
          /\ guest.job = "write" => \A i \in 1..Len(guest.buffer) : guest.buffer[i] \in Value
      BY <1>1 DEF Coherent
    <2>2. /\ Len(done.buffer) > 0 /\ done.at + Len(done.buffer) <= Sectors
          /\ done.job = "identify" => Len(done.buffer) = 1
          /\ done.job = "write" => \A i \in 1..Len(done.buffer) : done.buffer[i] \in Value
      BY <1>1, <1>5, <2>1
    <2>3. /\ done \in Guests /\ host \in Hosts /\ host.armed # DmaChan /\ done.step = 4
          /\ done.step <= Len(Script[done.job]) /\ done.job # "bustest"
      BY <1>1, <1>5, <1>6
    <2> QED
      BY <2>2, <2>3, Steps
  <1>8. /\ guest'.job = guest.job /\ guest'.step = 5 /\ guest'.at = guest.at
        /\ guest'.buffer = guest.buffer /\ guest' \in Guests
    <2>1. done \in Guests /\ done.step < Len(Script[done.job]) /\ done.step <= Len(Script[done.job])
      BY <1>5, <1>6
    <2>2. /\ Advance(done) \in Guests /\ Advance(done).job = done.job
          /\ Advance(done).step = done.step + 1
          /\ Advance(done).at = done.at /\ Advance(done).buffer = done.buffer
      BY <2>1, Advanced
    <2> QED
      BY <1>3, <1>5, <2>2
  <1>9. Progress(guest, host) = [state |-> "lost", kind |-> guest.job, at |-> guest.at,
                                 data |-> guest.buffer]
    <2>1. guest.step <= Len(Script[guest.job])
      BY <1>1 DEF Coherent
    <2> QED
      BY <1>1, <1>6, <2>1, ProgressIs
  <1>10. Progress(guest', host') = [state |-> "served", kind |-> guest.job, at |-> guest.at,
                                    data |-> guest.buffer]
    <2>1. guest'.step <= Len(Script[guest'.job]) /\ guest'.step > 4
      <3>1. Len(Script[guest'.job]) = 7
        BY <1>1, <1>8, ScriptShape
      <3> QED
        BY <1>8, <3>1
    <2>2. Progress(guest', host') = [state |-> "served", kind |-> guest'.job,
                                     at |-> guest'.at, data |-> guest'.buffer]
      BY <1>1, <1>8, <2>1, ProgressIs
    <2> QED
      BY <1>8, <2>2
  <1>11. Abstract!PassOver
    <2>1. Progress(guest', host') = [Progress(guest, host) EXCEPT !.state = "served"]
      BY <1>9, <1>10
    <2>2. Progress(guest, host).state = "lost" /\ Contents(host') = Contents(host)
      BY <1>3, <1>9
    <2> QED
      BY <2>1, <2>2 DEF Abstract!PassOver
  <1> QED
    BY <1>3, <1>7, <1>11 DEF Abstract!Next
-----------------------------------------------------------------------------
(* A request begins.                                                       *)
LEMMA Begins ==
  ASSUME Pair(guest, host, intact), NEW kind \in Transfers, NEW at \in Sector, NEW buffer,
         Start(kind, at, buffer), NEW n \in 1..MaxLen, at + n <= Sectors,
         kind = "identify" => n = 1,
         kind = "write" => buffer \in [1..n -> Value],
         kind # "write" => buffer = Blanks(n)
  PROVE  Pair(guest', host', intact') /\ [Abstract!Next]_(Abstract!vars)
PROOF
  <1>1. guest \in Guests /\ host \in Hosts /\ Coherent(guest, host, intact) /\ guest.job = "none"
        /\ guest.step <= Len(Script[guest.job]) /\ MaxLen \in Nat
    BY CardAssumption DEF Pair, Start, Coherent
  <1>2. buffer \in [1..n -> Value \cup {Stale}]
    BY DEF Blanks
  <1>3. buffer \in Seq(Value \cup {Stale}) /\ Len(buffer) = n
    BY <1>1, <1>2
  <1>4. buffer \in BufferType
    BY <1>1, <1>2 DEF BufferType
  <1>5. kind \in DOMAIN Script /\ 1 <= Len(Script[kind])
    <2>1. kind \in DOMAIN Script /\ Len(Script[kind]) = 7
      BY ScriptShape, Zenon
    <2> QED
      BY <2>1
  <1>6. /\ guest' \in Guests /\ guest'.job = kind /\ guest'.step = 1 /\ guest'.at = at
        /\ guest'.buffer = buffer
    <2> DEFINE a == [guest EXCEPT !.job = kind, !.step = 1]
               b == [a EXCEPT !.at = at, !.jobs = @ + 1]
    <2>1. guest.jobs + 1 \in 0..MaxJobs
      BY <1>1, CardAssumption DEF Start, Guests
    <2>2. a \in Guests /\ a.job = kind /\ a.step = 1 /\ a.jobs = guest.jobs
      <3> DEFINE k == [guest EXCEPT !.job = kind]
      <3>1. k \in Guests /\ k.job = kind /\ k.jobs = guest.jobs
        BY <1>1, <1>5 DEF Guests
      <3>2. a = [k EXCEPT !.step = 1]
        BY <1>1 DEF Guests
      <3> HIDE DEF k, a
      <3> QED
        BY <3>1, <3>2 DEF Guests
    <2>3. guest' = [b EXCEPT !.buffer = buffer]
      BY <1>1 DEF Start, Guests
    <2> HIDE DEF a
    <2>4. b \in Guests /\ b.job = kind /\ b.step = 1 /\ b.at = at
      BY <2>1, <2>2 DEF Guests
    <2> HIDE DEF b
    <2> QED
      BY <1>4, <2>3, <2>4 DEF Guests
  <1>7. host' = host /\ snap' = snap
    BY DEF Start
  <1>8. Pair(guest', host', intact')
    <2>1. host'.armed # DmaChan /\ kind # "bustest"
      BY <1>1, <1>7 DEF Coherent, Transfers
    <2>2. kind = "write" => \A i \in 1..Len(buffer) : buffer[i] \in Value
      BY <1>3
    <2>3. Coherent(guest', host', intact')
      BY <1>3, <1>5, <1>6, <2>1, <2>2 DEF Coherent
    <2> QED
      BY <1>1, <1>6, <1>7, <2>3 DEF Pair
  <1>9. Progress(guest, host).state = "idle"
    <2>1. "none" \notin Transfers
      BY DEF Transfers
    <2> QED
      BY <1>1, <2>1, ProgressIs
  <1>10. Progress(guest', host') = [state |-> "asked", kind |-> kind, at |-> at, data |-> buffer]
    BY <1>5, <1>6, ProgressIs
  <1>11. Abstract!Ask
    <2>1. Progress(guest', host') \in Abstract!Request
      BY <1>3, <1>10 DEF Abstract!Request, Transfers
    <2>2. Progress(guest', host').kind # "write" =>
            \A i \in 1..Len(Progress(guest', host').data) : Progress(guest', host').data[i] = Stale
      BY <1>3, <1>10 DEF Blanks
    <2> QED
      BY <1>7, <1>9, <2>1, <2>2 DEF Abstract!Ask
  <1> QED
    BY <1>8, <1>11 DEF Abstract!Next

LEMMA Requests ==
  ASSUME Pair(guest, host, intact),
         \/ Identify
         \/ \E at \in Sector, n \in 1..MaxLen : Read(at, n)
         \/ \E at \in Sector, data \in Buffers : Write(at, data)
  PROVE  Pair(guest', host', intact') /\ [Abstract!Next]_(Abstract!vars)
PROOF
  <1>1. {"identify", "read", "write"} \subseteq Transfers
    BY DEF Transfers
  <1>2. CASE Identify
    <2>1. 0 \in Sector /\ 1 \in 1..MaxLen /\ 0 + 1 <= Sectors
      BY CardAssumption DEF Sector
    <2> QED
      BY <1>1, <1>2, <2>1, Begins DEF Identify
  <1>3. ASSUME NEW at \in Sector, NEW n \in 1..MaxLen, Read(at, n)
        PROVE  Pair(guest', host', intact') /\ [Abstract!Next]_(Abstract!vars)
    BY <1>1, <1>3, Begins DEF Read
  <1>4. ASSUME NEW at \in Sector, NEW data \in Buffers, Write(at, data)
        PROVE  Pair(guest', host', intact') /\ [Abstract!Next]_(Abstract!vars)
    <2>1. PICK n \in 1..MaxLen : data \in [1..n -> Value]
      BY DEF Buffers
    <2>2. Len(data) = n
      BY <2>1, CardAssumption
    <2>3. at + n <= Sectors /\ Start("write", at, data)
      BY <1>4, <2>2 DEF Write
    <2> QED
      BY <1>1, <2>1, <2>3, Begins
  <1> QED
    BY <1>2, <1>3, <1>4

-----------------------------------------------------------------------------
(* Saving and resuming.                                                    *)
LEMMA Fresh ==
  FreshHost \in Hosts /\ FreshHost.armed # DmaChan
PROOF
  <1>1. FreshHost.overlay \in [{} -> Value] /\ {} \in SUBSET Sector
    BY DEF FreshHost
  <1>2. FreshHost.overlay \in Overlays
    BY <1>1 DEF Overlays
  <1> QED
    BY <1>2 DEF FreshHost, Hosts, Word, NoChan, DmaChan

LEMMA RungOf ==
  ASSUME Pair(guest, host, intact), intact \in BOOLEAN
  PROVE  /\ Pair(guest, FreshHost, intact /\ ~Holds)
         /\ \/ Progress(guest, FreshHost) = Progress(guest, host)
            \/ /\ Progress(guest, host).state = "asked"
               /\ Progress(guest, FreshHost) = [Progress(guest, host) EXCEPT !.state = "lost"]
PROOF
  <1>1. /\ guest \in Guests /\ host \in Hosts /\ Coherent(guest, host, intact)
        /\ guest.step \in 1..8 /\ guest.step <= Len(Script[guest.job])
    BY DEF Pair, Coherent, Guests
  <1>2. Pair(guest, FreshHost, intact /\ ~Holds)
    <2>1. ~(guest.job = "bustest" /\ intact /\ ~Holds /\ guest.step \in {5, 6})
      <3> SUFFICES ASSUME guest.job = "bustest", intact, guest.step \in {5, 6} PROVE Holds
        OBVIOUS
      <3>1. host.pattern # 0
        BY <1>1 DEF Coherent, BusWord
      <3>2. Len(Script[guest.job]) = 8 /\ Script[guest.job][6] = "cmd14"
        BY DEF Script
      <3>3. 6 \in guest.step..Len(Script[guest.job])
        BY <3>2
      <3> QED
        BY <3>1, <3>2, <3>3 DEF Holds
    <2> HIDE DEF Holds
    <2>2. Coherent(guest, FreshHost, intact /\ ~Holds)
      BY <1>1, <2>1, Fresh DEF Coherent
    <2> QED
      BY <1>1, <2>2, Fresh DEF Pair
  <1>3. CASE guest.job \notin Transfers \/ guest.step \notin {3, 4}
    <2>1. CASE guest.job \notin Transfers
      BY <1>1, <1>2, <2>1, ProgressIs
    <2>2. CASE guest.job \in Transfers /\ guest.step \in {1, 2}
      BY <1>1, <1>2, <2>2, ProgressIs
    <2>3. CASE guest.job \in Transfers /\ guest.step > 4
      BY <1>1, <1>2, <2>3, ProgressIs
    <2> QED
      BY <1>1, <1>3, <2>1, <2>2, <2>3
  <1>4. CASE guest.job \in Transfers /\ guest.step \in {3, 4}
    <2>1. Progress(guest, FreshHost) = [state |-> "lost", kind |-> guest.job, at |-> guest.at,
                                        data |-> guest.buffer]
      BY <1>1, <1>4, Fresh, ProgressIs
    <2>2. CASE host.armed = DmaChan
      <3>1. Progress(guest, host) = [state |-> "asked", kind |-> guest.job, at |-> guest.at,
                                     data |-> guest.buffer]
        BY <1>1, <1>4, <2>2, ProgressIs
      <3>2. Progress(guest, FreshHost) = [Progress(guest, host) EXCEPT !.state = "lost"]
        BY <2>1, <3>1
      <3>3. Progress(guest, host).state = "asked"
        BY <3>1
      <3> QED
        BY <1>2, <3>2, <3>3
    <2>3. CASE host.armed # DmaChan
      <3>1. Progress(guest, host) = [state |-> "lost", kind |-> guest.job, at |-> guest.at,
                                     data |-> guest.buffer]
        BY <1>1, <1>4, <2>3, ProgressIs
      <3> QED
        BY <1>2, <2>1, <3>1
    <2> QED
      BY <2>2, <2>3
  <1> QED
    BY <1>2, <1>3, <1>4

LEMMA Sessions ==
  ASSUME Inv, Save \/ Rung \/ Resume
  PROVE  Inv' /\ [Abstract!Next]_(Abstract!vars)
PROOF
  <1>1. CASE Save
    <2>1. /\ snap' = Snapshot("stateful") /\ UNCHANGED <<session, guest, host, intact>>
      BY <1>1 DEF Save
    <2>2. /\ snap'.kind = "stateful" /\ snap'.guest = guest /\ snap'.host = host
          /\ snap'.intact = intact
      <3>1. snap'.intact = (intact /\ ("stateful" = "stateful" \/ ~Holds))
        BY <2>1 DEF Snapshot
      <3> QED
        BY <2>1, <3>1 DEF Snapshot, Inv
    <2>3. Inv'
      BY <2>1, <2>2 DEF Inv, Pair
    <2>4. Abstract!Save
      BY <2>1, <2>2 DEF Abstract!Save
    <2> QED
      BY <2>3, <2>4 DEF Abstract!Next
  <1>2. CASE Rung
    <2>1. /\ snap' = Snapshot("bare") /\ UNCHANGED <<session, guest, host, intact>>
      BY <1>2 DEF Rung
    <2>2. /\ snap'.kind = "bare" /\ snap'.guest = guest /\ snap'.host = FreshHost
          /\ snap'.intact = (intact /\ ~Holds)
      BY <2>1 DEF Snapshot
    <2> HIDE DEF Holds
    <2>3. Pair(snap'.guest, snap'.host, snap'.intact)
      BY <2>2, RungOf DEF Inv
    <2>4. Inv'
      BY <2>1, <2>2, <2>3 DEF Inv, Pair
    <2>5. Abstract!SaveRung
      BY <2>1, <2>2, RungOf DEF Abstract!SaveRung, Inv
    <2> QED
      BY <2>4, <2>5 DEF Abstract!Next
  <1>3. CASE Resume
    <2>1. /\ snap.kind # "none" /\ session' = snap.kind /\ guest' = snap.guest /\ snap' = snap
          /\ host' = IF snap.kind = "stateful" THEN Restored(snap.host) ELSE FreshHost
          /\ intact' = snap.intact
      BY <1>3 DEF Resume
    <2>2. host' = snap.host
      <3>1. Restored(snap.host) = snap.host
        BY DEF Inv, Pair, Hosts, Restored
      <3> QED
        BY <2>1, <3>1 DEF Inv
    <2>3. Inv'
      BY <2>1, <2>2 DEF Inv, Pair
    <2>4. Abstract!Resume
      BY <2>1, <2>2 DEF Abstract!Resume
    <2> QED
      BY <2>3, <2>4 DEF Abstract!Next
  <1> QED
    BY <1>1, <1>2, <1>3

-----------------------------------------------------------------------------
LEMMA InitInv == Init => Inv /\ Abstract!Init
PROOF
  <1> SUFFICES ASSUME Init PROVE Inv /\ Abstract!Init
    OBVIOUS
  <1>1. /\ session = "cold" /\ guest = ResetGuest /\ host = FreshHost
        /\ snap.kind = "none" /\ snap.guest = ResetGuest /\ snap.host = FreshHost
        /\ intact = TRUE /\ snap.intact = TRUE
    BY DEF Init
  <1>2. /\ ResetGuest \in Guests /\ ResetGuest.job = "bustest" /\ ResetGuest.step = 1
        /\ ResetGuest.buffer = <<>>
    <2>1. "bustest" \in DOMAIN Script
      BY ScriptShape
    <2>2. <<>> \in BufferType
      <3>1. <<>> \in [1..0 -> Value \cup {Stale}] /\ 0 \in 0..MaxLen
        BY CardAssumption
      <3> QED
        BY <3>1 DEF BufferType
    <2>3. 0 \in Sector /\ 0 \in 0..MaxLen /\ 0 \in 0..MaxJobs /\ 0 \in Word
      BY CardAssumption DEF Sector, Word
    <2> QED
      BY <2>1, <2>2, <2>3 DEF ResetGuest, Guests
  <1>3. ResetGuest.job \notin Transfers /\ ResetGuest.step <= Len(Script[ResetGuest.job])
    BY <1>2, ScriptShape DEF Transfers
  <1>4. Pair(ResetGuest, FreshHost, TRUE)
    BY <1>2, <1>3, Fresh DEF Pair, Coherent
  <1>5. Inv
    BY <1>1, <1>2, <1>4, Fresh DEF Inv
  <1>6. Progress(ResetGuest, FreshHost) = [state |-> "idle", kind |-> "none", at |-> 0, data |-> <<>>]
    BY <1>2, <1>3, ProgressIs
  <1>7. Abstract!Init
    BY <1>1, <1>6 DEF Abstract!Init, Abstract!Nothing
  <1> QED
    BY <1>5, <1>7

LEMMA NextInv == Inv /\ [Next]_vars => Inv' /\ [Abstract!Next]_(Abstract!vars)
PROOF
  <1> SUFFICES ASSUME Inv, [Next]_vars PROVE Inv' /\ [Abstract!Next]_(Abstract!vars)
    OBVIOUS
  <1>1. Pair(guest, host, intact)
    BY DEF Inv
  <1>2. ASSUME Pair(guest', host', intact'), intact' \in BOOLEAN, UNCHANGED <<session, snap>>
        PROVE  Inv'
    BY <1>2 DEF Inv, Pair
  <1>3. CASE UNCHANGED vars
    <2>1. UNCHANGED <<session, guest, host, snap, intact>>
      BY <1>3 DEF vars
    <2>2. Inv'
      BY <2>1 DEF Inv, Pair
    <2> QED
      BY <2>1, <2>2, Stutters
  <1>4. ASSUME NEW chan \in Foreign, ArmOther(chan) PROVE UNCHANGED vars
    BY <1>4, CardAssumption DEF ArmOther, OnSerq, vars
  <1>5. CASE Xfertyp
    <2>1. UNCHANGED <<session, snap>> /\ intact' \in BOOLEAN /\ (intact' => intact)
      BY <1>5 DEF Xfertyp, Inv
    <2>2. \/ At("cmd8") /\ CardToHost(8)
          \/ At("cmd14") /\ CardToHost(14)
          \/ At("cmd18") /\ CardToHost(18)
          \/ At("cmd19") /\ HostToCard(19)
          \/ At("cmd25") /\ HostToCard(25)
      BY <1>5 DEF Xfertyp
    <2>3. Pair(guest', host', intact) /\ [Abstract!Next]_(Abstract!vars)
      BY <1>1, <2>1, <2>2, BusCommands, ReadCommand, IdentifyCommand, WriteCommand, LostCommand
    <2>4. Pair(guest', host', intact')
      BY <2>1, <2>3 DEF Pair, Coherent
    <2> QED
      BY <1>2, <2>1, <2>3, <2>4
  <1>6. CASE Program \/ Arm \/ Issue \/ PendCmd \/ PendData \/ PendDma \/ Poll \/ Put \/ Get
    <2>1. UNCHANGED <<session, snap, intact>>
      BY <1>6 DEF Program, Arm, Issue, PendCmd, PendData, PendDma, Poll, Put, Get
    <2>2. Pair(guest', host', intact) /\ [Abstract!Next]_(Abstract!vars)
      BY <1>1, <1>6, DriverSteps
    <2>3. Pair(guest', host', intact')
      BY <2>1, <2>2
    <2> QED
      BY <1>2, <2>1, <2>2, <2>3 DEF Inv
  <1>7. CASE \/ Identify
             \/ \E at \in Sector, n \in 1..MaxLen : Read(at, n)
             \/ \E at \in Sector, data \in Buffers : Write(at, data)
    <2>1. UNCHANGED <<session, snap>> /\ intact' = TRUE
      BY <1>7 DEF Identify, Read, Write, Start
    <2> QED
      BY <1>1, <1>2, <1>7, <2>1, Requests
  <1>8. CASE Save \/ Rung \/ Resume
    BY <1>8, Sessions
  <1> QED
    BY <1>3, <1>4, <1>5, <1>6, <1>7, <1>8 DEF Next, Driver

(* The driver, the controller, the card and the snapshot keep the shape    *)
(* the code gives them.                                                    *)
THEOREM TypeCorrect == Spec => []TypeOK
PROOF
  <1>1. Inv => TypeOK
    BY DEF Inv, Pair, TypeOK
  <1> QED
    BY InitInv, NextInv, <1>1, PTL DEF Spec

(* CMD14 hands back the inverse of the word that CMD19 carried, in any     *)
(* session but one on a rung that was saved between the two.               *)
THEOREM BusTest == Spec => []BusTestPasses
PROOF
  <1>1. Inv => BusTestPasses
    <2> SUFFICES ASSUME Inv, At("get"), intact PROVE guest.datport = Invert(BusWord)
      BY DEF BusTestPasses
    <2>1. Pair(guest, host, intact) /\ Coherent(guest, host, intact)
      BY DEF Inv, Pair
    <2>2. guest.job = "bustest" /\ guest.step \in {7, 8}
      BY <2>1, Where
    <2> QED
      BY <2>1, <2>2 DEF Coherent
  <1> QED
    BY InitInv, NextInv, <1>1, PTL DEF Spec

(* The controller with its driver, and any interference, saving and        *)
(* resuming, implements a card that returns what was last written to it    *)
(* since the boot or the rung that the session goes back to.               *)
THEOREM ImplementsDevice == Spec => Device
  BY InitInv, NextInv, PTL DEF Spec, Device, Abstract!Spec
=============================================================================
