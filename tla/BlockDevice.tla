---------------------------- MODULE BlockDevice -----------------------------
(* What emu/esdhc.py promises the firmware's storage driver: a card that   *)
(* serves one request at a time, that returns what was last written, and   *)
(* that a resumed session finds as it was when the session was saved, or   *)
(* as delivered if only the guest was saved, as in a ladder's rungs.       *)
EXTENDS Integers, Sequences

CONSTANTS
  Sector,   \* sectors of the card, 0..n
  Value,    \* what a sector can hold
  Stale,    \* what a buffer holds before a read has filled it
  Blank,    \* [Sector -> Value]: the card's contents as delivered
  ExtCsd    \* the EXT_CSD register

VARIABLES
  disk,     \* the contents of the card
  op,       \* the driver's request: state, kind, first sector and data
  saved     \* disk and op when the session was last saved, or neither

vars == <<disk, op, saved>>

Nothing == [disk |-> Blank, op |-> [state |-> "idle", kind |-> "none", at |-> 0, data |-> <<>>]]

(* The driver asks; a read comes with a buffer to fill.                    *)
Request ==
  [state : {"asked"}, kind : {"read", "write", "identify"}, at : Sector,
   data : Seq(Value \cup {Stale})]

Ask ==
  /\ op.state = "idle"
  /\ op' \in Request
  /\ op'.kind # "write" => \A i \in 1..Len(op'.data) : op'.data[i] = Stale
  /\ UNCHANGED <<disk, saved>>

(* The card serves the request in one step.                                *)
ServeRead ==
  /\ op.state = "asked" /\ op.kind = "read"
  /\ op' = [op EXCEPT !.state = "served",
                      !.data = [i \in 1..Len(op.data) |-> disk[op.at + i - 1]]]
  /\ UNCHANGED <<disk, saved>>

ServeWrite ==
  /\ op.state = "asked" /\ op.kind = "write"
  /\ op' = [op EXCEPT !.state = "served"]
  /\ disk' = [b \in Sector |-> IF b - op.at + 1 \in 1..Len(op.data)
                                 THEN op.data[b - op.at + 1] ELSE disk[b]]
  /\ UNCHANGED saved

ServeIdentify ==
  /\ op.state = "asked" /\ op.kind = "identify"
  /\ op' = [op EXCEPT !.state = "served", !.data = <<ExtCsd>>]
  /\ UNCHANGED <<disk, saved>>

(* A request that was lost with a rung is passed over.                     *)
PassOver ==
  /\ op.state = "lost"
  /\ op' = [op EXCEPT !.state = "served"]
  /\ UNCHANGED <<disk, saved>>

(* Only a served request returns to its caller.                            *)
Answer ==
  /\ op.state = "served"
  /\ op' = [state |-> "idle", kind |-> "none", at |-> 0, data |-> op.data]
  /\ UNCHANGED <<disk, saved>>

(* The session is saved; a session is resumed from there, any number of    *)
(* times.                                                                  *)
Save ==
  /\ saved' = [disk |-> disk, op |-> op]
  /\ UNCHANGED <<disk, op>>

(* A rung has the driver's side only.  A request under way may be lost.    *)
SaveRung ==
  /\ \/ saved' = [disk |-> Blank, op |-> op]
     \/ op.state = "asked" /\ saved' = [disk |-> Blank, op |-> [op EXCEPT !.state = "lost"]]
  /\ UNCHANGED <<disk, op>>

Resume ==
  /\ disk' = saved.disk /\ op' = saved.op
  /\ UNCHANGED saved

Init == disk = Blank /\ op = Nothing.op /\ saved = Nothing

Next ==
  \/ Ask \/ ServeRead \/ ServeWrite \/ ServeIdentify \/ PassOver \/ Answer
  \/ Save \/ SaveRung \/ Resume

Spec == Init /\ [][Next]_vars
=============================================================================
