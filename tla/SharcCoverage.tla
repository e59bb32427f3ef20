---------------------------- MODULE SharcCoverage ----------------------------
(***************************************************************************)
(* What a trace promises: whatever the values that were not known at its   *)
(* start, the machine's run is one of the paths the trace followed, state  *)
(* by state, until a path reports that it stopped.                         *)
(***************************************************************************)
EXTENDS SharcTrace, SharcMachine, FiniteSetsExt

CONSTANT EntryNames     \* names that stand for a value at the start

(* The word a value stands for, given a word for each name. *)
NamesIn(v) == {n \in Syms : v.t[n] # 0}
Eval(v, e) == (v.c + MapThenSumSet(LAMBDA n : v.t[n] * e[n], NamesIn(v))) % Modulus

Stands(v, n, e) == IsUnknown(v) \/ Eval(v, e) = n
FlagStands(known, actual) == \A f \in Flags : known[f] \in {Open, actual[f]}

(* The registers that show the PC stack are compared outside delay slots   *)
(* only: the machine pushes a return when it calls, the tracer when it     *)
(* arrives.                                                                *)
StackRegisters == {"PCSTK", "PCSTKP", "STKYX"}

SameTransfer(s, m) ==
    LET p == s.pending
    IN IF m.due.slots = 0 THEN p.slots = 0 \/ (p.to = NoTarget /\ ~p.ret)
       ELSE /\ p.slots = m.due.slots
            /\ p.ret = (m.due.act \in {"return", "resume"})
            /\ ~p.ret => (m.due.act = "opaque" \/ p.to = m.due.to)

(* Path s speaks of machine m when the names minted on the way can be      *)
(* given words that make every value it knows true of m.                   *)
Represents(s, m) ==
    LET settled == s.pending.slots = 0
        compared == IF settled THEN Registers ELSE Registers \ StackRegisters
        minted == UNION {NamesIn(s.reg[r]) : r \in Registers} \ EntryNames
    IN /\ s.pc = m.pc
       /\ s.loops = m.loops
       /\ settled => s.calls = m.calls
       /\ SameTransfer(s, m)
       /\ FlagStands(s.astat, m.astat)
       /\ \A a \in DOMAIN s.overlay : m.mem[Physical(a)] = s.overlay[a]
       /\ \A a \in DOMAIN s.mmrs : m.mem[a] = s.mmrs[a].c
       /\ Len(s.sts) = Len(m.sts)
       /\ \A j \in DOMAIN s.sts : /\ FlagStands(s.sts[j].astat, m.sts[j].astat)
                                  /\ Stands(s.sts[j].mode1, m.sts[j].mode1, m.env)
       /\ \E names \in [minted -> Words] :
             \A r \in compared : Stands(s.reg[r], m.reg[r], names @@ m.env)

(* The machines a start path may stand for: every word for the registers   *)
(* the run leaves free, all zeros or all ones for the rest.                *)
MachinesOf(s) ==
    LET free == {r \in s.run.free : IsUnknown(s.reg[r])}
        Filled(b) == IF b = 1 THEN Modulus - 1 ELSE 0
        Machine(e, words, b) ==
          [run |-> s.run, pc |-> s.pc, due |-> NotDue, loops |-> <<>>, calls |-> <<>>,
           reg |-> [r \in Registers |->
                      CASE ~IsUnknown(s.reg[r]) -> Eval(s.reg[r], e)
                        [] r \in free -> words[r]
                        [] OTHER -> Filled(b)],
           astat |-> [f \in Flags |-> IF s.astat[f] = Open THEN b ELSE s.astat[f]],
           mem |-> [a \in Words |-> IF a \in DOMAIN Image THEN Image[a] ELSE Filled(b)],
           sts |-> <<>>, env |-> e, other |-> b = 1]
    IN {StackShown(Machine(e, words, b)) :
          e \in [s.run.names -> Words], words \in [free -> Words], b \in {0, 1}}

-----------------------------------------------------------------------------
Reported == {done[j] : j \in DOMAIN done}

(* The paths that speak of m and took no more steps than it did. *)
Speaking(m, n) ==
    {s \in popped \cup {s \in Reported : s.stopped \in {"max-states", "max-steps", "breakpoint"}} :
       s.steps <= n /\ Represents(s, m)}

(* A run is followed until a path that speaks of it stops, or stores what  *)
(* it cannot resolve.                                                      *)
Ends(s) ==
    \/ s.stopped # Running
    \/ \E t \in Range(Execute(s, Fetch(s))) : t.stopped # Running \/ (t.lost /\ ~s.lost)

Followed(speaking) == speaking # {} /\ \A s \in speaking : ~Ends(s)

(* The machines of a run with the step each is at, up to step n.           *)
Onwards(before, n) ==
    before \cup
      {<<n, m>> : m \in UNION {Steps(x[2], Fetch(x[2])) :
                     x \in {y \in before : y[1] = n - 1 /\ Followed(Speaking(y[2], n - 1))}}}

Runs(start) ==
    LET upTo[n \in 0 .. limits.steps] ==
          IF n = 0 THEN {<<0, m>> : m \in MachinesOf(start)} ELSE Onwards(upTo[n - 1], n)
    IN upTo[limits.steps]

(* When a trace has ended, every machine it may have been about is spoken  *)
(* of at each of its steps, by a path that used no more of --max-steps     *)
(* than the machine took, up to a step at which a path says it stopped.    *)
Covered ==
    active = <<>> =>
      \A start \in {s \in popped : s.steps = 0} :
        \A run \in Runs(start) : Speaking(run[2], run[1]) # {}
=============================================================================
