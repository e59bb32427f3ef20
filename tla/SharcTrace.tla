----------------------------- MODULE SharcTrace -----------------------------
(***************************************************************************)
(* The path search of tools/sharc_trace.py (trace): a first-in first-out   *)
(* list of distinct live paths, one taken and executed at a time, each     *)
(* path that follows filed as stopped, merged with a live path equal to it *)
(* in all but its history, refused for lack of room, or appended.          *)
(***************************************************************************)
EXTENDS SharcPath

CONSTANT
    Traces      \* the traces asked for: a start path and the limits given

ASSUME LimitsAssumption ==
    \A t \in Traces : t.limits \in [steps : Nat, states : Nat \ {0}, breaks : SUBSET Nat]

VARIABLES
    active,     \* the live paths, in order
    done,       \* the stopped paths, in order
    popped,     \* every path that was executed (history)
    limits      \* the limits of this trace

vars == <<active, done, popped, limits>>

Init ==
    /\ \E t \in Traces : active = <<t.start>> /\ limits = t.limits
    /\ done = <<>>
    /\ popped = {}

Fetch(s) ==
    IF s.pc \in DOMAIN s.run.prog THEN s.run.prog[s.pc] ELSE [op |-> "undecoded"]

(* The lists after one path more. *)
Lists(live, stopped) == [active |-> live, done |-> stopped]

Twins(live, s) == {j \in DOMAIN live : DedupeKey(live[j]) = DedupeKey(s)}

FullBug(q) == Len(q.active) >= limits.states
Full(q) == Len(q.active) + Len(q.done) >= limits.states

File(q, s) ==
    LET twins == Twins(q.active, s)
        fewer(t) == IF s.steps < t.steps THEN s ELSE t
        merged == [j \in DOMAIN q.active |->
                     IF j \in twins THEN fewer(q.active[j]) ELSE q.active[j]]
    IN CASE s.stopped # Running -> Lists(q.active, Append(q.done, s))
         [] s.stopped = Running /\ twins # {} -> Lists(merged, q.done)
         [] s.stopped = Running /\ twins = {} ->
                IF Full(q) THEN Lists(q.active, Append(q.done, Stop(s, "max-states")))
                ELSE Lists(Append(q.active, s), q.done)

FileAll(q, paths) ==
    IF Len(paths) = 1 THEN File(q, paths[1]) ELSE File(File(q, paths[1]), paths[2])

(* A path at a breakpoint or out of steps is stopped before it executes.   *)
Halted(s) ==
    IF s.pc \in limits.breaks THEN "breakpoint"
    ELSE IF s.steps >= limits.steps THEN "max-steps" ELSE Running

Halt ==
    /\ active # <<>>
    /\ Halted(Head(active)) # Running
    /\ done' = Append(done, Stop(Head(active), Halted(Head(active))))
    /\ active' = Tail(active)
    /\ UNCHANGED <<popped, limits>>

Run ==
    /\ active # <<>>
    /\ Halted(Head(active)) = Running
    /\ LET s == Head(active)
           after == FileAll(Lists(Tail(active), done), Execute(s, Fetch(s)))
       IN /\ active' = after.active
          /\ done' = after.done
          /\ popped' = popped \cup {s}
    /\ UNCHANGED limits

Next == Halt \/ Run

Spec == Init /\ [][Next]_vars /\ WF_vars(Next)

-----------------------------------------------------------------------------
(* The states a trace returns never exceed twice --max-states and one: a   *)
(* full list still takes both paths of every fork, as stopped ones.        *)
Bounded == Len(done) + 2 * Len(active) <= 2 * limits.states + 1

(* A trace ends: the list of live paths empties. *)
Terminates == <>(active = <<>>)
=============================================================================
