---------------------------- MODULE MCSharcTrace ----------------------------
(***************************************************************************)
(* Programs and seeds for the SHARC tracer: each computation over pairs of *)
(* small operands, and programs of a few instructions around conditions,   *)
(* loops, calls, returns, the stacks, memory and MODIFY.                   *)
(***************************************************************************)
EXTENDS SharcCoverage

MCCirc(pc) == IF pc = 1 THEN "circ_4_1" ELSE "circ_4_2"
MCSyms == {"I6e", "circ_4_1", "circ_4_2"}
MCImage == 2 :> 5 @@ 4 :> 3

(* Instructions. *)
No == [op |-> "none"]
K(op, n, x, y) == [op |-> op, n |-> n, x |-> x, y |-> y, m |-> "R2"]
KI(op, n, x, i, length) == [op |-> op, n |-> n, x |-> x, y |-> x, i |-> i, length |-> length]
Sum01 == K("add", "R2", "R0", "R1")
Comp01 == [op |-> "compute", cond |-> "TRUE", k |-> K("comp", "R2", "R0", "R1")]

C(cond, k) == [op |-> "compute", cond |-> cond, k |-> k]
U(r, n) == [op |-> "ureg", r |-> r, n |-> n]
Branch(op, cond, to, delayed, call) ==
    [op |-> op, cond |-> cond, to |-> to, delayed |-> delayed, call |-> call,
     k |-> No, else |-> FALSE]
Jump(cond, to, delayed) == Branch("jump", cond, to, delayed, FALSE)
Call(cond, to, delayed) == Branch("jump", cond, to, delayed, TRUE)
Ret(cond, delayed) == Branch("return", cond, 0, delayed, FALSE)
Besides(i, k, else) == [i EXCEPT !.k = k, !.else = else]
Loop(to, n) == [op |-> "loop", to |-> to, n |-> n]
LoopBy(to, r) == [op |-> "loop ureg", to |-> to, r |-> r]
Stack(does) == [op |-> "stack", does |-> does]
Mem(op, cond, store, post, byM, n, k) ==
    [op |-> op, cond |-> cond, store |-> store, r |-> "R2", post |-> post, byM |-> byM,
     n |-> n, k |-> k]
Direct(store, r, n) == [op |-> "direct", store |-> store, r |-> r, n |-> n]
Copy(cond, r, from, k) == [op |-> "move", cond |-> cond, r |-> r, from |-> from, k |-> k]
BitTst(r, n, xor) == [op |-> "bit test", r |-> r, n |-> n, xor |-> xor]
BitOp(how, r, n) == [op |-> "bit op", how |-> how, r |-> r, n |-> n]
Modify(k) == [op |-> "modify", k |-> k]
ModifyIf == [op |-> "modify if"]
ModifyWide(n) == [op |-> "modify wide", n |-> n]
Nop == [op |-> "nop"]
Idiom == [op |-> "return idiom"]
RFrame == [op |-> "rframe"]
Bad == [op |-> "undecoded"]

(* Traces: a program, what its registers are seeded with (the rest unknown,*)
(* those in `free` any word of the machine), and the limits.               *)
OpenFlags == [f \in Flags |-> Open]
KnownFlags(b) == [f \in Flags |-> b]

Wide == [steps |-> 12, states |-> 8, breaks |-> {}]
Short == [steps |-> 3, states |-> 3, breaks |-> {}]

Options == [follow |-> TRUE, continue |-> FALSE, depth |-> 2, nw32 |-> TRUE,
            convention |-> FALSE]

NamesOf(seeds) ==
    IF \E r \in DOMAIN seeds : "I6e" \in NamesIn(seeds[r]) THEN {"I6e"} ELSE {}

TraceOf(q, options, free, seeds, flags, lim) ==
    [start |-> StartPath(options @@ [prog |-> [a \in 0 .. Len(q) - 1 |-> q[a + 1]],
                                     free |-> free, names |-> NamesOf(seeds)],
                         seeds @@ ("MODE1" :> Const(0)), flags),
     limits |-> lim]

T(q, free, seeds) == TraceOf(q, Options, free, seeds, OpenFlags, Wide)

Named(n, k) == Affine(n, "I6e" :> k @@ Plain)
Two == "R1" :> Const(2)

-----------------------------------------------------------------------------
(* One computation each. *)
Operands == {Const(n) : n \in {0, 1, 4, 7}} \cup {Named(1, 1), Named(0, 2), Unknown}
Seconds == {Const(n) : n \in {0, 1, 4, 6}} \cup {Named(1, 1), Unknown}

Computations ==
    {K(op, "R2", "R0", "R1") : op \in (AluOps \ {"dual"}) \cup MultiplierOps \cup ShifterOps}
    \cup {K("dual", "R0", "R0", "R1")}
    \cup {K("subtract", "R2", "R0", "R0"), K("dual", "R1", "R0", "R0")}
    \cup {KI(op, "R2", "R0", i, 1) : op \in ImmediateOps, i \in {0, 1, 2, 3}}

ReadsFlags == {"add-with-carry", "subtract-with-borrow", "comp", "compu"}

ComputationTraces ==
    UNION {{TraceOf(<<C("TRUE", k), Bad>>, Options, {"R0", "R1"},
                    "R0" :> x @@ "R1" :> y @@ "MRF" :> Const(3) @@ "R2" :> Const(6), fl, Short) :
              x \in Operands, y \in IF k.op \in ImmediateOps \/ k.x = k.y THEN {Const(0)} ELSE Seconds,
              fl \in IF k.op \in ReadsFlags THEN {OpenFlags, KnownFlags(0), KnownFlags(1)}
                     ELSE {OpenFlags}} : k \in Computations}

-----------------------------------------------------------------------------
(* Conditions, decided and not, and what hangs on them. *)
Conditions == {"TRUE", "EQ", "NE", "LT", "LE", "GE", "GT", "LCE"} \cup DOMAIN SimpleConds
                  \cup DOMAIN NotConds
SomeConditions == {"EQ", "LT", "TRUE"}

ConditionTraces ==
    UNION {
        {T(<<Comp01, C(c, Sum01), Jump(c, 4, FALSE), U("R2", 1), Bad>>, {"R0"}, Two) :
            c \in Conditions},
        {T(<<C("TRUE", Sum01), Jump(c, 3, FALSE), U("R2", 1), Bad>>, {"R0", "R1"},
           "MODE1" :> mode) :
            c \in {"EQ", "NE", "LT", "GE", "GT", "LE"}, mode \in {Const(0), Const(1), Const(2), Unknown}},
        {T(<<C("TRUE", Sum01), Jump(c, 3, FALSE), U("R2", 1), Bad>>, {"R1"},
           "R0" :> Const(3) @@ "R1" :> y @@ "MODE1" :> mode) :
            c \in {"EQ", "NE", "LT", "GE"}, y \in {Const(2), Const(5)},
            mode \in {Const(0), Const(1), Const(2), Unknown}},
        {T(<<Comp01, Jump(c, 5, TRUE), C("TRUE", Sum01), U("R0", 1), U("R2", 3), Bad>>,
           {"R0"}, Two) : c \in SomeConditions},
        {T(<<Comp01, Besides(Branch("jump compute", c, 5, d, FALSE), Sum01, else),
             C("TRUE", Sum01), U("R0", 1), U("R2", 3), Bad>>, {"R0"}, Two) :
            c \in SomeConditions, d \in BOOLEAN, else \in BOOLEAN},
        {T(<<Jump("EQ", 3, FALSE), U("R2", 1), Jump("TRUE", 4, FALSE), Jump("TRUE", 1, FALSE),
             Bad>>, {}, <<>>)},
        {T(<<Jump("TRUE", 0, FALSE)>>, {}, <<>>)},
        {TraceOf(<<Jump("EQ", 2, FALSE), Bad, Jump("AC", 0, FALSE), Bad>>, Options, {}, <<>>,
                 OpenFlags, [Wide EXCEPT !.states = n]) : n \in {1, 2, 5}},
        {T(<<Jump("TRUE", 5, TRUE), Jump("TRUE", 4, FALSE), Nop, Nop, Bad, Bad>>, {}, <<>>)},
        {T(<<Comp01, Copy(c, "R2", "R0", K("increment", "R0", "R0", "R0")), Bad>>, {"R0"}, Two) :
            c \in SomeConditions},
        {T(<<BitTst("R0", n, x), Jump("TF", 3, FALSE), BitOp(how, "R0", n), Bad>>, {"R0"},
           "R0" :> v) : n \in {2, 5}, x \in BOOLEAN, how \in {"set", "clear", "toggle"},
                        v \in {Unknown, Const(7), Const(4)}},
        {TraceOf(<<Jump("EQ", 2, FALSE), U("R2", 1), U("R0", 1), Bad>>, Options, {}, <<>>,
                 OpenFlags, lim) :
            lim \in {[steps |-> n, states |-> m, breaks |-> b] :
                       n \in {2, 4}, m \in {1, 2}, b \in {{}, {2}}}}}

-----------------------------------------------------------------------------
(* Loops, calls, returns and the stacks. *)
Counted == {Loop(3, 1), Loop(3, 2), LoopBy(3, "R0")}

LoopTraces ==
    UNION {
        {T(<<l, C("TRUE", K("increment", "R2", "R2", "R2")), Copy("TRUE", "R1", "CURLCNTR", No),
             Copy("TRUE", "R1", "STKYX", No), Bad>>, {"R0"},
           "R2" :> Const(1) @@ "R0" :> v @@ "STKYX" :> Const(7)) :
            l \in Counted, v \in {Const(0), Const(2), Unknown}},
        {T(<<Loop(4, 2), Loop(3, n), Nop, C("TRUE", K("increment", "R2", "R2", "R2")),
             Copy("TRUE", "R1", "CURLCNTR", No), Bad>>, {}, "R2" :> Const(1)) : n \in {1, 2}},
        {T(<<Loop(2, 2), Comp01, Jump("EQ", 4, FALSE), Bad, Bad>>, {"R0"}, Two)},
        {T(<<Loop(4, 2), Nop, Stack(does), Nop, Nop, Bad>>, {}, "STKYX" :> Const(7)) :
            does \in {{"pop pcstk"}, {"pop loop"}, {"pop loop", "pop pcstk"}}},
        {T(<<Loop(2, 2), Ret("TRUE", d), Nop, Nop, Bad>>, {}, <<>>) : d \in BOOLEAN}}

CallTraces ==
    UNION {
        {T(<<Call(c, 5, d), U("R1", 1), Nop, Copy("TRUE", "R0", "PCSTK", No), Bad,
             Copy("TRUE", "R2", "PCSTKP", No), Ret(r, e), C("TRUE", Sum01), Nop, Bad>>,
           {}, "R0" :> Const(1) @@ Two) :
            c \in {"TRUE", "EQ"}, d \in BOOLEAN, r \in {"TRUE", "EQ"}, e \in BOOLEAN},
        {T(<<Comp01, Call("TRUE", 4, FALSE), Nop, Bad,
             Besides(Ret(c, e), Sum01, else), Nop, Nop, Bad>>, {"R0"}, Two) :
            c \in SomeConditions, e \in BOOLEAN, else \in BOOLEAN},
        {T(<<Call("TRUE", 1, FALSE), Call("TRUE", 1, FALSE), Bad>>, {}, <<>>)},
        {T(<<Loop(2, 2), Call("TRUE", 4, FALSE), Nop, Bad, Nop, Ret("TRUE", FALSE)>>, {}, <<>>)},
        {TraceOf(<<U("M4", 1), Call(c, 4, d), U("R0", 3), Nop, IF deep THEN Nop ELSE Bad,
                   Ret("TRUE", FALSE)>>,
                 [Options EXCEPT !.follow = f, !.continue = g], {}, "MRF" :> Const(1) @@ Two,
                 OpenFlags, Wide) :
            c \in {"TRUE", "EQ"}, d \in BOOLEAN, deep \in BOOLEAN, f \in BOOLEAN, g \in BOOLEAN},
        {T(<<Call("TRUE", 5, TRUE), U("I12", n), U("M14", 1), Nop, Bad, Idiom, Nop, Nop>>,
           {}, <<>>) : n \in {2, 4}},
        {TraceOf(<<Call("TRUE", 4, FALSE), U("R1", 1), Bad, Bad, Idiom, Nop, Nop>>,
                 [Options EXCEPT !.convention = TRUE], {"I12"},
                 "M14" :> m, OpenFlags, Wide) : m \in {Const(2), Unknown}},
        {T(<<Idiom, Nop, Nop>>, {}, <<>>), T(<<RFrame, Bad>>, {}, <<>>)},
        {T(<<Branch("cjump", "TRUE", 4, TRUE, TRUE), Nop, Copy("TRUE", "R1", "I6", No), Bad,
             Ret("TRUE", TRUE), RFrame, Nop>>, {}, "I6" :> x @@ "I7" :> y) :
            x \in {Const(4), Named(0, 1), Unknown}, y \in {Const(4), Const(0), Named(1, 1)}},
        {T(<<Branch("indirect", c, 0, d, FALSE), U("R2", 1), Nop, U("R2", 2), Bad>>, {},
           "I12" :> x @@ "M14" :> Const(1)) :
            c \in {"TRUE", "EQ"}, d \in BOOLEAN, x \in {Const(2), Unknown}}}

StackTraces ==
    UNION {
        {T(<<Stack({"push sts"}), BitOp("set", "MODE1", 2), C("TRUE", Sum01), Stack({"pop sts"}),
             Jump("EQ", 6, FALSE), Nop, Bad>>, {}, "MODE1" :> m @@ "MMASK" :> k @@
           "STKYX" :> Const(7) @@ "R0" :> Const(6) @@ Two) :
            m \in {Const(0), Const(3), Unknown}, k \in {Const(1), Unknown}},
        {T(<<Stack(does), Copy("TRUE", "R1", "STKYX", No), Bad>>, {}, "STKYX" :> v) :
            does \in {{"pop sts"}, {"pop pcstk"}, {"pop loop"}, {"push sts", "pop sts"}},
            v \in {Const(7), Unknown}}}

-----------------------------------------------------------------------------
(* Memory and MODIFY. *)
MemoryTraces ==
    UNION {
        {T(<<Direct(TRUE, "R0", a), Direct(FALSE, "R2", b), Bad>>, {"R0"}, "R0" :> v) :
            a \in Words, b \in {0, 2, 3, 5, 6}, v \in {Const(6), Unknown}},
        {TraceOf(<<Direct(TRUE, "R0", a), Direct(FALSE, "R2", a), Bad>>,
                 [Options EXCEPT !.nw32 = FALSE], {}, "R0" :> Const(6), OpenFlags, Wide) :
            a \in {2, 5, 6}},
        {T(<<Comp01, Mem(op, c, st, post, byM, 2, k), Copy("TRUE", "R0", "I4", No), Bad>>, {"R0"},
           "I4" :> x @@ "M4" :> Const(1) @@ "R2" :> Const(3) @@ Two) :
            op \in {"memory", "memory 3b"}, c \in {"TRUE", "EQ"}, st \in BOOLEAN,
            post \in BOOLEAN, byM \in BOOLEAN, x \in {Const(2), Named(0, 1)},
            k \in {No, K("increment", "R0", "R2", "R2")}},
        {T(<<Modify(K("increment", "R0", "R0", "R0")), ModifyIf, Bad>>, {"R0"},
           "I4" :> x @@ "M4" :> m @@ "L4" :> l @@ "MODE1" :> mode) :
            x \in {Const(2), Named(0, 1)}, m \in {Const(1), Unknown}, l \in {Const(0), Unknown},
            mode \in {Const(0), Unknown}},
        {TraceOf(<<ModifyIf, Bad>>, Options, {},
                 "I4" :> Const(2) @@ "M4" :> Const(1) @@ "L4" :> Const(0) @@ "MODE1" :> mode,
                 [OpenFlags EXCEPT !["SV"] = sv], Wide) :
            mode \in {Const(0), Const(1)}, sv \in {0, 1, Open}},
        {T(<<Nop, ModifyWide(d), ModifyWide(e), C("TRUE", K("subtract", "R2", "R2", "R2")), Bad>>,
           {}, "I4" :> Const(x) @@ "B4" :> Const(4) @@ "L4" :> Const(l)) :
            x \in {4, 5}, d \in {1, -1, 2}, e \in {1, -2}, l \in {0, 2, 3}},
        {T(<<Nop, ModifyWide(d), ModifyWide(1), Bad>>, {"I4"},
           "I4" :> v @@ "B4" :> b @@ "L4" :> l) :
            v \in {Symbol("I6e"), Named(1, 1), Named(2, 2), Unknown, Const(5)}, d \in {1, -1},
            b \in {Const(4), Unknown}, l \in {Const(0), Const(2), Unknown}}}

MCTraces == ComputationTraces \cup ConditionTraces \cup LoopTraces \cup CallTraces
                \cup StackTraces \cup MemoryTraces
=============================================================================
