---------------------------- MODULE SharcMachine ----------------------------
(***************************************************************************)
(* What the SHARC+ core does, as the manuals that tools/sharc_trace.py     *)
(* cites have it: the concrete machine its traces are about.  Every        *)
(* register holds a word and every flag is 0 or 1.  Results are given by   *)
(* their arithmetic, not by the tracer's adder, and a call pushes its      *)
(* return at once rather than after its slots.  A multiplier flag and what *)
(* an opaque callee returns are any value of a few.                        *)
(*                                                                         *)
(* run.convention: the runs in question are those of compiled code, where  *)
(* I12 and M14 hold the return when a callee jumps through them.           *)
(***************************************************************************)
EXTENDS SharcPath

InRange(n) == n >= -Top /\ n < Top

(* x + sign * y + c, with the flags of the exact result. *)
Sum(x, y, sign, c) ==
    LET exact == x + sign * y + c
        z == exact % Modulus
    IN [z |-> z,
        fl |-> [AZ |-> Flag(z = 0), AN |-> Flag(z >= Top), AF |-> 0,
                AC |-> Flag(exact >= IF sign = 1 THEN Modulus ELSE 0),
                AV |-> Flag(~InRange(Signed(x, W) + sign * Signed(y, W) + c))]]

Logical(z) ==
    [z |-> z, fl |-> [AZ |-> Flag(z = 0), AN |-> Flag(z >= Top), AF |-> 0, AC |-> 0, AV |-> 0]]

Compared(x, y, ca) ==
    [AZ |-> Flag(x = y), AN |-> Flag(x < y), AF |-> 0, AC |-> 0, AV |-> 0,
     CA |-> Flag(x > y), CB |-> ca]

(* Arithmetic shifts are a division that rounds down. *)
Moved(x, n, signed) ==
    LET v == IF signed THEN Signed(x, W) ELSE x
    IN IF n >= 0 THEN (v * 2^n) % Modulus ELSE (v \div 2^(-n)) % Modulus

Shifted(z, sv) == [SZ |-> Flag(z = 0), SV |-> Flag(sv), SS |-> 0]

WithBit(x, n, on) ==
    CASE n >= W -> x
      [] on /\ n \notin BitsOf(x) -> x + 2^n
      [] ~on /\ n \in BitsOf(x) -> x - 2^n
      [] OTHER -> x

Tested(x, n) == [SZ |-> Flag(n >= W \/ n \notin BitsOf(x)), SV |-> Flag(n >= W), SS |-> 0]

(* The machine after computation k: the registers written, the flags.      *)
Outcome(to, fl) == [to |-> to, fl |-> fl]

Does(k, reg, astat) ==
    LET x == reg[k.x]
        y == reg[k.y]
        i == IF k.op \in ImmediateOps THEN k.i ELSE 0
        carry == astat["AC"]
        result(r) == Outcome(k.n :> r.z, r.fl)
        placed(z, sv) == Outcome(k.n :> z, Shifted(z, sv))
        merged(z) == Outcome(k.n :> Or(reg[k.n], z), Shifted(z, i > 0))
        sum == Sum(x, y, 1, 0)
        difference == Sum(x, y, -1, 0)
        zeros == W - BitLength(x)
        field == Moved(x, -i, FALSE) % 2^(IF k.length < W THEN k.length ELSE W)
        sx == Signed(x, W)
        sy == Signed(y, W)
    IN CASE k.op = "add" -> result(sum)
         [] k.op = "subtract" -> result(difference)
         [] k.op = "add-with-carry" -> result(Sum(x, y, 1, carry))
         [] k.op = "subtract-with-borrow" -> result(Sum(x, y, -1, carry - 1))
         [] k.op = "comp" -> Outcome(<<>>, Compared(sx, sy, astat["CA"]))
         [] k.op = "compu" -> Outcome(<<>>, Compared(x, y, astat["CA"]))
         [] k.op = "negate" -> result(Sum(0, x, -1, 0))
         [] k.op = "increment" -> result(Sum(x, 1, 1, 0))
         [] k.op = "decrement" -> result(Sum(x, 1, -1, 0))
         [] k.op = "pass" -> result(Logical(x))
         [] k.op = "not" -> result(Logical(Modulus - 1 - x))
         [] k.op = "and" -> result(Logical(And(x, y)))
         [] k.op = "or" -> result(Logical(Or(x, y)))
         [] k.op = "xor" -> result(Logical(Xor(x, y)))
         [] k.op = "min" -> result(Logical(IF sx < sy THEN x ELSE y))
         [] k.op = "max" -> result(Logical(IF sx > sy THEN x ELSE y))
         [] k.op = "dual" ->
                Outcome((k.n :> sum.z) @@ (k.m :> difference.z),
                        [f \in DOMAIN sum.fl |->
                           IF sum.fl[f] + difference.fl[f] > 0 THEN 1 ELSE 0])
         [] k.op = "multiply" -> Outcome(k.n :> (x * y) % Modulus, <<>>)
         [] k.op = "multiply-accumulate" ->
                Outcome("MRF" :> (reg["MRF"] + x * y) % Modulus, <<>>)
         [] k.op = "multiply-add-mrf" ->
                Outcome(k.n :> (reg["MRF"] + x * y) % Modulus, <<>>)
         [] k.op = "saturate-mrf" -> Outcome(k.n :> reg["MRF"], <<>>)
         [] k.op = "mr-data-move" -> Outcome("MRF" :> x, [MV |-> 0])
         [] k.op = "lshift" -> placed(Moved(x, sy, FALSE), sy > 0)
         [] k.op = "ashift" -> placed(Moved(x, sy, TRUE), sy > 0)
         [] k.op = "leftz" -> Outcome(k.n :> zeros,
                                      [SZ |-> Flag(x >= Top), SV |-> Flag(zeros = W), SS |-> 0])
         [] k.op = "bset" -> placed(WithBit(x, y, TRUE), y >= W)
         [] k.op = "bclr" -> placed(WithBit(x, y, FALSE), y >= W)
         [] k.op = "btgl" -> placed(WithBit(x, y, y < W /\ y \notin BitsOf(x)), y >= W)
         [] k.op = "btst" -> Outcome(<<>>, Tested(x, y))
         [] k.op = "lshift-imm" -> placed(Moved(x, i, FALSE), i > 0)
         [] k.op = "ashift-imm" -> placed(Moved(x, i, TRUE), i > 0)
         [] k.op = "or-lshift-imm" -> merged(Moved(x, i, FALSE))
         [] k.op = "or-ashift-imm" -> merged(Moved(x, i, TRUE))
         [] k.op = "fext-imm" -> placed(field, i + k.length > W)
         [] k.op = "bset-imm" -> placed(WithBit(x, i, TRUE), i >= W)
         [] k.op = "bclr-imm" -> placed(WithBit(x, i, FALSE), i >= W)
         [] k.op = "btgl-imm" -> placed(WithBit(x, i, i < W /\ i \notin BitsOf(x)), i >= W)
         [] k.op = "btst-imm" -> Outcome(<<>>, Tested(x, i))

-----------------------------------------------------------------------------
(* A machine m: the program counter, a transfer that is due after some     *)
(* slots, the PC stack, the loops and the registers, flags and memory.     *)
NotDue == [slots |-> 0, act |-> "none", to |-> 0]
Due(slots, act, to) == [slots |-> slots, act |-> act, to |-> to]

Physical(a) == IF a < AliasBase THEN AliasBase + a ELSE a

StackShown(m) ==
    LET reg == m.reg
        shown == {bit \in {PcEmptyBit, StatusEmptyBit, LoopEmptyBit} :
                    CASE bit = PcEmptyBit -> m.calls = <<>>
                      [] bit = StatusEmptyBit -> m.sts = <<>>
                      [] bit = LoopEmptyBit -> m.loops = <<>>}
    IN [m EXCEPT !.reg["PCSTKP"] = Len(m.calls) % Modulus,
                 !.reg["PCSTK"] = IF m.calls = <<>> THEN Top - 1 ELSE Last(m.calls),
                 !.reg["STKYX"] = Word[(BitsOf(@) \ {0, 1, 2}) \cup shown],
                 !.reg["CURLCNTR"] = IF m.loops = <<>> THEN Modulus - 1
                                     ELSE Last(m.loops).remaining % Modulus]

(* After an instruction at m.pc that does not itself transfer. *)
Onward(m) ==
    LET loop == Last(m.loops)
        next == [m EXCEPT !.pc = @ + 1]
        act == m.due.act
        slots == m.due.slots
    IN CASE slots > 1 -> [next EXCEPT !.due.slots = @ - 1]
         [] slots = 1 -> [m EXCEPT !.due = NotDue,
                                   !.pc = IF act = "return" THEN Last(m.calls) ELSE m.due.to,
                                   !.calls = IF act = "goto" THEN @ ELSE Front(@)]
         [] slots = 0 /\ m.loops # <<>> /\ m.pc = loop.end ->
                IF loop.remaining > 1
                THEN [m EXCEPT !.pc = loop.start, !.loops[Len(m.loops)].remaining = @ - 1]
                ELSE [next EXCEPT !.loops = Front(@), !.calls = Front(@)]
         [] OTHER -> next

(* A callee outside the traced code: it returns with the data registers    *)
(* and the accumulator changed and everything else as it was.              *)
OpaqueReturns(m) ==
    {[m EXCEPT !.reg = [r \in Registers |->
                          IF r \in DataRegs \cup {"MRF"} THEN n ELSE m.reg[r]]]
       : n \in {0, Modulus - 1}}

Opaque(m, to) ==
    ~m.run.follow \/ to \notin DOMAIN m.run.prog \/ m.run.prog[to].op = "undecoded"

(* A transfer taken at m.pc with `slots` delay slots after it. *)
Going(m, i, to) ==
    LET slots == IF i.delayed THEN 3 ELSE 1
        back == m.pc + slots
    IN CASE ~i.call -> [m EXCEPT !.due = Due(slots, "goto", to)]
         [] i.call /\ Opaque(m, to) -> [m EXCEPT !.due = Due(slots, "opaque", back)]
         [] i.call /\ ~Opaque(m, to) ->
                [m EXCEPT !.due = Due(slots, "goto", to), !.calls = Append(@, back)]

Returning(m, i) == [m EXCEPT !.due = Due(IF i.delayed THEN 3 ELSE 1, "return", 0)]

After(m) ==
    IF m.due.slots = 1 /\ m.due.act = "opaque"
    THEN OpaqueReturns([m EXCEPT !.due = NotDue, !.pc = m.due.to])
    ELSE {Onward(m)}

Holds(m, cond) ==
    LET f(x) == m.astat[x] = 1
        overflow == f("AV") /\ ~Has(m.reg["MODE1"], AlusatBit)
        less == IF f("AF") THEN f("AN") /\ ~f("AZ") ELSE f("AN") # overflow
        atMost == f("AZ") \/ (IF f("AF") THEN f("AN") ELSE f("AN") # overflow)
        zero == f("AZ") /\ (Has(m.reg["MODE1"], SimdBit) => m.other)
    IN CASE cond = "TRUE" -> TRUE
         [] cond = "EQ" -> zero
         [] cond = "NE" -> ~zero
         [] cond = "LT" -> less
         [] cond = "GE" -> ~less
         [] cond = "LE" -> atMost
         [] cond = "GT" -> ~atMost
         [] cond \in DOMAIN SimpleConds -> f(SimpleConds[cond])
         [] cond \in DOMAIN NotConds -> ~f(NotConds[cond])
         [] OTHER -> m.other

Computed(m, k) ==
    IF k.op = "none" THEN m
    ELSE LET d == Does(k, m.reg, m.astat)
         IN [m EXCEPT !.reg = d.to @@ m.reg,
                      !.astat = [f \in Flags |-> IF f \in DOMAIN d.fl THEN d.fl[f] ELSE @[f]]]

Loaded(m, i, a) ==
    IF i.store THEN [m EXCEPT !.mem[Physical(a)] = m.reg[i.r]]
    ELSE [m EXCEPT !.reg[i.r] = m.mem[Physical(a)]]

(* Memory, computation and index all start from the machine before. *)
Accessed(m, i) ==
    LET moved == (m.reg["I4"] + (IF i.byM THEN m.reg["M4"] ELSE i.n)) % Modulus
        loaded == Loaded(m, i, IF i.post THEN m.reg["I4"] ELSE moved)
        d == IF i.k.op = "none" THEN Outcome(<<>>, <<>>) ELSE Does(i.k, m.reg, m.astat)
        indexed == IF i.post THEN [loaded EXCEPT !.reg["I4"] = moved] ELSE loaded
    IN [indexed EXCEPT !.reg = d.to @@ indexed.reg,
                       !.astat = [f \in Flags |-> IF f \in DOMAIN d.fl THEN d.fl[f] ELSE @[f]]]

(* A circular buffer keeps its index within [B4, B4 + L4). *)
Around(m, delta) ==
    LET length == m.reg["L4"]
        at == m.reg["I4"] + delta
    IN IF length = 0 THEN at
       ELSE IF at < m.reg["B4"] THEN at + length
       ELSE IF at >= m.reg["B4"] + length THEN at - length ELSE at

Pushed(m) ==
    [m EXCEPT !.sts = Append(@, [astat |-> m.astat, mode1 |-> m.reg["MODE1"]]),
              !.reg["MODE1"] = Clear(@, m.reg["MMASK"])]
Popped(m) ==
    IF m.sts = <<>> THEN m
    ELSE [m EXCEPT !.astat = Last(m.sts).astat, !.reg["MODE1"] = Last(m.sts).mode1,
                   !.sts = Front(@)]

(* A multiplier result leaves its flag to the format, which is not modelled. *)
Vary(m, k) ==
    IF k.op \in MultiplierOps \ {"mr-data-move"}
    THEN {m, [m EXCEPT !.astat["MV"] = 1 - @]} ELSE {m}

ComputedBoth(m, k) == Vary(Computed(m, k), k)

(* What one instruction makes of the machine, before it moves on. *)
Effects(m, i) ==
    LET taken == Holds(m, i.cond)
        under(ms) == IF taken THEN ms ELSE {m}
        sided == IF taken = i.else THEN {m} ELSE ComputedBoth(m, i.k)
    IN CASE i.op = "nop" -> {m}
         [] i.op = "compute" -> under(ComputedBoth(m, i.k))
         [] i.op = "move" -> under({Computed([m EXCEPT !.reg[i.r] = m.reg[i.from]], i.k)})
         [] i.op \in {"memory", "memory 3b"} -> under({Accessed(m, i)})
         [] i.op = "direct" -> {Loaded(m, i, i.n)}
         [] i.op = "ureg" -> {[m EXCEPT !.reg[i.r] = i.n]}
         [] i.op = "bit test" ->
                LET n == m.reg[i.r]
                    found == IF i.xor THEN n = i.n ELSE BitsOf(i.n) \subseteq BitsOf(n)
                IN {[m EXCEPT !.astat["BTF"] = Flag(found)]}
         [] i.op = "bit op" ->
                {[m EXCEPT !.reg[i.r] = CASE i.how = "set" -> Or(@, i.n)
                                          [] i.how = "clear" -> Clear(@, i.n)
                                          [] i.how = "toggle" -> Xor(@, i.n)]}
         [] i.op = "stack" ->
                LET sts == IF "push sts" \in i.does THEN Pushed(m)
                           ELSE IF "pop sts" \in i.does THEN Popped(m) ELSE m
                    front(q, b) == IF b /\ q # <<>> THEN Front(q) ELSE q
                IN {[sts EXCEPT !.loops = front(@, "pop loop" \in i.does),
                                !.calls = front(@, "pop pcstk" \in i.does)]}
         [] i.op \in {"loop", "loop ureg"} ->
                LET count == IF i.op = "loop" THEN i.n ELSE m.reg[i.r]
                    loop == [start |-> m.pc + 1, end |-> i.to, remaining |-> count]
                IN {[m EXCEPT !.reg["LCNTR"] = count, !.loops = Append(@, loop),
                              !.calls = Append(@, m.pc + 1)]}
         [] i.op = "modify" ->
                {Computed([m EXCEPT !.reg["I4"] = (@ + m.reg["M4"]) % Modulus], i.k)}
         [] i.op = "modify if" ->
                IF Holds(m, "NOT_SV")
                THEN {[m EXCEPT !.reg["I4"] = (@ + m.reg["M4"]) % Modulus]} ELSE {m}
         [] i.op = "modify wide" -> {[m EXCEPT !.reg["I4"] = Around(m, i.n) % Modulus]}
         [] i.op \in {"jump", "jump compute", "indirect"} ->
                LET to == IF i.op = "indirect"
                          THEN (m.reg["I12"] + m.reg["M14"]) % Modulus ELSE i.to
                IN {IF taken THEN Going(x, i, to) ELSE x : x \in sided}
         [] i.op = "return" -> {IF taken THEN Returning(x, i) ELSE x : x \in sided}
         [] i.op = "return idiom" ->
                LET to == (m.reg["I12"] + m.reg["M14"]) % Modulus
                IN {x \in {[m EXCEPT !.due = Due(3, "resume", to)]} :
                      m.run.convention => m.calls # <<>> /\ to = Last(m.calls)}
         [] i.op = "cjump" ->
                {Going([m EXCEPT !.reg["R2"] = m.reg["I6"], !.reg["I6"] = m.reg["I7"]], i, i.to)}
         [] i.op = "rframe" ->
                {[m EXCEPT !.reg["I7"] = m.reg["I6"],
                           !.reg["I6"] = m.mem[Physical(m.reg["I6"])]]}

Steps(m, i) == {StackShown(x) : x \in UNION {After(e) : e \in Effects(m, i)}}
=============================================================================
