---------------------------- MODULE SharcCompute ----------------------------
(***************************************************************************)
(* The fixed-point computations of tools/sharc_trace.py: what _compute and *)
(* _shift_immediate return for every operation they decode (a value for    *)
(* each result register, the accumulator, and what becomes of the ASTATX   *)
(* flags), and _apply_compute, which writes it.  Every operand is read     *)
(* from the register file as it was before the instruction.                *)
(***************************************************************************)
EXTENDS SharcValue, TLC

(* ASTATX as the predicates see it, flag by flag (PartialConst).  CA and   *)
(* CB stand for the compare accumulator's shift register, the newest       *)
(* result first; MV for the multiplier's four flags; the ALU's AS and AI,  *)
(* which go with AF in every fixed-point operation, are left out.          *)
Flags == {"AZ", "AV", "AN", "AC", "AF", "MV", "SV", "SZ", "SS", "BTF", "CA", "CB"}
AluFlags == {"AZ", "AV", "AN", "AC", "AF"}
Cacc == {"CA", "CB"}
Open == 2
FlagValues == {0, 1, Open}

Flag(b) == IF b THEN 1 ELSE 0

(* A known zero-or-one test of a value, or nothing. *)
FlagIf(v, P(_)) == IF IsConst(v) THEN Flag(P(v.c)) ELSE Open

Forget(fs) == [f \in fs |-> Open]
Apply(astat, updates) ==
    [f \in Flags |-> IF f \in DOMAIN updates THEN updates[f] ELSE astat[f]]

Joined(u, v) ==
    [f \in DOMAIN u \cup DOMAIN v |-> IF f \in DOMAIN v THEN v[f] ELSE u[f]]

-----------------------------------------------------------------------------
(* The ALU's adder: subtraction adds the complement with a carry.          *)
AdderFlags(a, b, subtract, carryIn) ==
    LET addend == IF subtract THEN Modulus - 1 - b ELSE b
        full == a + addend + carryIn
        intoTop == ((a % Top) + (addend % Top) + carryIn) \div Top
        out == full \div Modulus
        result == full % Modulus
    IN [f \in AluFlags |->
          CASE f = "AC" -> out
            [] f = "AV" -> IF intoTop # out THEN 1 ELSE 0
            [] f = "AN" -> Flag(result >= Top)
            [] f = "AZ" -> Flag(result = 0)
            [] f = "AF" -> 0]

ArithUpdates(a, b, subtract, sameSource) ==
    IF sameSource /\ subtract THEN AdderFlags(0, 0, TRUE, 1)
    ELSE IF IsConst(a) /\ IsConst(b) THEN
            AdderFlags(a.c, b.c, subtract, Flag(subtract))
    ELSE Forget(AluFlags)

CarryUpdates(a, b, subtract, carry) ==
    IF IsConst(a) /\ IsConst(b) /\ carry # Open
    THEN AdderFlags(a.c, b.c, subtract, carry)
    ELSE Forget(AluFlags)

LogicalUpdates(v) ==
    IF IsConst(v)
    THEN [f \in AluFlags |-> CASE f = "AN" -> Flag(v.c >= Top)
                               [] f = "AZ" -> Flag(v.c = 0)
                               [] OTHER -> 0]
    ELSE Forget(AluFlags)

(* The flags of a dual add and subtract are ORed bit by bit. *)
Or3(a, b) == IF a = 1 \/ b = 1 THEN 1 ELSE IF a = Open \/ b = Open THEN Open ELSE 0
DualUpdates(a, b, sameSource) ==
    LET sum == ArithUpdates(a, b, FALSE, FALSE)
        difference == ArithUpdates(a, b, TRUE, sameSource)
    IN [f \in AluFlags |-> Or3(sum[f], difference[f])]

(* A compare shifts its result into the accumulator, which stays known     *)
(* only while the whole register is.                                       *)
CompareUpdates(a, b, signed, astat) ==
    IF ~(IsConst(a) /\ IsConst(b)) THEN Forget(AluFlags \cup Cacc)
    ELSE LET x == IF signed THEN Signed(a.c, W) ELSE a.c
             y == IF signed THEN Signed(b.c, W) ELSE b.c
             whole == \A f \in Flags : astat[f] # Open
         IN Joined([f \in AluFlags |-> CASE f = "AZ" -> Flag(x = y)
                                        [] f = "AN" -> Flag(x < y)
                                        [] OTHER -> 0],
                   IF whole THEN [CA |-> Flag(x > y), CB |-> astat["CA"]]
                   ELSE Forget(Cacc))

ShifterUpdates(overflow, zero, ss) == [SV |-> overflow, SZ |-> zero, SS |-> ss]

ShiftUpdates(amount, shifted, ss) ==
    ShifterUpdates(Flag(amount > 0), FlagIf(shifted, LAMBDA n : n = 0), ss)

BitFieldUpdates(position, result) ==
    IF IsConst(position)
    THEN ShifterUpdates(Flag(position.c >= W), FlagIf(result, LAMBDA n : n = 0), 0)
    ELSE ShifterUpdates(Open, Open, 0)

BitTestUpdates(source, position) ==
    IF ~IsConst(position) THEN ShifterUpdates(Open, Open, 0)
    ELSE IF position.c >= W THEN ShifterUpdates(1, 1, 0)
    ELSE ShifterUpdates(0, FlagIf(source, LAMBDA n : position.c \notin BitsOf(n)), 0)

-----------------------------------------------------------------------------
(* The computations: k names the operation, its destination n (and m, the  *)
(* second of a dual one), its sources x and y, and the immediate i (with a *)
(* length) of the shifter's immediate forms.  A result is what each        *)
(* register written receives and what becomes of the flags.                *)
Result(to, updates) == [to |-> to, fl |-> updates]
StatusOnly(updates) == Result(<<>>, updates)

CarryOffset(subtract, carry) == carry - Flag(subtract)

AluResult(k, x, y, astat) ==
    LET same == k.x = k.y
        carry == astat["AC"]
        subtract == k.op = "subtract-with-borrow"
        base == IF subtract THEN Subtract(x, y, same) ELSE Add(x, y)
        into(v, updates) == Result(k.n :> v, updates)
        logical(v) == into(v, LogicalUpdates(v))
        left == CASE k.op = "min" -> Signed(x.c, W) <= Signed(y.c, W)
                  [] OTHER -> Signed(x.c, W) >= Signed(y.c, W)
    IN CASE k.op = "add" -> into(Add(x, y), ArithUpdates(x, y, FALSE, FALSE))
         [] k.op = "subtract" ->
                into(Subtract(x, y, same), ArithUpdates(x, y, TRUE, same))
         [] k.op \in {"add-with-carry", "subtract-with-borrow"} ->
                into(IF carry = Open THEN Unknown
                     ELSE Add(base, Const(CarryOffset(subtract, carry))),
                     CarryUpdates(x, y, subtract, carry))
         [] k.op = "comp" -> StatusOnly(CompareUpdates(x, y, TRUE, astat))
         [] k.op = "compu" -> StatusOnly(CompareUpdates(x, y, FALSE, astat))
         [] k.op = "negate" -> into(Subtract(Const(0), x, FALSE),
                                    ArithUpdates(Const(0), x, TRUE, FALSE))
         [] k.op = "increment" ->
                into(Add(x, Const(1)), ArithUpdates(x, Const(1), FALSE, FALSE))
         [] k.op = "decrement" ->
                into(Add(x, Const(-1)), ArithUpdates(x, Const(1), TRUE, FALSE))
         [] k.op = "pass" -> logical(x)
         [] k.op = "not" -> logical(Not(x))
         [] k.op = "and" -> logical(Bitwise(x, y, And))
         [] k.op = "or" -> logical(Bitwise(x, y, Or))
         [] k.op = "xor" -> logical(Bitwise(x, y, Xor))
         [] k.op \in {"min", "max"} ->
                logical(IF IsConst(x) /\ IsConst(y)
                        THEN (IF left THEN x ELSE y) ELSE Unknown)
         [] k.op = "dual" ->
                Result((k.n :> Add(x, y)) @@ (k.m :> Subtract(x, y, same)),
                       DualUpdates(x, y, same))

MultiplierResult(k, x, y, mrf) ==
    LET product == Multiply(x, y)
        unknown == Forget({"MV"})
    IN CASE k.op = "multiply" -> Result(k.n :> product, unknown)
         [] k.op = "multiply-accumulate" -> Result("MRF" :> Add(mrf, product), unknown)
         [] k.op = "multiply-add-mrf" -> Result(k.n :> Add(mrf, product), unknown)
         [] k.op = "saturate-mrf" -> Result(k.n :> Unknown, unknown)
         [] k.op = "mr-data-move" -> Result("MRF" :> x, "MV" :> 0)

(* The register forms take the amount from the low byte of RY, signed. *)
ShifterResult(k, x, y) ==
    LET keep == k.op = "ashift"
        amount == Signed(y.c, W)
        shifted == Shift(x, amount, keep)
        set(Op(_, _)) == LET v == BitField(x, y, Op)
                         IN Result(k.n :> v, BitFieldUpdates(y, v))
        zeros == LeadingZeros(x)
    IN CASE k.op \in {"lshift", "ashift"} ->
                IF IsConst(y) THEN Result(k.n :> shifted, ShiftUpdates(amount, shifted, 0))
                ELSE Result(k.n :> Unknown, ShifterUpdates(Open, Open, 0))
         [] k.op = "leftz" ->
                Result(k.n :> zeros, ShifterUpdates(FlagIf(zeros, LAMBDA n : n = W),
                                                    FlagIf(x, LAMBDA n : n >= Top), 0))
         [] k.op = "bset" -> set(Or)
         [] k.op = "bclr" -> set(Clear)
         [] k.op = "btgl" -> set(Xor)
         [] k.op = "btst" -> StatusOnly(BitTestUpdates(x, y))

ImmediateShiftResult(k, n, x) ==
    LET shifted == Shift(x, k.i, k.op \in {"ashift-imm", "or-ashift-imm"})
        set(Op(_, _)) == LET v == BitField(x, Const(k.i), Op)
                         IN Result(k.n :> v, BitFieldUpdates(Const(k.i), v))
        field == Extract(x, k.i, k.length)
    IN CASE k.op \in {"lshift-imm", "ashift-imm"} ->
                Result(k.n :> shifted, ShiftUpdates(k.i, shifted, 0))
         [] k.op = "or-lshift-imm" -> Result(k.n :> Bitwise(n, shifted, Or),
                                             ShiftUpdates(k.i, shifted, 0))
         [] k.op = "or-ashift-imm" -> Result(k.n :> Bitwise(n, shifted, Or),
                                             ShiftUpdates(k.i, shifted, Open))
         [] k.op = "fext-imm" ->
                Result(k.n :> field, ShifterUpdates(Flag(k.i + k.length > W),
                                                    FlagIf(field, LAMBDA v : v = 0), 0))
         [] k.op = "bset-imm" -> set(Or)
         [] k.op = "bclr-imm" -> set(Clear)
         [] k.op = "btgl-imm" -> set(Xor)
         [] k.op = "btst-imm" -> StatusOnly(BitTestUpdates(x, Const(k.i)))

MultiplierOps == {"multiply", "multiply-accumulate", "multiply-add-mrf", "saturate-mrf",
                  "mr-data-move"}
ShifterOps == {"lshift", "ashift", "leftz", "bset", "bclr", "btgl", "btst"}
ImmediateOps == {"lshift-imm", "ashift-imm", "or-lshift-imm", "or-ashift-imm",
                 "fext-imm", "bset-imm", "bclr-imm", "btgl-imm", "btst-imm"}
AluOps == {"add", "subtract", "add-with-carry", "subtract-with-borrow", "comp", "compu",
           "negate", "increment", "decrement", "pass", "not", "and", "or", "xor",
           "min", "max", "dual"}
ComputeOps == MultiplierOps \cup ShifterOps \cup ImmediateOps \cup AluOps

Compute(k, reg, astat) ==
    LET x == reg[k.x]
        y == reg[k.y]
    IN CASE k.op \in AluOps -> AluResult(k, x, y, astat)
         [] k.op \in MultiplierOps -> MultiplierResult(k, x, y, reg["MRF"])
         [] k.op \in ShifterOps -> ShifterResult(k, x, y)
         [] k.op \in ImmediateOps -> ImmediateShiftResult(k, reg[k.n], x)

(* s is a path; its registers and its flags take a result. *)
ApplyCompute(s, result) ==
    [s EXCEPT !.reg = result.to @@ s.reg,
              !.astat = Apply(s.astat, result.fl)]
=============================================================================
