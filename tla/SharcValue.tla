----------------------------- MODULE SharcValue -----------------------------
(***************************************************************************)
(* The abstract values of tools/sharc_trace.py, the path tracer for the    *)
(* SHARC+ audio core, and the arithmetic and the status flags it computes  *)
(* over them.  A register holds a constant, an affine expression over      *)
(* named unknowns or nothing that is known; each status flag is known or   *)
(* not on its own.  What is modelled of a 32-bit word is its width W: every *)
(* operation wraps modulo 2^W and the sign is bit W-1.                     *)
(***************************************************************************)
EXTENDS Integers, FiniteSets

CONSTANTS
    W,      \* bits of a word
    Syms    \* names an affine expression may mention

ASSUME WidthAssumption == W \in Nat \ {0}

Modulus == 2^W
Words == 0 .. Modulus - 1
Top == 2^(W - 1)

Signed(n, bits) == IF n >= 2^(bits - 1) THEN n - 2^bits ELSE n

(* A value is a constant part and one coefficient per name; a constant has *)
(* no name and an unknown has no constant part.                            *)
Plain == [s \in Syms |-> 0]
Affine(n, t) == [c |-> n % Modulus, t |-> [s \in Syms |-> t[s] % Modulus]]
Const(n) == Affine(n, Plain)
Symbol(s) == Affine(0, [Plain EXCEPT ![s] = 1])
Unknown == [c |-> -1, t |-> Plain]

Values == [c : Words, t : [Syms -> Words]] \cup {Unknown}

IsUnknown(v) == v.c = -1
IsConst(v) == v.c # -1 /\ v.t = Plain

-----------------------------------------------------------------------------
(* Arithmetic that stays affine.                                           *)
Add(left, right) ==
    IF IsUnknown(left) \/ IsUnknown(right) THEN Unknown
    ELSE Affine(left.c + right.c, [s \in Syms |-> left.t[s] + right.t[s]])

Negate(v) ==
    IF IsUnknown(v) THEN v ELSE Affine(-v.c, [s \in Syms |-> -v.t[s]])

Scaled(v, k) == Affine(k * v.c, [s \in Syms |-> k * v.t[s]])

(* sameSource: both operands are one register read twice, so that the      *)
(* difference is zero whatever it holds.                                   *)
Subtract(left, right, sameSource) ==
    IF sameSource THEN Const(0) ELSE Add(left, Negate(right))

Multiply(left, right) ==
    IF IsUnknown(left) \/ IsUnknown(right) THEN Unknown
    ELSE IF IsConst(left) THEN Scaled(right, left.c)
    ELSE IF IsConst(right) THEN Scaled(left, right.c)
    ELSE Unknown

-----------------------------------------------------------------------------
(* Operations that need every bit.                                         *)
BitsOf(n) == {i \in 0 .. W - 1 : (n \div 2^i) % 2 = 1}
Word == [S \in SUBSET (0 .. W - 1) |-> CHOOSE n \in Words : BitsOf(n) = S]
Bit(i) == IF i < W THEN {i} ELSE {}

And(a, b) == Word[BitsOf(a) \cap BitsOf(b)]
Or(a, b) == Word[BitsOf(a) \cup BitsOf(b)]
Clear(a, b) == Word[BitsOf(a) \ BitsOf(b)]
Xor(a, b) == Word[(BitsOf(a) \cup BitsOf(b)) \ (BitsOf(a) \cap BitsOf(b))]

Bitwise(left, right, Op(_, _)) ==
    IF IsConst(left) /\ IsConst(right) THEN Const(Op(left.c, right.c)) ELSE Unknown

Not(v) == IF IsConst(v) THEN Const(Modulus - 1 - v.c) ELSE Unknown

(* A shift by `amount` places, left when positive; `keep` repeats the sign *)
(* on the way right (ashift), otherwise zeros come in (lshift).            *)
ShiftedWord(n, amount, keep) ==
    IF amount >= W THEN 0
    ELSE IF amount <= -W THEN IF keep /\ n >= Top THEN Modulus - 1 ELSE 0
    ELSE IF amount > 0 THEN n * 2^amount
    ELSE (IF keep THEN Signed(n, W) ELSE n) \div 2^(-amount)

Shift(v, amount, keep) ==
    IF amount = 0 THEN v
    ELSE IF IsConst(v) THEN Const(ShiftedWord(v.c, amount, keep))
    ELSE Unknown

(* fext: `length` bits of the word from `position` up.                     *)
Extract(v, position, length) ==
    IF length = 0 THEN Const(0)
    ELSE IF IsConst(v) THEN Const((v.c \div 2^position)
                                 % 2^(IF length < W THEN length ELSE W))
    ELSE Unknown

BitLength(n) == CHOOSE k \in 0 .. W : n < 2^k /\ (k = 0 \/ n >= 2^(k - 1))
LeadingZeros(v) == IF IsConst(v) THEN Const(W - BitLength(v.c)) ELSE Unknown

(* bset, bclr and btgl: a position past the word leaves it as it is.       *)
BitField(v, position, Op(_, _)) ==
    IF ~IsConst(position) THEN Unknown
    ELSE IF position.c >= W THEN v
    ELSE Bitwise(v, Const(2^position.c), Op)
=============================================================================
