-------------------------------- MODULE Bytes -------------------------------
(* Bytes of B bits and words of two bytes (8 bits and four bytes in the    *)
(* code).  Positions count from 1.                                         *)
EXTENDS Integers, SequencesExt

CONSTANT B     \* bits of a byte

ASSUME BytesAssumption == B \in Nat /\ B >= 2

Byte == 0 .. (2^B - 1)
Word == 0 .. (2^(2 * B) - 1)

(* Every sum of the format runs over numbered items, modulo m.             *)
SumTo(n, m, items) ==
  LET f[i \in 0..n] == IF i = 0 THEN 0 ELSE (f[i - 1] + items[i]) % m IN  f[n]

Sum(s) == SumTo(Len(s), 2^(2 * B), s)

WordBytes(w) == <<w \div 2^B, w % 2^B>>
WordAt(s, i) == s[i] * 2^B + s[i + 1]

Concat(ss) == FlattenSeq(ss)

(* A sequence in pieces of k, the last of them perhaps short.              *)
PieceCount(s, k) == (Len(s) + k - 1) \div k
Piece(s, k, i) == SubSeq(s, k * (i - 1) + 1, IF k * i < Len(s) THEN k * i ELSE Len(s))
=============================================================================
