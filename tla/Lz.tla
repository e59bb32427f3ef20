--------------------------------- MODULE Lz ---------------------------------
(* The compression of a firmware section: dt2/aplib.py, which stores every *)
(* byte as a literal, and dt2/elz.py, which reads any stream.              *)
(*                                                                         *)
(* Every constant of the format scales with the bits of a byte.            *)
EXTENDS Bytes

CONSTANT
  Far    \* elz.FAR: past this offset a match is one byte longer

ASSUME LzAssumption == Far \in Nat

Bias == 3 * 2^B - 1       \* elz.BIAS: 767 for eight bits
Reuse == 2                \* elz.REUSE
GammaMax == 2^(B + 1)     \* 0x02000000

-----------------------------------------------------------------------------
(* Writing.  An event is a control bit with the bytes read right after it. *)

Event(bit, bytes) == [bit |-> bit, bytes |-> bytes]

(* The bits of v below its leading one, highest first.                     *)
TailLen(v) == CHOOSE n \in 0..v : 2^n <= v /\ v < 2^(n + 1)
Tail1(v) == LET n == TailLen(v) IN  [i \in 1..n |-> (v \div 2^(n - i)) % 2]

(* aplib._gamma_bits: every bit of v after its leading one is followed by a*)
(* stop bit, 1 on the last.                                                *)
Gamma(v) ==
  LET t == Tail1(v)
  IN  [i \in 1..(2 * Len(t)) |->
         IF i % 2 = 1 THEN t[(i + 1) \div 2] ELSE IF i = 2 * Len(t) THEN 1 ELSE 0]

GammaEvents(v, last) ==
  LET g == Gamma(v)
  IN  [i \in 1..Len(g) |-> Event(g[i], IF i = Len(g) THEN last ELSE <<>>)]

Literal(b) == Event(1, <<b>>)

(* The terminator: (value << B) + byte is Bias modulo a word, with a value *)
(* that is not Reuse.                                                      *)
Terminator ==
  <<Event(0, <<>>)>> \o GammaEvents(2^B + 2, <<2^B - 1>>)

Literals(data) == [i \in 1..Len(data) |-> Literal(data[i])]

(* aplib._assemble: B control bits to a tag byte, highest first, then the  *)
(* bytes they bring.                                                       *)
Tag(c) == SumTo(Len(c), 2^B, [j \in 1..Len(c) |-> c[j].bit * 2^(B - j)])
AssembleGroup(c) == <<Tag(c)>> \o Concat([j \in 1..Len(c) |-> c[j].bytes])

Assemble(events) ==
  Concat([g \in 1..PieceCount(events, B) |-> AssembleGroup(Piece(events, B, g))])

Framed(body) == WordBytes(Len(body)) \o WordBytes(Sum(body)) \o body

(* aplib.pack_section.                                                     *)
PackSection(data) == Framed(Assemble(Literals(data) \o Terminator))

(* Elektron's own encoder also writes matches: [off, n], n bytes from off  *)
(* back, where last was the offset before it (external).                   *)
MatchEvents(off, n, last) ==
  LET raw == off + Bias
      far == IF off > Far THEN 1 ELSE 0
      length == n - 1 - far
      distance == IF off = last THEN GammaEvents(Reuse, <<>>)
                                ELSE GammaEvents(raw \div 2^B, <<raw % 2^B>>)
      count == IF length <= 3
                 THEN <<Event(length \div 2, <<>>), Event(length % 2, <<>>)>>
                 ELSE <<Event(0, <<>>), Event(0, <<>>)>> \o GammaEvents(length - 2, <<>>)
  IN  <<Event(0, <<>>)>> \o distance \o count

(* The section made of tokens: <<0, byte>>, or a match <<off, n>>.         *)
StockSection(tokens) ==
  LET last[i \in 0..Len(tokens)] ==
        IF i = 0 THEN 1 ELSE IF tokens[i][1] = 0 THEN last[i - 1] ELSE tokens[i][1]
  IN  Framed(Assemble(
        Concat([i \in 1..Len(tokens) |->
          IF tokens[i][1] = 0 THEN <<Literal(tokens[i][2])>>
          ELSE MatchEvents(tokens[i][1], tokens[i][2], last[i - 1])]) \o Terminator))

(* What they stand for.                                                    *)
Meaning(tokens) ==
  LET f[i \in 0..Len(tokens)] ==
        IF i = 0 THEN <<>>
        ELSE LET s == f[i - 1]
                 off == tokens[i][1]
                 n == tokens[i][2]
             IN  IF off = 0 THEN Append(s, n)
                 ELSE s \o [j \in 1..n |-> s[Len(s) - off + 1 + ((j - 1) % off)]]
  IN  f[Len(tokens)]

-----------------------------------------------------------------------------
(* Reading.  A reader stands at byte p of d with the shift register tag; v *)
(* is what it read last and bad why it gave up.                            *)

Reader(p) == [p |-> p, tag |-> 0, v |-> 0, bad |-> ""]

(* Bits.byte.                                                              *)
ReadByte(d, end, r) ==
  CASE r.bad # "" -> r
    [] r.bad = "" /\ r.p > end -> [r EXCEPT !.bad = "eof"]
    [] OTHER -> [r EXCEPT !.v = d[r.p], !.p = @ + 1]

(* Bits.bit: a sentinel behind the last control bit tells an exhausted     *)
(* register, which is refilled on demand.                                  *)
ReadBit(d, end, r) ==
  LET t == (2 * r.tag) % 2^(B + 1)
      b == ReadByte(d, end, r)
  IN  CASE r.bad # "" -> r
        [] r.bad = "" /\ t % 2^B # 0 -> [r EXCEPT !.tag = t, !.v = t \div 2^B]
        [] r.bad = "" /\ t % 2^B = 0 /\ b.bad # "" -> b
        [] OTHER -> [b EXCEPT !.tag = 2 * b.v + 1, !.v = b.v \div 2^(B - 1)]

(* One pass of the loop of Bits.gamma: g.v is what was read so far, and    *)
(* g.go that the loop goes on.                                             *)
GammaPass(d, end, g) ==
  LET a == ReadBit(d, end, g.r)
      Stopped(s, v) ==
        CASE s.bad # "" -> [r |-> s, v |-> v, go |-> FALSE]
          [] s.bad = "" /\ s.v = 1 -> [r |-> s, v |-> v, go |-> FALSE]
          [] s.bad = "" /\ s.v # 1 /\ v > GammaMax ->
               [r |-> [s EXCEPT !.bad = "gamma"], v |-> v, go |-> FALSE]
          [] OTHER -> [r |-> s, v |-> v, go |-> TRUE]
  IN  Stopped(ReadBit(d, end, a), 2 * g.v + a.v)

(* Bits.gamma: every pass doubles v, so B + 2 are past GammaMax.           *)
GammaPasses == B + 2

ReadGamma(d, end, r) ==
  LET f[i \in 0..GammaPasses] ==
        IF i = 0 THEN [r |-> r, v |-> 1, go |-> r.bad = ""]
        ELSE LET g == f[i - 1] IN  IF g.go THEN GammaPass(d, end, g) ELSE g
      Read(g) == [g.r EXCEPT !.v = g.v]
  IN  Read(f[GammaPasses])

(* n bytes, each the one off bytes before it: a match longer than off reads*)
(* what it has written.                                                    *)
Copied(out, off, n) ==
  out \o [j \in 1..n |-> out[Len(out) - off + 1 + ((j - 1) % off)]]

(* The distance of a match, from its gamma g: an offset, the last one      *)
(* again, or the end.                                                      *)
Offset(d, end, g, last) ==
  LET b == ReadByte(d, end, g)
      raw == (g.v * 2^B + b.v) % 2^(2 * B)
  IN  IF g.bad = "" /\ g.v = Reuse
        THEN [r |-> g, off |-> last, end |-> FALSE]
        ELSE [r |-> b, off |-> (raw - Bias) % 2^(2 * B), end |-> b.bad = "" /\ raw = Bias]

(* The length of a match, from its first bit h: two bits, or a gamma.      *)
Length(d, end, h) ==
  LET Long(g) == [r |-> g, n |-> g.v + 2]
      From(l) == IF l.bad = "" /\ h.v = 0 /\ l.v = 0
                   THEN Long(ReadGamma(d, end, l)) ELSE [r |-> l, n |-> 2 * h.v + l.v]
  IN  From(ReadBit(d, end, h))

(* elz.depack with reader r, what came out before and the last offset; go  *)
(* that its loop goes on.                                                  *)
AtStart(p) == [r |-> Reader(p), out |-> <<>>, last |-> 1, go |-> TRUE]

UnpackLiteral(u, r) ==
  IF r.bad # "" THEN [u EXCEPT !.r = r, !.go = FALSE]
  ELSE [u EXCEPT !.r = r, !.out = Append(@, r.v)]

(* The match at offset off, of length n.                                   *)
UnpackMatch(u, off, n) ==
  CASE n.r.bad # "" -> [u EXCEPT !.r = n.r, !.go = FALSE]
    [] n.r.bad = "" /\ (off = 0 \/ off > Len(u.out)) ->
         [u EXCEPT !.r = [n.r EXCEPT !.bad = "offset"], !.go = FALSE]
    [] OTHER -> [u EXCEPT !.r = n.r, !.last = off,
                          !.out = Copied(@, off, n.n + 1 + (IF off > Far THEN 1 ELSE 0))]

(* What the distance m begins.                                             *)
UnpackFrom(d, end, u, m) ==
  IF m.end THEN [u EXCEPT !.r = m.r, !.go = FALSE]
  ELSE UnpackMatch(u, m.off, Length(d, end, ReadBit(d, end, m.r)))

(* One pass of the loop, from its control bit.                             *)
UnpackPass(d, end, u) ==
  LET From(b) ==
        CASE b.bad # "" -> [u EXCEPT !.r = b, !.go = FALSE]
          [] b.bad = "" /\ b.v = 1 -> UnpackLiteral(u, ReadByte(d, end, b))
          [] OTHER -> UnpackFrom(d, end, u, Offset(d, end, ReadGamma(d, end, b), u.last))
  IN  From(ReadBit(d, end, u.r))

(* elz.depack from byte p: every pass reads a bit, or finds none left.     *)
Passes(d) == B * Len(d) + 1

Unpack(d, end, p) ==
  LET f[i \in 0..Passes(d)] ==
        IF i = 0 THEN AtStart(p)
        ELSE LET u == f[i - 1] IN  IF u.go THEN UnpackPass(d, end, u) ELSE u
  IN  f[Passes(d)]

Failed(why) == [ok |-> FALSE, why |-> why, out |-> <<>>, p |-> 0]

(* elz.depack_section: the end marker must land on the declared length.    *)
DepackSection(stream) ==
  LET end == 4 + WordAt(stream, 1)
      Checked(u) ==
        CASE u.r.bad # "" -> Failed(u.r.bad)
          [] u.r.bad = "" /\ u.r.p # end + 1 -> Failed("length")
          [] OTHER -> [ok |-> TRUE, why |-> "", out |-> u.out, p |-> u.r.p]
  IN  Checked(Unpack(stream, end, 5))
=============================================================================
