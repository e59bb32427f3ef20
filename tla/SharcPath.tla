------------------------------ MODULE SharcPath ------------------------------
(***************************************************************************)
(* One path of tools/sharc_trace.py: the machine state a path carries, and *)
(* _execute, which takes it over one instruction and returns the paths     *)
(* that follow.  A predicate the path cannot decide makes two of it; a     *)
(* construct the tracer does not support stops it with a reason.           *)
(*                                                                         *)
(* A program is a sequence of instruction records, one address each; `op`  *)
(* names the instruction class.  Memory is word-granular: what is modelled *)
(* of an access is whether its address and value are known, which of the   *)
(* two names of a word it uses, and whether the width of internal words is *)
(* settled (assume_nw32).                                                  *)
(***************************************************************************)
EXTENDS SharcCompute, Sequences

CONSTANTS
    BoundedNames,   \* names of bounded values: entry seeds, minted ones
    CircName(_),    \* the name a circular MODIFY at an address mints
    AliasBase,      \* SW_ALIAS_BASE: low addresses name the words above it
    External,       \* addresses of the external window, always word-wide
    Mmrs,           \* addresses of fixed-width memory-mapped registers
    Image           \* the loader's words: address -> value

DataRegs == {"R0", "R1", "R2"}
Registers == DataRegs \cup {"MRF", "I4", "M4", "B4", "L4", "I6", "I7", "I12", "M14",
               "MODE1", "MMASK", "USTAT1", "STKYX", "LCNTR", "CURLCNTR", "PCSTK", "PCSTKP"}

(* Bits of MODE1 and of STKYX. *)
SimdBit == 0
AlusatBit == 1
PcEmptyBit == 0
StatusEmptyBit == 1
LoopEmptyBit == 2

Has(n, bit) == bit \in BitsOf(n)

(* Pending: a transfer that waits for its delay slots. *)
NoTarget == -1
NoReturn == -1
AfterDelaySlots == -2
None == [slots |-> 0, to |-> NoTarget, call |-> FALSE, ret |-> FALSE, back |-> NoReturn]
Pending(to, call, slots, ret, back) ==
    [slots |-> slots, to |-> to, call |-> call, ret |-> ret, back |-> back]

Running == "running"
Stop(s, why) == [s EXCEPT !.stopped = why]

(* The paths of an instruction that happens or not: both of them when the  *)
(* path cannot tell.                                                       *)
Fork(p, yes, no) ==
    IF p = 0 THEN <<no>> ELSE IF p = 1 THEN <<yes>> ELSE <<yes, no>>

Last(q) == q[Len(q)]
Front(q) == SubSeq(q, 1, Len(q) - 1)

Set(s, r, v) == [s EXCEPT !.reg[r] = v]

SetBit(s, r, bit, on) ==
    LET Update(a, b) == IF on THEN Or(a, b) ELSE Clear(a, b)
    IN Set(s, r, Bitwise(s.reg[r], Const(2^bit), Update))

(* The path's PC stack, mirrored into the registers that show it. *)
SyncPcStack(s) ==
    LET empty == s.calls = <<>>
        shown == [s EXCEPT !.reg["PCSTKP"] = Const(Len(s.calls)),
                           !.reg["PCSTK"] = Const(IF empty THEN Top - 1 ELSE Last(s.calls))]
    IN SetBit(shown, "STKYX", PcEmptyBit, empty)

PopPc(s) == SyncPcStack([s EXCEPT !.calls = Front(s.calls)])

(* After a loop is gone: the counter shows the one around it. *)
ShowLoop(s) ==
    LET shown == Set(s, "CURLCNTR", Const(IF s.loops = <<>> THEN -1
                                          ELSE Last(s.loops).remaining))
    IN IF s.loops = <<>> THEN SetBit(shown, "STKYX", LoopEmptyBit, TRUE) ELSE shown

LoopEntryOnTop(s) ==
    s.loops # <<>> /\ s.calls # <<>> /\ Last(s.calls) = Last(s.loops).start

-----------------------------------------------------------------------------
(* Leaving an instruction: the end of a loop, or one delay slot fewer.     *)
AtLoopEnd(s) == s.loops # <<>> /\ s.pc = Last(s.loops).end

LoopBackOrExit(s) ==
    LET loop == Last(s.loops)
        remaining == loop.remaining - 1
        counted == Set(s, "CURLCNTR", Const(IF remaining > 0 THEN remaining ELSE 0))
        out == [counted EXCEPT !.loops = Front(s.loops)]
    IN IF remaining > 0
       THEN [counted EXCEPT !.loops[Len(s.loops)].remaining = remaining,
                            !.pc = loop.start]
       ELSE IF out.calls = <<>> \/ Last(out.calls) # loop.start
            THEN Stop(out, "loop PC-stack mismatch")
            ELSE [ShowLoop(PopPc(out)) EXCEPT !.pc = s.pc + 1]

Return(s) ==
    IF s.calls = <<>> THEN Stop(s, "return without followed call")
    ELSE IF LoopEntryOnTop(s) THEN Stop(s, "return reached loop PC-stack entry")
    ELSE [PopPc(s) EXCEPT !.pc = Last(s.calls), !.pending = None]

Decodes(s, to) == to \in DOMAIN s.run.prog /\ s.run.prog[to].op # "undecoded"

(* A call into loaded code is followed to a depth; any other is an opaque  *)
(* boundary, and a run told to continue past it forgets what the callee    *)
(* may return.                                                             *)
ClobberedBug(reg) == [r \in Registers |-> IF r \in DataRegs THEN Unknown ELSE reg[r]]
Clobbered(reg) ==
    [r \in Registers |-> IF r \in DataRegs \cup {"MRF"} THEN Unknown ELSE reg[r]]

EnterCall(s) ==
    LET to == s.pending.to
        back == IF s.pending.back = AfterDelaySlots THEN s.pc + 1 ELSE s.pending.back
    IN IF s.run.follow /\ Decodes(s, to) THEN
              IF Len(s.calls) - Len(s.loops) >= s.run.depth THEN Stop(s, "max-call-depth")
              ELSE [SyncPcStack([s EXCEPT !.calls = Append(@, back)])
                      EXCEPT !.pc = to, !.pending = None, !.entered = TRUE]
       ELSE IF ~s.run.continue THEN Stop(s, "external-call")
       ELSE [s EXCEPT !.reg = Clobbered(s.reg), !.pending = None, !.pc = back]

CountBug(s) == IF s.pending.slots = 0 THEN [s EXCEPT !.steps = @ + 1] ELSE s
Count(s) == [s EXCEPT !.steps = @ + 1]

Advance(before) ==
    LET s == Count(before)
    IN IF s.pending.slots = 0 /\ AtLoopEnd(s) THEN LoopBackOrExit(s)
       ELSE IF s.pending.slots = 0 THEN [s EXCEPT !.pc = @ + 1]
       ELSE IF s.pending.slots > 1 THEN [s EXCEPT !.pc = @ + 1, !.pending.slots = @ - 1]
       ELSE IF s.pending.ret THEN Return(s)
       ELSE IF s.pending.call THEN EnterCall(s)
       ELSE [s EXCEPT !.pending = None,
                               !.pc = IF s.pending.to = NoTarget THEN @ + 1
                                      ELSE s.pending.to]

-----------------------------------------------------------------------------
(* Predicates: 0, 1, or Open when the path does not know.                  *)
Flip(p) == IF p = Open THEN Open ELSE 1 - p
Bool(p) == p = 1

SignedOrder(s, cond) ==
    LET known == {"AF", "AN", "AZ"}
        f(x) == Bool(s.astat[x])
        mode1 == s.reg["MODE1"]
        saturating == Has(mode1.c, AlusatBit)
        term == IF f("AV") THEN f("AN") # ~saturating ELSE f("AN")
        less == IF f("AF") THEN f("AN") /\ ~f("AZ") ELSE term
        atMost == IF f("AF") THEN f("AN") \/ f("AZ") ELSE term \/ f("AZ")
    IN IF \/ \E x \in known : s.astat[x] = Open
          \/ ~f("AF") /\ s.astat["AV"] = Open
          \/ ~f("AF") /\ f("AV") /\ ~IsConst(mode1)
       THEN Open
       ELSE CASE cond = "LE" -> Flag(atMost)
              [] cond = "GT" -> Flag(~atMost)
              [] cond = "LT" -> Flag(less)
              [] cond = "GE" -> Flag(~less)

SimpleConds == [AC |-> "AC", AV |-> "AV", MS |-> "MV", SV |-> "SV", SZ |-> "SZ", TF |-> "BTF"]
NotConds == [NOT_AC |-> "AC", NOT_AV |-> "AV", NOT_MS |-> "MV", NOT_SV |-> "SV",
             NOT_SZ |-> "SZ", NOT_TF |-> "BTF"]

(* EQ and NE read both processing elements in SIMD mode. *)
Predicate(s, cond) ==
    LET mode1 == s.reg["MODE1"]
        sisd == IsConst(mode1) /\ ~Has(mode1.c, SimdBit)
    IN CASE cond = "TRUE" -> 1
         [] cond = "EQ" -> IF sisd THEN s.astat["AZ"] ELSE Open
         [] cond = "NE" -> IF sisd THEN Flip(s.astat["AZ"]) ELSE Open
         [] cond \in {"LT", "LE", "GE", "GT"} -> SignedOrder(s, cond)
         [] cond \in DOMAIN SimpleConds -> s.astat[SimpleConds[cond]]
         [] cond \in DOMAIN NotConds -> Flip(s.astat[NotConds[cond]])
         [] OTHER -> Open

(* An instruction whose whole effect is under its condition. *)
Guarded(s, cond, done) == Fork(Predicate(s, cond), Advance(done), Advance(s))

-----------------------------------------------------------------------------
(* Data memory: the words this path wrote (overlay), then the loader's.    *)
(* A low address names the aliased word above it unless it is mapped       *)
(* itself.                                                                 *)
NoWord == -1
Mapped(s, a) == a \in DOMAIN s.overlay \/ a \in DOMAIN Image

Canonical(s, a, forWrite) ==
    IF Mapped(s, a) THEN a
    ELSE IF a < AliasBase /\ (forWrite \/ Mapped(s, AliasBase + a)) THEN AliasBase + a
    ELSE IF forWrite THEN a ELSE NoWord

WidthKnown(s, a) == s.run.nw32 \/ a \in Mmrs \cup External

DmRead(s, address) ==
    LET a == address.c
        at == Canonical(s, a, FALSE)
    IN IF ~IsConst(address) THEN Unknown
       ELSE IF a \in DOMAIN s.mmrs THEN s.mmrs[a]
       ELSE IF ~WidthKnown(s, a) \/ at = NoWord THEN Unknown
       ELSE IF at \in DOMAIN s.overlay THEN Const(s.overlay[at])
       ELSE Const(Image[at])

(* A store the path cannot resolve changes no word it knows: the trace     *)
(* records it (concrete_write false), here as `lost`.                      *)
DmWrite(s, address, value) ==
    LET a == address.c
    IN IF ~IsConst(address) \/ ~IsConst(value) THEN [s EXCEPT !.lost = TRUE]
       ELSE IF a \in Mmrs THEN [s EXCEPT !.mmrs = (a :> value) @@ s.mmrs]
       ELSE IF ~WidthKnown(s, a) THEN [s EXCEPT !.lost = TRUE]
       ELSE [s EXCEPT !.overlay = (Canonical(s, a, TRUE) :> value.c) @@ s.overlay]

Access(s, i, address) ==
    IF i.store THEN DmWrite(s, address, s.reg[i.r])
    ELSE Set(s, i.r, DmRead(s, address))

-----------------------------------------------------------------------------
(* Transfers: delayed by two slots, or at once.                            *)
Nested(s) == s.pending.slots # 0
NestedStop(s) == <<Stop(s, "nested delayed transfer")>>

Fall(s) == [Count(s) EXCEPT !.pc = @ + 1]

Taken(s, i, to) ==
    IF i.delayed
    THEN [Fall(s) EXCEPT !.pending = Pending(to, i.call, 2, FALSE,
                                             IF i.call THEN AfterDelaySlots ELSE NoReturn)]
    ELSE Advance([s EXCEPT !.pending = Pending(to, i.call, 1, FALSE,
                                               IF i.call THEN s.pc + 1 ELSE NoReturn)])

NotTaken(s, i) == IF i.delayed THEN Fall(s) ELSE Advance(s)

(* 8a and 9b: an undecided delayed branch counts its slots on both sides. *)
Transfer(s, i, to, p) ==
    LET slots == Pending(NoTarget, FALSE, 2, FALSE, NoReturn)
        passed == IF i.delayed /\ p = Open THEN [Fall(s) EXCEPT !.pending = slots]
                  ELSE NotTaken(s, i)
    IN IF Nested(s) THEN NestedStop(s) ELSE Fork(p, Taken(s, i, to), passed)

DelayedReturn(s) ==
    [Fall(s) EXCEPT !.pending = Pending(NoTarget, FALSE, 2, TRUE, NoReturn)]

TakeReturn(s, i) ==
    IF i.delayed /\ s.calls # <<>> /\ ~LoopEntryOnTop(s) THEN DelayedReturn(s)
    ELSE Return(Count(s))

(* The optional compute of an instruction, over the registers as they were *)
(* in `old`.                                                               *)
WithCompute(s, k, old) ==
    IF k.op = "none" THEN s ELSE ApplyCompute(s, Compute(k, old.reg, old.astat))

(* 9a and 11a: a branch or a return whose compute runs when it is taken,   *)
(* or (ELSE) when it is not.                                               *)
WithBranch(s, i, Go(_), Pass(_)) ==
    LET side(q) == IF i.else = (q = 0) THEN WithCompute(s, i.k, s) ELSE s
    IN IF Nested(s) THEN NestedStop(s)
       ELSE Fork(Predicate(s, i.cond), Go(side(1)), Pass(side(0)))

(* The compiler's return, JUMP (M14, I12) (DB): the target is checked      *)
(* against the recorded return when both registers are known.              *)
ReturnIdiom(s) ==
    LET i == s.reg["I12"]
        m == s.reg["M14"]
    IN IF s.calls = <<>> THEN Stop(s, "return without followed call")
       ELSE IF IsConst(i) /\ IsConst(m) /\ (i.c + m.c) % Modulus # Last(s.calls) THEN
                Stop(s, "return target differs from recorded return")
       ELSE DelayedReturn(s)

StartLoop(s, end, count) ==
    LET loop == [start |-> s.pc + 1, end |-> end, remaining |-> count]
        counted == [s EXCEPT !.reg["LCNTR"] = Const(count), !.reg["CURLCNTR"] = Const(count)]
        entered == [SetBit(counted, "STKYX", LoopEmptyBit, FALSE)
                      EXCEPT !.loops = Append(@, loop), !.calls = Append(@, s.pc + 1)]
    IN IF count = 0 THEN Stop(s, "unsupported zero-count Type12a loop")
       ELSE Advance(SyncPcStack(entered))

-----------------------------------------------------------------------------
(* Stack control: PUSH STS, POP STS, POP LOOP and POP PCSTK, in this order. *)
PushStatus(s) ==
    LET mode1 == s.reg["MODE1"]
        pushed == [s EXCEPT !.sts = Append(@, [astat |-> s.astat, mode1 |-> mode1])]
    IN SetBit(Set(pushed, "MODE1", Bitwise(mode1, s.reg["MMASK"], Clear)),
              "STKYX", StatusEmptyBit, FALSE)

PopStatus(s) ==
    LET top == Last(s.sts)
        popped == IF s.sts = <<>> THEN s
                  ELSE [s EXCEPT !.sts = Front(s.sts), !.astat = top.astat,
                                 !.reg["MODE1"] = top.mode1]
    IN IF popped.sts = <<>> THEN SetBit(popped, "STKYX", StatusEmptyBit, TRUE) ELSE popped

PopLoop(s) ==
    ShowLoop(IF s.loops = <<>> THEN s ELSE [s EXCEPT !.loops = Front(s.loops)])

PopPcStack(s) == IF s.calls = <<>> THEN SyncPcStack(s) ELSE PopPc(s)

StackControl(s, does) ==
    LET pushed == IF "push sts" \in does THEN PushStatus(s) ELSE s
        popped == IF "pop sts" \in does THEN PopStatus(pushed) ELSE pushed
        unlooped == IF "pop loop" \in does THEN PopLoop(popped) ELSE popped
    IN IF "push sts" \in does /\ does # {"push sts"}
       THEN Stop(s, "invalid Type20a mixed push and pop")
       ELSE Advance(IF "pop pcstk" \in does THEN PopPcStack(unlooped) ELSE unlooped)

-----------------------------------------------------------------------------
(* MODIFY.  The wide form adds an immediate and honours the circular       *)
(* buffer of its register: wrapped when everything is known, one minted    *)
(* name when only a bounded name and the length are.                       *)
BoundedName(v) == \E n \in BoundedNames : v.t = [Plain EXCEPT ![n] = 1]

Magnitude(n) == IF n < 0 THEN -n ELSE n

CircularModify(s, delta) ==
    LET v == s.reg["I4"]
        base == s.reg["B4"]
        length == s.reg["L4"]
        moved == Add(v, Const(delta))
        candidate == (v.c + delta) % Modulus
        wrapped == IF candidate < base.c THEN candidate + length.c
                     ELSE IF candidate >= base.c + length.c THEN candidate - length.c
                     ELSE candidate
    IN IF IsConst(length) /\ length.c = 0 THEN moved
       ELSE IF IsConst(length) /\ IsConst(v) /\ IsConst(base) THEN
                IF length.c <= Magnitude(delta) THEN Unknown ELSE Const(wrapped)
       ELSE IF IsConst(length) /\ BoundedName(v) /\ Magnitude(Signed(v.c, W)) < length.c THEN
                Symbol(CircName(s.pc))
       ELSE Unknown

PostModify(s) == Set(s, "I4", Add(s.reg["I4"], s.reg["M4"]))

(* The conditional form of Modify (NOT SV): skipped only when the path     *)
(* knows both that the condition is false and that there is one element.   *)
ConditionalModify(s) ==
    LET p == Predicate(s, "NOT_SV")
        mode1 == s.reg["MODE1"]
        length == s.reg["L4"]
    IN IF ~IsConst(length) \/ length.c # 0 THEN Stop(s, "unsupported Type7a circular modify")
       ELSE IF p = 0 /\ IsConst(mode1) /\ ~Has(mode1.c, SimdBit) THEN Advance(s)
       ELSE IF p # 1 THEN Advance(Set(s, "I4", Unknown))
       ELSE Advance(PostModify(s))

-----------------------------------------------------------------------------
(* Register moves, loads, stores and bit operations.                       *)

(* 3a, 3b, 4a, 4b, 6a: one word through I4, moved before or after by M4 or *)
(* an immediate, beside an optional compute.                               *)
Displaced(s, i) == Add(s.reg["I4"], IF i.byM THEN s.reg["M4"] ELSE Const(i.n))

MemoryAccess(s, i) ==
    LET moved == Displaced(s, i)
        done == Access(s, i, IF i.post THEN s.reg["I4"] ELSE moved)
        kept == IF i.post THEN Set(done, "I4", moved) ELSE done
    IN WithCompute(kept, i.k, s)

(* Type 3b makes two paths of any predicate that is not true. *)
Access3b(s, i) ==
    Fork(IF Predicate(s, i.cond) = 1 THEN 1 ELSE Open,
         Advance(MemoryAccess(s, i)), Advance(s))

Move(s, i) == WithCompute(Set(s, i.r, s.reg[i.from]), i.k, s)

BitTest(s, i) ==
    LET v == s.reg[i.r]
        found(n) == IF i.xor THEN n = i.n ELSE And(n, i.n) = i.n
    IN [s EXCEPT !.astat["BTF"] = FlagIf(v, found)]

BitOperation(s, i) ==
    LET Update(a, b) == CASE i.how = "set" -> Or(a, b)
                          [] i.how = "clear" -> Clear(a, b)
                          [] i.how = "toggle" -> Xor(a, b)
    IN Set(s, i.r, Bitwise(s.reg[i.r], Const(i.n), Update))

(* CJUMP: a call that sets up a frame; RFRAME, in the slots of a return,   *)
(* takes it down.                                                          *)
FrameUp(s) == [s EXCEPT !.reg["R2"] = s.reg["I6"], !.reg["I6"] = s.reg["I7"]]
FrameDown(s) == [s EXCEPT !.reg["I7"] = s.reg["I6"], !.reg["I6"] = DmRead(s, s.reg["I6"])]

Indirect(s, i) ==
    LET to == Add(s.reg["I12"], s.reg["M14"])
    IN IF Nested(s) THEN NestedStop(s)
       ELSE IF IsConst(s.reg["I12"]) /\ IsConst(s.reg["M14"]) THEN
                Transfer(s, i, to.c, Predicate(s, i.cond))
       ELSE <<Stop(s, "unknown indirect target")>>

CountedLoop(s, i) ==
    IF i.op = "loop" THEN StartLoop(s, i.to, i.n)
    ELSE IF IsConst(s.reg[i.r]) THEN StartLoop(s, i.to, s.reg[i.r].c)
    ELSE Stop(s, "nonconcrete Type12a UREG loop count")

(* _execute: one instruction of one path, as the sequence of paths that    *)
(* follow it.                                                              *)
Execute(before, i) ==
    LET s == [before EXCEPT !.entered = FALSE]
        Go(t) == Taken(t, i, i.to)
        Pass(t) == NotTaken(t, i)
        GoBack(t) == TakeReturn(t, i)
        Stay(t) == Advance(t)
    IN CASE i.op = "nop" -> <<Advance(s)>>
         [] i.op = "compute" -> Guarded(s, i.cond, WithCompute(s, i.k, s))
         [] i.op = "move" -> Guarded(s, i.cond, Move(s, i))
         [] i.op = "memory" -> Guarded(s, i.cond, MemoryAccess(s, i))
         [] i.op = "memory 3b" -> Access3b(s, i)
         [] i.op = "direct" -> <<Advance(Access(s, i, Const(i.n)))>>
         [] i.op = "ureg" -> <<Advance(Set(s, i.r, Const(i.n)))>>
         [] i.op = "bit test" -> <<Advance(BitTest(s, i))>>
         [] i.op = "bit op" -> <<Advance(BitOperation(s, i))>>
         [] i.op = "stack" -> <<StackControl(s, i.does)>>
         [] i.op \in {"loop", "loop ureg"} -> <<CountedLoop(s, i)>>
         [] i.op = "modify" -> <<Advance(WithCompute(PostModify(s), i.k, s))>>
         [] i.op = "modify if" -> <<ConditionalModify(s)>>
         [] i.op = "modify wide" -> <<Advance(Set(s, "I4", CircularModify(s, i.n)))>>
         [] i.op = "jump" -> Transfer(s, i, i.to, Predicate(s, i.cond))
         [] i.op = "jump compute" -> WithBranch(s, i, Go, Pass)
         [] i.op = "indirect" -> Indirect(s, i)
         [] i.op = "return" -> WithBranch(s, i, GoBack, Stay)
         [] i.op = "return idiom" -> <<ReturnIdiom(s)>>
         [] i.op = "cjump" -> Transfer(FrameUp(s), i, i.to, 1)
         [] i.op = "rframe" ->
                <<IF Nested(s) /\ s.pending.ret THEN Advance(FrameDown(s))
                  ELSE Stop(s, "rframe outside verified return delay slots")>>
         [] OTHER -> <<Stop(before, "uncertain or undecodable form")>>

(* A path where nothing is known: the start of a trace. *)
StartPath(run, seeds, astat) ==
    [run |-> run, pc |-> 0, pending |-> None, loops |-> <<>>, calls |-> <<>>,
     reg |-> [r \in Registers |-> IF r \in DOMAIN seeds THEN seeds[r] ELSE Unknown],
     astat |-> astat, overlay |-> <<>>, mmrs |-> <<>>, sts |-> <<>>, entered |-> FALSE,
     steps |-> 0, stopped |-> Running, lost |-> FALSE]

(* Everything that decides a path's future: not the steps it took nor what *)
(* its trace says.                                                         *)
DedupeKey(s) == [s EXCEPT !.steps = 0, !.lost = FALSE, !.stopped = Running]
=============================================================================
