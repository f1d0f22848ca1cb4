---------------------------- MODULE HyperLogLog ----------------------------
(***************************************************************************)
(* HyperLogLogs (cmd/hll.cc, cmd/pfdebug.cc and their commands in          *)
(* cmd/t_string.cc): strings with a header, which says whether the image   *)
(* is dense and caches the last count (-1: invalid), and either all the    *)
(* registers or opcodes for runs of equal ones.  ZERO and VAL opcodes are  *)
(* a byte, XZERO ones two.  A register keeps the largest rank of the       *)
(* elements hashed to it; the hash and the estimate from the histogram of  *)
(* ranks are left open.                                                    *)
(***************************************************************************)
EXTENDS StringValue

CONSTANTS Registers,        \* kRegisters
          ZeroMax,          \* the longest ZERO
          RankMax, RunMax,  \* the largest rank and the longest run of a VAL
          RankTop,          \* the largest rank
          SparseMaxBytes,   \* kSparseMaxBytes
          IndexOf(_), RankOf(_), Estimate(_)

Hyll == 20
HeaderBytes == 3
Dense == 0
Sparse == 1
LowByte == 21
make_zero(n) == 100 + n
make_xzero(n) == 200 + n
make_val(v, n) == 300 + 10 * v + n
IsVal(b) == b >= 300
IsXzero(b) == b \in 200 .. 299
RunOf(b) == IF IsVal(b) THEN b % 10 ELSE b % 100
RankIn(b) == IF IsVal(b) THEN (b - 300) \div 10 ELSE 0
ZeroRun(n) == IF n > ZeroMax THEN make_xzero(n) ELSE make_zero(n)

\* Opcodes and their bytes; the second byte of an XZERO is not an opcode.
Ops(s) == SelectSeq(SubSeq(s, HeaderBytes + 1, Len(s)), LAMBDA b : b # LowByte)
BytesOfOps(ops) == FoldLeft(LAMBDA s, b : s \o (IF IsXzero(b) THEN <<b, LowByte>> ELSE <<b>>), <<>>, ops)
HllHeader(s) == SubSeq(s, 1, HeaderBytes)
Recoded(s, ops) == HllHeader(s) \o BytesOfOps(ops)

header_valid(s) ==
    /\ Len(s) >= HeaderBytes /\ s[1] = Hyll
    /\ s[2] = Dense => Len(s) = HeaderBytes + Registers
is_dense(s) == s[2] = Dense
create_sparse == <<Hyll, Sparse, 0>> \o BytesOfOps(<<make_xzero(Registers)>>)
invalidate_cache(s) == [s EXCEPT ![3] = -1]
cache_valid(s) == s[3] >= 0

\* The registers, in order: what merge_registers and the histograms read.
Spelled(ops) == FoldLeft(LAMBDA r, b : r \o [k \in 1 .. RunOf(b) |-> RankIn(b)], <<>>, ops)
RegistersOf(s) == IF is_dense(s) THEN SubSeq(s, HeaderBytes + 1, Len(s)) ELSE Spelled(Ops(s))
histogram(regs) == [r \in 0 .. RankTop |-> Cardinality({i \in DOMAIN regs : regs[i] = r})]

sparse_to_dense(s) == [HllHeader(s) EXCEPT ![2] = Dense] \o RegistersOf(s)
Updated(s, changed) == [s |-> s, changed |-> changed]
dense_set(s, i, v) ==
    IF v <= s[HeaderBytes + i + 1] THEN Updated(s, FALSE) ELSE Updated([s EXCEPT ![HeaderBytes + i + 1] = v], TRUE)
promote_and_set(s, i, v) == dense_set(sparse_to_dense(s), i, v)

\* At most five opcodes are looked at, from position k on.
Joined(p) ==
    IF p.k > Len(p.ops) THEN p
    ELSE IF /\ IsVal(p.ops[p.k]) /\ p.k < Len(p.ops) /\ RankIn(p.ops[p.k + 1]) = RankIn(p.ops[p.k])
            /\ RunOf(p.ops[p.k]) + RunOf(p.ops[p.k + 1]) <= RunMax
    THEN [p EXCEPT !.ops = RemoveAt([@ EXCEPT ![p.k + 1] = @ + RunOf(p.ops[p.k])], p.k)]
    ELSE [p EXCEPT !.k = @ + 1]
coalesce_sparse_values(ops, k) == FoldLeft(LAMBDA p, n : Joined(p), [ops |-> ops, k |-> k], [n \in 1 .. 5 |-> n]).ops

FirstRegister(ops, k) == FoldLeft(LAMBDA n, b : n + RunOf(b), 0, SubSeq(ops, 1, k - 1))
\* A run with the register i set to v, first to last being its registers.
SplitRun(b, first, i, v) ==
    LET part(n) == IF n = 0 THEN <<>> ELSE <<IF IsVal(b) THEN make_val(RankIn(b), n) ELSE ZeroRun(n)>>
    IN part(i - first) \o <<make_val(v, 1)>> \o part(first + RunOf(b) - 1 - i)
SparsePut(s, ops, k, i, v) ==
    LET split == SplitRun(ops[k], FirstRegister(ops, k), i, v)
        put == SubSeq(ops, 1, k - 1) \o split \o SubSeq(ops, k + 1, Len(ops))
        grown == Len(BytesOfOps(put)) - Len(BytesOfOps(ops))
    IN IF IsVal(ops[k]) /\ RankIn(ops[k]) >= v THEN Updated(s, FALSE)
       ELSE IF grown > 0 /\ Len(s) + grown > SparseMaxBytes THEN promote_and_set(s, i, v)
       ELSE Updated(invalidate_cache(Recoded(s, coalesce_sparse_values(put, IF k = 1 THEN 1 ELSE k - 1))), TRUE)
sparse_set(s, i, v) ==
    IF v > RankMax THEN promote_and_set(s, i, v)
    ELSE SparsePut(s, Ops(s), CHOOSE k \in DOMAIN Ops(s) : /\ FirstRegister(Ops(s), k) <= i
                                                          /\ i < FirstRegister(Ops(s), k + 1), i, v)
SetRegister(s, i, v) == IF is_dense(s) THEN dense_set(s, i, v) ELSE sparse_set(s, i, v)

---------------------------------------------------------------------------
(* Commands *)

\* hll_object_image: an error unless the key is absent or holds an image.
IsHll(o) == o.type = "string" /\ o.form # "int" /\ header_valid(o.c.seq)
AddedAll(s, es) ==
    FoldLeft(LAMBDA p, e : LET q == SetRegister(p.s, IndexOf(e), RankOf(e)) IN [q EXCEPT !.changed = @ \/ p.changed],
             Updated(s, FALSE), es)
ImageOf(o) == IF o.type = "none" THEN create_sparse ELSE o.c.seq
Pfadded(o, p) ==
    IF p.changed \/ o.type = "none" THEN Out(Changed(o, invalidate_cache(p.s)), Num(1)) ELSE Out(o, Num(0))
cmd_pfadd(o, es) == IF o.type = "none" \/ IsHll(o) THEN Pfadded(o, AddedAll(ImageOf(o), es)) ELSE Out(o, Err)
CountCached(o, n) == Out(Changed(o, [o.c.seq EXCEPT ![3] = n]), Num(n))
cmd_pfcount(o) ==
    IF o.type = "none" THEN Out(o, Num(0))
    ELSE IF ~IsHll(o) THEN Out(o, Err)
    ELSE IF cache_valid(o.c.seq) THEN Out(o, Num(o.c.seq[3]))
    ELSE CountCached(o, Estimate(histogram(RegistersOf(o.c.seq))))

\* PFMERGE of the destination o with the images of the other keys, already merged into s.
merge_result(o, s) ==
    LET a == RegistersOf(ImageOf(o))
        b == RegistersOf(s)
        max == [i \in DOMAIN a |-> IF a[i] < b[i] THEN b[i] ELSE a[i]]
    IN IF is_dense(s) \/ is_dense(ImageOf(o)) THEN [HllHeader(ImageOf(o)) EXCEPT ![2] = Dense] \o max
       ELSE FoldLeft(LAMBDA t, i : IF max[i] = 0 THEN t ELSE SetRegister(t, i - 1, max[i]).s, ImageOf(o), [i \in DOMAIN max |-> i])
pfmerge(o, s) ==
    IF o.type = "none" \/ IsHll(o) THEN Out(Changed(o, invalidate_cache(merge_result(o, s))), Ok) ELSE Out(o, Err)

pfdebug_todense(o) ==
    IF ~IsHll(o) THEN Out(o, Err)
    ELSE IF is_dense(o.c.seq) THEN Out(o, Num(0)) ELSE Out(Changed(o, sparse_to_dense(o.c.seq)), Num(1))
pfdebug_getreg(o) ==
    IF ~IsHll(o) THEN Out(o, Err)
    ELSE Out(IF is_dense(o.c.seq) THEN o ELSE Changed(o, sparse_to_dense(o.c.seq)), Bulks(RegistersOf(o.c.seq)))
=============================================================================
