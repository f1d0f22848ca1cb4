------------------------------ MODULE RyowRing ------------------------------
(***************************************************************************)
(* How one connection of a fused thread decides whether a read may be      *)
(* served locally (net/rob.h, core/io_loop.h parse_and_dispatch).          *)
(* A local read skips the owner's queue, so it must not overtake a write   *)
(* of the same connection that touches its key and is still in flight.     *)
(* The parser knows those writes from                                      *)
(*   - the arm state: before the first local read nothing is recorded but  *)
(*     the id of the newest write, which then becomes a fence;             *)
(*   - a ring of write descriptors, one per ROB position, pruned lazily;   *)
(*   - a conservative "overflow" generation for writes of unknown keys;    *)
(*   - a candidate that is staged before its frame is known to publish.    *)
(* A filter of tags in front of the ring rejects most probes.              *)
(* The thread that parses also retires, so a frame is one step.            *)
(***************************************************************************)
EXTENDS Integers, FiniteSets

CONSTANTS
    Window,      \* kRobWindow, also kWriteRingCapacity
    Hashes,      \* key hashes
    TagRange,    \* 2^16: a tag is the low 16 bits of a hash
    FilterBits,  \* 64: the bits of a keyset filter word
    FilterShift, \* 2^32: where the second filter bit is taken from
    MaxKeys,     \* kMaxPreciseKeysetKeys
    MaxOps       \* bound on the ids dispatched

ASSUME RyowAssumption ==
    /\ Window \in Nat \ {0}
    /\ Hashes \subseteq Nat
    /\ MaxKeys \in Nat
    /\ MaxOps \in Nat

VARIABLES
    dispatch, flush,  \* the window [flush, dispatch) of ids in flight
    rob,     \* rob[i]: the op in position i, kept until the position is reused
    state,   \* the arm state, sidecar, ring and filter of the connection
    frame    \* the frame at the parse cursor that was refused, or NoFrame

vars == <<dispatch, flush, rob, state, frame>>

None == "none"
NoFrame == [kind |-> "none", keys |-> {}]
NoId == -1                       \* UINT64_MAX, an id that is never active

Slots == 0..(Window - 1)

\* What the parser can tell frames apart by: a point write, a blind multi-key
\* write, a write whose keys it does not know (it may touch every key), a
\* read, and a command that neither reads nor writes a key.
Frames ==
    [kind : {"point"}, keys : {{h} : h \in Hashes}]
        \cup [kind : {"keyset", "read"}, keys : (SUBSET Hashes) \ {{}}]
        \cup [kind : {"broad"}, keys : {Hashes}]
        \cup [kind : {"other"}, keys : {{}}]

IsWrite(op) == op.kind \in {"point", "keyset", "broad"}

Wrap(i) == IF i < Window THEN i ELSE i - Window

\* Rob::at: the op whose position an id names.
at(id) == rob[id % Window]

\* read_local_id_active
Active(id, d, f) == f <= id /\ id < d

Tag(hash) == hash % TagRange
keyset_filter(hash) == {hash % FilterBits, (hash \div FilterShift) % FilterBits}
FilterOf(keys) == UNION {keyset_filter(h) : h \in keys}

-----------------------------------------------------------------------------
(* The write ring, its filter and the overflow generation. *)

\* Position in the ring of its i-th live descriptor.
RingSlot(s, i) == Wrap(s.head + i)

NoEntry == [id |-> NoId, hash |-> NoId, filter |-> {}]

\* read_local_write_reset_slots, with the ring emptied.
EmptyRing(s) == [s EXCEPT !.head = 0, !.count = 0, !.keyset = {},
                          !.valid = {}, !.wide = {}]

\* How many descriptors at the head of the ring have retired.
RetiredPrefix(s, d, f) ==
    CHOOSE n \in 0..s.count :
        /\ \A i \in 0..(n - 1) : ~Active(s.ring[RingSlot(s, i)].id, d, f)
        /\ n < s.count => Active(s.ring[RingSlot(s, n)].id, d, f)

\* Retirement is lazy: what left the window is dropped here and nowhere else.
read_local_prune(s, d, f) ==
    IF s.overflow
    THEN IF Active(s.through, d, f) THEN s
         ELSE [EmptyRing(s) EXCEPT !.overflow = FALSE, !.force = FALSE]
    ELSE LET n == RetiredPrefix(s, d, f)
             gone == {RingSlot(s, i) : i \in 0..(n - 1)}
         IN IF n = s.count THEN EmptyRing(s)
            ELSE [s EXCEPT !.head = RingSlot(s, n), !.count = @ - n,
                           !.keyset = @ \ gone,
                           !.valid = @ \ gone, !.wide = @ \ gone]

\* A published write enters the overflow generation, or extends it.
ExtendOverflow(s, id) ==
    [EmptyRing(s) EXCEPT !.overflow = TRUE, !.through = id, !.force = TRUE]

\* A published write takes the next ring position and its tag.
Record(s, id) ==
    LET tail == RingSlot(s, s.count)
        wide == s.pending = "keyset"
    IN [s EXCEPT !.ring[tail] = [id |-> id, hash |-> s.hash, filter |-> s.filter],
                 !.tags[tail] = Tag(s.hash),
                 !.valid = @ \cup {tail},
                 !.keyset = IF wide THEN @ \cup {tail} ELSE @ \ {tail},
                 !.wide = IF wide THEN @ \cup {tail} ELSE @ \ {tail},
                 !.count = @ + 1]

\* read_local_resolve_pending: the candidate staged by an earlier frame either
\* published (its id is in flight) and is recorded, or it is forgotten.
Resolve(s, d, f) ==
    IF s.pending = None THEN s
    ELSE IF ~Active(s.pendingId, d, f) THEN [s EXCEPT !.pending = None]
    ELSE LET p == read_local_prune(s, d, f)
             t == IF p.overflow \/ s.pending = "overflow"
                  THEN ExtendOverflow(p, s.pendingId)
                  ELSE Record(p, s.pendingId)
         IN [t EXCEPT !.pending = None]

\* Unarmed, only the newest write id is kept.
Unarm(s, d) == [s EXCEPT !.arm = "unarmed", !.newest = d]

\* mark_current_write: the candidate is staged as broad before anything else
\* is known about the frame.  gotMemory: the allocation of the sidecar, at the
\* first write of an armed connection, succeeded.
mark_current_write(s, d, f, gotMemory) ==
    IF s.arm = "unarmed" \/ (s.sidecar = None /\ ~gotMemory)
    THEN Unarm(s, d)
    ELSE LET p == IF ~s.overflow /\ s.count = 0 THEN s ELSE read_local_prune(s, d, f)
         IN [p EXCEPT !.sidecar = "active", !.pending = "overflow",
                      !.pendingId = d, !.hash = 0, !.filter = {}]

\* refine_current_write_hash, refine_current_write_keyset: inside an overflow
\* generation nothing is refined, and a wide keyset stays broad.
refine(s, op) ==
    IF s.arm = "unarmed" \/ s.overflow \/ op.kind = "broad"
          \/ (op.kind = "keyset" /\ Cardinality(op.keys) > MaxKeys)
    THEN s
    ELSE IF op.kind = "point"
         THEN [s EXCEPT !.pending = "hash", !.hash = CHOOSE h \in op.keys : TRUE]
         ELSE [s EXCEPT !.pending = "keyset", !.filter = FilterOf(op.keys)]

-----------------------------------------------------------------------------
(* The probe of a read. *)

\* read_local_arm: the first read arms the connection; while the newest write
\* published before that is in flight, every read takes the owner's queue.
read_local_arm(s, d, f) ==
    IF s.arm = "armed" THEN s
    ELSE IF Active(s.newest, d, f) THEN [s EXCEPT !.arm = "fence"]
    ELSE [s EXCEPT !.arm = "armed", !.newest = NoId]

\* Mutation: a wide slot is rejected by its tag like the others.
may_match_ignores_wide(s, hash) ==
    s.force \/ \E i \in s.valid : s.tags[i] = Tag(hash)

\* read_local_write_tag_may_match: FALSE proves that no descriptor of the ring
\* names the hash.
read_local_write_tag_may_match(s, hash) ==
    \/ s.force
    \/ s.wide \cap s.valid # {}
    \/ \E i \in s.valid : s.tags[i] = Tag(hash)

\* The exact walk over the live descriptors.
Walk(s, hash) ==
    \E i \in 0..(s.count - 1) :
        LET slot == RingSlot(s, i)
            e == s.ring[slot]
        IN IF slot \in s.keyset
           THEN keyset_filter(hash) \subseteq e.filter /\ hash \in at(e.id).keys
           ELSE e.hash = hash

\* The staged candidate, consulted directly.
PendingConflicts(s, hash) ==
    \/ s.pending = "overflow"
    \/ s.pending = "hash" /\ s.hash = hash
    \/ /\ s.pending = "keyset"
       /\ keyset_filter(hash) \subseteq s.filter /\ hash \in at(s.pendingId).keys

\* read_local_write_conflicts up to the exact walk: the probe ends here if
\* nothing is live or the filter rejects the hash.
Walks(s, hash) ==
    /\ s.sidecar = "active"
    /\ s.pending # None \/ read_local_write_tag_may_match(s, hash)

\* read_local_write_conflicts
Conflicts(s, hash, d, f) ==
    LET a == read_local_arm(s, d, f)
        p == read_local_prune(a, d, f)
    IN \/ a.arm = "fence"
       \/ /\ Walks(a, hash)
          /\ PendingConflicts(a, hash) \/ p.overflow \/ Walk(p, hash)

\* What the probes of a read's hashes leave behind: the first one that walks
\* prunes, and deactivates the sidecar when nothing is left; a hash probed
\* after that gets the answer it would have got before.
Probed(s, keys, d, f) ==
    LET a == read_local_arm(s, d, f)
        p == read_local_prune(a, d, f)
    IN IF a.arm = "fence" \/ ~\E h \in keys : Walks(a, h) /\ ~PendingConflicts(a, h)
       THEN a
       ELSE IF ~p.overflow /\ p.count = 0 /\ p.pending = None
            THEN [p EXCEPT !.sidecar = "inactive"]
            ELSE p

-----------------------------------------------------------------------------
Init ==
    /\ dispatch = 0 /\ flush = 0
    /\ rob = [i \in Slots |-> [kind |-> "other", keys |-> {}, local |-> FALSE]]
    /\ state = [arm |-> "unarmed", newest |-> NoId, sidecar |-> None,
                pending |-> None, pendingId |-> 0, hash |-> 0, filter |-> {},
                overflow |-> FALSE, through |-> 0,
                ring |-> [i \in Slots |-> NoEntry], head |-> 0, count |-> 0,
                keyset |-> {}, tags |-> [i \in Slots |-> 0],
                valid |-> {}, wide |-> {}, force |-> FALSE]
    /\ frame = NoFrame

\* The frame at the parse cursor: a refused one is parsed again.
Next_frame(op) == op \in Frames /\ (frame = NoFrame \/ frame = op)

\* acquire_read_local gives the frame a position.
CanAcquire == dispatch - flush < Window /\ dispatch < MaxOps

\* The frame publishes, or some later gate refuses it: then nothing is
\* published and the parse cursor stays where it is.
Publish(op, local) ==
    /\ rob' = [rob EXCEPT ![dispatch % Window] =
                  [kind |-> op.kind, keys |-> op.keys, local |-> local]]
    /\ dispatch' = dispatch + 1
    /\ frame' = NoFrame

Refuse(op) ==
    /\ rob' = [rob EXCEPT ![dispatch % Window] =
                  [kind |-> op.kind, keys |-> op.keys, local |-> FALSE]]
    /\ frame' = op
    /\ UNCHANGED dispatch

\* A write frame, staged and refined before the gates that may refuse it.
ParseWrite(op) ==
    /\ Next_frame(op) /\ IsWrite(op)
    /\ CanAcquire
    /\ \E gotMemory \in BOOLEAN :
          LET r == Resolve(state, dispatch, flush)
          IN state' = refine(mark_current_write(r, dispatch, flush, gotMemory), op)
    /\ Publish(op, FALSE) \/ Refuse(op)
    /\ UNCHANGED flush

\* A read probes every hash it names.  Without a conflict it may still be
\* ineligible for other reasons.
ParseRead(op) ==
    /\ Next_frame(op) /\ op.kind = "read"
    /\ CanAcquire
    /\ LET r == Resolve(state, dispatch, flush)
           conflict == \E h \in op.keys : Conflicts(r, h, dispatch, flush)
       IN /\ state' = Probed(r, op.keys, dispatch, flush)
          /\ \/ Publish(op, FALSE)
             \/ ~conflict /\ Publish(op, TRUE)
             \/ Refuse(op)
    /\ UNCHANGED flush

\* Any other command.
ParseOther(op) ==
    /\ Next_frame(op) /\ op.kind = "other"
    /\ CanAcquire
    /\ state' = Resolve(state, dispatch, flush)
    /\ Publish(op, FALSE) \/ Refuse(op)
    /\ UNCHANGED flush

\* With the window full only the staged candidate is resolved.
ParseFull ==
    /\ dispatch - flush = Window
    /\ state' = Resolve(state, dispatch, flush)
    /\ UNCHANGED <<dispatch, flush, rob, frame>>

\* Rob::drain retires the oldest ops, in order.
Retire ==
    /\ flush < dispatch
    /\ \E n \in 1..(dispatch - flush) : flush' = flush + n
    /\ UNCHANGED <<dispatch, rob, state, frame>>

Next ==
    \/ \E op \in Frames : ParseWrite(op) \/ ParseRead(op) \/ ParseOther(op)
    \/ ParseFull
    \/ Retire

Spec == Init /\ [][Next]_vars

-----------------------------------------------------------------------------
(* Properties. *)

Ids == 0..MaxOps

\* Every part of the connection's state has its type.
TypeOK ==
    /\ dispatch \in Ids /\ flush \in Ids
    /\ flush <= dispatch /\ dispatch <= flush + Window
    /\ rob \in [Slots -> [kind : {"point", "keyset", "read", "broad", "other"},
                          keys : SUBSET Hashes, local : BOOLEAN]]
    /\ frame \in Frames \cup {NoFrame}
    /\ state.arm \in {"unarmed", "fence", "armed"}
    /\ state.newest \in Ids \cup {NoId}
    /\ state.sidecar \in {None, "inactive", "active"}
    /\ state.pending \in {None, "overflow", "hash", "keyset"}
    /\ state.pendingId \in Ids /\ state.through \in Ids
    /\ state.overflow \in BOOLEAN /\ state.force \in BOOLEAN
    /\ state.head \in Slots /\ state.count \in Nat
    /\ state.keyset \subseteq Slots
    /\ state.valid \subseteq Slots /\ state.wide \subseteq Slots

\* The ids in flight, with the op of each.
InFlight == flush..(dispatch - 1)

\* Read your own writes: a read served locally touches no key that an older
\* write of the connection, still in flight, touches (rob.h: the probe's
\* no-false-negative contract).  Retirement is in order, so a write older than
\* a read in flight was in flight when the read was admitted.
LocalReadsPassNoWrite ==
    \A r \in InFlight : at(r).local =>
        \A w \in InFlight : w < r /\ IsWrite(at(w)) => at(w).keys \cap at(r).keys = {}
=============================================================================
