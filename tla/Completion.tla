----------------------------- MODULE Completion -----------------------------
(***************************************************************************)
(* How executors tell an IO thread that operations are done, how the IO    *)
(* thread retires them, and when a connection may be freed                 *)
(* (core/ex_loop.h, core/io_loop.h, core/thread.h, core/signal.h).         *)
(* An executor stores Done into the operation and then signals:            *)
(*   - a connection with a write-back slot: the slot is recorded, and the  *)
(*     end of the batch raises the bits of all recorded slots;             *)
(*   - a connection without one: the client is posted through a channel,   *)
(*     once, under the claim flag retire_queued_.                          *)
(* The IO thread queues signalled clients for serving, retires the Done    *)
(* prefix of their reorder buffer, and frees a closing client once no      *)
(* thread can still name it. Stores become visible in program order but    *)
(* late (x86 TSO): every thread has a store buffer.                        *)
(***************************************************************************)
EXTENDS Integers, Sequences, SequencesExt, FiniteSets

CONSTANTS
    Conns,      \* clients; one is never reused after it is freed
    Executors,  \* the threads that execute operations
    NumSlots,   \* ReadyMask::kSlots
    BatchCap,   \* kExecBatch: tasks an executor takes at once
    MaxOps      \* bound on the operations of one connection

ASSUME CompletionAssumption ==
    NumSlots \in Nat /\ BatchCap \in Nat \ {0} /\ MaxOps \in Nat

VARIABLES
    life,      \* life[c]: new, open, closing, dead (parked for freeing) or freed
    flush, dispatch, \* the window of ids in flight, per connection
    done,      \* operations <<c, id>> whose Done store is visible
    claim,     \* claim[c]: the visible value of retire_queued_
    slotOf,    \* slotOf[c]: the client's write-back slot, or NoSlot
    table, freeSlots, \* the IO thread's slot table and its free list
    ready,     \* the ReadyMask
    chan,      \* chan[e]: clients posted by executor e
    lane,      \* lane[e]: tasks queued for executor e
    ex,        \* ex[e]: the executor's place and what it holds
    buffer,    \* buffer[e]: stores of executor e that are not visible yet
    epoch,     \* epoch[e]: the visible client work epoch, odd inside execute
    io         \* the IO thread's place and what it owns

vars == <<life, flush, dispatch, done, claim, slotOf, table, freeSlots, ready,
          chan, lane, ex, buffer, epoch, io>>

NoSlot == -1
None == "none"
Slots == 0..(NumSlots - 1)
Tasks == Conns \X (0..(MaxOps - 1))

\* Stores an executor may have buffered.
Store(kind, c, n) == [kind |-> kind, conn |-> c, n |-> n]

\* No snapshot of the work epochs has been taken (an epoch is never negative).
NoFence == [e \in Executors |-> -1]

Init ==
    /\ life = [c \in Conns |-> "new"]
    /\ flush = [c \in Conns |-> 0] /\ dispatch = [c \in Conns |-> 0]
    /\ done = {}
    /\ claim = [c \in Conns |-> FALSE]
    /\ slotOf = [c \in Conns |-> NoSlot]
    /\ \E held \in 0..NumSlots : table = [k \in 1..held |-> None]  \* by other clients
    /\ freeSlots = <<>>
    /\ ready = {}
    /\ chan = [e \in Executors |-> <<>>]
    /\ lane = [e \in Executors |-> <<>>]
    /\ ex = [e \in Executors |->
                [at |-> "idle", todo |-> <<>>, batch |-> <<>>, epoch |-> 0]]
    /\ buffer = [e \in Executors |-> <<>>]
    /\ epoch = [e \in Executors |-> 0]
    /\ io = [at |-> "poll", back |-> "poll", victim |-> None,
             serves |-> <<>>, active |-> {}, visit |-> {}, backstop |-> FALSE,
             sending |-> {}, unclaimed |-> {}, fence |-> [c \in Conns |-> NoFence],
             next |-> {}, corpses |-> {}]

-----------------------------------------------------------------------------
(* Executors. *)

exVars == <<lane, ex, buffer, epoch, done, chan>>
ioVars == <<life, flush, dispatch, slotOf, table, freeSlots, io>>

\* One store leaves an executor's store buffer.
StoreVisible(e) ==
    /\ buffer[e] # <<>>
    /\ LET s == Head(buffer[e]) IN
        /\ done' = IF s.kind = "done" THEN done \cup {<<s.conn, s.n>>} ELSE done
        /\ epoch' = IF s.kind = "epoch" THEN [epoch EXCEPT ![e] = s.n] ELSE epoch
        /\ claim' = IF s.kind = "unclaim" THEN [claim EXCEPT ![s.conn] = FALSE] ELSE claim
    /\ buffer' = [buffer EXCEPT ![e] = Tail(@)]
    /\ UNCHANGED <<lane, ex, chan, ready, ioVars>>

\* drain_tasks: the tasks are copied out of the lane and retired from it.
drain_tasks(e) ==
    /\ ex[e].at = "idle" /\ lane[e] # <<>>
    /\ LET n == IF Len(lane[e]) < BatchCap THEN Len(lane[e]) ELSE BatchCap IN
        /\ ex' = [ex EXCEPT ![e].at = "exec", ![e].todo = SubSeq(lane[e], 1, n)]
        /\ lane' = [lane EXCEPT ![e] = SubSeq(@, n + 1, Len(@))]
    /\ UNCHANGED <<buffer, epoch, done, chan, claim, ready, ioVars>>

\* execute, up to the Done store: ClientWorkScope makes the epoch odd first.
execute(e) ==
    /\ ex[e].at = "exec"
    /\ LET t == Head(ex[e].todo) IN
        buffer' = [buffer EXCEPT ![e] =
            @ \o <<Store("epoch", None, ex[e].epoch + 1), Store("done", t[1], t[2])>>]
    /\ ex' = [ex EXCEPT ![e].at = "notify", ![e].epoch = @ + 1]
    /\ UNCHANGED <<lane, epoch, done, chan, claim, ready, ioVars>>

\* The end of execute: the scope makes the epoch even, and the batch goes on.
Finished(e, batch, stores) ==
    /\ ex' = [ex EXCEPT ![e] =
            [at |-> IF Len(@.todo) = 1 THEN "flush" ELSE "exec",
             todo |-> Tail(@.todo), batch |-> batch, epoch |-> @.epoch + 1]]
    /\ buffer' = [buffer EXCEPT ![e] =
            @ \o stores \o <<Store("epoch", None, ex[e].epoch + 1)>>]

Notified(e) == Head(ex[e].todo)[1]

\* notify_sender, slot path: only the slot is recorded.
NotifySlot(e) ==
    /\ ex[e].at = "notify" /\ slotOf[Notified(e)] # NoSlot
    /\ Finished(e, Append(ex[e].batch, slotOf[Notified(e)]), <<>>)
    /\ UNCHANGED <<lane, epoch, done, chan, claim, ready, ioVars>>

\* notify_sender_to: the compare-and-swap of the claim drains the store buffer.
NotifyClaim(e) ==
    /\ ex[e].at = "notify" /\ slotOf[Notified(e)] = NoSlot /\ buffer[e] = <<>>
    /\ \/ /\ claim[Notified(e)]
          /\ Finished(e, ex[e].batch, <<>>)
          /\ UNCHANGED claim
       \/ /\ ~claim[Notified(e)]
          /\ claim' = [claim EXCEPT ![Notified(e)] = TRUE]
          /\ ex' = [ex EXCEPT ![e].at = "post"]
          /\ UNCHANGED buffer
    /\ UNCHANGED <<lane, epoch, done, chan, ready, ioVars>>

\* post_client; the posts of other clients may have filled the channel, and a
\* refused post gives the claim back.
post_client(e) ==
    /\ ex[e].at = "post"
    /\ \/ /\ chan' = [chan EXCEPT ![e] = Append(@, Notified(e))]
          /\ Finished(e, ex[e].batch, <<>>)
       \/ /\ UNCHANGED chan
          /\ Finished(e, ex[e].batch, <<Store("unclaim", Notified(e), 0)>>)
    /\ UNCHANGED <<lane, epoch, done, claim, ready, ioVars>>

Fenced_missing(e) == TRUE

\* flush_notify_batch: one fence, so that every Done store is visible ...
Fenced(e) == buffer[e] = <<>>

\* ... and then ReadyMask::set for each recorded slot.
flush_notify_batch(e) ==
    /\ ex[e].at = "flush"
    /\ \/ /\ ex[e].batch # <<>> /\ Fenced(e)
          /\ ready' = ready \cup {Head(ex[e].batch)}
          /\ ex' = [ex EXCEPT ![e].batch = Tail(@)]
       \/ /\ ex[e].batch = <<>>
          /\ ex' = [ex EXCEPT ![e].at = "idle"]
          /\ UNCHANGED ready
    /\ UNCHANGED <<lane, buffer, epoch, done, chan, claim, ioVars>>

-----------------------------------------------------------------------------
(* The IO thread. *)

\* The IO thread's own store of FALSE to a claim becomes visible.
IoStoreVisible ==
    /\ \E c \in io.unclaimed :
        /\ claim' = [claim EXCEPT ![c] = FALSE]
        /\ io' = [io EXCEPT !.unclaimed = @ \ {c}]
    /\ UNCHANGED <<exVars, ready, life, flush, dispatch, slotOf, table, freeSlots>>

\* A locked instruction waits until the IO thread's own stores are visible.
Drained == io.unclaimed = {}

ServePending(i, c) == \E k \in 1..Len(i.serves) : i.serves[k] = c

enqueue_serve(i, c) ==
    IF ServePending(i, c) THEN i ELSE [i EXCEPT !.serves = Append(@, c)]

\* mark_active ignores a client that is already dead.
mark_active(i, c) ==
    IF life[c] \in {"dead", "freed"} THEN i ELSE [i EXCEPT !.active = @ \cup {c}]

\* adopt_client, assign_wb_slot: a recycled slot first, then a new one, if any.
adopt_client(c) ==
    /\ io.at = "poll" /\ life[c] = "new"
    /\ life' = [life EXCEPT ![c] = "open"]
    /\ \/ /\ freeSlots # <<>>
          /\ slotOf' = [slotOf EXCEPT ![c] = Last(freeSlots)]
          /\ table' = [table EXCEPT ![Last(freeSlots) + 1] = c]
          /\ freeSlots' = Front(freeSlots)
       \/ /\ freeSlots = <<>> /\ Len(table) < NumSlots
          /\ slotOf' = [slotOf EXCEPT ![c] = Len(table)]
          /\ table' = Append(table, c)
          /\ UNCHANGED freeSlots
       \/ /\ freeSlots = <<>> /\ Len(table) = NumSlots
          /\ UNCHANGED <<slotOf, table, freeSlots>>
    /\ UNCHANGED <<exVars, claim, ready, flush, dispatch, io>>

\* parse_and_dispatch: the operation is published in the reorder buffer and
\* its task posted to the owner of the key.
parse_and_dispatch(c, e) ==
    /\ io.at = "poll" /\ life[c] = "open" /\ dispatch[c] < MaxOps
    /\ dispatch' = [dispatch EXCEPT ![c] = @ + 1]
    /\ lane' = [lane EXCEPT ![e] = Append(@, <<c, dispatch[c]>>)]
    /\ io' = mark_active(io, c)
    /\ UNCHANGED <<ex, buffer, epoch, done, chan, claim, ready,
                   life, flush, slotOf, table, freeSlots>>

\* A send completion: the kernel no longer refers to the client.
SendDone(c) ==
    /\ io.at = "poll" /\ c \in io.sending
    /\ io' = [io EXCEPT !.sending = @ \ {c}]
    /\ UNCHANGED <<exVars, claim, ready, life, flush, dispatch, slotOf, table, freeSlots>>

quiesced(c) == flush[c] = dispatch[c]

\* Client::safe_to_release, as the IO thread sees its own claim store.
safe_to_release(c) ==
    /\ quiesced(c) /\ c \notin io.sending
    /\ claim[c] => c \in io.unclaimed

\* A client that cannot be released yet must be visited again.
Retry(i, c) == [i EXCEPT !.active = @ \cup {c}]

\* close_client, first part.
BeginClose(i, c, back) ==
    IF safe_to_release(c)
    THEN [i EXCEPT !.at = "fence", !.back = back, !.victim = c, !.active = @ \ {c}]
    ELSE Retry(i, c)

\* The peer goes away.
Disconnect(c) ==
    /\ io.at = "poll" /\ life[c] = "open"
    /\ life' = [life EXCEPT ![c] = "closing"]
    /\ io' = BeginClose(io, c, "poll")
    /\ UNCHANGED <<exVars, claim, ready, flush, dispatch, slotOf, table, freeSlots>>

\* client_executor_quiesced: the first visit takes a snapshot of the work
\* epochs; an odd one must have moved before the client may go.
WorkFence(c) ==
    LET seen == IF io.fence[c] = NoFence THEN epoch ELSE io.fence[c]
    IN  [e \in Executors |-> IF seen[e] % 2 = 1 /\ epoch[e] # seen[e] THEN 0 ELSE seen[e]]

Passed_unfenced(fence) == TRUE

Passed(fence) == \A e \in Executors : fence[e] % 2 = 0

client_executor_quiesced ==
    /\ io.at = "fence"
    /\ LET c == io.victim
           fence == WorkFence(c)
           noted == [io EXCEPT !.fence[c] = fence]
       IN  io' = IF Passed(fence) THEN [noted EXCEPT !.at = "release"]
                 ELSE Retry([noted EXCEPT !.at = io.back, !.back = "poll", !.victim = None], c)
    /\ UNCHANGED <<exVars, claim, ready, life, flush, dispatch, slotOf, table, freeSlots>>

\* close_client, last part: the claim is read again, the slot is recycled with
\* its ready bit cleared, and the client is parked for freeing.
close_client ==
    /\ io.at = "release"
    /\ LET c == io.victim
           left == [io EXCEPT !.at = io.back, !.back = "poll", !.victim = None]
       IN  \/ /\ ~safe_to_release(c)
              /\ io' = Retry(left, c)
              /\ UNCHANGED <<life, ready, slotOf, table, freeSlots>>
           \/ /\ safe_to_release(c)
              /\ life' = [life EXCEPT ![c] = "dead"]
              /\ io' = [left EXCEPT !.next = @ \cup {c}, !.fence[c] = NoFence]
              /\ slotOf' = [slotOf EXCEPT ![c] = NoSlot]
              /\ \/ /\ slotOf[c] # NoSlot /\ Drained
                    /\ ready' = ready \ {slotOf[c]}
                    /\ table' = [table EXCEPT ![slotOf[c] + 1] = None]
                    /\ freeSlots' = Append(freeSlots, slotOf[c])
                 \/ /\ slotOf[c] = NoSlot
                    /\ UNCHANGED <<ready, table, freeSlots>>
    /\ UNCHANGED <<exVars, claim, flush, dispatch>>

EndPoll ==
    /\ io.at = "poll"
    /\ io' = [io EXCEPT !.at = "collect"]
    /\ UNCHANGED <<exVars, claim, ready, life, flush, dispatch, slotOf, table, freeSlots>>

\* collect_retire_work, a posted client: the claim is given back before the
\* client is served.
TakeClient(e) ==
    /\ io.at = "collect" /\ chan[e] # <<>>
    /\ LET c == Head(chan[e])
           freed == [io EXCEPT !.unclaimed = @ \cup {c}]
       IN  io' = mark_active(enqueue_serve(freed, c), c)
    /\ chan' = [chan EXCEPT ![e] = Tail(@)]
    /\ UNCHANGED <<lane, ex, buffer, epoch, done, claim, ready,
                   life, flush, dispatch, slotOf, table, freeSlots>>

\* The live clients the raised bits name.
Signalled ==
    {c \in Conns : life[c] # "dead" /\ \E s \in ready : table[s + 1] = c}

\* collect_retire_work, the ready mask; the flush pass then visits every active
\* client, and every kFlushBackstopEvery-th pass queues each of them for serving.
TakeReady(backstop) ==
    /\ io.at = "collect" /\ (ready # {} => Drained)
    /\ ready' = {}
    /\ LET act == io.active \cup Signalled
           i == FoldLeft(enqueue_serve, io, SetToSeq(Signalled))
       IN  io' = [i EXCEPT !.at = "flush", !.active = act, !.visit = act, !.backstop = backstop]
    /\ UNCHANGED <<exVars, claim, life, flush, dispatch, slotOf, table, freeSlots>>

Backstop_never(i, c) == i

\* A backstop pass serves every active client, signalled or not.
Backstop(i, c) == IF i.backstop THEN enqueue_serve(i, c) ELSE i

\* flush_ready, first phase, one active client: a quiet open client leaves the
\* active set and a quiet closing one is released.
FlushVisit(c) ==
    /\ io.at = "flush" /\ c \in io.visit
    /\ LET seen == [io EXCEPT !.visit = @ \ {c}]
           i == Backstop(seen, c)
           quiet == quiesced(c) /\ ~ServePending(i, c) /\ c \notin i.sending
       IN  \/ /\ life[c] = "open"
              /\ io' = IF quiet THEN [i EXCEPT !.active = @ \ {c}] ELSE i
           \/ /\ life[c] = "closing"
              /\ io' = IF safe_to_release(c) THEN BeginClose(i, c, "flush") ELSE i
    /\ UNCHANGED <<exVars, claim, ready, life, flush, dispatch, slotOf, table, freeSlots>>

EndFlush ==
    /\ io.at = "flush" /\ io.visit = {}
    /\ io' = [io EXCEPT !.at = "serve", !.backstop = FALSE]
    /\ UNCHANGED <<exVars, claim, ready, life, flush, dispatch, slotOf, table, freeSlots>>

\* The first id of c that is not Done: where a drain stops.
Retired(c) ==
    CHOOSE n \in flush[c]..dispatch[c] :
        /\ \A k \in flush[c]..(n - 1) : <<c, k>> \in done
        /\ n = dispatch[c] \/ <<c, n>> \notin done

\* flush_ready, second phase: the client leaves the queue before its reorder
\* buffer is drained; a dead client is skipped.
Serve ==
    /\ io.at = "serve" /\ io.serves # <<>>
    /\ LET c == Head(io.serves)
           popped == [io EXCEPT !.serves = Tail(@)]
       IN  \/ /\ life[c] \in {"dead", "freed"}
              /\ io' = popped
              /\ UNCHANGED flush
           \/ /\ life[c] \notin {"dead", "freed"}
              /\ flush' = [flush EXCEPT ![c] = Retired(c)]
              /\ io' = IF Retired(c) = flush[c] THEN popped
                       ELSE [popped EXCEPT !.sending = @ \cup {c}]
    /\ UNCHANGED <<exVars, claim, ready, life, dispatch, slotOf, table, freeSlots>>

\* What keeps a corpse from being freed.
Kept(c) == ServePending(io, c) \/ c \in io.sending

\* The serve budget is used up (or the AOF gate is closed); the next pass
\* starts with reap_dead, which frees the clients parked two passes ago.
NextPass ==
    /\ io.at = "serve"
    /\ LET reaped == {c \in io.corpses : ~Kept(c)} IN
        /\ life' = [c \in Conns |-> IF c \in reaped THEN "freed" ELSE life[c]]
        /\ io' = [io EXCEPT !.at = "poll", !.next = {},
                            !.corpses = (@ \ reaped) \cup io.next]
    /\ UNCHANGED <<exVars, claim, ready, flush, dispatch, slotOf, table, freeSlots>>

-----------------------------------------------------------------------------
ExecutorStep(e) ==
    \/ drain_tasks(e) \/ execute(e) \/ NotifySlot(e) \/ NotifyClaim(e)
    \/ post_client(e) \/ flush_notify_batch(e)

Next ==
    \/ \E e \in Executors :
        \/ StoreVisible(e) \/ ExecutorStep(e) \/ TakeClient(e)
        \/ \E c \in Conns : parse_and_dispatch(c, e)
    \/ IoStoreVisible
    \/ \E c \in Conns : adopt_client(c) \/ SendDone(c) \/ Disconnect(c) \/ FlushVisit(c)
    \/ client_executor_quiesced \/ close_client \/ EndPoll
    \/ \E b \in BOOLEAN : TakeReady(b)
    \/ EndFlush \/ Serve \/ NextPass

Spec == Init /\ [][Next]_vars

\* The IO thread's pass goes on by itself.
IoStep ==
    \/ client_executor_quiesced \/ close_client \/ EndPoll \/ EndFlush \/ NextPass
    \/ \E b \in BOOLEAN : TakeReady(b)
    \/ \E c \in Conns : FlushVisit(c)

\* Loops keep running, store buffers drain and sends complete. A pass ends
\* before it has taken every post or served every client, but not forever: the
\* sweep before parking drains the channels and the serve queue is a FIFO. The
\* backstop comes round every kFlushBackstopEvery passes.
Fairness ==
    /\ WF_vars(IoStep) /\ WF_vars(IoStoreVisible)
    /\ WF_vars(\E e \in Executors : StoreVisible(e))
    /\ WF_vars(\E e \in Executors : ExecutorStep(e))
    /\ SF_vars(Serve) /\ SF_vars(TakeReady(TRUE))
    /\ SF_vars(\E e \in Executors : TakeClient(e))
    /\ SF_vars(\E c \in Conns : SendDone(c))

FairSpec == Spec /\ Fairness

-----------------------------------------------------------------------------
\* Types of the state.
TypeOK ==
    /\ life \in [Conns -> {"new", "open", "closing", "dead", "freed"}]
    /\ dispatch \in [Conns -> 0..MaxOps] /\ flush \in [Conns -> 0..MaxOps]
    /\ \A c \in Conns : flush[c] <= dispatch[c]
    /\ done \subseteq Tasks
    /\ claim \in [Conns -> BOOLEAN]
    /\ slotOf \in [Conns -> Slots \cup {NoSlot}]
    /\ Len(table) <= NumSlots /\ ToSet(table) \subseteq Conns \cup {None}
    /\ ready \subseteq Slots
    /\ \A e \in Executors :
        /\ ToSet(chan[e]) \subseteq Conns
        /\ ToSet(lane[e]) \cup ToSet(ex[e].todo) \subseteq Tasks
        /\ ToSet(ex[e].batch) \subseteq Slots
        /\ epoch[e] <= ex[e].epoch
    /\ io.at \in {"poll", "collect", "flush", "fence", "release", "serve"}

\* An executor still has to look at client c: it holds or will take a task of
\* c, or is inside execute for it.
Held(c) ==
    \E e \in Executors :
        \/ \E k \in 1..Len(lane[e]) : lane[e][k][1] = c
        \/ \E k \in 1..Len(ex[e].todo) : ex[e].todo[k][1] = c
        \/ \E k \in 1..Len(chan[e]) : chan[e][k] = c

\* Once close_client has parked a client, no executor holds a task of it and
\* none of its posts is still in a channel: the work epochs and the second look
\* at the claim close the window between the Done store and the notification.
\* And the IO thread frees it only when its own queues do not name it either:
\* reap_dead waits for the serve queue, which the budget may leave standing.
CorpseIsUnreferenced ==
    /\ \A c \in Conns : life[c] \in {"dead", "freed"} => ~Held(c)
    /\ \A c \in Conns : life[c] = "freed" =>
        /\ ~ServePending(io, c) /\ c \notin io.active \cup io.visit \cup io.sending
        /\ c # io.victim /\ c \notin ToSet(table)

\* Someone will still look at the completions of c: its bit is up, it waits to
\* be served, or an executor has its slot on record or is about to.
SignalOwed(c) ==
    \/ slotOf[c] \in ready
    \/ ServePending(io, c)
    \/ \E e \in Executors :
        \/ \E k \in 1..Len(ex[e].batch) : ex[e].batch[k] = slotOf[c]
        \/ ex[e].at = "notify" /\ Notified(e) = c

\* For a client with a slot, a visible Done at the head of its reorder buffer
\* is never left without a signal: the fence orders the Done stores before the
\* read-first ReadyMask::set.
NoStrandedCompletion ==
    \A c \in Conns :
        slotOf[c] # NoSlot /\ flush[c] < dispatch[c] /\ <<c, flush[c]>> \in done
            => SignalOwed(c)

\* Every dispatched operation is eventually retired, even when its post was
\* refused or its claim was found taken: the backstop serves active clients. And
\* a client whose peer has gone is eventually freed: close_client puts it back
\* into the active set whenever it has to wait.
EverythingEnds ==
    \A c \in Conns : /\ \A n \in 0..(MaxOps - 1) : dispatch[c] > n ~> flush[c] > n
                     /\ life[c] = "closing" ~> life[c] = "freed"

=============================================================================
