----------------------------- MODULE MCBlocking -----------------------------
EXTENDS Blocking

MCShardOf == [k \in Keys |-> IF k = "b" THEN 2 ELSE 1]
Push(k, es) == [op |-> "push", k |-> k, es |-> es]
Pop(k) == [op |-> "pop", k |-> k, es |-> <<>>]
Wait(kind, ks) == [kind |-> kind, keys |-> ks, dst |-> "none", timed |-> FALSE]
Move(src, dst) == [Wait("move", <<src>>) EXCEPT !.dst = dst]
Timed(w) == [w EXCEPT !.timed = TRUE]

Empty == [load |-> [k \in Keys |-> <<>>], waits |-> <<>>, plain |-> <<>>, wrong |-> {},
          cancels |-> {}, tight |-> FALSE, oom |-> FALSE]
\* A waiter on both shards, one behind it, and pushes on both.
Both == [Empty EXCEPT !.waits = <<Wait("pop", <<"a", "b">>), Wait("pop", <<"b">>)>>,
                      !.plain = <<<<Push("b", <<1, 2>>)>>, <<Push("a", <<3>>)>>>>]
\* Elements that are gone when the claim reaches their shard.
Gone == [Empty EXCEPT !.waits = <<Wait("pop", <<"a", "b">>)>>, !.tight = TRUE,
                      !.load = [k \in Keys |-> IF k = "b" THEN <<1>> ELSE <<>>],
                      !.plain = <<<<Pop("b"), Push("b", <<2>>), Push("a", <<3>>)>>>>]
\* Deadlines and cancellations against pushes.
Ended == [Empty EXCEPT !.waits = <<Timed(Wait("pop", <<"a", "b">>)), Wait("pop", <<"b">>)>>,
                       !.cancels = {1}, !.oom = TRUE, !.plain = <<<<Push("b", <<1>>), Push("a", <<2>>)>>>>]
\* Moves: with a waiter behind, with a pop between their hops, to a key of the wrong type.
Moved == [Empty EXCEPT !.waits = <<Move("a", "b"), Wait("pop", <<"b">>), Wait("pop", <<"a">>)>>,
                       !.plain = <<<<Push("a", <<1, 2>>)>>>>]
Taken == [Empty EXCEPT !.waits = <<Move("a", "b"), Wait("pop", <<"a">>)>>, !.cancels = {1},
                       !.plain = <<<<Push("a", <<1, 2>>)>>, <<Pop("a")>>>>]
Wrong == [Empty EXCEPT !.waits = <<Move("a", "b"), Timed(Wait("pop", <<"a", "b">>))>>, !.wrong = {"b"},
                       !.plain = <<<<Push("a", <<1>>)>>>>]
\* Readers of two streams, neither consuming.
Read == [Empty EXCEPT !.waits = <<Wait("read", <<"a", "b">>), Timed(Wait("read", <<"b">>))>>,
                      !.cancels = {1}, !.plain = <<<<Push("a", <<1>>), Push("b", <<2>>)>>>>]
MCPrograms == {Both, Gone, Ended, Moved, Taken, Wrong, Read}
=============================================================================
