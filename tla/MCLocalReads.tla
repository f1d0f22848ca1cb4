---------------------------- MODULE MCLocalReads ----------------------------
(***************************************************************************)
(* Local reads for TLC: the decision that a read of a connection may be    *)
(* served locally (RyowRing), and the local read itself against the        *)
(* owners of the shards (ForeignReads).  The two share no state: a         *)
(* behaviour is either frames of one connection, with the threads idle, or *)
(* one of the scenes below, with the connection idle.                      *)
(***************************************************************************)
EXTENDS RyowRing, ForeignReads, TLC

MCOwner == ("x" :> 1) @@ ("y" :> 2)
MCKeysAt == ("x" :> <<"a", "b">>) @@ ("y" :> <<"c">>)
MCCell == ("a" :> 0) @@ ("b" :> 0) @@ ("c" :> 1)
MCFingerprint == ("a" :> 1) @@ ("b" :> 2) @@ ("c" :> 1)
MCGroups == ("g" :> {"a", "c"})

Item(do, arg) == [do |-> do, arg |-> arg]
Scene(t1, t2, t3, spins, parks) ==
    [todo |-> <<t1, t2, t3>>, spins |-> spins, parks |-> parks,
     moves |-> \E i \in DOMAIN t1 : t1[i].do \in {"flush", "setgrow"}]

set(k) == Item("set", k)
get(ks) == Item("get", ks)
mget(ks) == Item("mget", ks)
turn == Item("turn", "")
install == Item("group", "g")
fold == Item("collapse", "g")

Idle == Scene(<<>>, <<>>, <<>>, {}, {})
MCScenes == {
    Idle,
    \* Overwrites against captured values, with a reader that parks.
    Scene(<<set("a"), turn, set("a")>>, <<get(<<"a">>), turn, get(<<"a", "b", "a">>)>>, <<>>, {1, 2}, {2}),
    \* A table that grows, moves and goes.
    Scene(<<Item("setgrow", "a"), set("b"), turn, Item("del", "a")>>, <<get(<<"a", "b">>)>>, <<>>, {1, 2}, {}),
    Scene(<<Item("flush", "")>>, <<mget(<<"a", "b">>)>>, <<>>, {1, 2}, {}),
    Scene(<<Item("flush", "")>>, <<get(<<"b">>)>>, <<>>, {1, 2}, {}),
    \* Two owners with full rings.
    Scene(<<set("a"), set("a"), set("a")>>, <<set("c"), set("c"), set("c")>>, <<>>, {1, 2}, {}),
    \* A multi-key write of one shard, and plain writes in its place.
    Scene(<<Item("scope", <<"a", "b">>)>>, <<mget(<<"a", "b">>), get(<<"b">>)>>, <<>>, {}, {}),
    Scene(<<Item("scope", <<"a", "a", "b">>), set("b")>>, <<mget(<<"b", "a">>), get(<<"b">>)>>, <<>>, {1, 2}, {}),
    Scene(<<set("a"), set("b")>>, <<mget(<<"a", "b">>), get(<<"b">>)>>, <<>>, {}, {}),
    \* An atomic group over two shards.
    Scene(<<install>>, <<install, fold>>, <<mget(<<"a", "c">>)>>, {}, {}),
    Scene(<<install, fold>>, <<install>>, <<Item("wide", <<"a", "c">>)>>, {}, {}),
    Scene(<<install>>, <<install, fold>>, <<get(<<"c", "a">>)>>, {}, {})}

LocalInit == Init /\ ReadsInit
LocalNext ==
    \/ scene = Idle /\ Next /\ UNCHANGED readVars
    \/ scene # Idle /\ ReadsNext /\ UNCHANGED vars
LocalSpec == LocalInit /\ [][LocalNext]_<<vars, readVars>> /\ ReadsFairness
=============================================================================
