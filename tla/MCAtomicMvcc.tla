---------------------------- MODULE MCAtomicMvcc ----------------------------
EXTENDS AtomicMvcc, TLC

Op(kind, keys) == [kind |-> kind, keys |-> keys]
Mset == Op("mset", {"a", "b"})
Msetnx == Op("msetnx", {"a", "b"})
Exec == Op("exec", {"a", "b"})
Mget == Op("mget", {"a", "b"})
Set(k) == Op("set", {k})
Get(k) == Op("get", {k})
WatchOf(ks) == Op("watch", ks)
Unwatch == Op("unwatch", {})
ExecOf(ks) == Op("exec", ks)

Run(p, q, r, absent) == [ops |-> ("p" :> p @@ "q" :> q @@ "r" :> r), absent |-> absent]

MCConns == <<"p", "q", "r">>
MCKeys == {"a", "b"}
MCHome == [k \in MCKeys |-> IF k = "a" THEN "A" ELSE "B"]
MCPrograms ==
    {Run(<<Mset>>, <<Mget>>, <<Mset>>, {}),
     Run(<<Msetnx>>, <<Mget>>, <<>>, {"a", "b"}),
     Run(<<Msetnx, Get("a")>>, <<Mget>>, <<>>, {"a"}),
     Run(<<Msetnx, Exec>>, <<Mget>>, <<>>, {"a"}),
     Run(<<Exec>>, <<Set("a"), Mget>>, <<>>, {}),
     Run(<<Exec>>, <<Set("a"), Get("a")>>, <<>>, {}),
     Run(<<Mset, Get("b")>>, <<Get("a"), Get("b")>>, <<>>, {}),
     Run(<<WatchOf({"a"}), WatchOf({"b"}), ExecOf({"a"})>>, <<Mset>>, <<Set("b")>>, {}),
     Run(<<WatchOf({"a"}), Exec>>, <<Mset>>, <<>>, {}),
     Run(<<WatchOf({"a"}), Exec>>, <<Set("a")>>, <<Set("b")>>, {}),
     Run(<<WatchOf({"a"}), ExecOf({"a"})>>, <<Msetnx>>, <<>>, {"a"}),
     Run(<<WatchOf({"a", "b"}), ExecOf({})>>, <<WatchOf({"a", "b"}), ExecOf({})>>, <<>>, {}),
     Run(<<WatchOf({"a", "b"}), ExecOf({"a"})>>, <<WatchOf({"a"}), Exec>>, <<>>, {}),
     Run(<<WatchOf({"a"}), ExecOf({"b"})>>, <<WatchOf({"a"}), Exec>>, <<>>, {}),
     Run(<<WatchOf({"a"}), ExecOf({"a"}), ExecOf({"a"})>>, <<Set("a")>>, <<>>, {}),
     Run(<<WatchOf({"a"}), Unwatch>>, <<WatchOf({"a"}), Exec>>, <<>>, {}),
     Run(<<WatchOf({"a"}), ExecOf({"a"}), WatchOf({"a"}), ExecOf({"a"})>>, <<Set("a"), Set("a")>>, <<>>, {})}
MCCyclePrograms == {Run(<<WatchOf({"a"}), ExecOf({"b"})>>, <<WatchOf({"b"}), ExecOf({"a"})>>, <<>>, {})}
=============================================================================
