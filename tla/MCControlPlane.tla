--------------------------- MODULE MCControlPlane ---------------------------
(* Four threads in two L3 domains, of which 1 writes the AOF; each scenario  *)
(* gives the first split, where the connections are, what may happen besides *)
(* FLIPs, and how many FLIP commands there may be.                           *)
EXTENDS FlipController, TLC

MCThreads == 0..3
MCClients == 1..3
MCShards == 11..12
MCDomain == [t \in MCThreads |-> t % 2]
MCKeepers == {1}
MCWeight == (1 :> 2) @@ (2 :> 1) @@ (3 :> 1) @@ (11 :> 1) @@ (12 :> 2)
MCKeyOf == (1 :> 11) @@ (2 :> 12) @@ (3 :> 12)

Draw(l, m, h) == [low |-> l, mean |-> m, high |-> h]
Scene(ios, ats, allowed, n) ==
    [role |-> [t \in MCThreads |-> IF t \in ios THEN "Ifid" ELSE "Ex"],
     owner |-> [s \in MCShards |-> IF s = 11 /\ 2 \notin ios THEN 2 ELSE 3],
     at |-> [c \in MCClients |-> IF c \in DOMAIN ats THEN ats[c] ELSE Nobody],
     may |-> allowed, flips |-> n, maneuvers |-> 0, draws |-> {}]

Auto(scenery, n, draws) == [scenery EXCEPT !.maneuvers = n, !.draws = draws]

Shares == {Draw(5, 6, 7), Draw(6, 6, 7)}

MCScenarios == {
    Scene({0, 1}, <<0, 1>>, {"dispatch", "stall"}, 1),
    Scene({0, 1, 2}, <<0, 1, 2>>, {"stall"}, 1),
    Scene({0, 1}, <<0, 1>>, {"connect", "stall"}, 1),
    Scene({0, 1}, <<0, 0>>, {"balance"}, 1),
    Scene({0, 1, 2}, <<0, 2>>, {"reserve", "detach", "listen"}, 2),
    Scene({0}, <<0, 0>>, {"plan", "reserve", "detach", "listen"}, 1),
    Scene({0, 1}, <<0, 1>>, {"close", "dispatch"}, 1),
    Auto(Scene({0, 1}, <<>>, {"auto"}, 0), 2, {Draw(6, 6, 7)}),
    Auto(Scene({0, 1}, <<>>, {"auto", "late"}, 0), 1, Shares),
    Auto(Scene({0, 1}, <<>>, {"auto", "snapshot", "seek", "plan"}, 0), 1, Shares),
    Auto(Scene({0, 1}, <<>>, {"auto", "force"}, 0), 2, {Draw(6, 6, 7)}),
    Auto(Scene({0, 1}, <<0>>, {"auto"}, 1), 1, {Draw(6, 6, 7)})
    }
=============================================================================
