------------------------------- MODULE Watch -------------------------------
(***************************************************************************)
(* What a shard keeps about a watched key (Shard::WatchEntry and           *)
(* Shard::WatchReservation in core/shard.h; the operations at the end of   *)
(* cmd/multi.inc). A watcher is a connection and the generation of its     *)
(* WATCH; its field seen is history: the units that had written the key    *)
(* when it was armed. A claim is a reservation: the unit that made it,     *)
(* whether it writes the key, and whether others wait for its decision.    *)
(* Fate(u) is what unit u has decided: "open", "committed" or "aborted".   *)
(***************************************************************************)
EXTENDS Sequences, SequencesExt

Unwatched == [watchers |-> {}, claims |-> <<>>]
Claim(u, mutates, blocking) == [u |-> u, mutates |-> mutates, blocking |-> blocking]
Watcher(c, gen, seen) == [c |-> c, gen |-> gen, seen |-> seen]
ClaimsOf(r) == Range(r.claims)
HasClaim(r, u) == \E x \in ClaimsOf(r) : x.u = u

----------------------------------------------------------------------------
(* watch_finalize_reservation: decided claims go, and a committed write dirties the watchers *)

Finalized(r, Fate(_)) == [r EXCEPT !.claims = SelectSeq(@, LAMBDA x : Fate(x.u) = "open")]
Dirtied(r, Fate(_)) ==
    IF \E x \in ClaimsOf(r) : x.mutates /\ Fate(x.u) = "committed" THEN r.watchers ELSE {}
Blocked(r, Fate(_)) == \E x \in ClaimsOf(r) : x.blocking /\ Fate(x.u) = "open"

\* A unit passes its own claim.
watch_write_ready(r, u, Fate(_)) == HasClaim(r, u) \/ ~Blocked(r, Fate)

----------------------------------------------------------------------------
(* Arming and leaving *)

watch_prune_stale(r, Gen(_)) == [r EXCEPT !.watchers = {e \in @ : Gen(e.c) = e.gen}]
watch_add(r, e, Gen(_)) == [watch_prune_stale(r, Gen) EXCEPT !.watchers = @ \cup {e}]
watch_remove(r, c, gen) == [r EXCEPT !.watchers = {e \in @ : ~(e.c = c /\ e.gen = gen)}]

----------------------------------------------------------------------------
(* Claims on a finalized registry *)

\* Validation gives way to an open write of the key, and to a claim it would write past.
open_writes_pass(r, u, mutates) == \E x \in ClaimsOf(r) : x.u # u /\ x.blocking /\ mutates
Conflicts(r, u, mutates) ==
    \E x \in ClaimsOf(r) : x.u # u /\ (x.mutates \/ (x.blocking /\ mutates))
watch_validate_and_reserve(r, u, mutates) == [r EXCEPT !.claims = Append(@, Claim(u, mutates, TRUE))]

\* A write of a watched key is noted, to dirty the watchers when it commits.
watch_reserve_write(r, u) ==
    IF HasClaim(r, u)
    THEN [r EXCEPT !.claims = [i \in DOMAIN @ |-> IF @[i].u = u THEN [@[i] EXCEPT !.mutates = TRUE] ELSE @[i]]]
    ELSE IF r.watchers = {} THEN r ELSE [r EXCEPT !.claims = Append(@, Claim(u, TRUE, FALSE))]
=============================================================================
