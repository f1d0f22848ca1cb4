----------------------------- MODULE FlipPolicy -----------------------------
(***************************************************************************)
(* The placement model of the FLIP controller (core/flip_policy.h): from   *)
(* an interval for the share of the work that is IO work it projects the   *)
(* rate of every split and decides whether one is worth a FLIP.            *)
(* Shares are counted in parts of ShareScale, gains and bars in per cent;  *)
(* rates are fractions <<numerator, denominator>>, so nothing is rounded.  *)
(***************************************************************************)
EXTENDS Integers, FiniteSets

CONSTANT
    ShareScale   \* the parts a share is counted in

\* R(s) = min(s / f, (n - s) / (1 - f)), for a share strictly between 0 and 1.
flip_projected_rate(s, n, f) ==
    IF s * (ShareScale - f) <= (n - s) * f THEN <<s * ShareScale, f>>
    ELSE <<(n - s) * ShareScale, ShareScale - f>>

\* The gain R(s) / R(now) - 1 exceeds g per cent.
GainExceeds(s, now, n, f, g) ==
    \E a \in {flip_projected_rate(s, n, f)}, b \in {flip_projected_rate(now, n, f)} :
        100 * a[1] * b[2] > (100 + g) * b[1] * a[2]

Faster(s, t, n, f) ==
    \E a \in {flip_projected_rate(s, n, f)}, b \in {flip_projected_rate(t, n, f)} :
        a[1] * b[2] > b[1] * a[2]

\* The split the model prefers at the mean share: the live one unless another
\* is strictly faster, and the smallest of the fastest.
Argmax(now, n, f) ==
    CHOOSE s \in 1..(n - 1) :
        /\ \A t \in 1..(n - 1) : ~Faster(t, s, n, f)
        /\ \/ s = now
           \/ /\ Faster(s, now, n, f)
              /\ \A t \in 1..(s - 1) : Faster(s, t, n, f)

\* What a draw says: the mean and the two ends of the interval around it.
Points(d) == {d.low, d.mean, d.high}

\* gain_low > g: the gain at the worst of the three points.
GainLowExceeds(s, now, n, d, g) == \A f \in Points(d) : GainExceeds(s, now, n, f, g)

\* No split reaches the bar at any of the three points.
NothingPays(now, n, d, g) ==
    \A s \in 1..(n - 1), f \in Points(d) : ~GainExceeds(s, now, n, f, g)

MinSamples == 2

\* flip_choose_split: move, hold (decided without a move), or keep sampling.
flip_choose_split(now, n, d, samples, bar) ==
    IF samples < MinSamples THEN [decided |-> FALSE, move |-> FALSE, target |-> now]
    ELSE LET s == Argmax(now, n, d.mean)
             move == s # now /\ GainLowExceeds(s, now, n, d, bar)
         IN  [decided |-> move \/ NothingPays(now, n, d, bar), move |-> move, target |-> s]

\* The bar in the model's own units: band x margin, against a record that says a
\* projection is worth kappa per cent of itself; never above 100 per cent.
Bar(band, margin, kappa) ==
    LET required == IF band * margin < 100 THEN band * margin ELSE 100
    IN  IF required < kappa THEN (required * 100) \div kappa ELSE 100

\* flip_judge: the k-th of the planned readings at the target lies above, within
\* or below the threshold around the origin's rate.
flip_judge(delivered, k, planned) ==
    CASE delivered = "above" -> "Hit"
      [] delivered = "below" -> "Miss"
      [] OTHER -> IF k >= planned THEN "Miss" ELSE "Pending"
=============================================================================
