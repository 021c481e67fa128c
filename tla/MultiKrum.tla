----------------------------- MODULE MultiKrum ------------------------------
(***************************************************************************)
(* The aggregation worker and the updates of an epoch without masks, at    *)
(* most one from each participant, some of them outliers.                  *)
(***************************************************************************)
EXTENDS KrumSelection

CONSTANTS
  Workers,
  Good, Bad     \* the points correct and faulty workers submit

ASSUME KrumAssumption == Good \subseteq Int /\ Bad \subseteq Int /\ IsFiniteSet(Workers)

VARIABLES
  points,       \* the updates that arrived, by worker
  inMean        \* the workers whose updates the aggregate is the mean of

krumVars == <<points, inMean>>

KrumInit == points = <<>> /\ inMean = {}

Submit(w, point) ==
  /\ inMean = {} /\ w \notin DOMAIN points
  /\ points' = [v \in DOMAIN points \cup {w} |-> IF v = w THEN point ELSE points[v]]
  /\ UNCHANGED inMean

\* aggregate, of one update too: f is then -1, and nothing is selected.
AggregateUpdates ==
  /\ inMean = {} /\ points # <<>>
  /\ inMean' \in Selections(points)
  /\ UNCHANGED points

KrumNext ==
  \/ \E w \in Workers, p \in Good \cup Bad : Submit(w, p)
  \/ AggregateUpdates

KrumSpec == KrumInit /\ [][KrumNext]_krumVars

-----------------------------------------------------------------------------
Outliers == {w \in DOMAIN points : points[w] \in Bad}

(* Type invariant. *)
KrumTypeOK == points \in [DOMAIN points -> Good \cup Bad] /\ inMean \subseteq DOMAIN points

\* How far the outliers are from the correct updates, which are within d of each other.
Separated(d) ==
  /\ \A g, h \in Good : Distance(g, h) <= d
  /\ \A g \in Good, b \in Bad : Cardinality(Workers) * d < 4 * Distance(b, g)

(* Of an odd number of updates, with no more outliers than the default f, none is
   in the mean: wherever the outliers are, together or on both sides, and however
   the correct updates are spread in their own range. *)
OutliersRejected ==
  ~FallsBack(Cardinality(DOMAIN points)) /\ Cardinality(Outliers) <= DefaultF(Cardinality(DOMAIN points))
    => inMean \cap Outliers = {}

=============================================================================
