--------------------------- MODULE KrumSelection ----------------------------
(***************************************************************************)
(* MultiKrumAggregator: which of n updates the aggregate is the mean of.   *)
(* An update is a point of a line. The default for the number f of faulty  *)
(* participants decides between Multi-Krum and the plain mean.             *)
(***************************************************************************)
EXTENDS Integers, FiniteSets, FiniteSetsExt

\* (n - 2) // 2 is rounded down, also below zero.
DefaultF(n) == (n - 2) \div 2
FallsBack(n) == n < 2 * DefaultF(n) + 3
NumToSelect(n) == n - DefaultF(n) - 2

\* The sum of the k smallest squared distances to the other updates.
Distance(x, y) == (x - y) * (x - y)
Score(points, w, k) ==
  Min({MapThenSumSet(LAMBDA v : Distance(points[w], points[v]), near) :
         near \in kSubset(k, DOMAIN points \ {w})})

Selections_Descending(points) ==
  LET n == Cardinality(DOMAIN points)
      k == NumToSelect(n)
      score == [w \in DOMAIN points |-> Score(points, w, k)]
  IN IF FallsBack(n) THEN {DOMAIN points}
     ELSE {s \in kSubset(k, DOMAIN points) :
             \A w \in s, v \in DOMAIN points \ s : score[w] >= score[v]}

\* Of equal scores any may come first.
Selections(points) ==
  LET n == Cardinality(DOMAIN points)
      k == NumToSelect(n)
      score == [w \in DOMAIN points |-> Score(points, w, k)]
  IN IF FallsBack(n) THEN {DOMAIN points}
     ELSE {s \in kSubset(k, DOMAIN points) :
             \A w \in s, v \in DOMAIN points \ s : score[w] <= score[v]}

=============================================================================
