----------------------------- MODULE FiniteSums ------------------------------
(***************************************************************************)
(* Induction over the subsets of a finite set, and what it says of sums:   *)
(* MapThenSumSet adds the elements in the order of a CHOOSE, and the sum   *)
(* does not depend on it. The summand is a function here; a module that    *)
(* sums an operator equates the two by their definitions.                  *)
(***************************************************************************)
EXTENDS Integers, FiniteSets, FiniteSetTheorems, WellFoundedInduction, TLAPS

\* The element a sum takes first, and the recursion that takes it.
First(s) == CHOOSE x \in s : TRUE
Sums(f, F, S) ==
  f = [s \in SUBSET S |-> IF s = {} THEN 0 ELSE F[First(s)] + f[s \ {First(s)}]]

\* The sum of F[x] for x \in S.
Total(F, S) == (CHOOSE f : Sums(f, F, S))[S]

Summable(F, S) == IsFiniteSet(S) /\ \A x \in S : F[x] \in Int

\* H has another summand for k, which may be new, and otherwise those of F.
Puts(F, H, S, k) ==
  Summable(F, S) /\ H[k] \in Int /\ \A x \in S \ {k} : H[x] = F[x]

-----------------------------------------------------------------------------
(* A set of finite sets that has every set whose strict subsets it has, has all. *)
LEMMA FiniteSetStrongInduction ==
  ASSUME NEW S, IsFiniteSet(S), NEW G,
         \A T \in SUBSET S : (\A U \in SUBSET T : U # T => U \in G) => T \in G
  PROVE  S \in G
<1> DEFINE Bad == {T \in SUBSET S : T \notin G}
           R == StrictSubsetOrdering(S)
<1>1. SUFFICES ASSUME Bad # {} PROVE FALSE
  OBVIOUS
<1>2. IsWellFoundedOn(R, SUBSET S)
  BY FS_StrictSubsetOrderingWellFounded, FS_FiniteSubsetsOfFinite
<1>3. PICK T \in Bad : \A U \in Bad : ~ (<<U, T>> \in R)
  <2>1. Bad \subseteq SUBSET S
    OBVIOUS
  <2> HIDE DEF Bad, R
  <2> QED
    BY <1>1, <1>2, <2>1, WFMin
<1>4. ASSUME NEW U \in SUBSET T, U # T PROVE U \in G
  <2>1. <<U, T>> \in R
    BY <1>3, <1>4 DEF StrictSubsetOrdering
  <2> QED
    BY <1>3, <2>1
<1> QED
  BY <1>3, <1>4

(* A set of finite sets that has the empty one, and with every set those with one
   element more, has all. *)
LEMMA FiniteSetInduction ==
  ASSUME NEW S, IsFiniteSet(S), NEW G, {} \in G,
         \A T \in SUBSET S : \A x \in S \ T : T \in G => T \cup {x} \in G
  PROVE  S \in G
<1>1. ASSUME NEW T \in SUBSET S, \A U \in SUBSET T : U # T => U \in G PROVE T \in G
  <2>1. CASE T = {}
    BY <2>1
  <2>2. ASSUME NEW x \in T PROVE T \in G
    <3>1. T \ {x} \in SUBSET T /\ T \ {x} # T /\ x \in S \ (T \ {x})
      OBVIOUS
    <3>2. T \ {x} \in G
      BY <3>1, <1>1
    <3>3. (T \ {x}) \cup {x} = T
      OBVIOUS
    <3> QED
      BY <3>1, <3>2, <3>3
  <2> QED
    BY <2>1, <2>2
<1> QED
  BY <1>1, FiniteSetStrongInduction

(* A set of numbers that has 0, and with every number the next, has all. *)
LEMMA NumberInduction ==
  ASSUME NEW G, 0 \in G, \A n \in Nat : n \in G => n + 1 \in G
  PROVE  \A n \in Nat : n \in G
<1> DEFINE Bad == Nat \ G
           R == OpToRel(<, Nat)
<1>1. SUFFICES ASSUME Bad # {} PROVE FALSE
  OBVIOUS
<1>2. PICK n \in Bad : \A m \in Bad : ~ (<<m, n>> \in R)
  <2>1. Bad \subseteq Nat
    OBVIOUS
  <2>2. IsWellFoundedOn(R, Nat)
    BY NatLessThanWellFounded
  <2> HIDE DEF Bad, R
  <2> QED
    BY <1>1, <2>1, <2>2, WFMin
<1> HIDE DEF R
<1>3. n \in Nat /\ n \notin G
  BY <1>2
<1>4. n - 1 \in Nat /\ n - 1 < n /\ (n - 1) + 1 = n
  BY <1>3
<1>5. <<n - 1, n>> \in R
  BY <1>3, <1>4 DEF R, OpToRel
<1>6. n - 1 \in G
  BY <1>2, <1>4, <1>5
<1> QED
  BY <1>3, <1>4, <1>6

-----------------------------------------------------------------------------
LEMMA FirstElement == ASSUME NEW s, s # {} PROVE First(s) \in s
  BY DEF First

(* Two recursions over the same summand agree where both are defined. *)
LEMMA SumsAgree ==
  ASSUME NEW F, NEW S, NEW T, NEW f, NEW g, Sums(f, F, S), Sums(g, F, T),
         NEW U, U \subseteq S, U \subseteq T, IsFiniteSet(U)
  PROVE  f[U] = g[U]
<1> DEFINE G == {V \in SUBSET U : f[V] = g[V]}
<1>1. ASSUME NEW V \in SUBSET U, \A W \in SUBSET V : W # V => W \in G PROVE V \in G
  <2>1. /\ f[V] = IF V = {} THEN 0 ELSE F[First(V)] + f[V \ {First(V)}]
        /\ g[V] = IF V = {} THEN 0 ELSE F[First(V)] + g[V \ {First(V)}]
    BY Zenon DEF Sums
  <2>2. CASE V = {}
    BY <2>1, <2>2
  <2>3. CASE V # {}
    <3>1. First(V) \in V
      BY <2>3, FirstElement
    <3>2. V \ {First(V)} \in G
      BY <3>1, <1>1
    <3> QED
      BY <2>1, <2>3, <3>2
  <2> QED
    BY <2>2, <2>3
<1>2. U \in G
  <2> HIDE DEF G
  <2> QED
    BY <1>1, FiniteSetStrongInduction
<1> QED
  BY <1>2

(* The recursion has a solution over every finite set. *)
LEMMA SumsExist ==
  ASSUME NEW F, NEW S, IsFiniteSet(S)
  PROVE  \E f : Sums(f, F, S)
<1> DEFINE G == {T \in SUBSET S : \E f : Sums(f, F, T)}
           Of(T) == CHOOSE f : Sums(f, F, T)
<1>1. ASSUME NEW T \in SUBSET S, \A U \in SUBSET T : U # T => U \in G PROVE T \in G
  <2> DEFINE rest == T \ {First(T)}
             g == [s \in SUBSET T |->
                     IF s = {} THEN 0
                     ELSE IF s = T THEN F[First(T)] + Of(rest)[rest]
                     ELSE Of(s)[s]]
  <2>1. ASSUME NEW U \in SUBSET T, U # T PROVE Sums(Of(U), F, U)
    BY <1>1, <2>1, Zenon
  <2>2. ASSUME NEW s \in SUBSET T
        PROVE  g[s] = IF s = {} THEN 0 ELSE F[First(s)] + g[s \ {First(s)}]
    <3>1. CASE s = {}
      BY <3>1
    <3>2. CASE s # {}
      <4> DEFINE r == s \ {First(s)}
      <4>1. r \in SUBSET T /\ r # T /\ r \subseteq s /\ IsFiniteSet(r)
        BY <3>2, FirstElement, FS_Subset
      <4>2. Sums(Of(r), F, r)
        BY <4>1, <2>1
      <4>3. g[r] = Of(r)[r]
        <5>1. CASE r = {}
          <6>1. Of(r)[r] = IF r = {} THEN 0 ELSE F[First(r)] + Of(r)[r \ {First(r)}]
            BY <4>2, Zenon DEF Sums
          <6> QED
            BY <5>1, <6>1, <4>1, Zenon
        <5>2. CASE r # {}
          BY <5>2, <4>1, Zenon
        <5> QED
          BY <5>1, <5>2
      <4>4. CASE s = T
        <5>1. g[T] = F[First(T)] + Of(rest)[rest]
          BY <4>4, <3>2, Zenon
        <5>2. g[rest] = Of(rest)[rest]
          BY <4>3, <4>4
        <5>3. g[T] = F[First(T)] + g[rest]
          BY <5>1, <5>2, Zenon
        <5> QED
          BY <5>3, <4>4, <3>2, Zenon
      <4>5. CASE s # T
        <5>1. Sums(Of(s), F, s)
          BY <4>5, <2>1
        <5>2. Of(s)[s] = IF s = {} THEN 0 ELSE F[First(s)] + Of(s)[r]
          BY <5>1, Zenon DEF Sums
        <5>3. Of(s)[r] = Of(r)[r]
          BY <5>1, <4>2, <4>1, SumsAgree
        <5>4. g[s] = Of(s)[s]
          BY <4>5, <3>2, Zenon
        <5>5. Of(s)[s] = F[First(s)] + Of(s)[r]
          BY <5>2, <3>2, Zenon
        <5>6. Of(s)[r] = g[r]
          BY <5>3, <4>3, Zenon
        <5> HIDE DEF g, Of
        <5> QED
          BY <5>4, <5>5, <5>6, <3>2, Zenon
      <4> QED
        BY <4>4, <4>5
    <3> QED
      BY <3>1, <3>2
  <2>3. Sums(g, F, T)
    <3>1. g = [s \in SUBSET T |-> g[s]]
      OBVIOUS
    <3> HIDE DEF g
    <3>2. [s \in SUBSET T |-> g[s]]
           = [s \in SUBSET T |-> IF s = {} THEN 0 ELSE F[First(s)] + g[s \ {First(s)}]]
      BY <2>2
    <3> QED
      BY <3>1, <3>2, Zenon DEF Sums
  <2> HIDE DEF g
  <2> QED
    BY <2>3, Zenon
<1>2. S \in G
  <2> HIDE DEF G
  <2> QED
    BY <1>1, FiniteSetStrongInduction
<1> QED
  BY <1>2

-----------------------------------------------------------------------------
(* A recursion over a set sums each of its subsets. *)
LEMMA SumsAreTotals ==
  ASSUME NEW F, NEW S, IsFiniteSet(S), NEW f, Sums(f, F, S), NEW T \in SUBSET S
  PROVE  f[T] = Total(F, T)
<1> DEFINE g == CHOOSE h : Sums(h, F, T)
<1>1. IsFiniteSet(T)
  BY FS_Subset
<1>2. Sums(g, F, T)
  BY <1>1, SumsExist, Zenon
<1>3. f[T] = g[T]
  <2> HIDE DEF g
  <2> QED
    BY <1>1, <1>2, SumsAgree
<1> QED
  BY <1>3, Zenon DEF Total

(* A sum takes its first element. *)
LEMMA TotalFirst ==
  ASSUME NEW F, NEW S, IsFiniteSet(S)
  PROVE  Total(F, S) = IF S = {} THEN 0 ELSE F[First(S)] + Total(F, S \ {First(S)})
<1>1. PICK f : Sums(f, F, S)
  BY SumsExist
<1>2. f[S] = Total(F, S)
  BY <1>1, SumsAreTotals
<1>3. ASSUME NEW T \in SUBSET S PROVE f[T] = Total(F, T)
  BY <1>1, SumsAreTotals
<1>4. f[S] = IF S = {} THEN 0 ELSE F[First(S)] + f[S \ {First(S)}]
  BY <1>1, Zenon DEF Sums
<1>5. S \ {First(S)} \in SUBSET S
  OBVIOUS
<1> QED
  BY <1>2, <1>3, <1>4, <1>5, Zenon

LEMMA TotalEmpty == ASSUME NEW F PROVE Total(F, {}) = 0
  BY TotalFirst, FS_EmptySet

(* A sum of integers is an integer, one of natural numbers a natural number. *)
LEMMA TotalType ==
  ASSUME NEW F, NEW S, Summable(F, S)
  PROVE  /\ Total(F, S) \in Int
         /\ (\A x \in S : F[x] \in Nat) => Total(F, S) \in Nat
<1> DEFINE G == {T \in SUBSET S : /\ Total(F, T) \in Int
                                  /\ (\A x \in T : F[x] \in Nat) => Total(F, T) \in Nat}
<1>1. ASSUME NEW T \in SUBSET S, \A U \in SUBSET T : U # T => U \in G PROVE T \in G
  <2>1. Total(F, T) = IF T = {} THEN 0 ELSE F[First(T)] + Total(F, T \ {First(T)})
    BY TotalFirst, FS_Subset DEF Summable
  <2>2. CASE T = {}
    BY <2>1, <2>2
  <2>3. CASE T # {}
    <3>1. First(T) \in T
      BY <2>3, FirstElement
    <3>2. T \ {First(T)} \in G
      BY <3>1, <1>1
    <3> QED
      BY <2>1, <2>3, <3>1, <3>2 DEF Summable
  <2> QED
    BY <2>2, <2>3
<1>2. S \in G
  <2> HIDE DEF G
  <2> QED
    BY <1>1, FiniteSetStrongInduction DEF Summable
<1> QED
  BY <1>2

(* A sum may take any of its elements first. *)
LEMMA TotalRemove ==
  ASSUME NEW F, NEW S, Summable(F, S), NEW x \in S
  PROVE  Total(F, S) = F[x] + Total(F, S \ {x})
<1> DEFINE G == {T \in SUBSET S : \A z \in T : Total(F, T) = F[z] + Total(F, T \ {z})}
<1>1. ASSUME NEW T \in SUBSET S, \A U \in SUBSET T : U # T => U \in G PROVE T \in G
  <2> SUFFICES ASSUME NEW z \in T PROVE Total(F, T) = F[z] + Total(F, T \ {z})
    OBVIOUS
  <2> DEFINE y == First(T)
             both == T \ {y, z}
  <2>1. y \in T
    BY FirstElement
  <2>2. Total(F, T) = F[y] + Total(F, T \ {y})
    BY TotalFirst, FS_Subset DEF Summable
  <2>3. CASE y = z
    BY <2>2, <2>3
  <2>4. CASE y # z
    <3>1. T \ {y} \in G /\ T \ {z} \in G
      BY <1>1, <2>1
    <3>2. (T \ {y}) \ {z} = both /\ (T \ {z}) \ {y} = both
      OBVIOUS
    <3>3. Total(F, T \ {y}) = F[z] + Total(F, both)
      BY <3>1, <3>2, <2>4
    <3>4. Total(F, T \ {z}) = F[y] + Total(F, both)
      BY <3>1, <3>2, <2>4, <2>1
    <3>5. Summable(F, both)
      BY FS_Subset DEF Summable
    <3>6. Total(F, both) \in Int /\ F[y] \in Int /\ F[z] \in Int
      BY <3>5, TotalType, <2>1 DEF Summable
    <3> HIDE DEF y, both
    <3> QED
      BY <2>2, <3>3, <3>4, <3>6
  <2> QED
    BY <2>3, <2>4
<1>2. S \in G
  <2> HIDE DEF G
  <2> QED
    BY <1>1, FiniteSetStrongInduction DEF Summable
<1> QED
  BY <1>2

(* A new element adds its own summand. *)
LEMMA TotalAdd ==
  ASSUME NEW F, NEW S, NEW x, x \notin S, Summable(F, S \cup {x})
  PROVE  Total(F, S \cup {x}) = F[x] + Total(F, S)
<1>1. (S \cup {x}) \ {x} = S
  OBVIOUS
<1> QED
  BY <1>1, TotalRemove

(* A sum depends on the summands of its elements alone. *)
LEMMA TotalAgrees ==
  ASSUME NEW F, NEW H, NEW S, IsFiniteSet(S), \A x \in S : F[x] = H[x]
  PROVE  Total(F, S) = Total(H, S)
<1> DEFINE G == {T \in SUBSET S : Total(F, T) = Total(H, T)}
<1>1. ASSUME NEW T \in SUBSET S, \A U \in SUBSET T : U # T => U \in G PROVE T \in G
  <2>1. /\ Total(F, T) = IF T = {} THEN 0 ELSE F[First(T)] + Total(F, T \ {First(T)})
        /\ Total(H, T) = IF T = {} THEN 0 ELSE H[First(T)] + Total(H, T \ {First(T)})
    BY TotalFirst, FS_Subset
  <2>2. CASE T = {}
    BY <2>1, <2>2
  <2>3. CASE T # {}
    <3>1. First(T) \in T
      BY <2>3, FirstElement
    <3>2. T \ {First(T)} \in G
      BY <3>1, <1>1
    <3> QED
      BY <2>1, <2>3, <3>1, <3>2
  <2> QED
    BY <2>2, <2>3
<1>2. S \in G
  <2> HIDE DEF G
  <2> QED
    BY <1>1, FiniteSetStrongInduction
<1> QED
  BY <1>2

(* Taking an element out takes its summand out. *)
LEMMA TotalWithout ==
  ASSUME NEW F, NEW H, NEW S, Summable(F, S), NEW v \in S, \A x \in S \ {v} : H[x] = F[x]
  PROVE  Total(H, S \ {v}) = Total(F, S) - F[v]
<1>1. Summable(F, S \ {v})
  BY FS_Subset DEF Summable
<1>2. Total(F, S) = F[v] + Total(F, S \ {v})
  BY TotalRemove
<1>3. Total(H, S \ {v}) = Total(F, S \ {v})
  <2>1. IsFiniteSet(S \ {v})
    BY <1>1 DEF Summable
  <2> DEFINE rest == S \ {v}
  <2>2. \A x \in rest : H[x] = F[x]
    OBVIOUS
  <2> HIDE DEF rest
  <2> QED
    BY <2>1, <2>2, TotalAgrees DEF rest
<1>4. F[v] \in Int /\ Total(F, S) \in Int /\ Total(F, S \ {v}) \in Int
  BY <1>1, TotalType DEF Summable
<1> QED
  BY <1>2, <1>3, <1>4

(* Putting one in adds its summand, and replaces what it had if it was there. *)
LEMMA TotalWith ==
  ASSUME NEW F, NEW H, NEW S, NEW k, Puts(F, H, S, k)
  PROVE  Total(H, S \cup {k}) = Total(F, S) + H[k] - (IF k \in S THEN F[k] ELSE 0)
<1> DEFINE rest == S \ {k}
           all == S \cup {k}
<1>1. Summable(H, all)
  BY FS_AddElement DEF Summable, Puts
<1>2. all \ {k} = rest /\ k \in all
  OBVIOUS
<1>3. Total(H, all) = H[k] + Total(H, rest)
  BY <1>1, <1>2, TotalRemove
<1>4. Summable(F, rest)
  BY FS_Subset DEF Summable, Puts
<1>5. Total(H, rest) = Total(F, rest)
  <2>1. IsFiniteSet(rest) /\ \A x \in rest : H[x] = F[x]
    BY <1>4 DEF Summable, Puts
  <2> HIDE DEF rest
  <2> QED
    BY <2>1, TotalAgrees
<1>6. Total(F, rest) \in Int /\ Total(F, S) \in Int
  BY <1>4, TotalType DEF Puts
<1>7. CASE k \in S
  <2>1. Total(F, S) = F[k] + Total(F, rest) /\ F[k] \in Int
    BY <1>7, TotalRemove DEF Summable, Puts
  <2> HIDE DEF rest, all
  <2> QED
    BY <1>3, <1>5, <1>6, <1>7, <2>1 DEF all, Puts
<1>8. CASE k \notin S
  <2>1. rest = S
    BY <1>8
  <2>2. Total(F, rest) = Total(F, S)
    BY <2>1
  <2> HIDE DEF rest, all
  <2> QED
    BY <1>3, <1>5, <1>6, <1>8, <2>2 DEF all, Puts
<1> QED
  BY <1>7, <1>8

=============================================================================
