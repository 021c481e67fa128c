------------------------- MODULE AggregationProofs --------------------------
(***************************************************************************)
(* What becomes of the updates: the masks of a complete round cancel, in a *)
(* part of the updates some are left, and the shares of an incomplete      *)
(* round suffice, for any number of organizations and engines; and of      *)
(* updates without masks Multi-Krum leaves the outliers out.               *)
(***************************************************************************)
EXTENDS SecureAggregation, MultiKrum, FiniteSums, TLAPS

(* Secure aggregation. *)

\* A key names the organization of its engine.
KeysOf(o) == {o} \X Nat
IsKey(k, o) == k = NoKey \/ k \in KeysOf(o)

KeysNameEngines ==
  /\ engines \in [Orgs -> Nat]
  /\ DOMAIN engine = Orgs /\ \A o \in Orgs : IsKey(engine[o], o)
  /\ DOMAIN announced = Orgs /\ \A o \in Orgs : IsKey(announced[o], o)
  /\ Participants \subseteq Orgs /\ \A o \in Participants : IsKey(metadata[o], o)

\* The masks an engine with a key makes for the participants.
MasksWith(key, o) ==
  {[with |-> p, secret |-> SharedSecret(key, metadata[p]), sign |-> IF o < p THEN 1 ELSE -1] :
     p \in Participants \ {o}}

UpdatesMasked ==
  /\ DOMAIN update = Orgs
  /\ \A o \in Submitted :
       /\ update[o].key \in KeysOf(o) /\ update[o].masks = MasksWith(update[o].key, o)
       /\ metadata # NoMetadata

\* Whoever gave a share gave one for everybody who is still missing.
SharesOfMissing ==
  /\ shares # {} => metadata # NoMetadata
  /\ \A x \in shares : \A p \in Participants \ Submitted :
       [by |-> x.by, secret |-> SharedSecret(x.by, metadata[p])] \in shares

\* With a list only those on it submit, and only what was submitted is aggregated.
OfParticipants ==
  /\ selected \subseteq Submitted
  /\ Participants # {} => Submitted \subseteq Participants

AggInv == KeysNameEngines /\ UpdatesMasked /\ SharesOfMissing /\ OfParticipants

-----------------------------------------------------------------------------
(* The sum of the signs of a set is the total of the function with its values. *)
LEMMA SumOfSigns ==
  ASSUME NEW S, IsFiniteSet(S)
  PROVE  MapThenSumSet(LAMBDA e : e.mask.sign, S) = Total([e \in S |-> e.mask.sign], S)
<1> DEFINE F == [e \in S |-> e.mask.sign]
           Rec(f) == f = [s \in SUBSET S |->
                            IF s = {} THEN 0
                            ELSE (CHOOSE x \in s : TRUE).mask.sign
                                   + f[s \ {CHOOSE x \in s : TRUE}]]
           iter == CHOOSE f : Rec(f)
<1>1. ASSUME NEW s \in SUBSET S, s # {} PROVE (CHOOSE x \in s : TRUE).mask.sign = F[First(s)]
  BY <1>1, FirstElement DEF First
<1>2. PICK g : Sums(g, F, S)
  BY SumsExist
<1>3. Rec(g)
  <2> HIDE DEF F
  <2> QED
    BY <1>1, <1>2 DEF Sums, First
<1>4. Rec(iter)
  BY <1>3, Zenon
<1>5. Sums(iter, F, S)
  <2> HIDE DEF F, iter
  <2> QED
    BY <1>1, <1>4 DEF Sums, First
<1>6. MapThenSumSet(LAMBDA e : e.mask.sign, S) = iter[S]
  BY Zenon DEF MapThenSumSet, MapThenFoldSet
<1>7. iter[S] = Total(F, S)
  <2> HIDE DEF F, iter
  <2> QED
    BY <1>5, SumsAreTotals
<1> QED
  BY <1>6, <1>7, Zenon

(* Two masks of opposite signs add up to nothing. *)
LEMMA PairCancels ==
  ASSUME NEW a, NEW b, a.mask.sign = 1, b.mask.sign = -1
  PROVE  MapThenSumSet(LAMBDA e : e.mask.sign, {a, b}) = 0
<1> DEFINE S == {a, b}
           F == [e \in S |-> e.mask.sign]
<1>1. a # b
  OBVIOUS
<1>2. IsFiniteSet(S) /\ IsFiniteSet({b})
  <2>1. IsFiniteSet({a}) /\ IsFiniteSet({b})
    BY FS_Singleton
  <2>2. {a} \cup {b} = {a, b}
    OBVIOUS
  <2>3. IsFiniteSet({a} \cup {b})
    BY <2>1, FS_AddElement
  <2> QED
    BY <2>1, <2>2, <2>3
<1>3. F[a] = 1 /\ F[b] = -1
  OBVIOUS
<1>4. S \ {a} = {b} /\ {b} \ {b} = {}
  BY <1>1
<1>5. Summable(F, S) /\ Summable(F, {b})
  BY <1>2, <1>3 DEF Summable
<1>6. Total(F, S) = F[a] + Total(F, {b})
  BY <1>4, <1>5, TotalRemove
<1>7. Total(F, {b}) = F[b] + Total(F, {})
  BY <1>4, <1>5, TotalRemove
<1>8. Total(F, S) = 0
  BY <1>3, <1>6, <1>7, TotalEmpty
<1> QED
  BY <1>2, <1>8, SumOfSigns

(* The mask of two participants that both masked with listed keys is in the sum
   twice, once with each sign, and no other mask has its secret. *)
LEMMA PairwiseMasksCancel ==
  ASSUME AggInv, NEW W, W \subseteq WithListedKey, NEW o \in W, NEW p \in W, o < p
  PROVE  Residual(W, SharedSecret(metadata[o], metadata[p])) = 0
<1> DEFINE secret == SharedSecret(metadata[o], metadata[p])
           a == [by |-> o, mask |-> [with |-> p, secret |-> secret, sign |-> 1]]
           b == [by |-> p, mask |-> [with |-> o, secret |-> secret, sign |-> -1]]
           S == {e \in MasksOf(W) : e.mask.secret = secret}
<1>1. ASSUME NEW q \in W
      PROVE  /\ q \in Orgs /\ q \in Participants /\ metadata[q] \in KeysOf(q)
             /\ update[q].masks = MasksWith(metadata[q], q)
  BY DEF WithListedKey, Submitted, AggInv, UpdatesMasked
<1>2. o # p /\ ~(p < o)
  <2>1. o \in Int /\ p \in Int
    BY <1>1, AggAssumption
  <2> QED
    BY <2>1
<1>3. a \in S
  <2>1. a.mask \in MasksWith(metadata[o], o)
    BY <1>1, <1>2 DEF MasksWith
  <2> QED
    BY <1>1, <2>1 DEF MasksOf
<1>4. b \in S
  <2>1. secret = SharedSecret(metadata[p], metadata[o])
    BY DEF SharedSecret
  <2>2. b.mask \in MasksWith(metadata[p], p)
    BY <1>1, <1>2, <2>1 DEF MasksWith
  <2> QED
    BY <1>1, <2>2 DEF MasksOf
<1>5. ASSUME NEW e \in S PROVE e \in {a, b}
  <2>1. PICK q \in W : \E mask \in update[q].masks : e = [by |-> q, mask |-> mask]
    BY DEF MasksOf
  <2>0. PICK m \in MasksWith(metadata[q], q) : e = [by |-> q, mask |-> m]
    BY <1>1, <2>1
  <2>2. PICK r \in Participants \ {q} :
          e = [by |-> q, mask |-> [with |-> r, secret |-> SharedSecret(metadata[q], metadata[r]),
                                   sign |-> IF q < r THEN 1 ELSE -1]]
    BY <2>0 DEF MasksWith
  <2>3. {metadata[q], metadata[r]} = {metadata[o], metadata[p]}
    BY <2>2 DEF SharedSecret
  <2>4. /\ metadata[q] \in KeysOf(q) /\ metadata[o] \in KeysOf(o) /\ metadata[p] \in KeysOf(p)
        /\ IsKey(metadata[r], r)
    BY <1>1, <2>2 DEF AggInv, KeysNameEngines
  <2>5. (q = o /\ r = p) \/ (q = p /\ r = o)
    <3>1. q = o \/ q = p
      BY <2>3, <2>4 DEF KeysOf
    <3>2. metadata[r] # NoKey
      <4>1. metadata[o] \in Orgs \X Nat /\ metadata[p] \in Orgs \X Nat
        BY <1>1, <2>4 DEF KeysOf
      <4> QED
        BY <2>3, <4>1, AggAssumption
    <3> QED
      BY <2>2, <2>3, <2>4, <3>1, <3>2 DEF KeysOf, IsKey
  <2> QED
    BY <1>2, <2>2, <2>5 DEF SharedSecret
<1>6. S = {a, b}
  BY <1>3, <1>4, <1>5
<1>7. Residual(W, secret) = MapThenSumSet(LAMBDA e : e.mask.sign, S)
  BY DEF Residual
<1>8. a.mask.sign = 1 /\ b.mask.sign = -1
  OBVIOUS
<1> HIDE DEF a, b, S
<1> QED
  BY <1>6, <1>7, <1>8, PairCancels

(* A secret that is left over was made for somebody who is missing. *)
LEMMA LeftIsOfMissing ==
  ASSUME AggInv, NEW W, W \subseteq WithListedKey, NEW secret \in Left(W)
  PROVE  \E o \in W, p \in Participants \ W : secret = SharedSecret(metadata[o], metadata[p])
<1>1. PICK e \in MasksOf(W) : secret = e.mask.secret
  BY DEF Left
<1>2. PICK q \in W : \E mask \in update[q].masks : e = [by |-> q, mask |-> mask]
  BY <1>1 DEF MasksOf
<1>3. q \in Orgs /\ update[q].masks = MasksWith(metadata[q], q)
  BY DEF WithListedKey, Submitted, AggInv, UpdatesMasked
<1>4. PICK m \in MasksWith(metadata[q], q) : e = [by |-> q, mask |-> m]
  BY <1>2, <1>3
<1>5. PICK r \in Participants \ {q} : secret = SharedSecret(metadata[q], metadata[r])
  BY <1>1, <1>4 DEF MasksWith
<1>6. CASE r \in W
  <2>1. q < r \/ r < q
    <3>1. q \in Int /\ r \in Int
      BY <1>3, <1>5, AggAssumption DEF AggInv, KeysNameEngines
    <3> QED
      BY <1>5, <3>1
  <2>2. SharedSecret(metadata[q], metadata[r]) = SharedSecret(metadata[r], metadata[q])
    BY DEF SharedSecret
  <2>3. Residual(W, secret) = 0
    BY <1>5, <1>6, <2>1, <2>2, PairwiseMasksCancel
  <2> QED
    BY <2>3 DEF Left
<1> QED
  BY <1>5, <1>6

(* The sum of one sign. *)
LEMMA OneRemains ==
  ASSUME NEW a, a.mask.sign \in {1, -1}
  PROVE  MapThenSumSet(LAMBDA e : e.mask.sign, {a}) # 0
<1> DEFINE S == {a}
           F == [e \in S |-> e.mask.sign]
<1>1. IsFiniteSet(S) /\ S \ {a} = {}
  BY FS_Singleton
<1>2. F[a] \in {1, -1} /\ Summable(F, S)
  BY <1>1 DEF Summable
<1>3. Total(F, S) = F[a] + Total(F, {})
  BY <1>1, <1>2, TotalRemove
<1>4. Total(F, S) # 0
  BY <1>2, <1>3, TotalEmpty
<1> QED
  BY <1>1, <1>4, SumOfSigns

(* A mask with somebody whose update is not there, or made with another key than the
   listed one, has no counterpart. *)
LEMMA LoneMaskIsLeft ==
  ASSUME AggInv, \A q \in Participants : metadata[q] # NoKey,
         NEW W, W \subseteq Submitted \cap Participants,
         NEW o \in W, NEW p \in Participants, p # o,
         p \notin W \/ update[o].key # metadata[o]
  PROVE  Left(W) # {}
<1> DEFINE secret == SharedSecret(update[o].key, metadata[p])
           a == [by |-> o, mask |-> [with |-> p, secret |-> secret,
                                     sign |-> IF o < p THEN 1 ELSE -1]]
           S == {e \in MasksOf(W) : e.mask.secret = secret}
<1>1. ASSUME NEW q \in W
      PROVE  update[q].key \in KeysOf(q) /\ update[q].masks = MasksWith(update[q].key, q)
  BY DEF Submitted, AggInv, UpdatesMasked
<1>2. \A q \in Participants : metadata[q] \in KeysOf(q)
  BY DEF AggInv, KeysNameEngines, IsKey
<1>3. a \in S
  <2>1. a.mask \in MasksWith(update[o].key, o)
    BY DEF MasksWith
  <2> QED
    BY <1>1, <2>1 DEF MasksOf
<1>4. ASSUME NEW e \in S PROVE e = a
  <2>1. PICK q \in W : \E mask \in update[q].masks : e = [by |-> q, mask |-> mask]
    BY DEF MasksOf
  <2>2. PICK m \in MasksWith(update[q].key, q) : e = [by |-> q, mask |-> m]
    BY <1>1, <2>1
  <2>3. PICK r \in Participants \ {q} :
          e = [by |-> q, mask |-> [with |-> r, secret |-> SharedSecret(update[q].key, metadata[r]),
                                   sign |-> IF q < r THEN 1 ELSE -1]]
    BY <2>2 DEF MasksWith
  <2>4. {update[q].key, metadata[r]} = {update[o].key, metadata[p]}
    BY <2>3 DEF SharedSecret
  <2>5. /\ update[q].key \in KeysOf(q) /\ update[o].key \in KeysOf(o)
        /\ metadata[r] \in KeysOf(r) /\ metadata[p] \in KeysOf(p)
    BY <1>1, <1>2
  <2>6. q = o /\ r = p
    <3>1. update[q].key = update[o].key \/ update[q].key = metadata[p]
      BY <2>4
    <3>2. CASE update[q].key = update[o].key
      <4>1. q = o
        BY <2>5, <3>2 DEF KeysOf
      <4>2. metadata[r] = metadata[p] \/ metadata[r] = update[o].key
        BY <2>4
      <4>3. metadata[r] # update[o].key
        BY <2>3, <2>5, <4>1 DEF KeysOf
      <4> QED
        BY <2>5, <4>1, <4>2, <4>3 DEF KeysOf
    <3>3. CASE update[q].key = metadata[p]
      <4>1. q = p
        BY <2>5, <3>3 DEF KeysOf
      <4>2. update[o].key = metadata[r]
        BY <2>4, <2>5, <4>1 DEF KeysOf
      <4>3. r = o
        BY <2>5, <4>2 DEF KeysOf
      <4> QED
        BY <4>1, <4>2, <4>3
    <3> QED
      BY <3>1, <3>2, <3>3
  <2> QED
    BY <2>3, <2>6
<1>5. S = {a}
  BY <1>3, <1>4
<1>6. Residual(W, secret) = MapThenSumSet(LAMBDA e : e.mask.sign, S)
  BY DEF Residual
<1>7. a.mask.sign \in {1, -1} /\ a \in MasksOf(W) /\ a.mask.secret = secret
  BY <1>3
<1>8. Residual(W, secret) # 0
  <2> HIDE DEF a, S
  <2> QED
    BY <1>5, <1>6, <1>7, OneRemains
<1> HIDE DEF a, S, secret
<1> QED
  BY <1>7, <1>8 DEF Left

-----------------------------------------------------------------------------
LEMMA AggInitInv == AggInit => AggInv
  BY DEF AggInit, AggInv, KeysNameEngines, UpdatesMasked, SharesOfMissing, OfParticipants,
         Participants, Submitted, IsKey, KeysOf

LEMMA NewEngineInv == ASSUME AggInv, NEW o \in Orgs, NewEngine(o) PROVE AggInv'
<1>1. UNCHANGED <<announced, metadata, update, shares, selected>> /\ Participants' = Participants
      /\ Submitted' = Submitted
  BY DEF NewEngine, Participants, Submitted
<1>2. engines[o] + 1 \in Nat /\ <<o, engines[o] + 1>> \in KeysOf(o)
  BY DEF AggInv, KeysNameEngines, KeysOf
<1>3. engines' \in [Orgs -> Nat] /\ DOMAIN engine' = Orgs
  BY <1>2 DEF NewEngine, AggInv, KeysNameEngines
<1>4. \A q \in Orgs : IsKey(engine'[q], q)
  BY <1>2 DEF NewEngine, AggInv, KeysNameEngines, IsKey
<1>5. KeysNameEngines'
  BY <1>1, <1>3, <1>4 DEF AggInv, KeysNameEngines, IsKey
<1> QED
  BY <1>1, <1>5
  DEF AggInv, UpdatesMasked, SharesOfMissing, OfParticipants, MasksWith, SharedSecret

LEMMA AnnounceInv == ASSUME AggInv, NEW o \in Orgs, Announce(o) PROVE AggInv'
<1>1. UNCHANGED <<engine, engines, metadata, update, shares, selected>>
      /\ Participants' = Participants
      /\ Submitted' = Submitted
  BY DEF Announce, Participants, Submitted
<1>2. DOMAIN announced' = Orgs /\ \A q \in Orgs : IsKey(announced'[q], q)
  BY DEF Announce, AggInv, KeysNameEngines, IsKey
<1>3. KeysNameEngines'
  BY <1>1, <1>2 DEF AggInv, KeysNameEngines
<1> QED
  BY <1>1, <1>3
  DEF AggInv, UpdatesMasked, SharesOfMissing, OfParticipants, MasksWith, SharedSecret

LEMMA OpenEpochInv ==
  ASSUME AggInv, NEW participants \in SUBSET Orgs, OpenEpoch(participants)
  PROVE  AggInv'
<1>1. UNCHANGED <<engine, engines, announced, update, shares, selected>> /\ Submitted' = Submitted
  BY DEF OpenEpoch, Submitted
<1>2. Submitted = {}
  BY DEF OpenEpoch, AggInv, UpdatesMasked
<1>3. Participants' \subseteq Orgs /\ \A q \in Participants' : IsKey(metadata'[q], q)
  BY DEF OpenEpoch, AggInv, KeysNameEngines, Participants, IsKey
<1>4. shares = {}
  BY DEF AggInv, OpenEpoch, SharesOfMissing
<1> QED
  BY <1>1, <1>2, <1>3, <1>4
  DEF AggInv, KeysNameEngines, UpdatesMasked, SharesOfMissing, OfParticipants

LEMMA ApplyMaskingInv == ASSUME AggInv, NEW o \in Orgs, ApplyMasking(o) PROVE AggInv'
<1>1. UNCHANGED <<engine, engines, announced, metadata, shares>> /\ Participants' = Participants
  BY DEF ApplyMasking, Participants
<1>2. KeysNameEngines'
  BY <1>1 DEF AggInv, KeysNameEngines
<1>3. engine[o] \in KeysOf(o)
  BY DEF ApplyMasking, AggInv, KeysNameEngines, IsKey
<1>4. DOMAIN update' = Orgs /\ update'[o] = [key |-> engine[o], masks |-> Masks(o)]
      /\ \A q \in Orgs \ {o} : update'[q] = update[q]
  BY DEF ApplyMasking, AggInv, UpdatesMasked
<1>5. UpdatesMasked'
  <2> SUFFICES ASSUME NEW q \in Submitted'
               PROVE  /\ update'[q].key \in KeysOf(q)
                      /\ update'[q].masks = MasksWith(update'[q].key, q)
                      /\ metadata # NoMetadata
    BY <1>1, <1>4 DEF UpdatesMasked, MasksWith, SharedSecret
  <2>1. CASE q = o
    BY <2>1, <1>3, <1>4 DEF Masks, MasksWith, ApplyMasking
  <2>2. CASE q # o
    <3>1. q \in Submitted /\ update'[q] = update[q]
      BY <2>2, <1>4 DEF Submitted
    <3> QED
      BY <3>1 DEF AggInv, UpdatesMasked
  <2> QED
    BY <2>1, <2>2
<1>6. Submitted \subseteq Submitted'
  BY <1>4 DEF Submitted, ApplyMasking
<1>7. SharesOfMissing'
  BY <1>1, <1>6 DEF AggInv, SharesOfMissing, SharedSecret
<1>8. OfParticipants'
  <2>1. selected' = {} /\ Submitted' \subseteq Submitted \cup {o}
    BY <1>4 DEF ApplyMasking, Submitted
  <2> QED
    BY <1>1, <2>1 DEF AggInv, OfParticipants, ApplyMasking
<1> QED
  BY <1>2, <1>5, <1>7, <1>8 DEF AggInv

LEMMA ProvideSharesInv == ASSUME AggInv, NEW o \in Orgs, ProvideShares(o) PROVE AggInv'
<1>1. UNCHANGED <<engine, engines, announced, metadata, update, selected>>
      /\ Participants' = Participants
      /\ Submitted' = Submitted
  BY DEF ProvideShares, Participants, Submitted
<1>2. KeysNameEngines' /\ UpdatesMasked'
  BY <1>1 DEF AggInv, KeysNameEngines, UpdatesMasked, MasksWith, SharedSecret
<1>8. OfParticipants'
  BY <1>1 DEF AggInv, OfParticipants
<1>3. metadata # NoMetadata
  BY DEF ProvideShares, AggInv, UpdatesMasked
<1> DEFINE given == {[by |-> engine[o], secret |-> SharedSecret(engine[o], metadata[p])] :
                       p \in Participants \ Submitted}
<1>4. shares' = shares \cup given
  BY DEF ProvideShares
<1>5. ASSUME NEW x \in shares', NEW p \in Participants \ Submitted
      PROVE  [by |-> x.by, secret |-> SharedSecret(x.by, metadata[p])] \in shares'
  <2>1. CASE x \in shares
    BY <1>4, <2>1 DEF AggInv, SharesOfMissing
  <2>2. CASE x \in given
    <3>1. x.by = engine[o]
      BY <2>2
    <3> QED
      BY <1>4, <3>1
  <2> QED
    BY <1>4, <2>1, <2>2
<1>6. SharesOfMissing'
  BY <1>1, <1>3, <1>5 DEF SharesOfMissing, SharedSecret
<1> QED
  BY <1>2, <1>6, <1>8 DEF AggInv

(* The invariant in every reachable state. *)
LEMMA AggAlwaysInv == AggSpec => []AggInv
<1>1. AggInv /\ [AggNext]_aggVars => AggInv'
  <2> SUFFICES ASSUME AggInv, [AggNext]_aggVars PROVE AggInv'
    OBVIOUS
  <2>1. CASE Aggregate \/ UNCHANGED aggVars
    <3>1. UNCHANGED <<engine, engines, announced, metadata, update, shares>>
          /\ Participants' = Participants /\ Submitted' = Submitted
      BY <2>1 DEF Aggregate, aggVars, Participants, Submitted
    <3>2. OfParticipants'
      <4>1. selected' \subseteq Submitted
        BY <2>1 DEF Aggregate, aggVars, kSubset, AggInv, OfParticipants
      <4> QED
        BY <3>1, <4>1 DEF AggInv, OfParticipants
    <3> QED
      BY <3>1, <3>2
      DEF AggInv, KeysNameEngines, UpdatesMasked, SharesOfMissing, MasksWith, SharedSecret
  <2> QED
    BY <2>1, NewEngineInv, AnnounceInv, OpenEpochInv, ApplyMaskingInv, ProvideSharesInv DEF AggNext
<1> QED
  BY AggInitInv, <1>1, PTL DEF AggSpec

(* Once there are mates and keys, the aggregate is free of masks exactly when it is
   the mean of everybody who is listed and each masked with the engine the list
   names: for any number of organizations, any selection, and in whatever order
   engines were created, announced and used. *)
THEOREM UnmaskedExactlyHolds == AggSpec => []UnmaskedExactlyWhenComplete
<1>1. AggInv => UnmaskedExactlyWhenComplete
  <2> SUFFICES ASSUME AggInv, \E o, p \in Participants : o # p,
                      \A o \in Participants : metadata[o] # NoKey, selected # {}
               PROVE  Left(selected) = {} <=> selected = Participants /\ WithListedKey = Participants
    BY DEF UnmaskedExactlyWhenComplete
  <2>1. ASSUME selected = Participants, WithListedKey = Participants PROVE Left(selected) = {}
    <3>1. Participants \ Participants = {}
      OBVIOUS
    <3> QED
      BY <2>1, <3>1, LeftIsOfMissing
  <2>2. selected \subseteq Submitted \cap Participants
    BY DEF AggInv, OfParticipants
  <2>3. ASSUME selected # Participants PROVE Left(selected) # {}
    <3>1. PICK o \in selected, p \in Participants \ selected : TRUE
      BY <2>2, <2>3
    <3> QED
      BY <2>2, <3>1, LoneMaskIsLeft
  <2>4. ASSUME selected = Participants, WithListedKey # Participants PROVE Left(selected) # {}
    <3>1. PICK o \in Participants : update[o].key # metadata[o]
      BY <2>2, <2>4 DEF WithListedKey
    <3>2. PICK p \in Participants : p # o
      OBVIOUS
    <3> QED
      BY <2>2, <2>4, <3>1, <3>2, LoneMaskIsLeft
  <2> QED
    BY <2>1, <2>3, <2>4
<1> QED
  BY AggAlwaysInv, <1>1, PTL

(* The shares of all who submitted contain the secret of every mask that is left,
   whoever was missing when they were asked. *)
THEOREM SharesSufficeHolds == AggSpec => []SharesSuffice
<1>1. AggInv => SharesSuffice
  <2> SUFFICES ASSUME AggInv, Submitted \cap Participants = WithListedKey,
                      \A o \in WithListedKey : metadata[o] \in {s.by : s \in shares},
                      NEW secret \in Left(WithListedKey)
               PROVE  secret \in {s.secret : s \in shares}
    BY DEF SharesSuffice
  <2>1. PICK o \in WithListedKey, p \in Participants \ WithListedKey :
          secret = SharedSecret(metadata[o], metadata[p])
    BY LeftIsOfMissing
  <2>2. PICK x \in shares : x.by = metadata[o]
    OBVIOUS
  <2>3. p \in Participants \ Submitted
    OBVIOUS
  <2>4. [by |-> x.by, secret |-> SharedSecret(x.by, metadata[p])] \in shares
    BY <2>3 DEF AggInv, SharesOfMissing
  <2> QED
    BY <2>1, <2>2, <2>4
<1> QED
  BY AggAlwaysInv, <1>1, PTL

(* A key is one of the engines its organization has created, and the aggregate is
   of updates that were submitted. *)
THEOREM AggTypesHold == AggSpec => []AggTypeOK
<1>1. AggInit => AggTypeOK
  BY AggAssumption DEF AggInit, AggTypeOK, Participants
<1>2. ASSUME AggInv, AggTypeOK, [AggNext]_aggVars PROVE AggTypeOK'
  <2> USE DEF AggTypeOK
  <2>1. ASSUME NEW o \in Orgs, NewEngine(o) PROVE AggTypeOK'
    <3>1. /\ engines' \in [Orgs -> 0..MaxEngines]
          /\ engines'[o] = engines[o] + 1 /\ engines[o] \in Nat
          /\ \A p \in Orgs \ {o} : engines'[p] = engines[p]
      BY <1>2, <2>1, AggAssumption DEF NewEngine
    <3>2. /\ engine'[o] = <<o, engines'[o]>>
          /\ \A p \in Orgs \ {o} : engine'[p] = engine[p]
      BY <1>2, <2>1, <3>1 DEF NewEngine, AggInv, KeysNameEngines
    <3>3. \A p \in Orgs : announced[p] = NoKey \/ announced[p][2] <= engines'[p]
      <4> SUFFICES ASSUME NEW p \in Orgs, announced[p] # NoKey PROVE announced[p][2] <= engines'[p]
        OBVIOUS
      <4>1. announced[p] \in {p} \X Nat
        BY <1>2 DEF AggInv, KeysNameEngines, IsKey, KeysOf
      <4>2. announced[p][2] \in Nat /\ announced[p][2] <= engines[p]
        BY <1>2, <4>1
      <4> QED
        BY <3>1, <4>2
    <3> QED
      BY <1>2, <2>1, <3>1, <3>2, <3>3 DEF NewEngine, Participants, Submitted
  <2>2. ASSUME NEW o \in Orgs, Announce(o) PROVE AggTypeOK'
    <3>1. engine[o] = <<o, engines[o]>> /\ engines[o] \in Nat
      BY <1>2, <2>2 DEF Announce
    <3>2. engine[o][2] <= engines[o]
      BY <3>1
    <3> QED
      BY <1>2, <2>2, <3>2 DEF Announce, Participants, Submitted, AggInv, KeysNameEngines
  <2>3. ASSUME NEW participants \in SUBSET Orgs, OpenEpoch(participants) PROVE AggTypeOK'
    BY <1>2, <2>3 DEF OpenEpoch, Participants, Submitted
  <2>4. ASSUME NEW o \in Orgs, ApplyMasking(o) PROVE AggTypeOK'
    BY <1>2, <2>4 DEF ApplyMasking, Participants, Submitted
  <2>5. ASSUME NEW o \in Orgs, ProvideShares(o) PROVE AggTypeOK'
    BY <1>2, <2>5 DEF ProvideShares, Participants, Submitted
  <2>6. CASE Aggregate
    BY <1>2, <2>6 DEF Aggregate, Participants, Submitted, kSubset
  <2>7. CASE UNCHANGED aggVars
    BY <1>2, <2>7 DEF aggVars, Participants, Submitted
  <2> QED
    BY <1>2, <2>1, <2>2, <2>3, <2>4, <2>5, <2>6, <2>7 DEF AggNext
<1> QED
  BY <1>1, <1>2, AggAlwaysInv, PTL DEF AggSpec

-----------------------------------------------------------------------------
(* Multi-Krum. *)

\* The distances from the update of w, and their sum in the code's form.
Away(p, w, S) == [v \in S |-> Distance(p[w], p[v])]
SumTo(p, w, S) == MapThenSumSet(LAMBDA v : Distance(p[w], p[v]), S)

Updates(p) == IsFiniteSet(DOMAIN p) /\ \A w \in DOMAIN p : p[w] \in Int

Correct(p) == {w \in DOMAIN p : p[w] \in Good}
Faulty(p) == {w \in DOMAIN p : p[w] \in Bad}

\* Few enough outliers, far enough away, for a selection of k.
Outnumbered(p, k) ==
  /\ Updates(p) /\ k \in Nat /\ DOMAIN p = Correct(p) \cup Faulty(p)
  /\ Cardinality(DOMAIN p) = 2 * k + 1 /\ 2 * k + 1 <= Cardinality(Workers)
  /\ Cardinality(Faulty(p)) < k

KrumInv ==
  /\ DOMAIN points \subseteq Workers /\ \A w \in DOMAIN points : points[w] \in Good \cup Bad
  /\ inMean = {} \/ inMean \in Selections(points)
-----------------------------------------------------------------------------
(* A distance is a natural number: the square of the difference. *)
LEMMA DistanceType == ASSUME NEW x \in Int, NEW y \in Int PROVE Distance(x, y) \in Nat
<1> DEFINE z == x - y
<1>1. z \in Int
  OBVIOUS
<1>2. Distance(x, y) = z * z
  BY DEF Distance
<1> HIDE DEF z
<1>3. z * z >= 0 /\ z * z \in Int
  BY <1>1
<1> QED
  BY <1>2, <1>3

(* The score adds distances in an order that does not matter. *)
LEMMA SumOfDistances ==
  ASSUME NEW p, NEW w, NEW S, IsFiniteSet(S)
  PROVE  SumTo(p, w, S) = Total(Away(p, w, S), S)
<1> DEFINE F == [v \in S |-> Distance(p[w], p[v])]
           Rec(f) == f = [s \in SUBSET S |->
                            IF s = {} THEN 0
                            ELSE Distance(p[w], p[CHOOSE x \in s : TRUE])
                                   + f[s \ {CHOOSE x \in s : TRUE}]]
           iter == CHOOSE f : Rec(f)
<1>1. ASSUME NEW s \in SUBSET S, s # {}
      PROVE  Distance(p[w], p[CHOOSE x \in s : TRUE]) = F[First(s)]
  BY <1>1, FirstElement DEF First
<1>2. PICK g : Sums(g, F, S)
  BY SumsExist
<1>3. Rec(g)
  <2> HIDE DEF F
  <2> QED
    BY <1>1, <1>2 DEF Sums, First
<1>4. Rec(iter)
  BY <1>3, Zenon
<1>5. Sums(iter, F, S)
  <2> HIDE DEF F, iter
  <2> QED
    BY <1>1, <1>4 DEF Sums, First
<1>6. SumTo(p, w, S) = iter[S]
  BY Zenon DEF SumTo, MapThenSumSet, MapThenFoldSet
<1>7. iter[S] = Total(F, S)
  <2> HIDE DEF F, iter
  <2> QED
    BY <1>5, SumsAreTotals
<1> QED
  BY <1>6, <1>7, Zenon DEF Away

(* The distances to a finite set of updates, one by one. *)
LEMMA AwayIs ==
  ASSUME NEW p, Updates(p), NEW w \in DOMAIN p, NEW S \in SUBSET DOMAIN p
  PROVE  /\ Summable(Away(p, w, S), S) /\ IsFiniteSet(S)
         /\ \A v \in S : /\ Away(p, w, S)[v] = Distance(p[w], p[v])
                         /\ Away(p, w, S)[v] \in Nat
         /\ SumTo(p, w, S) = Total(Away(p, w, S), S)
         /\ SumTo(p, w, S) \in Nat
<1> DEFINE F == Away(p, w, S)
<1>1. IsFiniteSet(S)
  BY FS_Subset DEF Updates
<1>2. ASSUME NEW v \in S PROVE F[v] = Distance(p[w], p[v]) /\ F[v] \in Nat
  <2>1. p[w] \in Int /\ p[v] \in Int
    BY DEF Updates
  <2> QED
    BY <2>1, DistanceType DEF Away
<1>3. SumTo(p, w, S) = Total(F, S)
  BY <1>1, SumOfDistances
<1> HIDE DEF F
<1>4. Summable(F, S)
  BY <1>1, <1>2 DEF Summable
<1>5. Total(F, S) \in Nat
  BY <1>2, <1>4, TotalType
<1> QED
  BY <1>1, <1>2, <1>3, <1>4, <1>5 DEF F

-----------------------------------------------------------------------------
(* A sum of k distances none of which exceeds d is at most k * d. *)
LEMMA TotalAtMost ==
  ASSUME NEW F, NEW S, Summable(F, S), NEW d \in Nat, \A x \in S : F[x] <= d
  PROVE  Total(F, S) <= Cardinality(S) * d
<1> DEFINE G == {T \in SUBSET S : Total(F, T) <= Cardinality(T) * d}
<1>1. {} \in G
  BY TotalEmpty, FS_EmptySet
<1>2. ASSUME NEW T \in SUBSET S, NEW x \in S \ T, T \in G PROVE T \cup {x} \in G
  <2>1. IsFiniteSet(T) /\ T \cup {x} \in SUBSET S /\ Summable(F, T) /\ Summable(F, T \cup {x})
    BY <1>2, FS_Subset, FS_AddElement DEF Summable
  <2>2. Total(F, T \cup {x}) = F[x] + Total(F, T) /\ Total(F, T) \in Int
    BY <1>2, <2>1, TotalAdd, TotalType
  <2>3. Cardinality(T \cup {x}) = Cardinality(T) + 1 /\ Cardinality(T) \in Nat
    BY <1>2, <2>1, FS_AddElement, FS_CardinalityType
  <2> DEFINE c == Cardinality(T)
  <2>4. Total(F, T) <= c * d /\ F[x] <= d /\ F[x] \in Int
    BY <1>2 DEF Summable
  <2>5. c \in Nat
    BY <2>3
  <2> HIDE DEF c
  <2>6. (c + 1) * d = c * d + d /\ c * d \in Int
    BY <2>5
  <2>7. Total(F, T \cup {x}) <= (c + 1) * d
    BY <2>2, <2>4, <2>6
  <2> QED
    BY <2>1, <2>3, <2>7 DEF c
<1> HIDE DEF G
<1>3. S \in G
  BY <1>1, <1>2, FiniteSetInduction DEF Summable
<1> QED
  BY <1>3 DEF G

(* A sum of distances is at least the sum of two of them. *)
LEMMA TotalAtLeast ==
  ASSUME NEW F, NEW S, Summable(F, S), \A x \in S : F[x] \in Nat,
         NEW y \in S, NEW z \in S, y # z
  PROVE  F[y] + F[z] <= Total(F, S)
<1>1. Summable(F, S \ {y}) /\ Summable(F, (S \ {y}) \ {z}) /\ z \in S \ {y}
  BY FS_Subset DEF Summable
<1>2. /\ Total(F, S) = F[y] + Total(F, S \ {y})
      /\ Total(F, S \ {y}) = F[z] + Total(F, (S \ {y}) \ {z})
  BY <1>1, TotalRemove
<1>3. Total(F, (S \ {y}) \ {z}) \in Nat
  BY <1>1, TotalType
<1> QED
  BY <1>2, <1>3

(* A finite set has subsets of every smaller size. *)
LEMMA SubsetOfSize ==
  ASSUME NEW S, IsFiniteSet(S), NEW k \in Nat, k <= Cardinality(S)
  PROVE  \E T \in SUBSET S : Cardinality(T) = k
<1> DEFINE G == {U \in SUBSET S : k <= Cardinality(U) => \E T \in SUBSET U : Cardinality(T) = k}
<1>1. {} \in G
  BY FS_EmptySet
<1>2. ASSUME NEW U \in SUBSET S, NEW x \in S \ U, U \in G PROVE U \cup {x} \in G
  <2>1. IsFiniteSet(U) /\ Cardinality(U) \in Nat /\ Cardinality(U \cup {x}) = Cardinality(U) + 1
    BY <1>2, FS_Subset, FS_AddElement, FS_CardinalityType
  <2>2. CASE k <= Cardinality(U)
    BY <1>2, <2>2
  <2>3. CASE ~(k <= Cardinality(U))
    <3>1. k <= Cardinality(U) + 1 => Cardinality(U \cup {x}) = k
      BY <2>1, <2>3
    <3> QED
      BY <2>1, <3>1
  <2> QED
    BY <2>2, <2>3
<1> HIDE DEF G
<1>3. S \in G
  BY <1>1, <1>2, FiniteSetInduction
<1> QED
  BY <1>3 DEF G

(* Two elements of a set that has at least two. *)
LEMMA TwoElements ==
  ASSUME NEW S, IsFiniteSet(S), Cardinality(S) >= 2
  PROVE  \E y, z \in S : y # z
<1>1. PICK y \in S : TRUE
  BY FS_EmptySet
<1>2. Cardinality(S \ {y}) = Cardinality(S) - 1 /\ IsFiniteSet(S \ {y})
  BY FS_RemoveElement
<1>3. S \ {y} # {}
  BY <1>2, FS_EmptySet, FS_CardinalityType
<1> QED
  BY <1>1, <1>3

(* A set of natural numbers that is not empty has a least one. *)
LEMMA LeastNumber ==
  ASSUME NEW T, T \subseteq Nat, T # {}
  PROVE  \E n \in T : \A m \in T : n <= m
<1> DEFINE R == OpToRel(<, Nat)
<1>1. IsWellFoundedOn(R, Nat)
  BY NatLessThanWellFounded
<1>2. PICK n \in T : \A m \in T : ~ (<<m, n>> \in R)
  <2> HIDE DEF R
  <2> QED
    BY <1>1, WFMin
<1>3. ASSUME NEW m \in T PROVE n <= m
  <2>1. m \in Nat /\ n \in Nat
    OBVIOUS
  <2>2. ~(m < n)
    BY <1>2, <2>1 DEF OpToRel
  <2> QED
    BY <2>1, <2>2
<1> QED
  BY <1>3

-----------------------------------------------------------------------------
(* A score is the smallest of the sums over the sets of k other updates. *)
LEMMA ScoreIs ==
  ASSUME NEW p, Updates(p), NEW w \in DOMAIN p, NEW k \in Nat, k < Cardinality(DOMAIN p)
  PROVE  /\ \E near \in kSubset(k, DOMAIN p \ {w}) : Score(p, w, k) = SumTo(p, w, near)
         /\ \A near \in kSubset(k, DOMAIN p \ {w}) : Score(p, w, k) <= SumTo(p, w, near)
<1> DEFINE K == kSubset(k, DOMAIN p \ {w})
           T == {SumTo(p, w, near) : near \in K}
<1>1. Score(p, w, k) = CHOOSE n \in T : \A m \in T : n <= m
  BY Zenon DEF Score, SumTo, Min
<1>2. \A near \in K : SumTo(p, w, near) \in Nat
  <2>1. ASSUME NEW near \in K PROVE SumTo(p, w, near) \in Nat
    <3>1. near \in SUBSET DOMAIN p
      BY DEF kSubset
    <3> QED
      BY <3>1, AwayIs
  <2> QED
    BY <2>1
<1>3. K # {}
  <2>1. /\ IsFiniteSet(DOMAIN p \ {w})
        /\ Cardinality(DOMAIN p \ {w}) = Cardinality(DOMAIN p) - 1
        /\ Cardinality(DOMAIN p) \in Nat
    BY FS_RemoveElement, FS_CardinalityType DEF Updates
  <2>2. k <= Cardinality(DOMAIN p \ {w})
    BY <2>1
  <2>3. PICK S \in SUBSET (DOMAIN p \ {w}) : Cardinality(S) = k
    BY <2>1, <2>2, SubsetOfSize
  <2> QED
    BY <2>3 DEF kSubset
<1> HIDE DEF K
<1>4. T \subseteq Nat /\ T # {}
  BY <1>2, <1>3
<1>5. \E n \in T : \A m \in T : n <= m
  <2> HIDE DEF T
  <2> QED
    BY <1>4, LeastNumber
<1>6. Score(p, w, k) \in T /\ \A m \in T : Score(p, w, k) <= m
  <2> HIDE DEF T
  <2> QED
    BY <1>1, <1>5
<1> QED
  BY <1>6 DEF K

(* How many updates are correct, and which there are besides. *)
LEMMA Counted ==
  ASSUME NEW p, NEW k, Outnumbered(p, k)
  PROVE  /\ IsFiniteSet(Correct(p)) /\ IsFiniteSet(Faulty(p))
         /\ Cardinality(Correct(p)) \in Nat /\ Cardinality(Faulty(p)) \in Nat
         /\ Cardinality(Correct(p)) > k + 1
         /\ k < Cardinality(DOMAIN p)
<1>1. IsFiniteSet(DOMAIN p) /\ Correct(p) \subseteq DOMAIN p /\ Faulty(p) \subseteq DOMAIN p
  BY DEF Outnumbered, Updates, Correct, Faulty
<1>2. IsFiniteSet(Correct(p)) /\ IsFiniteSet(Faulty(p)) /\ IsFiniteSet(Correct(p) \cap Faulty(p))
  BY <1>1, FS_Subset
<1>3. /\ Cardinality(Correct(p)) \in Nat /\ Cardinality(Faulty(p)) \in Nat
      /\ Cardinality(Correct(p) \cap Faulty(p)) \in Nat
  BY <1>2, FS_CardinalityType
<1>4. Cardinality(DOMAIN p)
        = Cardinality(Correct(p)) + Cardinality(Faulty(p)) - Cardinality(Correct(p) \cap Faulty(p))
  BY <1>2, FS_Union DEF Outnumbered
<1> QED
  BY <1>2, <1>3, <1>4 DEF Outnumbered

(* A correct update has k correct ones within d. *)
LEMMA CorrectScore ==
  ASSUME NEW p, NEW k, Outnumbered(p, k), NEW d \in Nat, Separated(d), NEW w \in Correct(p)
  PROVE  Score(p, w, k) \in Nat /\ Score(p, w, k) <= k * d
<1>1. Updates(p) /\ k \in Nat /\ w \in DOMAIN p /\ k < Cardinality(DOMAIN p)
  BY Counted DEF Outnumbered, Correct
<1>2. /\ IsFiniteSet(Correct(p) \ {w})
      /\ Cardinality(Correct(p) \ {w}) = Cardinality(Correct(p)) - 1
  BY Counted, FS_RemoveElement
<1>3. k <= Cardinality(Correct(p) \ {w})
  BY <1>1, <1>2, Counted
<1>4. PICK S \in SUBSET (Correct(p) \ {w}) : Cardinality(S) = k
  BY <1>1, <1>2, <1>3, SubsetOfSize
<1>5. S \in SUBSET DOMAIN p /\ S \in kSubset(k, DOMAIN p \ {w})
  BY <1>4 DEF kSubset, Correct
<1> DEFINE F == Away(p, w, S)
<1>6. /\ Summable(F, S) /\ \A v \in S : F[v] = Distance(p[w], p[v])
      /\ SumTo(p, w, S) = Total(F, S) /\ SumTo(p, w, S) \in Nat
  BY <1>1, <1>5, AwayIs
<1>7. \A v \in S : F[v] <= d
  <2>1. ASSUME NEW v \in S PROVE F[v] <= d
    <3>1. p[w] \in Good /\ p[v] \in Good
      BY <1>4 DEF Correct
    <3>2. Distance(p[w], p[v]) <= d
      BY <3>1 DEF Separated
    <3> HIDE DEF F
    <3> QED
      BY <1>6, <3>2
  <2> QED
    BY <2>1
<1> HIDE DEF F
<1>8. Total(F, S) <= k * d
  BY <1>4, <1>6, <1>7, TotalAtMost
<1>9. Score(p, w, k) <= SumTo(p, w, S) /\ Score(p, w, k) \in Nat
  <2>1. PICK near \in kSubset(k, DOMAIN p \ {w}) : Score(p, w, k) = SumTo(p, w, near)
    BY <1>1, ScoreIs
  <2>2. near \in SUBSET DOMAIN p
    BY DEF kSubset
  <2>3. SumTo(p, w, near) \in Nat
    BY <1>1, <2>2, AwayIs
  <2> QED
    BY <1>1, <1>5, <2>1, <2>3, ScoreIs
<1>10. k * d \in Nat
  BY <1>1
<1> QED
  BY <1>6, <1>8, <1>9, <1>10

(* Among the k updates nearest to an outlier there are at least two correct ones. *)
LEMMA FaultyScore ==
  ASSUME NEW p, NEW k, Outnumbered(p, k), NEW d \in Nat, Separated(d), NEW w \in Faulty(p)
  PROVE  Score(p, w, k) \in Nat /\ k * d < Score(p, w, k)
<1>1. Updates(p) /\ k \in Nat /\ w \in DOMAIN p /\ k < Cardinality(DOMAIN p) /\ p[w] \in Bad
  BY Counted DEF Outnumbered, Faulty
<1>2. PICK S \in kSubset(k, DOMAIN p \ {w}) : Score(p, w, k) = SumTo(p, w, S)
  BY <1>1, ScoreIs
<1>3. S \in SUBSET DOMAIN p /\ w \notin S /\ Cardinality(S) = k
  BY DEF kSubset
<1>4. \E y, z \in S : y # z /\ y \in Correct(p) /\ z \in Correct(p)
  <2> DEFINE others == Faulty(p) \ {w}
             C == S \ others
  <2>1. IsFiniteSet(others) /\ Cardinality(others) = Cardinality(Faulty(p)) - 1
    BY Counted, FS_RemoveElement
  <2>2. IsFiniteSet(S) /\ IsFiniteSet(C) /\ IsFiniteSet(C \cap others)
    BY <1>1, <1>3, FS_Subset DEF Updates
  <2>3. IsFiniteSet(C \cup others) /\ S \subseteq C \cup others /\ C \cap others = {}
    BY <2>1, <2>2, FS_Union
  <2>4. /\ Cardinality(C \cup others) = Cardinality(C) + Cardinality(others) - 0
        /\ Cardinality(S) <= Cardinality(C \cup others)
    <3>1. Cardinality(C \cup others)
            = Cardinality(C) + Cardinality(others) - Cardinality(C \cap others)
      BY <2>1, <2>2, FS_Union
    <3>2. Cardinality(S) <= Cardinality(C \cup others)
      BY <2>3, FS_Subset
    <3> QED
      BY <2>3, <3>1, <3>2, FS_EmptySet
  <2>5. Cardinality(C) \in Nat /\ Cardinality(others) \in Nat
    BY <2>1, <2>2, FS_CardinalityType
  <2>6. Cardinality(Faulty(p)) < k /\ Cardinality(Faulty(p)) \in Nat
    BY Counted DEF Outnumbered
  <2>7. Cardinality(C) >= 2
    BY <1>1, <1>3, <2>1, <2>4, <2>5, <2>6
  <2>8. PICK y \in C, z \in C : y # z
    <3> HIDE DEF C
    <3> QED
      BY <2>2, <2>7, TwoElements
  <2>9. C \subseteq Correct(p)
    BY <1>3 DEF Outnumbered
  <2> QED
    BY <2>8, <2>9
<1>5. PICK y \in S, z \in S : y # z /\ y \in Correct(p) /\ z \in Correct(p)
  BY <1>4
<1> DEFINE F == Away(p, w, S)
<1>6. /\ Summable(F, S)
      /\ \A v \in S : F[v] = Distance(p[w], p[v]) /\ F[v] \in Nat
      /\ SumTo(p, w, S) = Total(F, S) /\ SumTo(p, w, S) \in Nat
  BY <1>1, <1>3, AwayIs
<1> HIDE DEF F
<1>7. F[y] + F[z] <= Total(F, S)
  BY <1>5, <1>6, TotalAtLeast
<1> DEFINE n == Cardinality(Workers)
<1>8. n * d < 4 * F[y] /\ n * d < 4 * F[z]
  <2>1. p[y] \in Good /\ p[z] \in Good
    BY <1>5 DEF Correct
  <2>2. n * d < 4 * Distance(p[w], p[y]) /\ n * d < 4 * Distance(p[w], p[z])
    BY <1>1, <2>1 DEF Separated
  <2> QED
    BY <1>6, <2>2
<1>9. n \in Nat /\ 2 * k <= n
  BY <1>1, FS_CardinalityType, KrumAssumption DEF Outnumbered
<1> HIDE DEF n
<1>10. 2 * (k * d) <= n * d /\ k * d \in Nat /\ n * d \in Nat
  <2>1. PICK r \in Nat : n = 2 * k + r
    <3>1. n - 2 * k \in Nat /\ n = 2 * k + (n - 2 * k)
      BY <1>1, <1>9
    <3> QED
      BY <3>1
  <2>2. n * d = 2 * (k * d) + r * d /\ r * d \in Nat /\ k * d \in Nat /\ n * d \in Nat
    BY <1>1, <1>9, <2>1
  <2> QED
    BY <2>2
<1>11. F[y] \in Nat /\ F[z] \in Nat
  BY <1>6
<1> QED
  BY <1>2, <1>6, <1>7, <1>8, <1>10, <1>11

(* No selection of the k best scores has an outlier in it. *)
LEMMA NoneSelected ==
  ASSUME NEW p, NEW k, Outnumbered(p, k), NEW d \in Nat, Separated(d),
         NEW S \in kSubset(k, DOMAIN p),
         \A w \in S, v \in DOMAIN p \ S : Score(p, w, k) <= Score(p, v, k)
  PROVE  S \cap Faulty(p) = {}
<1>1. SUFFICES ASSUME NEW w \in S, w \in Faulty(p) PROVE FALSE
  OBVIOUS
<1>2. k \in Nat /\ S \subseteq DOMAIN p /\ Cardinality(S) = k /\ IsFiniteSet(S)
  BY FS_Subset DEF kSubset, Outnumbered, Updates
<1>3. ~(Correct(p) \subseteq S)
  <2>1. SUFFICES ASSUME Correct(p) \subseteq S PROVE FALSE
    OBVIOUS
  <2>2. Cardinality(Correct(p)) <= k
    BY <1>2, <2>1, FS_Subset
  <2> QED
    BY <1>2, <2>2, Counted
<1>4. PICK v \in Correct(p) : v \notin S
  BY <1>3
<1>5. v \in DOMAIN p \ S
  BY <1>4 DEF Correct
<1>6. Score(p, w, k) <= Score(p, v, k)
  BY <1>5
<1>7. /\ Score(p, v, k) \in Nat /\ Score(p, v, k) <= k * d
      /\ Score(p, w, k) \in Nat /\ k * d < Score(p, w, k)
  BY <1>1, CorrectScore, FaultyScore
<1>8. k * d \in Nat
  BY <1>2
<1> QED
  BY <1>6, <1>7, <1>8

-----------------------------------------------------------------------------
LEMMA KrumAlwaysInv == KrumSpec => []KrumInv
<1>1. KrumInit => KrumInv
  BY DEF KrumInit, KrumInv
<1>2. KrumInv /\ [KrumNext]_krumVars => KrumInv'
  <2> SUFFICES ASSUME KrumInv, [KrumNext]_krumVars PROVE KrumInv'
    OBVIOUS
  <2>1. ASSUME NEW w \in Workers, NEW point \in Good \cup Bad, Submit(w, point) PROVE KrumInv'
    BY <2>1 DEF Submit, KrumInv
  <2>2. CASE AggregateUpdates
    BY <2>2 DEF AggregateUpdates, KrumInv
  <2>3. CASE UNCHANGED krumVars
    BY <2>3 DEF krumVars, KrumInv
  <2> QED
    BY <2>1, <2>2, <2>3 DEF KrumNext
<1> QED
  BY <1>1, <1>2, PTL DEF KrumSpec

(* Whoever is in the mean has submitted. *)
THEOREM KrumTypesHold == KrumSpec => []KrumTypeOK
<1> DEFINE Function == points = [w \in DOMAIN points |-> points[w]]
<1>1. KrumInit => Function
  BY DEF KrumInit
<1>2. Function /\ [KrumNext]_krumVars => Function'
  BY DEF KrumNext, krumVars, Submit, AggregateUpdates
<1>3. KrumInv /\ Function => KrumTypeOK
  <2> SUFFICES ASSUME KrumInv, Function PROVE KrumTypeOK
    OBVIOUS
  <2>1. inMean \subseteq DOMAIN points
    BY DEF KrumInv, Selections, kSubset
  <2>2. points \in [DOMAIN points -> Good \cup Bad]
    BY DEF KrumInv
  <2> QED
    BY <2>1, <2>2 DEF KrumTypeOK
<1> QED
  BY <1>1, <1>2, <1>3, KrumAlwaysInv, PTL DEF KrumSpec

(* Where the correct updates are within d of each other and the outliers far enough
   from them for the number of participants, no outlier is in the mean: for every
   number of updates, and wherever the points are. *)
THEOREM OutliersRejectedHolds ==
  ASSUME NEW d \in Nat, Separated(d)
  PROVE  KrumSpec => []OutliersRejected
<1>1. KrumInv => OutliersRejected
  <2> DEFINE n == Cardinality(DOMAIN points)
             k == NumToSelect(n)
  <2> SUFFICES ASSUME KrumInv, ~FallsBack(n), Cardinality(Outliers) <= DefaultF(n)
               PROVE  inMean \cap Outliers = {}
    BY DEF OutliersRejected
  <2>1. CASE inMean = {}
    BY <2>1
  <2>2. CASE inMean # {}
    <3>1. Outliers = Faulty(points)
      BY DEF Outliers, Faulty
    <3>2. Updates(points) /\ DOMAIN points = Correct(points) \cup Faulty(points)
      BY FS_Subset, KrumAssumption DEF KrumInv, Updates, Correct, Faulty
    <3>3. n \in Nat /\ n <= Cardinality(Workers) /\ Cardinality(Faulty(points)) \in Nat
      <4>1. IsFiniteSet(Faulty(points))
        BY <3>2, FS_Subset DEF Updates, Faulty
      <4> QED
        BY <3>2, <4>1, FS_Subset, FS_CardinalityType, KrumAssumption DEF KrumInv, Updates
    <3>4. Cardinality(Faulty(points)) <= DefaultF(n)
      BY <3>1
    <3> DEFINE S == inMean
    <3>5. inMean \in Selections(points)
      BY <2>2 DEF KrumInv
    <3>6. /\ inMean \in kSubset(k, DOMAIN points)
          /\ \A w \in inMean, v \in DOMAIN points \ inMean :
               Score(points, w, k) <= Score(points, v, k)
      <4>1. /\ inMean \in kSubset(k, DOMAIN points)
            /\ \A w \in inMean, v \in DOMAIN points \ inMean :
                 [u \in DOMAIN points |-> Score(points, u, k)][w]
                   <= [u \in DOMAIN points |-> Score(points, u, k)][v]
        BY <3>5 DEF Selections
      <4>2. inMean \subseteq DOMAIN points
        BY <4>1 DEF kSubset
      <4> HIDE DEF k
      <4> QED
        BY <4>1, <4>2
    <3> HIDE DEF n
    <3>7. k \in Nat /\ n = 2 * k + 1 /\ Cardinality(Faulty(points)) < k
      BY <3>3, <3>4 DEF NumToSelect, FallsBack, DefaultF
    <3>8. Outnumbered(points, k)
      BY <3>2, <3>3, <3>7 DEF Outnumbered, n
    <3> HIDE DEF k
    <3> QED
      BY <3>1, <3>6, <3>8, NoneSelected
  <2> QED
    BY <2>1, <2>2
<1> QED
  BY <1>1, KrumAlwaysInv, PTL

=============================================================================
