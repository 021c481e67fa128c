------------------------- MODULE SecureAggregation --------------------------
(***************************************************************************)
(* SecureAggEngine at each organization, and the aggregate of the masked   *)
(* updates: the mean of all or, where Multi-Krum selects, of any subset of *)
(* its size, since masks make the distances arbitrary. Every engine has a  *)
(* fresh random key pair; a key is the organization and the number of its  *)
(* engine. The shared secret is the hash of the two public keys in sorted  *)
(* order: the set of the two. A mask is one number of the sequence derived *)
(* from a secret; organizations are in the order of their ids.             *)
(***************************************************************************)
EXTENDS KrumSelection

CONSTANTS
  Orgs,         \* organization ids: integers
  NoKey,        \* an empty public key, and the absence of an engine
  NoMetadata,   \* no epoch yet
  MaxEngines    \* bound: engines an organization creates

ASSUME AggAssumption ==
  Orgs \subseteq Int /\ MaxEngines \in Nat /\ NoKey \notin Orgs \X Nat

NoUpdate == [key |-> NoKey, masks |-> {}]

VARIABLES
  engine,       \* the key of each organization's running engine, or NoKey
  engines,      \* engines created so far
  announced,    \* external: the public key the coordinator has of an organization
  metadata,     \* secure_agg_participants of the epoch, with keys, or NoMetadata
  update,       \* what each organization submitted, or NoUpdate
  shares,       \* provided for dropout recovery: secrets, with the engine's key
  selected      \* whose updates the aggregate is the mean of

aggVars == <<engine, engines, announced, metadata, update, shares, selected>>

AggInit ==
  /\ engine = [o \in Orgs |-> NoKey] /\ engines = [o \in Orgs |-> 0]
  /\ announced = [o \in Orgs |-> NoKey] /\ metadata = NoMetadata
  /\ update = [o \in Orgs |-> NoUpdate]
  /\ shares = {} /\ selected = {}

Participants == IF metadata = NoMetadata THEN {} ELSE DOMAIN metadata
Submitted == {o \in Orgs : update[o] # NoUpdate}

-----------------------------------------------------------------------------
\* SecureAggEngine::new, in the daemon and in the client once for every round.
NewEngine(o) ==
  /\ engines[o] < MaxEngines
  /\ engines' = [engines EXCEPT ![o] = @ + 1]
  /\ engine' = [engine EXCEPT ![o] = <<o, engines[o] + 1>>]
  /\ UNCHANGED <<announced, metadata, update, shares, selected>>

Announce(o) ==
  /\ metadata = NoMetadata /\ engine[o] # NoKey
  /\ announced' = [announced EXCEPT ![o] = engine[o]]
  /\ UNCHANGED <<engine, engines, metadata, update, shares, selected>>

\* The list of an epoch; fl-client train gives every participant an empty key.
OpenEpoch(participants) ==
  /\ metadata = NoMetadata
  /\ metadata' = [o \in participants |-> announced[o]]
  /\ UNCHANGED <<engine, engines, announced, update, shares, selected>>

SharedSecret(own, their) == {own, their}

Masks_OneSign(o) ==
  {[with |-> p, secret |-> SharedSecret(engine[o], metadata[p]), sign |-> 1] :
     p \in Participants \ {o}}

\* generate_pairwise_masks and the sign apply_masking gives them.
Masks(o) ==
  {[with |-> p, secret |-> SharedSecret(engine[o], metadata[p]),
    sign |-> IF o < p THEN 1 ELSE -1] : p \in Participants \ {o}}

\* apply_masking, and the submission of its result.
ApplyMasking(o) ==
  /\ metadata # NoMetadata /\ engine[o] # NoKey /\ update[o] = NoUpdate /\ selected = {}
  /\ o \in Participants \/ Participants = {}
  /\ update' = [update EXCEPT ![o] = [key |-> engine[o], masks |-> Masks(o)]]
  /\ UNCHANGED <<engine, engines, announced, metadata, shares, selected>>

ProvideShares_Higher(o) ==
  /\ o \in Submitted \cap Participants /\ selected = {}
  /\ shares' = shares \cup
       {[by |-> engine[o], secret |-> SharedSecret(engine[o], metadata[p])] :
          p \in {q \in Participants \ Submitted : o < q}}
  /\ UNCHANGED <<engine, engines, announced, metadata, update, selected>>

\* provide_shares_for_dropout, by an organization whose update has arrived.
ProvideShares(o) ==
  /\ o \in Submitted \cap Participants /\ selected = {}
  /\ shares' = shares \cup
       {[by |-> engine[o], secret |-> SharedSecret(engine[o], metadata[p])] :
          p \in Participants \ Submitted}
  /\ UNCHANGED <<engine, engines, announced, metadata, update, selected>>

\* The distances of masked updates are arbitrary: any selection of the right size.
Aggregate ==
  /\ selected = {} /\ Submitted # {}
  /\ LET n == Cardinality(Submitted)
     IN selected' \in IF FallsBack(n) THEN {Submitted} ELSE kSubset(NumToSelect(n), Submitted)
  /\ UNCHANGED <<engine, engines, announced, metadata, update, shares>>

AggNext ==
  \/ \E o \in Orgs : NewEngine(o) \/ Announce(o) \/ ApplyMasking(o) \/ ProvideShares(o)
  \/ \E participants \in SUBSET Orgs : OpenEpoch(participants)
  \/ Aggregate

AggSpec == AggInit /\ [][AggNext]_aggVars

-----------------------------------------------------------------------------
\* What is left of a secret's mask in the sum of the updates of a set.
MasksOf(orgs) == UNION {{[by |-> o, mask |-> m] : m \in update[o].masks} : o \in orgs}
Residual(orgs, secret) ==
  MapThenSumSet(LAMBDA e : e.mask.sign, {e \in MasksOf(orgs) : e.mask.secret = secret})
Left(orgs) ==
  {secret \in {e.mask.secret : e \in MasksOf(orgs)} : Residual(orgs, secret) # 0}

\* Participants that masked with the engine whose key the others were given.
WithListedKey == {o \in Submitted \cap Participants : update[o].key = metadata[o]}

(* Type invariant. *)
AggTypeOK ==
  /\ engines \in [Orgs -> 0..MaxEngines]
  /\ \A o \in Orgs : engine[o] \in {NoKey, <<o, engines[o]>>}
  /\ \A o \in Orgs : announced[o] = NoKey \/ announced[o][2] <= engines[o]
  /\ Participants \subseteq Orgs /\ selected \subseteq Submitted

(* Masks hide the updates and vanish from the aggregate only together: once somebody
   has a mate to mask with and every listed participant a key, the aggregate is free
   of masks exactly when it is the mean of all listed participants and each masked
   with the engine whose public key the list holds. So no selection of a part of the
   updates, nor any restart of an engine, shows an unmasked one. *)
UnmaskedExactlyWhenComplete ==
  /\ \E o, p \in Participants : o # p
  /\ \A o \in Participants : metadata[o] # NoKey
  /\ selected # {}
  => (Left(selected) = {} <=> selected = Participants /\ WithListedKey = Participants)

(* Dropout recovery: when all submitted updates were masked with listed keys and
   each of those engines, still running when it was asked, has provided shares,
   whoever was missing at that moment, the shares contain the secret of every mask
   that does not cancel. *)
SharesSuffice ==
  /\ Submitted \cap Participants = WithListedKey
  /\ \A o \in WithListedKey : metadata[o] \in {s.by : s \in shares}
  => Left(WithListedKey) \subseteq {s.secret : s \in shares}

=============================================================================
