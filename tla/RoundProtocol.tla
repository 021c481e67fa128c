--------------------------- MODULE RoundProtocol ---------------------------
(***************************************************************************)
(* What the coordinator promises about the epochs of a model: they come    *)
(* one after the other, one is open at a time, and each goes through its   *)
(* phases once. EpochRound is the program that should keep this promise.   *)
(***************************************************************************)
EXTENDS Integers

CONSTANT MaxEpoch
VARIABLE phase

Epoch == 1..MaxEpoch

Phases == {"ABSENT", "PENDING", "ACTIVE", "AGGREGATING", "COMPLETED", "FAILED"}
TypeOK == phase \in [Epoch -> Phases]

Open(e) == phase[e] \in {"ACTIVE", "AGGREGATING"}
Over(e) == phase[e] \in {"COMPLETED", "FAILED"}

Move(e, from, to) ==
  /\ phase[e] = from
  /\ phase' = [phase EXCEPT ![e] = to]

Init == phase = [e \in Epoch |-> "ABSENT"]

\* An epoch is announced when the one before it is over.
Announce(e) ==
  /\ e = 1 \/ Over(e - 1)
  /\ Move(e, "ABSENT", "PENDING")

\* It is opened to participants while no other epoch is open ...
Activate(e) ==
  /\ \A f \in Epoch : ~Open(f)
  /\ Move(e, "PENDING", "ACTIVE")

\* ... closed for aggregation ...
Close(e) == Move(e, "ACTIVE", "AGGREGATING")

\* ... and then over for good.
Complete(e) == Move(e, "AGGREGATING", "COMPLETED")
Fail(e) == Move(e, "AGGREGATING", "FAILED")

Next ==
  \E e \in Epoch : Announce(e) \/ Activate(e) \/ Close(e) \/ Complete(e) \/ Fail(e)

Spec == Init /\ [][Next]_phase

----------------------------------------------------------------------------
(* What a participant may rely on.                                         *)

\* Whoever has joined an epoch need not look at an earlier one again.
InOrder == \A e, f \in Epoch : e < f /\ phase[f] # "ABSENT" => Over(e)

\* An update belongs to one round: no two are open together.
OneOpen == \A e, f \in Epoch : Open(e) /\ Open(f) => e = f

\* The outcome of a round is final: nothing opens, fails or completes it again.
OutcomesFinal == [][\A e \in Epoch : Over(e) => phase'[e] = phase[e]]_phase

=============================================================================
