--------------------------- MODULE NetworkEngine ----------------------------
(***************************************************************************)
(* NetworkEngine: requests to the coordinator with retries. Requests run   *)
(* concurrently and share one backoff counter. A request or its reply may  *)
(* be lost; what the coordinator records of a completion it records once,  *)
(* and answers a second one with an error status.                          *)
(***************************************************************************)
EXTENDS Naturals, FiniteSets

CONSTANTS
  Requests,          \* concurrent calls of request_with_retry
  Completions,       \* those that are submit_completion; the others only read
  MaxRetries,        \* max_retries
  MaxBackoff,        \* max_backoff_secs
  Bits,              \* width of the delay: 64
  Calls              \* bound: how often each request is made

ASSUME NetAssumption ==
  /\ Completions \subseteq Requests
  /\ MaxRetries \in Nat /\ MaxBackoff \in Nat \ {0} /\ Calls \in Nat
  /\ Bits \in Nat \ {0} /\ 2^Bits \in Nat \ {0}

VARIABLES
  attempt,      \* the shared BackoffState
  phase,        \* of each request: "ready", "sent", a reply, "waiting", a result
  attempts,     \* of request_with_retry: failures so far
  delay,        \* what the request sleeps, or slept last
  calls,
  recorded,     \* completions the coordinator recorded
  sends,        \* history: requests sent since the call began
  lostReplies   \* history: completions whose reply was lost after they were recorded

netVars == <<attempt, phase, attempts, delay, calls, recorded, sends, lostReplies>>

Replies == {"success", "refused", "failed"}
Results == {"ok", "error", "exceeded"}

NetInit ==
  /\ attempt = 0
  /\ phase = [r \in Requests |-> "ready"]
  /\ attempts = [r \in Requests |-> 0] /\ delay = [r \in Requests |-> 0]
  /\ calls = [r \in Requests |-> 0] /\ sends = [r \in Requests |-> 0]
  /\ recorded = {} /\ lostReplies = {}

Becomes(r, next) == phase' = [phase EXCEPT ![r] = next]

\* A call, made again by whoever makes it: a new loop with no attempts.
Call(r) ==
  /\ phase[r] \in {"ready"} \cup Results /\ calls[r] < Calls
  /\ Becomes(r, "sent")
  /\ calls' = [calls EXCEPT ![r] = @ + 1]
  /\ attempts' = [attempts EXCEPT ![r] = 0]
  /\ sends' = [sends EXCEPT ![r] = 1]
  /\ UNCHANGED <<attempt, delay, recorded, lostReplies>>

\* The coordinator answers, or refuses; a completion only once.
Answer(r) ==
  /\ phase[r] = "sent"
  /\ \/ /\ r \notin recorded /\ Becomes(r, "success")
        /\ recorded' = recorded \cup ({r} \cap Completions)
     \/ Becomes(r, "refused") /\ UNCHANGED recorded
  /\ UNCHANGED <<attempt, attempts, delay, calls, sends, lostReplies>>

\* The connection fails or the request times out, before or after it arrived.
Lose(r) ==
  /\ phase[r] = "sent"
  /\ Becomes(r, "failed")
  /\ \/ UNCHANGED <<recorded, lostReplies>>
     \/ /\ r \in Completions \ recorded
        /\ recorded' = recorded \cup {r} /\ lostReplies' = lostReplies \cup {r}
  /\ UNCHANGED <<attempt, attempts, delay, calls, sends>>

\* 2_u64.pow wraps to 0 in a release build once attempt reaches the width.
NextDelay ==
  LET power == (2^attempt) % (2^Bits)
  IN IF power < MaxBackoff THEN power ELSE MaxBackoff

Succeed_AnyStatus(r) ==
  /\ phase[r] \in {"success", "refused"}
  /\ Becomes(r, "ok")
  /\ attempt' = 0
  /\ UNCHANGED <<attempts, delay, calls, recorded, sends, lostReplies>>

Succeed(r) ==
  /\ phase[r] = "success"
  /\ Becomes(r, "ok")
  /\ attempt' = 0
  /\ UNCHANGED <<attempts, delay, calls, recorded, sends, lostReplies>>

Fail_OffByOne(r) ==
  /\ phase[r] \in {"refused", "failed"}
  /\ attempts' = [attempts EXCEPT ![r] = @ + 1]
  /\ \/ /\ attempts[r] + 1 > MaxRetries
        /\ Becomes(r, "exceeded") /\ UNCHANGED <<attempt, delay>>
     \/ /\ attempts[r] + 1 <= MaxRetries /\ phase[r] = "refused"
        /\ Becomes(r, "error") /\ UNCHANGED <<attempt, delay>>
     \/ /\ attempts[r] + 1 <= MaxRetries /\ phase[r] = "failed"
        /\ Becomes(r, "waiting")
        /\ delay' = [delay EXCEPT ![r] = NextDelay]
        /\ attempt' = attempt + 1
  /\ UNCHANGED <<calls, recorded, sends, lostReplies>>

\* request_with_retry counts an attempt before it asks whether to retry.
Fail(r) ==
  /\ phase[r] \in {"refused", "failed"}
  /\ attempts' = [attempts EXCEPT ![r] = @ + 1]
  /\ \/ /\ attempts[r] + 1 >= MaxRetries
        /\ Becomes(r, "exceeded") /\ UNCHANGED <<attempt, delay>>
     \/ /\ attempts[r] + 1 < MaxRetries /\ phase[r] = "refused"
        /\ Becomes(r, "error") /\ UNCHANGED <<attempt, delay>>
     \/ /\ attempts[r] + 1 < MaxRetries /\ phase[r] = "failed"
        /\ Becomes(r, "waiting")
        /\ delay' = [delay EXCEPT ![r] = NextDelay]
        /\ attempt' = attempt + 1
  /\ UNCHANGED <<calls, recorded, sends, lostReplies>>

Resend_PositiveDelay(r) ==
  /\ phase[r] = "waiting" /\ delay[r] > 0
  /\ Becomes(r, "sent")
  /\ sends' = [sends EXCEPT ![r] = @ + 1]
  /\ UNCHANGED <<attempt, attempts, delay, calls, recorded, lostReplies>>

Resend(r) ==
  /\ phase[r] = "waiting"
  /\ Becomes(r, "sent")
  /\ sends' = [sends EXCEPT ![r] = @ + 1]
  /\ UNCHANGED <<attempt, attempts, delay, calls, recorded, lostReplies>>

RequestStep(r) == Answer(r) \/ Lose(r) \/ Succeed(r) \/ Fail(r) \/ Resend(r)

NetNext == \E r \in Requests : Call(r) \/ RequestStep(r)

NetSpec == NetInit /\ [][NetNext]_netVars

\* A request is answered or times out, and a sleep ends.
NetFairness == \A r \in Requests : WF_netVars(RequestStep(r))

-----------------------------------------------------------------------------
MostSends == IF MaxRetries > 1 THEN MaxRetries ELSE 1

(* Type invariant. *)
NetTypeOK ==
  /\ attempt \in Nat
  /\ phase \in [Requests -> {"ready", "sent", "waiting"} \cup Replies \cup Results]
  /\ attempts \in [Requests -> Nat]
  /\ delay \in [Requests -> 0..MaxBackoff]
  /\ calls \in [Requests -> 0..Calls]
  /\ sends \in [Requests -> Nat]
  /\ recorded \subseteq Completions /\ lostReplies \subseteq recorded

(* No call sends more than max_retries requests, one with max_retries = 0, and no
   two requests of a call are on their way at once. *)
SendsBounded ==
  \A r \in Requests :
    /\ sends[r] <= MostSends
    /\ phase[r] = "sent" => sends[r] = attempts[r] + 1

(* submit_completion is honest as far as it can be: Ok means recorded, and a
   recorded completion is reported as an error only when a reply was lost: the
   retry then meets the coordinator's refusal of a second completion. *)
CompletionReported ==
  \A r \in Completions :
    /\ phase[r] = "ok" => r \in recorded
    /\ r \in recorded /\ calls[r] = 1 /\ phase[r] \in {"error", "exceeded"}
         => r \in lostReplies

(* Every call returns. *)
CallsReturn ==
  \A r \in Requests : phase[r] = "sent" ~> phase[r] \in Results

=============================================================================
