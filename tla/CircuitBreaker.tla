--------------------------- MODULE CircuitBreaker ---------------------------
(***************************************************************************)
(* The circuit breaker of the native gRPC client                           *)
(* (typeway-grpc/src/client.rs, `CircuitBreaker`).  Every method takes the *)
(* mutex for its whole body, so each is one step on the breaker's state.   *)
(*                                                                         *)
(* Time is abstracted to what the code compares: `last_failure` holds the  *)
(* ticks elapsed since the last recorded failure, saturating at            *)
(* ResetTimeout, or Never for `None`.                                      *)
(***************************************************************************)
EXTENDS Integers

CONSTANTS
  Threshold,     (* failure_threshold: u32                                 *)
  ResetTimeout,  (* reset_timeout, in ticks                                *)
  MaxFailures    (* bound on the failure counter, for model checking       *)

ASSUME BreakerAssumption ==
  /\ Threshold \in Nat
  /\ ResetTimeout \in Nat
  /\ MaxFailures \in Nat

VARIABLES failures, state, last_failure

breakerVars == <<failures, state, last_failure>>

Never == -1

BreakerTypeOK ==
  /\ failures \in 0..MaxFailures
  /\ state \in {"Closed", "Open", "HalfOpen"}
  /\ last_failure \in Never..ResetTimeout

(* CircuitBreaker::new *)
BreakerInit ==
  /\ failures = 0
  /\ state = "Closed"
  /\ last_failure = Never

(* Mutant: any known failure counts as old enough.                         *)
ResetElapsed_Any == last_failure # Never

(* `last.elapsed() >= self.reset_timeout`; false when there is no failure. *)
ResetElapsed == last_failure >= ResetTimeout

(* Mutant: only the request that turns the breaker HalfOpen is let through.*)
Allowed_OneProbe == state = "Closed" \/ (state = "Open" /\ ResetElapsed)

(* The Boolean allow_request returns: HalfOpen lets every request through. *)
Allowed == state # "Open" \/ ResetElapsed

(* allow_request returning true: Open turns HalfOpen, the others stay.     *)
AllowRequest ==
  /\ Allowed
  /\ state' = IF state = "Open" THEN "HalfOpen" ELSE state
  /\ UNCHANGED <<failures, last_failure>>

(* allow_request returning false.                                          *)
DenyRequest ==
  /\ ~Allowed
  /\ UNCHANGED breakerVars

(* Mutant: a success pays off one failure instead of clearing the counter. *)
RecordSuccess_Decay ==
  /\ failures' = failures - 1
  /\ state' = "Closed"
  /\ UNCHANGED last_failure

(* record_success: back to Closed from any state; last_failure is kept.    *)
RecordSuccess ==
  /\ failures' = 0
  /\ state' = "Closed"
  /\ UNCHANGED last_failure

(* Mutant: a failed probe starts a new count instead of reopening.         *)
RecordFailure_Restart ==
  /\ failures < MaxFailures
  /\ failures' = IF state = "HalfOpen" THEN 1 ELSE failures + 1
  /\ last_failure' = 0
  /\ state' = IF failures' >= Threshold THEN "Open" ELSE state

(* record_failure: the counter and the failure time always move, the state *)
(* only when the threshold is reached.                                     *)
RecordFailure ==
  /\ failures < MaxFailures
  /\ failures' = failures + 1
  /\ last_failure' = 0
  /\ state' = IF failures + 1 >= Threshold THEN "Open" ELSE state

(* One tick of the clock read by `Instant::elapsed`.                       *)
TickBreaker ==
  /\ last_failure \in 0..(ResetTimeout - 1)
  /\ last_failure' = last_failure + 1
  /\ UNCHANGED <<failures, state>>
=============================================================================
