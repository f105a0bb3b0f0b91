----------------------------- MODULE GrpcClient -----------------------------
(***************************************************************************)
(* GrpcClient::send_request (typeway-grpc/src/client.rs): the retry loop   *)
(* around send_request_once, run by several tasks that share one client    *)
(* and its circuit breaker.                                                *)
(*                                                                         *)
(* The loop awaits in two places, the backoff sleep and the HTTP exchange. *)
(* The steps of a caller are the stretches of code between two awaits, and *)
(* within the first stretch the breaker's lock.  At an await the caller's  *)
(* future may be dropped (Cancel), which records nothing in the breaker.   *)
(***************************************************************************)
EXTENDS CircuitBreaker, Sequences

CONSTANTS
  Callers,   (* tasks sharing the client                                   *)
  Codes,     (* the gRPC error codes a server may answer                   *)
  RetryOn,   (* GrpcRetryPolicy::retry_on                                  *)
  U32,       (* number of values of the integer type of max_retries        *)
  Configs    (* the client configurations: the retry and circuit_breaker   *)
             (* options of GrpcClientConfig                                *)

ASSUME ClientAssumption ==
  /\ RetryOn \subseteq Codes
  /\ Codes \cap {"ok", "transport", "codec", "rejected", "exhausted", "none"} = {}
  /\ U32 \in Nat \ {0}
  /\ Configs \subseteq [retry : BOOLEAN, max_retries : 0..(U32 - 1),
                        breaker : BOOLEAN]

VARIABLES
  config,    (* the client's configuration, fixed when it is built         *)
  pc,        (* where each caller is in send_request                       *)
  attempt,   (* its loop counter                                           *)
  log,       (* outcomes of the attempts of its current call               *)
  result,    (* what its last call returned                                *)
  calm       (* the server answers and callers wait for the answer         *)

callerVars == <<pc, attempt, log, result>>
vars == <<breakerVars, config, callerVars, calm>>

(* What send_request_once can return.                                      *)
Outcomes == Codes \cup {"ok", "transport", "codec"}

(* max_retries + 1, in the width of u32, or 1 without a policy.            *)
max_attempts == IF config.retry THEN (config.max_retries + 1) % U32 ELSE 1

TypeOK ==
  /\ BreakerTypeOK
  /\ config \in Configs
  /\ pc \in [Callers -> {"idle", "head", "backoff", "send", "flight"}]
  /\ attempt \in [Callers -> Nat]
  /\ log \in [Callers -> Seq(Outcomes)]
  /\ result \in [Callers -> Outcomes \cup {"rejected", "exhausted", "none"}]
  /\ calm \in BOOLEAN

Init ==
  /\ BreakerInit
  /\ config \in Configs
  /\ pc = [c \in Callers |-> "idle"]
  /\ attempt = [c \in Callers |-> 0]
  /\ log = [c \in Callers |-> <<>>]
  /\ result = [c \in Callers |-> "none"]
  /\ calm = FALSE

-----------------------------------------------------------------------------
Goto(c, l) == pc' = [pc EXCEPT ![c] = l]

(* The call returns to its caller.                                         *)
Return(c, r) ==
  /\ Goto(c, "idle")
  /\ result' = [result EXCEPT ![c] = r]
  /\ UNCHANGED attempt

(* A task enters send_request.                                             *)
Call(c) ==
  /\ pc[c] = "idle"
  /\ Goto(c, "head")
  /\ attempt' = [attempt EXCEPT ![c] = 0]
  /\ log' = [log EXCEPT ![c] = <<>>]
  /\ result' = [result EXCEPT ![c] = "none"]
  /\ UNCHANGED <<breakerVars, config, calm>>

(* The loop ends without a return: only when it had no iteration at all.   *)
Exhausted(c) ==
  /\ pc[c] = "head"
  /\ attempt[c] >= max_attempts
  /\ Return(c, "exhausted")
  /\ UNCHANGED <<breakerVars, config, log, calm>>

(* The breaker is open: Unavailable "circuit breaker open".                *)
Reject(c) ==
  /\ pc[c] = "head"
  /\ attempt[c] < max_attempts
  /\ config.breaker
  /\ DenyRequest
  /\ Return(c, "rejected")
  /\ UNCHANGED <<config, log, calm>>

(* The breaker check passes; a retry then sleeps before it sends.          *)
Admit(c) ==
  /\ pc[c] = "head"
  /\ attempt[c] < max_attempts
  /\ IF config.breaker THEN AllowRequest ELSE UNCHANGED breakerVars
  /\ Goto(c, IF attempt[c] > 0 THEN "backoff" ELSE "send")
  /\ UNCHANGED <<config, attempt, log, result, calm>>

(* The backoff sleep ends.                                                 *)
Wake(c) ==
  /\ pc[c] = "backoff"
  /\ Goto(c, "send")
  /\ UNCHANGED <<breakerVars, config, attempt, log, result, calm>>

(* send_request_once up to the await of the HTTP exchange.                 *)
Send(c) ==
  /\ pc[c] = "send"
  /\ Goto(c, "flight")
  /\ UNCHANGED <<breakerVars, config, attempt, log, result, calm>>

(* Mutant: every error is retried.                                         *)
Retryable_All(o) == o # "ok"

Retryable(o) == o \in RetryOn \cup {"transport"}

RetryAfter(c, o) == config.retry /\ Retryable(o) /\ attempt[c] + 1 < max_attempts

(* Mutant: the retry does not advance the loop counter.                    *)
Fail_NoCount(c, o) ==
  /\ IF config.breaker THEN RecordFailure ELSE UNCHANGED breakerVars
  /\ \/ /\ RetryAfter(c, o)
        /\ Goto(c, "head")
        /\ UNCHANGED <<log, attempt, result>>
     \/ /\ ~RetryAfter(c, o)
        /\ log' = [log EXCEPT ![c] = Append(@, o)]
        /\ Return(c, o)
  /\ UNCHANGED <<config, calm>>

(* What follows a failed attempt: record it, then retry or return it.      *)
Fail(c, o) ==
  /\ IF config.breaker THEN RecordFailure ELSE UNCHANGED breakerVars
  /\ log' = [log EXCEPT ![c] = Append(@, o)]
  /\ \/ /\ RetryAfter(c, o)
        /\ Goto(c, "head")
        /\ attempt' = [attempt EXCEPT ![c] = @ + 1]
        /\ UNCHANGED result
     \/ /\ ~RetryAfter(c, o)
        /\ Return(c, o)
  /\ UNCHANGED <<config, calm>>

(* The codec cannot encode the request: nothing is sent.                   *)
EncodeError(c) ==
  /\ pc[c] = "send"
  /\ ~calm
  /\ Fail(c, "codec")

(* The exchange ends in an error status or a transport error; the latter   *)
(* stands for the per-request timeout too.                                 *)
AnswerError(c) ==
  /\ pc[c] = "flight"
  /\ ~calm
  /\ \E o \in Codes \cup {"transport"} : Fail(c, o)

(* The exchange ends with grpc-status 0 and a complete body.               *)
AnswerOk(c) ==
  /\ pc[c] = "flight"
  /\ IF config.breaker THEN RecordSuccess ELSE UNCHANGED breakerVars
  /\ log' = [log EXCEPT ![c] = Append(@, "ok")]
  /\ Return(c, "ok")
  /\ UNCHANGED <<config, calm>>

(* The caller drops the future at one of its awaits.                       *)
Cancel(c) ==
  /\ pc[c] \in {"backoff", "flight"}
  /\ ~calm
  /\ Goto(c, "idle")
  /\ UNCHANGED <<breakerVars, config, attempt, log, result, calm>>

Tick ==
  /\ TickBreaker
  /\ UNCHANGED <<config, callerVars, calm>>

(* The environment settles down, or becomes unreliable again.              *)
Weather ==
  /\ calm' = ~calm
  /\ UNCHANGED <<breakerVars, config, callerVars>>

(* The steps of a call under way.                                          *)
Progress(c) ==
  \/ Exhausted(c) \/ Reject(c) \/ Admit(c) \/ Wake(c) \/ Send(c)
  \/ EncodeError(c) \/ AnswerError(c) \/ AnswerOk(c)

Next ==
  \/ \E c \in Callers : Call(c) \/ Progress(c) \/ Cancel(c)
  \/ Tick
  \/ Weather

Spec == Init /\ [][Next]_vars

(* Tasks are polled, timers fire (the per-request timeout ends an exchange *)
(* that gets no answer) and the client keeps being used.                   *)
Fairness ==
  /\ WF_vars(Tick)
  /\ \A c \in Callers : WF_vars(Progress(c)) /\ WF_vars(Call(c))

FairSpec == Spec /\ Fairness

-----------------------------------------------------------------------------
(* The breaker fails fast exactly after `Threshold` consecutive failures:  *)
(* away from Closed the counter has reached the threshold (so one more     *)
(* failure in HalfOpen reopens at once) and a failure time is known (so an *)
(* open breaker can always leave that state); in Closed it has not.        *)
BreakerCoherent ==
  /\ state # "Closed" => failures >= Threshold /\ last_failure # Never
  /\ state = "Closed" => failures = 0 \/ failures < Threshold

(* A call retries only what the policy calls retryable and at most         *)
(* max_retries times, and it returns the outcome of its last attempt       *)
(* unless the breaker rejected the retry: every outcome before the last is *)
(* a retryable error, and an attempt under way follows only such errors.   *)
RetryDiscipline ==
  \A c \in Callers :
    /\ Len(log[c]) <= max_attempts
    /\ \A i \in 1..Len(log[c]) :
         (i < Len(log[c]) \/ pc[c] # "idle") => log[c][i] \in RetryOn \cup {"transport"}
    /\ pc[c] # "idle" => Len(log[c]) = attempt[c]
    /\ result[c] \in Outcomes => Len(log[c]) > 0 /\ result[c] = log[c][Len(log[c])]
    /\ result[c] = "exhausted" => log[c] = <<>>

(* The breaker leaves Open only to admit a probe once the timeout has      *)
(* elapsed since the last failure, or because a request already in flight  *)
(* when it opened succeeded.                                               *)
LeaveOpen ==
  [][state = "Open" /\ state' # "Open" =>
       \/ state' = "HalfOpen" /\ last_failure >= ResetTimeout /\ failures' = failures
       \/ state' = "Closed" /\ \E c \in Callers : result'[c] = "ok" /\ pc[c] = "flight"]_vars

(* Once the server answers and callers wait, the breaker ends up Closed:   *)
(* neither a lost probe, a cancelled probe nor a burst of late failures    *)
(* leaves it rejecting requests for ever.                                  *)
Recovers == <>[]calm => <>[](state = "Closed")

(* Every call returns or is dropped by its caller, however the server      *)
(* answers: the loop counter bounds the retries and no wait is unbounded.  *)
CallsReturn == \A c \in Callers : pc[c] # "idle" ~> pc[c] = "idle"
=============================================================================
