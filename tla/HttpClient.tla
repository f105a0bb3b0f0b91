------------------------------ MODULE HttpClient ------------------------------
(***************************************************************************)
(* typeway-client: Client::call and its relatives (client.rs), the retry   *)
(* policy (retry.rs), the unretried builder and streaming paths            *)
(* (request_builder.rs, streaming.rs), against a server and a network that *)
(* may lose a request, lose its answer, or carry a request out after the   *)
(* client has given it up.                                                 *)
(*                                                                         *)
(* The client keeps nothing between calls but its configuration, so one    *)
(* task that calls again and again is enough; what an earlier call left on *)
(* the wire is still there during the next one.  A request is named by its *)
(* call and by its number within the call.                                 *)
(***************************************************************************)
EXTENDS Naturals, Sequences, FiniteSets, SequencesExt

CONSTANTS
  Statuses,   (* the statuses that are not a success                       *)
  Configs,    (* the clients that can be built, see Built                  *)
  MaxCalls    (* bound on the number of calls                              *)

ASSUME HttpAssumption ==
  /\ MaxCalls \in Nat
  /\ Statuses \cap {"none", "ok", "exhausted", "cancelled", "url", "serialize", "deserialize",
                    "request", "timeout"} = {}
  /\ \A c \in Configs :
       /\ c.max_retries \in Nat
       /\ c.retry_on_status \subseteq Statuses
       /\ {c.retry_on_timeout, c.timeout, c.inner_timeout, c.own} \subseteq BOOLEAN
       /\ {c.initial_backoff, c.max_backoff, c.backoff_multiplier} \subseteq Nat

VARIABLES
  config,     (* Client::config and what its constructor made of it        *)
  pc,         (* where the call is                                         *)
  api,        (* the method that was called, and its per-call timeout      *)
  calls,      (* number of the current call                                *)
  sent,       (* requests of the current call handed to the network        *)
  log,        (* errors of its attempts                                    *)
  sleeps,     (* its backoff sleeps                                        *)
  result,     (* what it returned                                          *)
  wire,       (* requests the server has not seen yet                      *)
  runs,       (* how often the server carried out each call                *)
  reply       (* the answer on its way to the client                       *)

callVars == <<api, calls, sent, log, sleeps, result>>
netVars == <<wire, runs, reply>>
httpVars == <<config, pc, callVars, netVars>>

Retried == {"call", "call_with_query", "call_full"}
Builder == {"send", "send_full"}
Apis == Retried \cup Builder \cup {"call_streaming"}

Errors == Statuses \cup {"url", "serialize", "deserialize", "request", "timeout"}
NoReply == "none"

Budget == config.max_retries + 1

HttpTypeOK ==
  /\ config \in Configs
  /\ pc \in {"idle", "inner", "flight", "body", "backoff"}
  /\ api \in [name : Apis, timeout : BOOLEAN]
  /\ calls \in 0..MaxCalls
  /\ sent \in 0..Budget
  /\ log \in Seq(Errors) /\ Len(log) <= Budget
  /\ sleeps \in Seq(Nat)
  /\ result \in {"none", "ok", "exhausted", "cancelled"} \cup Errors
  /\ wire \subseteq (1..MaxCalls) \X (1..Budget)
  /\ runs \in [1..MaxCalls -> 0..Budget]
  /\ reply \in {NoReply, "ok"} \cup Statuses

HttpInit ==
  /\ config \in Configs
  /\ pc = "idle"
  /\ api = [name |-> "call", timeout |-> FALSE]
  /\ calls = 0 /\ sent = 0 /\ log = <<>> /\ sleeps = <<>>
  /\ result = "none"
  /\ wire = {} /\ runs = [c \in 1..MaxCalls |-> 0] /\ reply = NoReply

-----------------------------------------------------------------------------
(* A timer runs for the request.  with_config hands the configured timeout *)
(* to the reqwest client it builds; with_reqwest and                       *)
(* with_reqwest_and_config keep what the given client has.  The builder's  *)
(* timeout is set on the request.                                          *)
HasTimeout ==
  \/ IF config.own THEN config.timeout ELSE config.inner_timeout
  \/ api.timeout

(* Client::is_retryable: one flag is for timeouts and transport errors.    *)
is_retryable(e) ==
  \/ e \in config.retry_on_status
  \/ e \in {"timeout", "request"} /\ config.retry_on_timeout

Least(a, b) == IF a < b THEN a ELSE b

(* External: powi.                                                         *)
powi(b) == LET p[k \in Nat] == IF k = 0 THEN 1 ELSE b * p[k - 1] IN p

(* Mutant: the jitter is added after the cap.                              *)
backoff_for_attempt_Uncapped(k) ==
  LET capped == Least(config.initial_backoff * powi(config.backoff_multiplier)[k],
                      config.max_backoff)
  IN  capped..(capped + capped \div 4)

(* RetryPolicy::backoff_for_attempt: the sleeps that may follow, which     *)
(* depend on the jitter of up to a quarter.                                *)
backoff_for_attempt(k) ==
  LET capped == Least(config.initial_backoff * powi(config.backoff_multiplier)[k],
                      config.max_backoff)
  IN  capped..Least(capped + capped \div 4, config.max_backoff)

HttpReturn(r) == pc' = "idle" /\ result' = r

(* Mutant: the loop runs once more than max_retries.                       *)
MayRetry_OffByOne(e) ==
  /\ api.name \in Retried
  /\ is_retryable(e)
  /\ Len(log) <= config.max_retries

(* Mutant: the builder path retries, too.                                  *)
MayRetry_Builder(e) == is_retryable(e) /\ Len(log) < config.max_retries

(* The loop of call_with_retry_full and call_with_retry_query has a retry  *)
(* left for this error.                                                    *)
MayRetry(e) ==
  /\ api.name \in Retried
  /\ is_retryable(e)
  /\ Len(log) < config.max_retries

(* Without a policy, and on the builder and streaming paths, the error     *)
(* itself is returned; in the loop, an error that is not retryable.        *)
Exhausted(e) ==
  api.name \in Retried /\ config.max_retries > 0 /\ is_retryable(e)

(* An attempt failed with e.                                               *)
Fail(e) ==
  /\ log' = Append(log, e)
  /\ \/ /\ MayRetry(e)
        /\ pc' = "backoff"
        /\ \E d \in backoff_for_attempt(Len(log)) : sleeps' = Append(sleeps, d)
        /\ UNCHANGED result
     \/ /\ ~MayRetry(e)
        /\ HttpReturn(IF Exhausted(e) THEN "exhausted" ELSE e)
        /\ UNCHANGED sleeps
  /\ reply' = NoReply
  /\ UNCHANGED <<config, api, calls, sent, wire, runs>>

-----------------------------------------------------------------------------
(* A method of the client is called.  Only the builder has a timeout of    *)
(* its own.                                                                *)
Start(a, t) ==
  /\ pc = "idle" /\ calls < MaxCalls
  /\ t => a \in Builder
  /\ pc' = "inner"
  /\ api' = [name |-> a, timeout |-> t]
  /\ calls' = calls + 1
  /\ sent' = 0 /\ log' = <<>> /\ sleeps' = <<>> /\ result' = "none"
  /\ UNCHANGED <<config, netVars>>

(* call_with_query cannot serialise its query: it returns at once.         *)
QueryError ==
  /\ pc = "inner" /\ sent = 0 /\ log = <<>>
  /\ api.name = "call_with_query"
  /\ HttpReturn("serialize")
  /\ UNCHANGED <<config, api, calls, sent, log, sleeps, netVars>>

(* call_inner fails before it sends: the path does not join, or the body   *)
(* does not serialise.  The arguments are those of the first attempt, so   *)
(* it fails in the first one if at all.                                    *)
PrepareError ==
  /\ pc = "inner" /\ sent = 0
  /\ \E e \in {"url", "serialize"} : Fail(e)

(* call_inner up to the await of the exchange.                             *)
HttpSend ==
  /\ pc = "inner"
  /\ pc' = "flight"
  /\ sent' = sent + 1
  /\ wire' = wire \cup {<<calls, sent + 1>>}
  /\ UNCHANGED <<config, api, calls, log, sleeps, result, runs, reply>>

(* Mutant: the status is not looked at.                                    *)
Arrive_NoStatus ==
  /\ pc = "flight" /\ reply # NoReply
  /\ IF api.name = "call_streaming" THEN HttpReturn("ok")
                                    ELSE pc' = "body" /\ UNCHANGED result
  /\ reply' = NoReply
  /\ UNCHANGED <<config, api, calls, sent, log, sleeps, wire, runs>>

(* The head of the answer is there.  The body of an error answer is read   *)
(* for the message only, and its loss is ignored.                          *)
Arrive ==
  /\ pc = "flight" /\ reply # NoReply
  /\ \/ reply # "ok" /\ Fail(reply)
     \/ /\ reply = "ok"
        /\ IF api.name = "call_streaming" THEN HttpReturn("ok")
                                          ELSE pc' = "body" /\ UNCHANGED result
        /\ reply' = NoReply
        /\ UNCHANGED <<config, api, calls, sent, log, sleeps, wire, runs>>

(* The body is there and parses.                                           *)
BodyOk ==
  /\ pc = "body"
  /\ HttpReturn("ok")
  /\ UNCHANGED <<config, api, calls, sent, log, sleeps, netVars>>

(* It does not parse, or its transfer fails or exceeds the timeout: the    *)
(* latter is a Request error, not Timeout, and is retried like one.        *)
BodyError ==
  /\ pc = "body"
  /\ \E e \in {"deserialize", "request"} : Fail(e)

(* Mutant: the timer only covers the request's way to the server.          *)
Timeout_ConnectOnly ==
  /\ pc = "flight" /\ HasTimeout /\ <<calls, sent>> \in wire
  /\ Fail("timeout")

(* The exchange exceeds the request's timeout.                             *)
Timeout ==
  /\ pc = "flight" /\ HasTimeout
  /\ Fail("timeout")

(* The connection fails, before or after the request got through.          *)
TransportError ==
  /\ pc = "flight"
  /\ Fail("request")

(* The backoff sleep ends.                                                 *)
Wake ==
  /\ pc = "backoff"
  /\ pc' = "inner"
  /\ UNCHANGED <<config, callVars, netVars>>

(* The caller drops the future at an await.                                *)
Cancel ==
  /\ pc \in {"flight", "body", "backoff"}
  /\ HttpReturn("cancelled")
  /\ reply' = NoReply
  /\ UNCHANGED <<config, api, calls, sent, log, sleeps, wire, runs>>

-----------------------------------------------------------------------------
(* External: the network and the server.                                   *)
Awaited(r) == pc = "flight" /\ r = <<calls, sent>>

(* The server carries out a request and answers; nobody reads the answer   *)
(* to a request the client has given up.                                   *)
Serve(r) ==
  /\ r \in wire
  /\ wire' = wire \ {r}
  /\ runs' = [runs EXCEPT ![r[1]] = @ + 1]
  /\ \E s \in Statuses \cup {"ok"} :
       reply' = IF Awaited(r) THEN s ELSE reply
  /\ UNCHANGED <<config, pc, callVars>>

(* It is refused on the way, by an overloaded server or a gateway.         *)
Overload(r) ==
  /\ r \in wire
  /\ wire' = wire \ {r}
  /\ \E s \in Statuses : reply' = IF Awaited(r) THEN s ELSE reply
  /\ UNCHANGED <<config, pc, callVars, runs>>

(* It is lost.                                                             *)
Lose(r) ==
  /\ r \in wire
  /\ wire' = wire \ {r}
  /\ UNCHANGED <<config, pc, callVars, runs, reply>>

HttpStep ==
  \/ QueryError \/ PrepareError \/ HttpSend \/ Arrive \/ BodyOk \/ BodyError
  \/ Timeout \/ TransportError \/ Wake

HttpNext ==
  \/ \E a \in Apis, t \in BOOLEAN : Start(a, t)
  \/ HttpStep
  \/ Cancel
  \/ \E r \in wire : Serve(r) \/ Overload(r) \/ Lose(r)

HttpSpec == HttpInit /\ [][HttpNext]_httpVars

-----------------------------------------------------------------------------
(* The executor runs a ready task and fires a due timer; the server owes   *)
(* nothing, so a request without a timer may wait for ever.  A body that   *)
(* stops coming ends by the timer, too.                                    *)
HttpFairness ==
  /\ WF_httpVars(Wake) /\ WF_httpVars(HttpSend) /\ WF_httpVars(Arrive) /\ WF_httpVars(Timeout)
  /\ WF_httpVars(HasTimeout /\ (BodyOk \/ BodyError))

HttpFairSpec == HttpSpec /\ HttpFairness

-----------------------------------------------------------------------------
NRetryable == Cardinality({i \in DOMAIN log : is_retryable(log[i])})

(* A call that returned a value was carried out by the server: no error    *)
(* answer and no lost request ends as a success (call_inner, client.rs).   *)
OkMeansExecuted == result = "ok" => runs[calls] >= 1

(* A call is carried out at most once more than it had retryable errors,   *)
(* and a path without retries (builder, streaming, max_retries = 0) sends  *)
(* once: a request is repeated for no other reason, whatever late requests *)
(* the network still delivers (call_with_retry_full, request_builder.rs).  *)
RepeatsExplained ==
  calls > 0 =>
    /\ runs[calls] <= sent
    /\ sent <= 1 + NRetryable
    /\ (api.name \notin Retried \/ config.max_retries = 0) => sent <= 1

(* What the caller is told matches what happened to the attempts: the last *)
(* error itself if it was final, RetryExhausted exactly if max_retries + 1 *)
(* attempts failed and each of them could have been retried, and an error  *)
(* in the arguments only if nothing was sent.                              *)
ErrorsHonest ==
  /\ result = "exhausted" =>
       Len(log) = Budget /\ NRetryable = Budget /\ sent = Budget
  /\ result \in Errors /\ log # <<>> =>
       /\ Last(log) = result
       /\ \A i \in 1..(Len(log) - 1) : is_retryable(log[i])
  /\ result \in {"url", "serialize"} => sent = 0

(* With a multiplier of at least two the jitter does not turn the growth   *)
(* of the backoff around: no sleep is shorter than the one before it, and  *)
(* none exceeds max_backoff (RetryPolicy::backoff_for_attempt).            *)
BackoffGrows ==
  config.backoff_multiplier >= 2 =>
    \A i \in 1..Len(sleeps) :
      /\ sleeps[i] <= config.max_backoff
      /\ i > 1 => sleeps[i - 1] <= sleeps[i]

(* A call returns if a timer runs for its requests, and then the wait is   *)
(* bounded by the retry budget.  A client passed in without a timeout of   *)
(* its own has none, whatever its ClientConfig says                        *)
(* (with_reqwest_and_config).                                              *)
CallsReturn == []<>(HasTimeout => pc = "idle")
===============================================================================
