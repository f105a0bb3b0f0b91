--------------------------- MODULE ServicesProofs ---------------------------
(***************************************************************************)
(* The HTTP client, the typed socket, the streaming call and server-sent   *)
(* events, and all the services put together in MCServices: a behaviour of *)
(* the whole is a behaviour of each part, so what is shown here and in     *)
(* AppsProofs of a part holds of the whole, for every value of the         *)
(* constants.                                                              *)
(***************************************************************************)
EXTENDS MCServices, AppsProofs, FoldingProofs

-----------------------------------------------------------------------------
(* Powers.  A function that is defined by its value at 0 and its step is   *)
(* put together from its finite beginnings.                                *)
Begins(b, n, g) == g \in [0..n -> Nat] /\ g[0] = 1 /\ \A k \in 1..n : g[k] = b * g[k - 1]

LEMMA PowersBegin ==
  ASSUME NEW b \in Nat
  PROVE  \A n \in Nat : \E g : Begins(b, n, g)
<1> DEFINE S == {n \in Nat : ~\E g : Begins(b, n, g)}
<1> SUFFICES ASSUME S # {} PROVE FALSE
  OBVIOUS
<1>1. PICK m \in S : \A l \in S : m <= l
  BY LeastNumber
<1>2. CASE m = 0
  <2> DEFINE g == [k \in 0..0 |-> 1]
  <2>1. Begins(b, 0, g)
    BY DEF Begins
  <2> QED
    BY <1>1, <1>2, <2>1
<1>3. CASE m # 0
  <2>1. m - 1 \in Nat /\ m - 1 \notin S
    BY <1>1, <1>3
  <2>2. PICK g : Begins(b, m - 1, g)
    BY <2>1
  <2> DEFINE h == [k \in 0..m |-> IF k = m THEN b * g[m - 1] ELSE g[k]]
  <2>3. g[m - 1] \in Nat /\ b * g[m - 1] \in Nat
    BY <2>1, <2>2 DEF Begins
  <2>4. h \in [0..m -> Nat]
    BY <2>1, <2>2, <2>3 DEF Begins
  <2>5. h[0] = 1
    BY <1>3, <2>2 DEF Begins
  <2>6. ASSUME NEW k \in 1..m PROVE h[k] = b * h[k - 1]
    <3>1. k - 1 \in 0..m /\ k - 1 # m /\ h[k - 1] = g[k - 1]
      BY <2>1
    <3>2. CASE k = m
      BY <3>1, <3>2
    <3>3. CASE k # m
      <4>1. k \in 1..(m - 1) /\ h[k] = g[k]
        BY <3>3
      <4> QED
        BY <2>2, <3>1, <4>1 DEF Begins
    <3> QED
      BY <3>2, <3>3
  <2> HIDE DEF h
  <2>7. Begins(b, m, h)
    BY <2>4, <2>5, <2>6 DEF Begins
  <2> QED
    BY <1>1, <2>7
<1> QED
  BY <1>2, <1>3

LEMMA PowersAgree ==
  ASSUME NEW b \in Nat, NEW n \in Nat, NEW m \in Nat, NEW g, NEW h,
         Begins(b, n, g), Begins(b, m, h)
  PROVE  \A k \in Nat : k <= n /\ k <= m => g[k] = h[k]
<1> DEFINE S == {k \in Nat : k <= n /\ k <= m /\ g[k] # h[k]}
<1> SUFFICES ASSUME S # {} PROVE FALSE
  OBVIOUS
<1>1. PICK k \in S : \A l \in S : k <= l
  BY LeastNumber
<1>2. k # 0
  BY <1>1 DEF Begins
<1>3. k - 1 \in Nat /\ k - 1 <= n /\ k - 1 <= m /\ k - 1 \notin S
  BY <1>1, <1>2
<1>4. g[k - 1] = h[k - 1]
  BY <1>3
<1>5. k \in 1..n /\ k \in 1..m
  BY <1>1, <1>2
<1>6. g[k] = b * g[k - 1] /\ h[k] = b * h[k - 1]
  BY <1>5 DEF Begins
<1> QED
  BY <1>1, <1>4, <1>6

LEMMA PowersGrow ==
  ASSUME NEW b \in Nat
  PROVE  \A k \in Nat : powi(b)[k] \in Nat /\ powi(b)[k + 1] = b * powi(b)[k]
<1> DEFINE G(n) == CHOOSE g : Begins(b, n, g)
           F == [n \in Nat |-> G(n)[n]]
<1>1. \A n \in Nat : Begins(b, n, G(n))
  BY PowersBegin, Zenon
<1> HIDE DEF G
<1>2. \A n \in Nat : F[n] \in Nat
  BY <1>1 DEF Begins
<1>3. F[0] = 1
  BY <1>1 DEF Begins
<1>4. ASSUME NEW n \in Nat, n # 0 PROVE F[n] = b * F[n - 1]
  <2>1. n - 1 \in Nat /\ n - 1 <= n /\ n - 1 <= n - 1 /\ n \in 1..n
    BY <1>4
  <2>2. Begins(b, n, G(n)) /\ Begins(b, n - 1, G(n - 1))
    BY <1>1, <2>1
  <2>3. G(n)[n - 1] = G(n - 1)[n - 1]
    BY <2>1, <2>2, PowersAgree
  <2>4. G(n)[n] = b * G(n)[n - 1]
    BY <2>1, <2>2 DEF Begins
  <2> QED
    BY <2>1, <2>3, <2>4
<1>5. F = [n \in Nat |-> F[n]]
  OBVIOUS
<1> HIDE DEF F
<1>6. F = [n \in Nat |-> IF n = 0 THEN 1 ELSE b * F[n - 1]]
  BY <1>3, <1>4, <1>5
<1> DEFINE P == powi(b)
<1>7. P = CHOOSE p : p = [n \in Nat |-> IF n = 0 THEN 1 ELSE b * p[n - 1]]
  BY Zenon DEF powi
<1>8. P = [n \in Nat |-> IF n = 0 THEN 1 ELSE b * P[n - 1]]
  BY <1>6, <1>7, Zenon
<1> HIDE DEF P
<1>9. P[0] = 1 /\ \A n \in Nat : n # 0 => P[n] = b * P[n - 1]
  BY <1>8
<1>10. \A n \in Nat : P[n] \in Nat
  <2> DEFINE S == {n \in Nat : P[n] \notin Nat}
  <2> SUFFICES ASSUME S # {} PROVE FALSE
    OBVIOUS
  <2>1. PICK k \in S : \A l \in S : k <= l
    BY LeastNumber
  <2>2. k # 0
    BY <1>9, <2>1
  <2>3. k - 1 \in Nat /\ k - 1 \notin S
    BY <2>1, <2>2
  <2>4. P[k - 1] \in Nat /\ P[k] = b * P[k - 1]
    BY <1>9, <2>1, <2>2, <2>3
  <2> QED
    BY <2>1, <2>4
<1>11. \A n \in Nat : P[n + 1] = b * P[n]
  BY <1>9
<1> QED
  BY <1>10, <1>11 DEF P

-----------------------------------------------------------------------------
(* The backoff.                                                            *)

LEMMA Doubles ==
  ASSUME NEW i \in Nat, NEW b \in Nat, NEW p \in Nat, b >= 2
  PROVE  i * (b * p) >= 2 * (i * p) /\ i * p \in Nat
<1> DEFINE x == i * p
<1>1. x \in Nat
  OBVIOUS
<1>2. i * (b * p) = b * x
  OBVIOUS
<1> HIDE DEF x
<1>3. b * x >= 2 * x
  <2>1. PICK c \in Nat : b = c + 2
    <3>1. b - 2 \in Nat /\ b = (b - 2) + 2
      OBVIOUS
    <3> QED
      BY <3>1
  <2>2. b * x = c * x + 2 * x /\ c * x \in Nat
    BY <1>1, <2>1
  <2> QED
    BY <1>1, <2>2
<1> QED
  BY <1>1, <1>2, <1>3 DEF x

LEMMA BackoffBounded ==
  ASSUME config \in Configs, NEW k \in Nat, NEW d \in backoff_for_attempt(k)
  PROVE  d \in Nat /\ d <= config.max_backoff
<1> DEFINE m == config.max_backoff
           x == config.initial_backoff * powi(config.backoff_multiplier)[k]
<1>1. m \in Nat /\ x \in Nat
  <2>1. /\ config.initial_backoff \in Nat /\ config.backoff_multiplier \in Nat
        /\ config.max_backoff \in Nat
    BY HttpAssumption
  <2>2. powi(config.backoff_multiplier)[k] \in Nat
    BY <2>1, PowersGrow
  <2> QED
    BY <2>1, <2>2
<1>2. d \in Least(x, m)..Least(Least(x, m) + Least(x, m) \div 4, m)
  BY DEF backoff_for_attempt
<1> HIDE DEF m, x
<1>3. \A n \in Nat : n \div 4 \in Nat
  OBVIOUS
<1>4. Least(x, m) \in Nat
  BY <1>1 DEF Least
<1>5. d \in Nat /\ d <= m
  BY <1>1, <1>2, <1>3, <1>4 DEF Least
<1> QED
  BY <1>5 DEF m

(* No sleep exceeds max_backoff, and with a multiplier of two or more none *)
(* is shorter than the one before: the jitter is at most a quarter.        *)
LEMMA BackoffStep ==
  ASSUME config \in Configs, NEW k \in Nat,
         NEW d \in backoff_for_attempt(k), NEW f \in backoff_for_attempt(k + 1)
  PROVE  /\ d \in Nat /\ d <= config.max_backoff
         /\ config.backoff_multiplier >= 2 => d <= f
<1> DEFINE i == config.initial_backoff
           b == config.backoff_multiplier
           m == config.max_backoff
           p == powi(b)[k]
           q == powi(b)[k + 1]
<1>1. i \in Nat /\ b \in Nat /\ m \in Nat
  BY HttpAssumption
<1>2. p \in Nat /\ q = b * p
  BY <1>1, PowersGrow
<1>3. d \in Least(i * p, m)..Least(Least(i * p, m) + Least(i * p, m) \div 4, m)
  BY DEF backoff_for_attempt
<1>4. f \in Least(i * q, m)..Least(Least(i * q, m) + Least(i * q, m) \div 4, m)
  BY DEF backoff_for_attempt
<1> HIDE DEF i, b, m, p, q
<1> DEFINE x == i * p
           y == i * q
<1>5. x \in Nat /\ (b >= 2 => y >= 2 * x) /\ y \in Nat
  <2>1. q \in Nat
    BY <1>1, <1>2
  <2> QED
    BY <1>1, <1>2, <2>1, Doubles
<1>6. /\ d \in Least(x, m)..Least(Least(x, m) + Least(x, m) \div 4, m)
      /\ f \in Least(y, m)..Least(Least(y, m) + Least(y, m) \div 4, m)
  BY <1>3, <1>4
<1> HIDE DEF x, y
<1>7. \A n \in Nat : n \div 4 \in Nat /\ n \div 4 <= n
  OBVIOUS
<1>8. Least(x, m) \in Nat /\ Least(x, m) <= x /\ Least(x, m) <= m
  BY <1>1, <1>5 DEF Least
<1>9. d \in Nat /\ d <= m /\ d <= 2 * Least(x, m)
  BY <1>1, <1>6, <1>7, <1>8 DEF Least
<1>10. b >= 2 => d <= f
  <2>1. f >= Least(y, m) /\ f \in Int
    BY <1>1, <1>5, <1>6, <1>7 DEF Least
  <2> QED
    BY <1>1, <1>5, <1>8, <1>9, <2>1 DEF Least
<1> QED
  BY <1>9, <1>10 DEF b, m

-----------------------------------------------------------------------------
(* The invariant of the client.                                            *)

AllRetryable == \A i \in 1..Len(log) : is_retryable(log[i])
AllButLastRetryable == \A i \in 1..(Len(log) - 1) : is_retryable(log[i])

(* While a call runs it has had retryable errors only, and has sent as     *)
(* many requests as it had errors, or one more.                            *)
Trying ==
  pc # "idle" =>
    /\ calls > 0 /\ result = "none"
    /\ AllRetryable /\ Len(log) <= config.max_retries
    /\ log # <<>> => api.name \in Retried
    /\ sent = IF pc \in {"flight", "body"} THEN Len(log) + 1 ELSE Len(log)
    /\ Len(sleeps) = Len(log)

(* What is true of a call that returned.                                   *)
Returned ==
  pc = "idle" =>
    /\ result # "none" => calls > 0
    /\ AllButLastRetryable
    /\ sent <= Len(log) \/ (sent <= Len(log) + 1 /\ AllRetryable)
    /\ api.name \notin Retried \/ config.max_retries = 0 => sent <= 1
    /\ result = "exhausted" => Len(log) = Budget /\ AllRetryable /\ sent = Budget
    /\ result \in Errors /\ log # <<>> => log[Len(log)] = result
    /\ result \in {"url", "serialize"} => sent = 0

(* A success, from the server to the caller, is of a call that was carried *)
(* out.                                                                    *)
Executed ==
  /\ reply # NoReply => pc = "flight"
  /\ reply = "ok" \/ pc = "body" \/ result = "ok" => runs[calls] >= 1

Slept == \A i \in 1..Len(sleeps) : sleeps[i] \in backoff_for_attempt(i - 1)

(* What the server did and what it may still do is what was sent.          *)
Copies(c) == {r \in wire : r[1] = c}
Handed(c) == IF c = calls THEN sent ELSE IF c < calls THEN Budget ELSE 0
Accounted == \A c \in 1..MaxCalls : runs[c] + Cardinality(Copies(c)) <= Handed(c)

HttpInv == HttpTypeOK /\ Trying /\ Returned /\ Executed /\ Slept /\ Accounted

LEMMA ConfigFacts ==
  ASSUME config \in Configs
  PROVE  config.max_retries \in Nat /\ Budget \in Nat /\ config.retry_on_status \subseteq Statuses
BY HttpAssumption DEF Budget

LEMMA StatusNames ==
  \A s \in Statuses : s \notin {"none", "ok", "exhausted", "cancelled", "url", "serialize",
                                "deserialize", "request", "timeout"}
BY HttpAssumption

LEMMA WireFinite ==
  ASSUME HttpTypeOK
  PROVE  IsFiniteSet(wire) /\ \A c : IsFiniteSet(Copies(c)) /\ Cardinality(Copies(c)) \in Nat
<1>1. Budget \in Nat /\ MaxCalls \in Nat
  BY ConfigFacts, HttpAssumption DEF HttpTypeOK
<1>2. IsFiniteSet(1..MaxCalls) /\ IsFiniteSet(1..Budget)
  BY <1>1, FS_Interval
<1>3. IsFiniteSet((1..MaxCalls) \X (1..Budget))
  BY <1>2, FS_Product
<1>4. IsFiniteSet(wire)
  BY <1>3, FS_Subset DEF HttpTypeOK
<1>5. \A c : Copies(c) \subseteq wire
  BY DEF Copies
<1> QED
  BY <1>4, <1>5, FS_Subset, FS_CardinalityType

LEMMA HttpBegins == HttpInit => HttpInv
<1> SUFFICES ASSUME HttpInit PROVE HttpInv
  OBVIOUS
<1>1. config.max_retries \in Nat /\ Budget \in Nat /\ MaxCalls \in Nat
  BY ConfigFacts, HttpAssumption DEF HttpInit
<1>2. HttpTypeOK
  <2>1. api \in [name : Apis, timeout : BOOLEAN]
    BY DEF HttpInit, Apis, Retried
  <2> QED
    BY <1>1, <2>1 DEF HttpInit, HttpTypeOK
<1>3. Trying /\ Slept
  BY DEF HttpInit, Trying, Slept
<1>4. Returned
  BY <1>1, StatusNames DEF HttpInit, Returned, AllButLastRetryable, AllRetryable, Errors
<1>5. Executed
  BY DEF HttpInit, Executed, NoReply
<1>6. Accounted
  <2> SUFFICES ASSUME NEW c \in 1..MaxCalls PROVE runs[c] + Cardinality(Copies(c)) <= Handed(c)
    BY DEF Accounted
  <2>1. Copies(c) = {} /\ runs[c] = 0 /\ Handed(c) = 0
    BY <1>1 DEF HttpInit, Copies, Handed
  <2>2. Cardinality({}) = 0
    BY FS_EmptySet, Zenon
  <2> QED
    BY <2>1, <2>2
<1> QED
  BY <1>2, <1>3, <1>4, <1>5, <1>6 DEF HttpInv

(* Steps that leave the network alone.                                     *)
LEMMA AccountStays ==
  ASSUME Accounted, UNCHANGED <<config, wire, runs, calls, sent>>
  PROVE  Accounted'
BY DEF Accounted, Copies, Handed, Budget

LEMMA SleptStays ==
  ASSUME Slept, UNCHANGED <<config, sleeps>>
  PROVE  Slept'
BY DEF Slept, backoff_for_attempt

-----------------------------------------------------------------------------
(* An attempt fails: it is tried again or the call returns.                *)

LEMMA FailKeeps ==
  ASSUME HttpInv, NEW e \in Errors, Fail(e), pc \in {"inner", "flight", "body"},
         pc = "inner" => e \in {"url", "serialize"} /\ sent = 0,
         pc # "inner" => e \notin {"url", "serialize"}
  PROVE  HttpInv'
<1> DEFINE n == Len(log)
<1>1. /\ HttpTypeOK /\ Trying /\ Executed /\ Slept /\ Accounted
      /\ log \in Seq(Errors) /\ n \in Nat /\ sleeps \in Seq(Nat) /\ Len(sleeps) \in Nat
  BY DEF HttpInv, HttpTypeOK
<1>2. config.max_retries \in Nat /\ Budget = config.max_retries + 1 /\ config.retry_on_status \subseteq Statuses
  BY <1>1, ConfigFacts DEF HttpTypeOK, Budget
<1>3. /\ log' \in Seq(Errors) /\ Len(log') = n + 1 /\ log'[n + 1] = e
      /\ \A i \in 1..n : log'[i] = log[i]
  BY <1>1, AppendProperties DEF Fail
<1>4. /\ UNCHANGED <<config, api, calls, sent, wire, runs>> /\ reply' = NoReply
      /\ \A x : is_retryable(x)' <=> is_retryable(x)
  BY DEF Fail, is_retryable
<1>5. /\ calls > 0 /\ result = "none" /\ AllRetryable /\ n <= config.max_retries
      /\ log # <<>> => api.name \in Retried
      /\ sent = IF pc \in {"flight", "body"} THEN n + 1 ELSE n
      /\ Len(sleeps) = n
  BY <1>1 DEF Trying
<1>6. pc = "inner" => ~is_retryable(e)
  BY <1>2, StatusNames DEF is_retryable
<1>7. AllButLastRetryable'
  BY <1>1, <1>3, <1>4, <1>5 DEF AllButLastRetryable, AllRetryable
<1>8. is_retryable(e) => AllRetryable'
  <2> SUFFICES ASSUME is_retryable(e), NEW i \in 1..Len(log') PROVE is_retryable(log[i])'
    BY DEF AllRetryable
  <2>1. is_retryable(log[i])' <=> is_retryable(log'[i])
    BY <1>4 DEF is_retryable
  <2>2. i \in 1..n \/ i = n + 1
    BY <1>1, <1>3
  <2> QED
    BY <1>3, <1>5, <2>1, <2>2 DEF AllRetryable
<1>9. Accounted'
  BY <1>1, <1>4, AccountStays
<1>10. CASE MayRetry(e)
  <2>1. PICK d \in backoff_for_attempt(n) : sleeps' = Append(sleeps, d)
    BY <1>10 DEF Fail
  <2>2. pc' = "backoff" /\ UNCHANGED result
    BY <1>10 DEF Fail
  <2>3. d \in Nat
    BY <1>1, <2>1, BackoffBounded DEF HttpTypeOK
  <2>4. /\ sleeps' \in Seq(Nat) /\ Len(sleeps') = n + 1 /\ sleeps'[n + 1] = d
        /\ \A i \in 1..n : sleeps'[i] = sleeps[i]
    BY <1>1, <1>5, <2>1, <2>3, AppendProperties
  <2>5. n < config.max_retries /\ api.name \in Retried /\ is_retryable(e)
    BY <1>10 DEF MayRetry
  <2>6. pc \in {"flight", "body"}
    BY <1>6, <2>5
  <2>7. HttpTypeOK'
    BY <1>1, <1>2, <1>3, <1>4, <2>2, <2>4, <2>5 DEF HttpTypeOK, Budget, NoReply
  <2>8. Trying'
    BY <1>1, <1>2, <1>3, <1>4, <1>5, <1>8, <2>2, <2>4, <2>5, <2>6 DEF Trying
  <2>9. Slept'
    <3> SUFFICES ASSUME NEW i \in 1..Len(sleeps') PROVE sleeps'[i] \in backoff_for_attempt(i - 1)'
      BY DEF Slept
    <3>1. backoff_for_attempt(i - 1)' = backoff_for_attempt(i - 1)
      BY <1>4 DEF backoff_for_attempt
    <3>2. i \in 1..n \/ i = n + 1
      BY <1>1, <2>4
    <3>3. CASE i \in 1..n
      BY <1>1, <1>5, <2>4, <3>1, <3>3 DEF Slept
    <3>4. CASE i = n + 1
      <4>1. i - 1 = n
        BY <1>1, <3>4
      <4> QED
        BY <2>1, <2>4, <3>1, <3>4, <4>1
    <3> QED
      BY <3>2, <3>3, <3>4
  <2>10. Returned' /\ Executed'
    BY <1>4, <1>5, <2>2 DEF Returned, Executed, NoReply
  <2> QED
    BY <1>9, <2>7, <2>8, <2>9, <2>10 DEF HttpInv
<1>11. CASE ~MayRetry(e)
  <2> DEFINE x == IF Exhausted(e) THEN "exhausted" ELSE e
  <2>1. pc' = "idle" /\ result' = x /\ UNCHANGED sleeps
    BY <1>11 DEF Fail, HttpReturn
  <2>2. x \in {"exhausted"} \cup Errors
    OBVIOUS
  <2>3. HttpTypeOK'
    BY <1>1, <1>2, <1>3, <1>4, <1>5, <2>1, <2>2 DEF HttpTypeOK, Budget, NoReply
  <2>4. Trying' /\ Slept'
    BY <1>1, <1>4, <2>1, SleptStays DEF Trying
  <2>5. x # "ok" /\ (x \in Errors => x = e) /\ x # "none"
    BY StatusNames DEF Errors
  <2>6. Executed'
    BY <1>4, <2>1, <2>5 DEF Executed, NoReply
  <2>7. x = "exhausted" => Len(log') = config.max_retries + 1 /\ AllRetryable' /\ sent = config.max_retries + 1
    <3> SUFFICES ASSUME x = "exhausted" PROVE Len(log') = config.max_retries + 1 /\ AllRetryable' /\ sent = config.max_retries + 1
      OBVIOUS
    <3>1. Exhausted(e)
      BY StatusNames DEF Errors
    <3>2. api.name \in Retried /\ is_retryable(e) /\ n >= config.max_retries
      BY <1>1, <1>2, <1>11, <3>1 DEF Exhausted, MayRetry
    <3>3. n = config.max_retries /\ pc # "inner"
      BY <1>1, <1>2, <1>5, <1>6, <3>2
    <3> QED
      BY <1>3, <1>5, <1>8, <3>2, <3>3
  <2>8. sent <= Len(log') /\ (api.name \notin Retried \/ config.max_retries = 0 => sent <= 1)
    <3>1. sent <= n + 1
      BY <1>1, <1>5
    <3>2. api.name \notin Retried => n = 0
      BY <1>5
    <3>3. config.max_retries = 0 => n = 0
      BY <1>1, <1>5
    <3> QED
      BY <1>1, <1>3, <1>5, <3>1, <3>2, <3>3
  <2>9. e \in {"url", "serialize"} => sent = 0
    OBVIOUS
  <2> HIDE DEF x
  <2>10. Returned'
    <3>1. Budget' = config.max_retries + 1
      BY <1>4 DEF Budget
    <3>2. result' \in Errors' /\ log' # <<>> => log'[Len(log')] = result'
      BY <1>3, <2>1, <2>5 DEF Errors
    <3>3. result' \in {"url", "serialize"} => sent' = 0
      BY <1>4, <2>1, <2>5, <2>9 DEF Errors
    <3>4. result' = "exhausted" => Len(log') = Budget' /\ AllRetryable' /\ sent' = Budget'
      BY <1>4, <2>1, <2>7, <3>1
    <3> QED
      BY <1>4, <1>5, <1>7, <2>1, <2>8, <3>2, <3>3, <3>4 DEF Returned
  <2> QED
    BY <1>9, <2>3, <2>4, <2>6, <2>10 DEF HttpInv
<1> QED
  BY <1>10, <1>11

-----------------------------------------------------------------------------
(* The other ways a call ends: a success, a query that does not serialise, *)
(* and a future that is dropped.                                           *)

LEMMA EndKeeps ==
  ASSUME HttpInv, pc # "idle", NEW x \in {"ok", "cancelled", "serialize"}, HttpReturn(x),
         UNCHANGED <<config, api, calls, sent, log, sleeps, wire, runs>>, reply' = NoReply,
         x = "ok" => runs[calls] >= 1,
         x = "serialize" => log = <<>> /\ sent = 0
  PROVE  HttpInv'
<1>1. /\ HttpTypeOK /\ Trying /\ Executed /\ Slept /\ Accounted
      /\ Len(log) \in Nat /\ config.max_retries \in Nat
  BY ConfigFacts DEF HttpInv, HttpTypeOK
<1>2. /\ calls > 0 /\ AllRetryable /\ Len(log) <= config.max_retries
      /\ log # <<>> => api.name \in Retried
      /\ sent \in {Len(log), Len(log) + 1}
  BY <1>1 DEF Trying
<1>3. pc' = "idle" /\ result' = x
  BY DEF HttpReturn
<1>4. HttpTypeOK'
  BY <1>1, <1>3 DEF HttpTypeOK, Budget, NoReply, Errors
<1>5. Trying' /\ Slept' /\ Accounted'
  BY <1>1, <1>3, SleptStays, AccountStays DEF Trying
<1>6. Executed'
  BY <1>3 DEF Executed, NoReply
<1>7. AllRetryable' /\ AllButLastRetryable'
  BY <1>1, <1>2 DEF AllRetryable, AllButLastRetryable, is_retryable
<1>8. sent' <= Len(log') \/ sent' <= Len(log') + 1
  BY <1>1, <1>2
<1>9. api'.name \notin Retried \/ config'.max_retries = 0 => sent' <= 1
  <2>1. log = <<>> => Len(log) = 0
    OBVIOUS
  <2> QED
    BY <1>1, <1>2, <2>1
<1>10. result' \in Errors' /\ log' # <<>> => log'[Len(log')] = result'
  BY <1>3, StatusNames DEF Errors
<1> QED
  <2>1. Returned'
    BY <1>2, <1>3, <1>7, <1>8, <1>9, <1>10 DEF Returned
  <2> QED
    BY <1>4, <1>5, <1>6, <2>1 DEF HttpInv

LEMMA StartKeeps ==
  ASSUME HttpInv, NEW a \in Apis, NEW t \in BOOLEAN, Start(a, t)
  PROVE  HttpInv'
<1>1. /\ HttpTypeOK /\ Executed /\ Accounted
      /\ calls \in Nat /\ sent \in Nat /\ sent <= Budget /\ MaxCalls \in Nat /\ Budget \in Nat
  BY ConfigFacts, HttpAssumption DEF HttpInv, HttpTypeOK
<1>2. /\ pc = "idle" /\ calls < MaxCalls /\ pc' = "inner" /\ calls' = calls + 1
      /\ api' = [name |-> a, timeout |-> t]
      /\ sent' = 0 /\ log' = <<>> /\ sleeps' = <<>> /\ result' = "none"
      /\ UNCHANGED <<config, wire, runs, reply>>
  BY DEF Start, netVars
<1>3. HttpTypeOK'
  <2>1. api' \in [name : Apis, timeout : BOOLEAN]
    BY <1>2
  <2>2. Budget' = Budget
    BY <1>2 DEF Budget
  <2> QED
    BY <1>1, <1>2, <2>1, <2>2 DEF HttpTypeOK
<1>4. Trying'
  BY <1>1, <1>2, ConfigFacts DEF Trying, AllRetryable, HttpTypeOK
<1>5. Returned' /\ Slept'
  BY <1>2 DEF Returned, Slept
<1>6. Executed'
  BY <1>1, <1>2 DEF Executed, NoReply
<1>7. Accounted'
  <2> SUFFICES ASSUME NEW c \in 1..MaxCalls
               PROVE  (runs[c] + Cardinality(Copies(c)) <= Handed(c))'
    BY DEF Accounted
  <2>1. Copies(c)' = Copies(c) /\ runs'[c] = runs[c] /\ Budget' = Budget
    BY <1>2 DEF Copies, Budget
  <2>2. runs[c] + Cardinality(Copies(c)) <= Handed(c)
    BY <1>1 DEF Accounted
  <2>3. Handed(c) <= Handed(c)' /\ Handed(c) \in Nat /\ Handed(c)' \in Nat
    BY <1>1, <1>2, <2>1 DEF Handed
  <2>4. runs[c] \in Nat /\ Cardinality(Copies(c)) \in Nat
    BY <1>1, WireFinite DEF HttpTypeOK
  <2> QED
    BY <2>1, <2>2, <2>3, <2>4
<1> QED
  BY <1>3, <1>4, <1>5, <1>6, <1>7 DEF HttpInv

LEMMA SendKeeps ==
  ASSUME HttpInv, HttpSend
  PROVE  HttpInv'
<1>1. /\ HttpTypeOK /\ Trying /\ Executed /\ Slept /\ Accounted
      /\ calls \in Nat /\ sent \in Nat /\ MaxCalls \in Nat /\ Budget \in Nat
      /\ Budget = config.max_retries + 1 /\ config.max_retries \in Nat
  BY ConfigFacts, HttpAssumption DEF HttpInv, HttpTypeOK, Budget
<1>2. /\ pc = "inner" /\ pc' = "flight" /\ sent' = sent + 1
      /\ wire' = wire \cup {<<calls, sent + 1>>}
      /\ UNCHANGED <<config, api, calls, log, sleeps, result, runs, reply>>
  BY DEF HttpSend
<1>3. /\ calls > 0 /\ result = "none" /\ AllRetryable /\ Len(log) <= config.max_retries
      /\ log # <<>> => api.name \in Retried
      /\ sent = Len(log) /\ Len(sleeps) = Len(log)
  BY <1>1, <1>2 DEF Trying
<1>4. calls \in 1..MaxCalls /\ sent + 1 \in 1..Budget
  BY <1>1, <1>3 DEF HttpTypeOK
<1>5. HttpTypeOK'
  <2>1. wire' \subseteq (1..MaxCalls) \X (1..Budget)
    BY <1>1, <1>2, <1>4 DEF HttpTypeOK
  <2>2. Budget' = Budget
    BY <1>2 DEF Budget
  <2> QED
    BY <1>1, <1>2, <1>4, <2>1, <2>2 DEF HttpTypeOK
<1>6. Trying' /\ Returned'
  <2>1. AllRetryable'
    BY <1>2, <1>3 DEF AllRetryable, is_retryable
  <2> QED
    BY <1>2, <1>3, <2>1 DEF Trying, Returned
<1>7. Slept'
  BY <1>1, <1>2, SleptStays
<1>8. Executed'
  BY <1>1, <1>2, <1>3 DEF Executed
<1>9. Accounted'
  <2> SUFFICES ASSUME NEW c \in 1..MaxCalls
               PROVE  (runs[c] + Cardinality(Copies(c)) <= Handed(c))'
    BY DEF Accounted
  <2>1. /\ runs'[c] = runs[c] /\ runs[c] \in Nat /\ Cardinality(Copies(c)) \in Nat
        /\ IsFiniteSet(Copies(c))
        /\ runs[c] + Cardinality(Copies(c)) <= Handed(c)
    BY <1>1, <1>2, WireFinite DEF HttpTypeOK, Accounted
  <2>2. CASE c = calls
    <3>1. Copies(c)' = Copies(c) \cup {<<calls, sent + 1>>}
      BY <1>2, <2>2 DEF Copies
    <3>2. Cardinality(Copies(c)') \in {Cardinality(Copies(c)), Cardinality(Copies(c)) + 1}
      BY <2>1, <3>1, FS_AddElement
    <3>3. Handed(c)' = sent + 1 /\ Handed(c) = sent
      BY <1>2, <2>2 DEF Handed
    <3> QED
      BY <1>1, <2>1, <3>2, <3>3
  <2>3. CASE c # calls
    <3>1. Copies(c)' = Copies(c)
      BY <1>2, <2>3 DEF Copies
    <3>2. Handed(c)' = Handed(c)
      BY <1>2, <2>3 DEF Handed, Budget
    <3> QED
      BY <2>1, <3>1, <3>2
  <2> QED
    BY <2>2, <2>3
<1> QED
  BY <1>5, <1>6, <1>7, <1>8, <1>9 DEF HttpInv

LEMMA ArriveKeeps ==
  ASSUME HttpInv, Arrive
  PROVE  HttpInv'
<1>1. HttpTypeOK /\ Trying /\ Executed /\ pc = "flight" /\ reply # NoReply
  BY DEF HttpInv, Arrive
<1>2. CASE reply # "ok" /\ Fail(reply)
  <2>1. reply \in Statuses
    BY <1>1, <1>2 DEF HttpTypeOK
  <2>2. reply \in Errors /\ reply \notin {"url", "serialize"}
    BY <2>1, StatusNames DEF Errors
  <2> QED
    BY <1>1, <1>2, <2>2, FailKeeps
<1>3. CASE /\ reply = "ok" /\ reply' = NoReply
           /\ UNCHANGED <<config, api, calls, sent, log, sleeps, wire, runs>>
           /\ HttpReturn("ok")
  <2>1. runs[calls] >= 1
    BY <1>1, <1>3 DEF Executed
  <2> QED
    BY <1>1, <1>3, <2>1, EndKeeps
<1>4. CASE /\ reply = "ok" /\ reply' = NoReply
           /\ UNCHANGED <<config, api, calls, sent, log, sleeps, wire, runs>>
           /\ pc' = "body" /\ UNCHANGED result
  <2>1. runs[calls] >= 1
    BY <1>1, <1>4 DEF Executed
  <2>2. HttpTypeOK'
    BY <1>1, <1>4 DEF HttpTypeOK, Budget
  <2>3. Trying' /\ Returned' /\ Executed'
    BY <1>1, <1>4, <2>1 DEF Trying, Returned, Executed, AllRetryable, is_retryable
  <2>4. Slept' /\ Accounted'
    BY <1>4, SleptStays, AccountStays DEF HttpInv
  <2> QED
    BY <2>2, <2>3, <2>4 DEF HttpInv
<1> QED
  BY <1>2, <1>3, <1>4 DEF Arrive

LEMMA WakeKeeps ==
  ASSUME HttpInv, Wake
  PROVE  HttpInv'
<1>1. /\ pc = "backoff" /\ pc' = "inner"
      /\ UNCHANGED <<config, api, calls, sent, log, sleeps, result, wire, runs, reply>>
  BY DEF Wake, callVars, netVars
<1>2. HttpTypeOK'
  BY <1>1 DEF HttpInv, HttpTypeOK, Budget
<1>3. Trying' /\ Returned' /\ Executed'
  BY <1>1 DEF HttpInv, Trying, Returned, Executed, AllRetryable, is_retryable
<1>4. Slept' /\ Accounted'
  BY <1>1, SleptStays, AccountStays DEF HttpInv
<1> QED
  BY <1>2, <1>3, <1>4 DEF HttpInv

-----------------------------------------------------------------------------
(* The network and the server.                                             *)

LEMMA CallKeeps ==
  ASSUME Trying, Returned, Slept, UNCHANGED <<config, pc, callVars>>
  PROVE  Trying' /\ Returned' /\ Slept'
<1>1. UNCHANGED <<config, pc, api, calls, sent, log, sleeps, result>>
  BY DEF callVars
<1>2. Trying'
  BY <1>1 DEF Trying, AllRetryable, is_retryable
<1>3. (AllRetryable' <=> AllRetryable) /\ (AllButLastRetryable' <=> AllButLastRetryable)
  BY <1>1 DEF AllRetryable, AllButLastRetryable, is_retryable
<1>4. Returned'
  BY <1>1, <1>3 DEF Returned, Budget
<1> QED
  BY <1>1, <1>2, <1>4, SleptStays

(* A request is taken from the wire and carried out at most once.          *)
LEMMA TakenOnce ==
  ASSUME HttpInv, NEW r \in wire, wire' = wire \ {r}, UNCHANGED <<config, calls, sent>>,
         \/ UNCHANGED runs
         \/ runs' = [runs EXCEPT ![r[1]] = @ + 1]
  PROVE  /\ Accounted'
         /\ wire' \subseteq (1..MaxCalls) \X (1..Budget)
         /\ runs' \in [1..MaxCalls -> 0..Budget]
         /\ \A c \in 1..MaxCalls : runs'[c] >= runs[c]
         /\ runs' # runs => runs'[r[1]] >= 1
<1>1. /\ HttpTypeOK /\ Accounted /\ MaxCalls \in Nat /\ Budget \in Nat
      /\ sent \in 0..Budget /\ runs \in [1..MaxCalls -> 0..Budget]
      /\ r[1] \in 1..MaxCalls
  BY ConfigFacts, HttpAssumption DEF HttpInv, HttpTypeOK
<1>2. ASSUME NEW c \in 1..MaxCalls
      PROVE  /\ runs'[c] + Cardinality(Copies(c)') <= Handed(c)
             /\ runs'[c] \in 0..Budget /\ runs'[c] >= runs[c]
             /\ Handed(c)' = Handed(c)
             /\ c = r[1] /\ runs' # runs => runs'[c] >= 1
  <2>1. /\ runs[c] \in Nat /\ Cardinality(Copies(c)) \in Nat /\ IsFiniteSet(Copies(c))
        /\ runs[c] + Cardinality(Copies(c)) <= Handed(c)
    BY <1>1, WireFinite DEF HttpTypeOK, Accounted
  <2>2. Handed(c) \in Nat /\ Handed(c) <= Budget /\ Handed(c)' = Handed(c)
    BY <1>1 DEF Handed, Budget
  <2>3. CASE c = r[1]
    <3>1. Copies(c)' = Copies(c) \ {r} /\ r \in Copies(c)
      BY <2>3 DEF Copies
    <3>2. Cardinality(Copies(c)') = Cardinality(Copies(c)) - 1
      BY <2>1, <3>1, FS_RemoveElement
    <3>3. Cardinality(Copies(c)') \in Nat
      BY <2>1, <3>1, FS_RemoveElement, FS_CardinalityType
    <3>4. runs'[c] \in {runs[c], runs[c] + 1} /\ (runs' # runs => runs'[c] = runs[c] + 1)
      BY <1>1, <2>3
    <3>5. runs'[c] + Cardinality(Copies(c)') <= runs[c] + Cardinality(Copies(c))
      BY <2>1, <3>2, <3>4
    <3>6. runs'[c] >= runs[c] /\ (runs' # runs => runs'[c] >= 1)
      BY <2>1, <3>4
    <3>7. runs'[c] + Cardinality(Copies(c)') <= Handed(c)
      BY <2>1, <2>2, <3>2, <3>3, <3>4, <3>5
    <3> DEFINE a == runs'[c]
               k == Cardinality(Copies(c)')
               h == Handed(c)
    <3>8. a \in 0..Budget
      <4>1. a \in Nat /\ k \in Nat /\ h \in Nat /\ a + k <= h /\ h <= Budget /\ Budget \in Nat
        BY <1>1, <2>1, <2>2, <3>3, <3>4, <3>7
      <4> HIDE DEF a, k, h
      <4> QED
        BY ONLY <4>1
    <3> QED
      BY <2>2, <3>6, <3>7, <3>8
  <2>4. CASE c # r[1]
    <3>1. Copies(c)' = Copies(c)
      BY <2>4 DEF Copies
    <3>2. runs'[c] = runs[c]
      BY <1>1, <2>4
    <3> QED
      BY <1>1, <2>1, <2>2, <2>4, <3>1, <3>2
  <2> QED
    BY <2>3, <2>4
<1>3. Accounted'
  BY <1>2 DEF Accounted
<1>4. runs' \in [1..MaxCalls -> 0..Budget]
  BY <1>1, <1>2
<1>5. wire' \subseteq (1..MaxCalls) \X (1..Budget)
  BY <1>1 DEF HttpTypeOK
<1> QED
  BY <1>1, <1>2, <1>3, <1>4, <1>5

LEMMA NetworkKeeps ==
  ASSUME HttpInv, NEW r \in wire, Serve(r) \/ Overload(r) \/ Lose(r)
  PROVE  HttpInv'
<1>1. /\ wire' = wire \ {r} /\ UNCHANGED <<config, pc, callVars>>
      /\ UNCHANGED runs \/ runs' = [runs EXCEPT ![r[1]] = @ + 1]
  BY DEF Serve, Overload, Lose
<1>2. UNCHANGED <<config, pc, api, calls, sent, log, sleeps, result>>
  BY <1>1 DEF callVars
<1>3. /\ Accounted' /\ wire' \subseteq (1..MaxCalls) \X (1..Budget)
      /\ runs' \in [1..MaxCalls -> 0..Budget]
      /\ \A c \in 1..MaxCalls : runs'[c] >= runs[c]
      /\ runs' # runs => runs'[r[1]] >= 1
  BY <1>1, <1>2, TakenOnce
<1>4. /\ reply' \in {reply, "ok"} \cup Statuses
      /\ reply' # reply => Awaited(r)
      /\ reply' # reply /\ reply' = "ok" => runs'[r[1]] >= 1
  <2>1. CASE Serve(r)
    <3>1. runs'[r[1]] >= 1
      BY <2>1 , <1>3 DEF Serve, HttpInv, HttpTypeOK
    <3> QED
      BY <2>1, <3>1 DEF Serve
  <2>2. CASE Overload(r)
    BY <2>2, StatusNames DEF Overload
  <2>3. CASE Lose(r)
    BY <2>3 DEF Lose
  <2> QED
    BY <2>1, <2>2, <2>3
<1>5. HttpTypeOK'
  <2>1. Budget' = Budget
    BY <1>2 DEF Budget
  <2> QED
    BY <1>2, <1>3, <1>4, <2>1 DEF HttpInv, HttpTypeOK
<1>6. Executed'
  <2>1. reply' # NoReply => pc' = "flight"
    BY <1>2, <1>4 DEF HttpInv, Executed, Awaited
  <2>2. ASSUME reply' = "ok" \/ pc' = "body" \/ result' = "ok" PROVE runs'[calls] >= 1
    <3>1. CASE reply' # reply
      <4>1. (Awaited(r) /\ reply' = "ok") \/ pc = "body" \/ result = "ok"
        BY <1>2, <1>4, <2>2, <3>1
      <4>2. Awaited(r) => r = <<calls, sent>> /\ pc = "flight" /\ result = "none"
        BY DEF Awaited, HttpInv, Trying
      <4> QED
        BY <1>4, <3>1, <4>1, <4>2
    <3>2. CASE reply' = reply
      <4>1. runs[calls] >= 1
        BY <1>2, <2>2, <3>2 DEF HttpInv, Executed
      <4>2. calls > 0
        BY <1>2, <2>2, <3>2 DEF HttpInv, Executed, Trying, Returned, NoReply
      <4>3. calls \in 1..MaxCalls
        BY <4>2 DEF HttpInv, HttpTypeOK
      <4>4. runs[calls] \in Nat /\ runs'[calls] \in Nat /\ runs'[calls] >= runs[calls]
        BY <1>3, <4>3, SMTT(30) DEF HttpInv, HttpTypeOK, Budget
      <4> QED
        BY <4>1, <4>4
    <3> QED
      BY <3>1, <3>2
  <2> QED
    BY <1>2, <2>1, <2>2 DEF Executed
<1> QED
  BY <1>1, <1>3, <1>5, <1>6, CallKeeps DEF HttpInv

-----------------------------------------------------------------------------
LEMMA HttpKeeps == HttpInv /\ [HttpNext]_httpVars => HttpInv'
<1> SUFFICES ASSUME HttpInv, [HttpNext]_httpVars PROVE HttpInv'
  OBVIOUS
<1>1. ASSUME NEW a \in Apis, NEW t \in BOOLEAN, Start(a, t) PROVE HttpInv'
  BY <1>1, StartKeeps
<1>2. CASE QueryError
  <2>1. /\ pc = "inner" /\ HttpReturn("serialize") /\ log = <<>> /\ sent = 0
        /\ UNCHANGED <<config, api, calls, sent, log, sleeps, wire, runs, reply>>
    BY <1>2 DEF QueryError, netVars
  <2>2. reply' = NoReply
    BY <2>1 DEF HttpInv, Executed
  <2> QED
    BY <2>1, <2>2, EndKeeps
<1>3. CASE PrepareError
  <2>1. PICK e \in {"url", "serialize"} : Fail(e)
    BY <1>3 DEF PrepareError
  <2>2. e \in Errors /\ pc = "inner" /\ sent = 0
    BY <1>3 DEF PrepareError, Errors
  <2> QED
    BY <2>1, <2>2, FailKeeps
<1>4. CASE HttpSend
  BY <1>4, SendKeeps
<1>5. CASE Arrive
  BY <1>5, ArriveKeeps
<1>6. CASE BodyOk
  <2>1. /\ pc = "body" /\ HttpReturn("ok")
        /\ UNCHANGED <<config, api, calls, sent, log, sleeps, wire, runs, reply>>
    BY <1>6 DEF BodyOk, netVars
  <2>2. reply' = NoReply /\ runs[calls] >= 1
    BY <2>1 DEF HttpInv, Executed
  <2> QED
    BY <2>1, <2>2, EndKeeps
<1>7. CASE BodyError
  <2>1. PICK e \in {"deserialize", "request"} : Fail(e)
    BY <1>7 DEF BodyError
  <2>2. e \in Errors /\ e \notin {"url", "serialize"} /\ pc = "body"
    BY <1>7 DEF BodyError, Errors
  <2> QED
    BY <2>1, <2>2, FailKeeps
<1>8. CASE Timeout
  <2>1. "timeout" \in Errors /\ pc = "flight" /\ Fail("timeout")
    BY <1>8 DEF Timeout, Errors
  <2> QED
    BY <2>1, FailKeeps
<1>9. CASE TransportError
  <2>1. "request" \in Errors /\ pc = "flight" /\ Fail("request")
    BY <1>9 DEF TransportError, Errors
  <2> QED
    BY <2>1, FailKeeps
<1>10. CASE Wake
  BY <1>10, WakeKeeps
<1>11. CASE Cancel
  <2>1. /\ pc # "idle" /\ HttpReturn("cancelled") /\ reply' = NoReply
        /\ UNCHANGED <<config, api, calls, sent, log, sleeps, wire, runs>>
    BY <1>11 DEF Cancel
  <2> QED
    BY <2>1, EndKeeps
<1>12. ASSUME NEW r \in wire, Serve(r) \/ Overload(r) \/ Lose(r) PROVE HttpInv'
  BY <1>12, NetworkKeeps
<1>13. CASE UNCHANGED httpVars
  <2>1. UNCHANGED <<config, pc, callVars, wire, runs, reply>> /\ UNCHANGED <<calls, sent>>
    BY <1>13 DEF httpVars, netVars, callVars
  <2>2. HttpTypeOK' /\ Executed'
    BY <1>13 DEF httpVars, netVars, callVars, HttpInv, HttpTypeOK, Executed, Budget
  <2> QED
    BY <2>1, <2>2, CallKeeps, AccountStays DEF HttpInv
<1> QED
  BY <1>1, <1>2, <1>3, <1>4, <1>5, <1>6, <1>7, <1>8, <1>9, <1>10, <1>11, <1>12, <1>13
  DEF HttpNext, HttpStep

-----------------------------------------------------------------------------
(* What the invariant says to the caller.                                  *)

LEMMA RetryableCount ==
  ASSUME HttpTypeOK
  PROVE  /\ NRetryable \in Nat
         /\ AllRetryable => NRetryable = Len(log)
         /\ AllButLastRetryable => NRetryable + 1 >= Len(log)
<1> DEFINE n == Len(log)
           R == {i \in DOMAIN log : is_retryable(log[i])}
<1>1. n \in Nat /\ DOMAIN log = 1..n
  BY DEF HttpTypeOK
<1>2. IsFiniteSet(1..n) /\ Cardinality(1..n) = n
  <2>1. n \in Int /\ 1 \in Int
    BY <1>1
  <2> HIDE DEF n
  <2>2. IsFiniteSet(1..n)
    BY <2>1, FS_Interval
  <2>3. Cardinality(1..n) = IF 1 > n THEN 0 ELSE n - 1 + 1
    BY <2>1, FS_Interval
  <2> QED
    BY <1>1, <2>2, <2>3
<1>3. IsFiniteSet(R) /\ Cardinality(R) \in Nat
  BY <1>1, <1>2, FS_Subset, FS_CardinalityType
<1>4. ASSUME AllRetryable PROVE Cardinality(R) = n
  <2>1. R = 1..n
    BY <1>1, <1>4 DEF AllRetryable
  <2> QED
    BY <1>2, <2>1
<1>5. ASSUME AllButLastRetryable PROVE Cardinality(R) + 1 >= n
  <2>1. 1..(n - 1) \subseteq R
    BY <1>1, <1>5 DEF AllButLastRetryable
  <2>2. CASE n = 0
    BY <1>3, <2>2
  <2>3. CASE n > 0
    <3>1. Cardinality(1..(n - 1)) = n - 1
      BY <1>1, <2>3, FS_Interval
    <3>2. Cardinality(1..(n - 1)) <= Cardinality(R)
      BY <1>3, <2>1, FS_Subset
    <3> QED
      BY <1>1, <1>3, <3>1, <3>2
  <2> QED
    BY <1>1, <2>2, <2>3
<1> QED
  BY <1>3, <1>4, <1>5 DEF NRetryable

LEMMA HttpSafe ==
  HttpInv => OkMeansExecuted /\ RepeatsExplained /\ ErrorsHonest /\ BackoffGrows
<1> SUFFICES ASSUME HttpInv PROVE OkMeansExecuted /\ RepeatsExplained /\ ErrorsHonest /\ BackoffGrows
  OBVIOUS
<1>1. /\ HttpTypeOK /\ Trying /\ Returned /\ Executed /\ Slept /\ Accounted
      /\ Len(log) \in Nat /\ config.max_retries \in Nat /\ Budget = config.max_retries + 1
      /\ sent \in Nat /\ calls \in Nat
  BY ConfigFacts DEF HttpInv, HttpTypeOK, Budget
<1>2. OkMeansExecuted
  BY <1>1 DEF Executed, OkMeansExecuted
<1>3. NRetryable \in Nat
  BY <1>1, RetryableCount
<1>4. RepeatsExplained
  <2> SUFFICES ASSUME calls > 0
               PROVE  /\ runs[calls] <= sent /\ sent <= 1 + NRetryable
                      /\ (api.name \notin Retried \/ config.max_retries = 0) => sent <= 1
    BY DEF RepeatsExplained
  <2>1. runs[calls] <= sent
    <3>1. calls \in 1..MaxCalls
      BY <1>1 DEF HttpTypeOK
    <3>2. /\ runs[calls] \in Nat /\ Cardinality(Copies(calls)) \in Nat
          /\ runs[calls] + Cardinality(Copies(calls)) <= Handed(calls) /\ Handed(calls) = sent
      BY <1>1, <3>1, WireFinite, SMTT(30) DEF HttpTypeOK, Accounted, Handed
    <3> QED
      BY <1>1, <3>2
  <2>2. CASE pc # "idle"
    <3>1. /\ AllRetryable /\ sent <= Len(log) + 1 /\ (log # <<>> => api.name \in Retried)
          /\ Len(log) <= config.max_retries
      BY <1>1, <2>2 DEF Trying
    <3>2. NRetryable = Len(log)
      BY <1>1, <3>1, RetryableCount
    <3>3. log = <<>> => Len(log) = 0
      OBVIOUS
    <3> QED
      BY <1>1, <2>1, <3>1, <3>2, <3>3
  <2>3. CASE pc = "idle"
    <3>1. /\ AllButLastRetryable
          /\ sent <= Len(log) \/ (sent <= Len(log) + 1 /\ AllRetryable)
          /\ api.name \notin Retried \/ config.max_retries = 0 => sent <= 1
      BY <1>1, <2>3 DEF Returned
    <3>2. NRetryable + 1 >= Len(log) /\ (AllRetryable => NRetryable = Len(log))
      BY <1>1, <3>1, RetryableCount
    <3> QED
      BY <1>1, <1>3, <2>1, <3>1, <3>2
  <2> QED
    BY <2>2, <2>3
<1>5. ErrorsHonest
  <2>1. CASE pc # "idle"
    <3>1. result = "none" /\ "none" \notin Errors
      BY <1>1, <2>1, StatusNames DEF Trying, Errors
    <3> QED
      BY <3>1 DEF ErrorsHonest
  <2>2. CASE pc = "idle"
    <3>1. AllRetryable => NRetryable = Len(log)
      BY <1>1, RetryableCount
    <3>2. result = "exhausted" => Len(log) = Budget /\ NRetryable = Budget /\ sent = Budget
      BY <1>1, <2>2, <3>1 DEF Returned
    <3>3. result \in Errors /\ log # <<>> => Last(log) = result
      BY <1>1, <2>2 DEF Returned, Last
    <3>4. \A i \in 1..(Len(log) - 1) : is_retryable(log[i])
      BY <1>1, <2>2 DEF Returned, AllButLastRetryable
    <3>5. result \in {"url", "serialize"} => sent = 0
      BY <1>1, <2>2 DEF Returned
    <3> QED
      BY <3>2, <3>3, <3>4, <3>5 DEF ErrorsHonest
  <2> QED
    BY <2>1, <2>2
<1>6. BackoffGrows
  <2> SUFFICES ASSUME config.backoff_multiplier >= 2, NEW i \in 1..Len(sleeps)
               PROVE  sleeps[i] <= config.max_backoff /\ (i > 1 => sleeps[i - 1] <= sleeps[i])
    BY DEF BackoffGrows
  <2>1. Len(sleeps) \in Nat /\ i - 1 \in Nat /\ config \in Configs
    BY <1>1 DEF HttpTypeOK
  <2>2. sleeps[i] \in backoff_for_attempt(i - 1)
    BY <1>1 DEF Slept
  <2>3. sleeps[i] <= config.max_backoff
    BY <2>1, <2>2, BackoffBounded
  <2>4. ASSUME i > 1 PROVE sleeps[i - 1] <= sleeps[i]
    <3>1. i - 1 \in 1..Len(sleeps) /\ i - 2 \in Nat /\ (i - 1) - 1 = i - 2 /\ (i - 2) + 1 = i - 1
      BY <2>1, <2>4
    <3>2. sleeps[i - 1] \in backoff_for_attempt(i - 2)
      BY <1>1, <3>1 DEF Slept
    <3>3. sleeps[i] \in backoff_for_attempt((i - 2) + 1)
      BY <2>2, <3>1
    <3> QED
      BY <2>1, <3>1, <3>2, <3>3, BackoffStep
  <2> QED
    BY <2>3, <2>4
<1> QED
  BY <1>2, <1>4, <1>5, <1>6

(* A success was carried out, a request is repeated only for a retryable   *)
(* error, the error returned is what happened to the attempts, and backoff *)
(* grows to its cap: for every policy, status set and network              *)
(* (call_with_retry_full, backoff_for_attempt).                            *)
THEOREM HttpAnswersAreHonest ==
  HttpSpec => [](HttpTypeOK /\ OkMeansExecuted /\ RepeatsExplained /\ ErrorsHonest /\ BackoffGrows)
<1>1. HttpSpec => []HttpInv
  BY HttpBegins, HttpKeeps, PTL DEF HttpSpec
<1>2. HttpInv => HttpTypeOK
  BY DEF HttpInv
<1> QED
  BY <1>1, <1>2, HttpSafe, PTL

-----------------------------------------------------------------------------
(* The typed socket.  Its invariant joins the two ends by a way through    *)
(* the protocol, along the frames that are between them.                   *)

(* Types up to the names they are given.                                   *)
Named == {"rec", "var"}

LEMMA SameAsItself == ASSUME NEW m PROVE SameType(m, m)
BY DEF SameType

LEMMA SameBack == ASSUME NEW m, NEW n, SameType(m, n) PROVE SameType(n, m)
BY Zenon DEF SameType

LEMMA SameThrough ==
  ASSUME NEW m, NEW n, NEW o, SameType(m, n), SameType(n, o) PROVE SameType(m, o)
BY Zenon DEF SameType

LEMMA NameIsSame ==
  ASSUME NEW n \in Nodes, Protocol[n].op \in Named PROVE SameType(n, Protocol[n].next)
BY Zenon DEF SameType, NamesKept, Named

(* Two types that are no names and one up to names are one type: the nodes *)
(* from which names lead to the first are a set that keeps names together. *)
LEMMA NoNameIsItself ==
  ASSUME NEW m \in Nodes, NEW n \in Nodes, SameType(m, n),
         Protocol[m].op \notin Named, Protocol[n].op \notin Named
  PROVE  m = n
<1> DEFINE Forward(T) == \A x \in Nodes : x \in T /\ Protocol[x].op \in Named => Protocol[x].next \in T
           S == {x \in Nodes : \A T \in SUBSET Nodes : x \in T /\ Forward(T) => m \in T}
<1>1. ASSUME NEW x \in Nodes, Protocol[x].op \in Named
      PROVE  x \in S <=> Protocol[x].next \in S
  <2>0. Protocol[x].next \in Nodes
    BY SessionAssumption
  <2>1. ASSUME Protocol[x].next \in S PROVE x \in S
    BY <1>1, <2>1
  <2>2. ASSUME x \in S PROVE Protocol[x].next \in S
    <3> SUFFICES ASSUME NEW T \in SUBSET Nodes, Protocol[x].next \in T, Forward(T) PROVE m \in T
      BY <2>0
    <3>1. Forward(T \cup {x}) /\ T \cup {x} \in SUBSET Nodes
      OBVIOUS
    <3>2. m \in T \cup {x}
      BY <2>2, <3>1
    <3> QED
      BY <1>1, <3>2
  <2> QED
    BY <2>1, <2>2
<1>2. S \in NamesKept
  BY <1>1 DEF NamesKept, Named
<1>3. m \in S
  OBVIOUS
<1>4. n \in S
  BY <1>2, <1>3 DEF SameType
<1>5. Forward({n})
  OBVIOUS
<1> QED
  BY <1>4, <1>5

-----------------------------------------------------------------------------
(* A frame takes the protocol from one type to another: what the server    *)
(* sends, its close frame at the end, what the client sends, its pings.    *)
Follows(tell, choose, m, f, n) ==
  \E v \in Nodes :
    /\ SameType(m, v)
    /\ \/ Protocol[v].op = tell /\ f = Text(Protocol[v].msg) /\ SameType(Protocol[v].next, n)
       \/ Protocol[v].op = choose /\ f = Text("L") /\ SameType(Protocol[v].left, n)
       \/ Protocol[v].op = choose /\ f = Text("R") /\ SameType(Protocol[v].right, n)
Moves(by, m, f, n) ==
  \/ by = "s" /\ Follows("send", "select", m, f, n)
  \/ by = "s" /\ f = Close /\ \E v \in Nodes : SameType(m, v) /\ Protocol[v].op = "end"
  \/ by = "c" /\ Follows("recv", "offer", m, f, n)
  \/ by = "c" /\ f = Ping /\ SameType(m, n)

(* The frames of a channel lead from the reader's type to the writer's.    *)
Leads(by, a, c, b) ==
  \E p \in [1..(Len(c) + 1) -> Nodes] :
    /\ SameType(a, p[1]) /\ SameType(p[Len(c) + 1], b)
    /\ \A i \in 1..Len(c) : Moves(by, p[i], c[i], p[i + 1])

OnlyPinged(c) == \A i \in 1..Len(c) : c[i] = Ping

LEMMA FramesDiffer ==
  /\ Ping # Close
  /\ \A m : Text(m) # Ping /\ Text(m) # Close /\ Text(m).kind = "text"
  /\ \A m, n : Text(m) = Text(n) => m = n
  /\ Ping.kind # "text" /\ Close.kind # "text"
  /\ Text("L") # Text("R")
BY DEF Ping, Close, Text

LEMMA MovesFromSame ==
  ASSUME NEW by, NEW m, NEW f, NEW n, NEW k, NEW l,
         Moves(by, m, f, n), SameType(k, m), SameType(n, l)
  PROVE  Moves(by, k, f, l)
<1>1. ASSUME NEW t, NEW c, Follows(t, c, m, f, n) PROVE Follows(t, c, k, f, l)
  BY <1>1, SameThrough, Zenon DEF Follows
<1>2. CASE by = "s" /\ Follows("send", "select", m, f, n)
  BY <1>1, <1>2 DEF Moves
<1>3. CASE by = "c" /\ Follows("recv", "offer", m, f, n)
  BY <1>1, <1>3 DEF Moves
<1>4. CASE by = "s" /\ f = Close /\ \E v \in Nodes : SameType(m, v) /\ Protocol[v].op = "end"
  BY <1>4, SameThrough, Zenon DEF Moves
<1>5. CASE by = "c" /\ f = Ping /\ SameType(m, n)
  BY <1>5, SameThrough, Zenon DEF Moves
<1> QED
  BY <1>2, <1>3, <1>4, <1>5 DEF Moves

(* At a type that is no name a frame is the one this type moves.           *)
LEMMA MovesHere ==
  ASSUME NEW m \in Nodes, Protocol[m].op \notin Named, NEW f, NEW n, NEW by, Moves(by, m, f, n)
  PROVE  LET t == Protocol[m]
             Told(tell, choose) ==
               \/ t.op = tell /\ f = Text(t.msg) /\ SameType(t.next, n)
               \/ t.op = choose /\ f = Text("L") /\ SameType(t.left, n)
               \/ t.op = choose /\ f = Text("R") /\ SameType(t.right, n)
         IN  \/ by = "s" /\ Told("send", "select")
             \/ by = "s" /\ f = Close /\ t.op = "end"
             \/ by = "c" /\ Told("recv", "offer")
             \/ by = "c" /\ f = Ping /\ SameType(m, n)
<1>1. ASSUME NEW v \in Nodes, SameType(m, v), Protocol[v].op \notin Named PROVE v = m
  BY <1>1, NoNameIsItself
<1>2. ASSUME NEW t, NEW c, t \notin Named, c \notin Named, Follows(t, c, m, f, n)
      PROVE  \/ Protocol[m].op = t /\ f = Text(Protocol[m].msg) /\ SameType(Protocol[m].next, n)
             \/ Protocol[m].op = c /\ f = Text("L") /\ SameType(Protocol[m].left, n)
             \/ Protocol[m].op = c /\ f = Text("R") /\ SameType(Protocol[m].right, n)
  BY <1>1, <1>2, Zenon DEF Follows
<1>3. {"send", "select", "recv", "offer", "end"} \cap Named = {}
  BY DEF Named
<1>4. CASE by = "s" /\ Follows("send", "select", m, f, n)
  BY <1>2, <1>3, <1>4
<1>5. CASE by = "c" /\ Follows("recv", "offer", m, f, n)
  BY <1>2, <1>3, <1>5
<1>6. CASE by = "s" /\ f = Close /\ \E v \in Nodes : SameType(m, v) /\ Protocol[v].op = "end"
  BY <1>1, <1>3, <1>6
<1>7. CASE by = "c" /\ f = Ping /\ SameType(m, n)
  BY <1>7
<1> QED
  BY <1>4, <1>5, <1>6, <1>7 DEF Moves

(* The way through an empty channel, a longer and a shorter one.           *)
LEMMA LeadsNowhere ==
  ASSUME NEW by, NEW a \in Nodes, NEW b \in Nodes
  PROVE  Leads(by, a, <<>>, b) <=> SameType(a, b)
<1>1. Len(<<>>) = 0
  OBVIOUS
<1>2. ASSUME Leads(by, a, <<>>, b) PROVE SameType(a, b)
  <2>1. PICK p \in [1..(Len(<<>>) + 1) -> Nodes] : SameType(a, p[1]) /\ SameType(p[Len(<<>>) + 1], b)
    BY <1>2 DEF Leads
  <2>2. SameType(a, p[1]) /\ SameType(p[1], b)
    BY <1>1, <2>1
  <2> QED
    BY <2>2, SameThrough
<1>3. ASSUME SameType(a, b) PROVE Leads(by, a, <<>>, b)
  <2> DEFINE p == [i \in 1..(Len(<<>>) + 1) |-> a]
  <2>1. p \in [1..(Len(<<>>) + 1) -> Nodes] /\ p[1] = a /\ p[Len(<<>>) + 1] = a
    BY <1>1
  <2>2. SameType(a, a)
    BY SameAsItself
  <2> HIDE DEF p
  <2> QED
    BY <1>1, <1>3, <2>1, <2>2 DEF Leads
<1> QED
  BY <1>2, <1>3

LEMMA LeadsBetweenSame ==
  ASSUME NEW by, NEW a, NEW b, NEW k, NEW l, NEW c,
         Leads(by, a, c, b), SameType(k, a), SameType(b, l)
  PROVE  Leads(by, k, c, l)
<1>1. PICK p \in [1..(Len(c) + 1) -> Nodes] :
        /\ SameType(a, p[1]) /\ SameType(p[Len(c) + 1], b)
        /\ \A i \in 1..Len(c) : Moves(by, p[i], c[i], p[i + 1])
  BY Zenon DEF Leads
<1>2. SameType(k, p[1]) /\ SameType(p[Len(c) + 1], l)
  BY <1>1, SameThrough
<1> QED
  BY <1>1, <1>2, Zenon DEF Leads

LEMMA LeadsFurther ==
  ASSUME NEW by, NEW a, NEW b, NEW c \in Seq(Frames), NEW f \in Frames, NEW n \in Nodes,
         Leads(by, a, c, b), Moves(by, b, f, n)
  PROVE  Leads(by, a, Append(c, f), n)
<1>1. PICK p \in [1..(Len(c) + 1) -> Nodes] :
        /\ SameType(a, p[1]) /\ SameType(p[Len(c) + 1], b)
        /\ \A i \in 1..Len(c) : Moves(by, p[i], c[i], p[i + 1])
  BY Zenon DEF Leads
<1> DEFINE d == Append(c, f)
           q == [i \in 1..(Len(d) + 1) |-> IF i = Len(c) + 2 THEN n ELSE p[i]]
<1>2. /\ Len(d) = Len(c) + 1 /\ Len(c) \in Nat
      /\ \A i \in 1..(Len(c) + 1) : d[i] = IF i = Len(c) + 1 THEN f ELSE c[i]
  BY Appended
<1> HIDE DEF d
<1>3. /\ q \in [1..(Len(d) + 1) -> Nodes]
      /\ q[1] = p[1] /\ q[Len(d) + 1] = n
      /\ \A i \in 1..(Len(c) + 1) : q[i] = p[i]
  BY <1>1, <1>2
<1> HIDE DEF q
<1>4. ASSUME NEW i \in 1..Len(d) PROVE Moves(by, q[i], d[i], q[i + 1])
  <2>1. CASE i = Len(c) + 1
    <3>1. q[i] = p[Len(c) + 1] /\ d[i] = f /\ q[i + 1] = n
      BY <1>2, <1>3, <2>1
    <3>2. Moves(by, p[Len(c) + 1], f, n)
      BY <1>1, MovesFromSame, SameAsItself
    <3> QED
      BY <3>1, <3>2
  <2>2. CASE i # Len(c) + 1
    <3>1. i \in 1..Len(c) /\ q[i] = p[i] /\ d[i] = c[i] /\ q[i + 1] = p[i + 1]
      BY <1>2, <1>3, <2>2
    <3> QED
      BY <1>1, <3>1
  <2> QED
    BY <2>1, <2>2
<1>5. SameType(a, q[1]) /\ SameType(q[Len(d) + 1], n)
  BY <1>1, <1>3, SameAsItself
<1>6. Leads(by, a, d, n)
  BY <1>3, <1>4, <1>5, Zenon DEF Leads
<1> QED
  BY <1>6 DEF d

LEMMA LeadsOn ==
  ASSUME NEW by, NEW a, NEW b, NEW c \in Seq(Frames), c # <<>>, Leads(by, a, c, b)
  PROVE  \E n \in Nodes : Moves(by, a, Head(c), n) /\ Leads(by, n, Tail(c), b)
<1>1. PICK p \in [1..(Len(c) + 1) -> Nodes] :
        /\ SameType(a, p[1]) /\ SameType(p[Len(c) + 1], b)
        /\ \A i \in 1..Len(c) : Moves(by, p[i], c[i], p[i + 1])
  BY Zenon DEF Leads
<1> DEFINE d == Tail(c)
           q == [i \in 1..(Len(d) + 1) |-> p[i + 1]]
<1>2. /\ Len(c) \in Nat /\ Len(c) >= 1 /\ Len(d) = Len(c) - 1 /\ Head(c) = c[1]
      /\ \A i \in 1..Len(d) : d[i] = c[i + 1]
  OBVIOUS
<1> HIDE DEF d
<1>3. /\ q \in [1..(Len(d) + 1) -> Nodes]
      /\ q[1] = p[2] /\ q[Len(d) + 1] = p[Len(c) + 1] /\ p[2] \in Nodes
      /\ \A i \in 1..Len(d) : q[i] = p[i + 1] /\ q[i + 1] = p[(i + 1) + 1]
  BY <1>1, <1>2
<1> HIDE DEF q
<1>4. ASSUME NEW i \in 1..Len(d) PROVE Moves(by, q[i], d[i], q[i + 1])
  <2>1. i + 1 \in 1..Len(c)
    BY <1>2
  <2>2. Moves(by, p[i + 1], c[i + 1], p[(i + 1) + 1])
    BY <1>1, <2>1
  <2> QED
    BY <1>2, <1>3, <2>2
<1>5. Leads(by, p[2], d, b)
  <2>1. SameType(p[2], q[1]) /\ SameType(q[Len(d) + 1], b)
    BY <1>1, <1>3, SameAsItself
  <2> QED
    BY <1>3, <1>4, <2>1, Zenon DEF Leads
<1>6. Moves(by, a, Head(c), p[2])
  <2>1. Moves(by, p[1], c[1], p[2])
    BY <1>1, <1>2
  <2> QED
    BY <1>1, <1>2, <2>1, MovesFromSame, SameAsItself
<1> QED
  BY <1>3, <1>5, <1>6 DEF d

(* Pings lead nowhere; and nothing but pings waits for a server whose turn *)
(* it is.                                                                  *)
LEMMA PingsStay ==
  ASSUME NEW a \in Nodes, NEW b \in Nodes, SameType(a, b), NEW c \in Seq(Frames), OnlyPinged(c)
  PROVE  Leads("c", a, c, b)
<1> DEFINE p == [i \in 1..(Len(c) + 1) |-> a]
<1>1. Len(c) \in Nat
  OBVIOUS
<1>2. p \in [1..(Len(c) + 1) -> Nodes] /\ p[1] = a /\ p[Len(c) + 1] = a
      /\ \A i \in 1..Len(c) : p[i] = a /\ p[i + 1] = a
  BY <1>1
<1> HIDE DEF p
<1>3. SameType(a, a)
  BY SameAsItself
<1>4. \A i \in 1..Len(c) : Moves("c", p[i], c[i], p[i + 1])
  BY <1>2, <1>3 DEF Moves, OnlyPinged
<1> QED
  BY <1>2, <1>3, <1>4 DEF Leads

LEMMA OnlyPings ==
  ASSUME NEW a \in Nodes, NEW b \in Nodes, NEW c \in Seq(Frames), Leads("c", a, c, b),
         ~HasText(c) \/ Protocol[a].op \in {"send", "select", "end"}
  PROVE  OnlyPinged(c) /\ SameType(a, b)
<1>1. PICK p \in [1..(Len(c) + 1) -> Nodes] :
        /\ SameType(a, p[1]) /\ SameType(p[Len(c) + 1], b)
        /\ \A i \in 1..Len(c) : Moves("c", p[i], c[i], p[i + 1])
  BY Zenon DEF Leads
<1>2. Len(c) \in Nat
  OBVIOUS
<1>3. ASSUME NEW i \in 1..Len(c), SameType(a, p[i]) PROVE c[i] = Ping /\ SameType(a, p[i + 1])
  <2>1. Moves("c", a, c[i], p[i + 1])
    BY <1>1, <1>3, MovesFromSame, SameAsItself
  <2>2. c[i] = Ping /\ SameType(a, p[i + 1])
    <3>1. CASE ~HasText(c)
      <4>1. c[i].kind # "text"
        BY <3>1 DEF HasText
      <4>2. ~Follows("recv", "offer", a, c[i], p[i + 1])
        BY <4>1, FramesDiffer, Zenon DEF Follows
      <4> QED
        BY <2>1, <4>2 DEF Moves
    <3>2. CASE Protocol[a].op \in {"send", "select", "end"}
      <4>1. Protocol[a].op \notin Named
        BY <3>2 DEF Named
      <4> QED
        BY <2>1, <3>2, <4>1, MovesHere
    <3> QED
      BY <3>1, <3>2
  <2> QED
    BY <2>2
<1>4. ASSUME NEW i \in 1..(Len(c) + 1) PROVE SameType(a, p[i])
  <2> DEFINE S == {j \in 1..(Len(c) + 1) : ~SameType(a, p[j])}
  <2> SUFFICES ASSUME S # {} PROVE FALSE
    OBVIOUS
  <2>0. S \subseteq Nat
    BY <1>2
  <2>1. PICK k \in S : \A l \in S : k <= l
    BY <2>0, LeastNumber, Zenon
  <2>2. k \in 1..(Len(c) + 1) /\ ~SameType(a, p[k])
    BY <2>1
  <2>3. k # 1
    BY <1>1, <2>2
  <2>4. k - 1 \in 1..Len(c) /\ k - 1 \in 1..(Len(c) + 1) /\ k - 1 \notin S /\ (k - 1) + 1 = k
    BY <1>2, <2>1, <2>2, <2>3
  <2>5. SameType(a, p[k - 1])
    BY <2>4
  <2>6. SameType(a, p[(k - 1) + 1])
    BY <1>3, <2>4, <2>5
  <2> QED
    BY <2>2, <2>4, <2>6
<1>5. OnlyPinged(c)
  BY <1>2, <1>3, <1>4 DEF OnlyPinged
<1>6. SameType(a, p[Len(c) + 1])
  BY <1>2, <1>4
<1> QED
  BY <1>1, <1>5, <1>6, SameThrough

-----------------------------------------------------------------------------
(* The ends are joined by what is under way in one direction.  When one of *)
(* them is gone the other still reads what the protocol led it to expect.  *)
InTouch ==
  /\ alive["s"] /\ alive["c"] =>
       \/ s2c = <<>> /\ Leads("c", spos, c2s, cpos)
       \/ OnlyPinged(c2s) /\ Leads("s", cpos, s2c, spos)
  /\ alive["s"] /\ ~alive["c"] => \E n \in Nodes : Leads("c", spos, c2s, n)
  /\ alive["c"] /\ ~alive["s"] => \E n \in Nodes : Leads("s", cpos, s2c, n)

WsInv ==
  /\ WsTypeOK
  /\ alive["s"] => \A i \in 1..Len(s2c) : s2c[i].kind = "text"
  /\ honest => serr # "deserialize" /\ cerr # "surprised" /\ InTouch

LEMMA WsBegins == WsInit => WsInv
<1> SUFFICES ASSUME WsInit PROVE WsInv
  OBVIOUS
<1>1. alive \in [{"s", "c"} -> BOOLEAN] /\ alive["s"] /\ alive["c"] /\ honest \in BOOLEAN
  BY Zenon DEF WsInit
<1>2. s2c \in Seq(Frames) /\ c2s \in Seq(Frames) /\ Len(s2c) = 0 /\ Len(c2s) = 0
  BY DEF WsInit
<1>3. WsTypeOK
  BY <1>1, <1>2, SessionAssumption DEF WsInit, WsTypeOK
<1>4. Leads("c", spos, c2s, cpos)
  BY LeadsNowhere, SameAsItself, SessionAssumption DEF WsInit
<1> QED
  BY <1>1, <1>2, <1>3, <1>4 DEF WsInit, WsInv, InTouch

(* What each end may read, whether or not the other is there.              *)
LEMMA ServerReads ==
  ASSUME WsInv, honest, alive["s"] PROVE \E n \in Nodes : Leads("c", spos, c2s, n)
<1> USE DEF WsInv, WsTypeOK, InTouch
<1>1. CASE Leads("c", spos, c2s, cpos)
  BY <1>1
<1>2. CASE OnlyPinged(c2s)
  BY <1>2, PingsStay, SameAsItself
<1>3. CASE ~alive["c"]
  BY <1>3
<1> QED
  BY <1>1, <1>2, <1>3

LEMMA ClientReads ==
  ASSUME WsInv, honest, alive["c"] PROVE \E n \in Nodes : Leads("s", cpos, s2c, n)
<1> USE DEF WsInv, WsTypeOK, InTouch
<1>1. CASE s2c = <<>>
  BY <1>1, LeadsNowhere, SameAsItself
<1>2. CASE Leads("s", cpos, s2c, spos)
  BY <1>2
<1>3. CASE ~alive["s"]
  BY <1>3
<1> QED
  BY <1>1, <1>2, <1>3

(* Whose turn it is.                                                       *)
LEMMA ServerTurn ==
  ASSUME WsInv, honest, alive["s"], alive["c"], Protocol[spos].op \in {"send", "select", "end"}
  PROVE  OnlyPinged(c2s) /\ Leads("s", cpos, s2c, spos)
<1> USE DEF WsInv, WsTypeOK
<1>1. CASE s2c = <<>> /\ Leads("c", spos, c2s, cpos)
  <2>1. OnlyPinged(c2s) /\ SameType(spos, cpos)
    BY <1>1, OnlyPings
  <2> QED
    BY <1>1, <2>1, SameBack, LeadsNowhere
<1>2. CASE OnlyPinged(c2s) /\ Leads("s", cpos, s2c, spos)
  BY <1>2
<1> QED
  BY <1>1, <1>2 DEF InTouch

LEMMA ClientTurn ==
  ASSUME WsInv, honest, alive["c"], Protocol[cpos].op \in {"recv", "offer", "end"}, 
         Protocol[cpos].op = "end" => alive["s"]
  PROVE  s2c = <<>> /\ (alive["s"] => Leads("c", spos, c2s, cpos))
<1> USE DEF WsInv, WsTypeOK
<1>1. s2c = <<>>
  <2> SUFFICES ASSUME s2c # <<>> PROVE FALSE
    OBVIOUS
  <2>1. PICK n \in Nodes : Leads("s", cpos, s2c, n)
    BY ClientReads
  <2>2. PICK m \in Nodes : Moves("s", cpos, Head(s2c), m)
    BY <2>1, LeadsOn
  <2>3. Protocol[cpos].op \notin Named
    BY DEF Named
  <2>4. Head(s2c) = Close /\ Protocol[cpos].op = "end"
    BY <2>2, <2>3, MovesHere
  <2>5. Head(s2c).kind = "text"
    <3>1. 1 \in 1..Len(s2c) /\ Head(s2c) = s2c[1]
      OBVIOUS
    <3> QED
      BY <2>4, <3>1
  <2> QED
    BY <2>4, <2>5, FramesDiffer
<1>2. ASSUME alive["s"] PROVE Leads("c", spos, c2s, cpos)
  <2>1. CASE s2c = <<>> /\ Leads("c", spos, c2s, cpos)
    BY <2>1
  <2>2. CASE OnlyPinged(c2s) /\ Leads("s", cpos, s2c, spos)
    BY <1>1, <2>2, LeadsNowhere, SameBack, PingsStay
  <2> QED
    BY <1>2, <2>1, <2>2 DEF InTouch
<1> QED
  BY <1>1, <1>2

-----------------------------------------------------------------------------
(* The ends of a session.                                                  *)
LEMMA DropKeeps ==
  ASSUME WsInv, NEW e \in {"closed", "serialize", "deserialize", "transport"}, Drop(e),
         honest => e # "deserialize"
  PROVE  WsInv'
<1>1. /\ UNCHANGED <<phase, spos, cpos, s2c, c2s, cerr, honest>> /\ serr' = e
      /\ alive' = [alive EXCEPT !["s"] = FALSE]
  BY DEF Drop
<1>2. alive' \in [{"s", "c"} -> BOOLEAN] /\ alive'["s"] = FALSE /\ alive'["c"] = alive["c"]
  BY <1>1 DEF WsInv, WsTypeOK
<1>3. WsTypeOK'
  BY <1>1, <1>2 DEF WsInv, WsTypeOK
<1>4. honest => InTouch'
  BY <1>1, <1>2, ClientReads DEF InTouch, Leads
<1> QED
  BY <1>1, <1>2, <1>3, <1>4 DEF WsInv

LEMMA ClientEndKeeps ==
  ASSUME WsInv, NEW e \in {"done", "closed"}, ClientEnds(e)
  PROVE  WsInv'
<1>1. /\ UNCHANGED <<phase, spos, cpos, s2c, c2s, serr, honest>> /\ cerr' = e
      /\ alive' = [alive EXCEPT !["c"] = FALSE]
  BY DEF ClientEnds
<1>2. alive' \in [{"s", "c"} -> BOOLEAN] /\ alive'["c"] = FALSE /\ alive'["s"] = alive["s"]
  BY <1>1 DEF WsInv, WsTypeOK
<1>3. WsTypeOK'
  BY <1>1, <1>2 DEF WsInv, WsTypeOK
<1>4. honest => InTouch'
  BY <1>1, <1>2, ServerReads DEF InTouch, Leads
<1> QED
  BY <1>1, <1>2, <1>3, <1>4 DEF WsInv

(* No frame, and each end stays or moves to a type of another name.        *)
LEMMA NamesKeep ==
  ASSUME WsInv, UNCHANGED <<s2c, c2s, alive, serr, cerr, honest>>,
         phase' \in {"http", "switching", "open", "refused", "failed"},
         spos' \in Nodes, cpos' \in Nodes, SameType(spos, spos'), SameType(cpos, cpos')
  PROVE  WsInv'
<1>1. WsTypeOK'
  BY DEF WsInv, WsTypeOK
<1>2. SameType(spos', spos) /\ SameType(cpos', cpos)
  BY SameBack
<1>3. ASSUME honest PROVE InTouch'
  <2>0. InTouch
    BY <1>3 DEF WsInv
  <2>1. \A n : Leads("c", spos, c2s, n) => Leads("c", spos', c2s, n)
    BY <1>2, LeadsBetweenSame, SameAsItself, Zenon
  <2>2. \A n : Leads("s", cpos, s2c, n) => Leads("s", cpos', s2c, n)
    BY <1>2, LeadsBetweenSame, SameAsItself, Zenon
  <2>3. Leads("c", spos, c2s, cpos) => Leads("c", spos', c2s, cpos')
    BY <1>2, LeadsBetweenSame, Zenon
  <2>4. Leads("s", cpos, s2c, spos) => Leads("s", cpos', s2c, spos')
    BY <1>2, LeadsBetweenSame, Zenon
  <2>5. s2c' = s2c /\ c2s' = c2s /\ alive' = alive
    OBVIOUS
  <2>6. alive'["s"] /\ alive'["c"] =>
          \/ s2c' = <<>> /\ Leads("c", spos', c2s', cpos')
          \/ OnlyPinged(c2s') /\ Leads("s", cpos', s2c', spos')
    BY <2>0, <2>3, <2>4, <2>5, Zenon DEF InTouch
  <2>7. alive'["s"] /\ ~alive'["c"] => \E n \in Nodes : Leads("c", spos', c2s', n)
    BY <2>0, <2>1, <2>5, Zenon DEF InTouch
  <2>8. alive'["c"] /\ ~alive'["s"] => \E n \in Nodes : Leads("s", cpos', s2c', n)
    BY <2>0, <2>2, <2>5, Zenon DEF InTouch
  <2> QED
    BY ONLY <2>6, <2>7, <2>8 DEF InTouch
<1> QED
  BY <1>1, <1>3 DEF WsInv

(* The server sends.                                                       *)
LEMMA EmitKeeps ==
  ASSUME WsInv, Protocol[spos].op \in {"send", "select"}, alive["s"],
         NEW m \in Messages \cup Branches, NEW n \in Nodes, Emit(Text(m), n),
         Moves("s", spos, Text(m), n)
  PROVE  WsInv'
<1> DEFINE f == Text(m)
<1>1. CASE ~alive["c"] /\ Drop("transport")
  BY <1>1, DropKeeps
<1>2. CASE alive["c"] /\ Len(s2c) < Window /\ s2c' = Append(s2c, f) /\ UNCHANGED c2s /\ Advance(n)
  <2>1. /\ s2c' = Append(s2c, f) /\ spos' = n /\ Len(s2c) < Window /\ alive["c"]
        /\ UNCHANGED <<phase, cpos, c2s, alive, serr, cerr, honest>>
    BY <1>2 DEF Advance
  <2>2. f \in Frames /\ f.kind = "text" /\ s2c \in Seq(Frames)
    BY DEF Frames, Text, WsInv, WsTypeOK
  <2> HIDE DEF f
  <2>3. /\ s2c' \in Seq(Frames) /\ Len(s2c') = Len(s2c) + 1 /\ Len(s2c) \in Nat
        /\ \A i \in 1..(Len(s2c) + 1) : s2c'[i] = IF i = Len(s2c) + 1 THEN f ELSE s2c[i]
    BY <2>1, <2>2, Appended
  <2>4. WsTypeOK'
    BY <2>1, <2>3, SessionAssumption DEF WsInv, WsTypeOK
  <2>5. \A i \in 1..Len(s2c') : s2c'[i].kind = "text"
    BY <2>2, <2>3 DEF WsInv
  <2>6. ASSUME honest PROVE InTouch'
    <3>1. OnlyPinged(c2s) /\ Leads("s", cpos, s2c, spos)
      BY <2>1, <2>6, ServerTurn
    <3>2. Leads("s", cpos, Append(s2c, f), n)
      BY <2>2, <3>1, LeadsFurther DEF f
    <3>3. OnlyPinged(c2s') /\ Leads("s", cpos', s2c', spos') /\ alive'["s"] /\ alive'["c"]
      BY <2>1, <3>1, <3>2
    <3> QED
      BY ONLY <3>3 DEF InTouch
  <2> QED
    BY <2>1, <2>4, <2>5, <2>6 DEF WsInv
<1> QED
  BY <1>1, <1>2 DEF Emit, f

(* The server takes a frame and moves to where it leads.                   *)
LEMMA TakeKeeps ==
  ASSUME WsInv, alive["s"], c2s # <<>>, NEW n \in Nodes, c2s' = Tail(c2s), UNCHANGED s2c, Advance(n),
         Head(c2s) = Ping => n = spos,
         honest => \A m \in Nodes : Moves("c", spos, Head(c2s), m) => SameType(n, m)
  PROVE  WsInv'
<1>1. spos' = n /\ UNCHANGED <<phase, cpos, s2c, alive, serr, cerr, honest>>
  BY DEF Advance
<1>2. /\ c2s \in Seq(Frames) /\ c2s' \in Seq(Frames) /\ Len(c2s') = Len(c2s) - 1
      /\ Len(c2s) \in Nat /\ Len(c2s) >= 1 /\ Head(c2s) = c2s[1]
      /\ \A i \in 1..Len(c2s') : c2s'[i] = c2s[i + 1]
  BY DEF WsInv, WsTypeOK
<1>3. WsTypeOK'
  BY <1>1, <1>2, SessionAssumption DEF WsInv, WsTypeOK
<1>4. ASSUME honest PROVE InTouch'
  <2>1. ASSUME NEW k, Leads("c", spos, c2s, k) PROVE Leads("c", n, c2s', k)
    <3>1. PICK m \in Nodes : Moves("c", spos, Head(c2s), m) /\ Leads("c", m, Tail(c2s), k)
      BY <1>2, <2>1, LeadsOn
    <3>2. SameType(n, m)
      BY <1>4, <3>1
    <3> QED
      BY <3>1, <3>2, LeadsBetweenSame, SameAsItself
  <2>2. OnlyPinged(c2s) => OnlyPinged(c2s') /\ n = spos
    BY <1>2 DEF OnlyPinged
  <2>0. InTouch
    BY <1>4 DEF WsInv
  <2>3. alive["c"] => \/ s2c = <<>> /\ Leads("c", n, c2s', cpos)
                      \/ OnlyPinged(c2s') /\ Leads("s", cpos, s2c, n)
    BY <2>0, <2>1, <2>2 DEF InTouch
  <2>4. ~alive["c"] => \E k \in Nodes : Leads("c", n, c2s', k)
    BY <2>0, <2>1 DEF InTouch
  <2>5. alive'["s"] /\ alive'["c"] =>
          \/ s2c' = <<>> /\ Leads("c", spos', c2s', cpos')
          \/ OnlyPinged(c2s') /\ Leads("s", cpos', s2c', spos')
    BY <1>1, <2>3, Zenon
  <2>6. alive'["s"] /\ (~alive'["c"] => \E k \in Nodes : Leads("c", spos', c2s', k))
    BY <1>1, <2>4, Zenon
  <2> QED
    BY ONLY <2>5, <2>6 DEF InTouch
<1> QED
  BY <1>1, <1>3, <1>4 DEF WsInv

(* The client sends: text where its type says so, pings anywhere.          *)
LEMMA ClientSendKeeps ==
  ASSUME WsInv, alive["c"], NEW f \in Frames, NEW n \in Nodes, ClientSends(f, n),
         honest => \/ f = Ping /\ n = cpos
                   \/ Protocol[cpos].op \in {"recv", "offer"} /\ Moves("c", cpos, f, n)
  PROVE  WsInv'
<1>1. /\ c2s' = Append(c2s, f) /\ cpos' = n /\ Len(c2s) < Window
      /\ UNCHANGED <<phase, spos, s2c, alive, serr, cerr, honest>>
  BY DEF ClientSends, ClientAdvance
<1>2. /\ c2s \in Seq(Frames) /\ c2s' \in Seq(Frames) /\ Len(c2s') = Len(c2s) + 1 /\ Len(c2s) \in Nat
      /\ \A i \in 1..(Len(c2s) + 1) : c2s'[i] = IF i = Len(c2s) + 1 THEN f ELSE c2s[i]
  BY <1>1, Appended DEF WsInv, WsTypeOK
<1>3. WsTypeOK'
  BY <1>1, <1>2, SessionAssumption DEF WsInv, WsTypeOK
<1>4. ASSUME honest PROVE InTouch'
  <2>0. InTouch /\ spos \in Nodes /\ cpos \in Nodes
    BY <1>4 DEF WsInv, WsTypeOK
  <2>1. CASE f = Ping /\ n = cpos
    <3>1. Leads("c", spos, c2s, cpos) => Leads("c", spos, c2s', cpos)
      <4>1. Moves("c", cpos, Ping, cpos)
        BY SameAsItself DEF Moves
      <4> QED
        BY <1>1, <1>2, <2>0, <2>1, <4>1, LeadsFurther
    <3>2. OnlyPinged(c2s) => OnlyPinged(c2s')
      BY <1>2, <2>1 DEF OnlyPinged
    <3>3. alive'["s"] /\ alive'["c"] =>
            \/ s2c' = <<>> /\ Leads("c", spos', c2s', cpos')
            \/ OnlyPinged(c2s') /\ Leads("s", cpos', s2c', spos')
      BY <1>1, <2>0, <2>1, <3>1, <3>2, Zenon DEF InTouch
    <3>4. alive'["c"] /\ (~alive'["s"] => \E k \in Nodes : Leads("s", cpos', s2c', k))
      BY <1>1, <2>0, <2>1, Zenon DEF InTouch
    <3> QED
      BY ONLY <3>3, <3>4 DEF InTouch
  <2>2. CASE Protocol[cpos].op \in {"recv", "offer"} /\ Moves("c", cpos, f, n)
    <3>1. s2c = <<>> /\ (alive["s"] => Leads("c", spos, c2s, cpos))
      BY <1>4, <2>2, ClientTurn
    <3>2. alive["s"] => Leads("c", spos, c2s', n)
      BY <1>1, <1>2, <2>2, <3>1, LeadsFurther
    <3>3. Leads("s", n, <<>>, n)
      BY LeadsNowhere, SameAsItself
    <3>4. alive'["s"] => s2c' = <<>> /\ Leads("c", spos', c2s', cpos')
      BY <1>1, <3>1, <3>2, Zenon
    <3>5. alive'["c"] /\ \E k \in Nodes : Leads("s", cpos', s2c', k)
      BY <1>1, <3>1, <3>3, Zenon
    <3> QED
      BY ONLY <3>4, <3>5 DEF InTouch
  <2> QED
    BY <1>4, <2>1, <2>2
<1> QED
  BY <1>1, <1>3, <1>4 DEF WsInv

(* The client takes a frame and moves to where it leads.                   *)
LEMMA ClientTakeKeeps ==
  ASSUME WsInv, alive["c"], s2c # <<>>, NEW n \in Nodes, s2c' = Tail(s2c), UNCHANGED c2s,
         ClientAdvance(n),
         honest => \A m \in Nodes : Moves("s", cpos, Head(s2c), m) => SameType(n, m)
  PROVE  WsInv'
<1>1. cpos' = n /\ UNCHANGED <<phase, spos, c2s, alive, serr, cerr, honest>>
  BY DEF ClientAdvance
<1>2. /\ s2c \in Seq(Frames) /\ s2c' \in Seq(Frames) /\ Len(s2c') = Len(s2c) - 1
      /\ Len(s2c) \in Nat /\ Len(s2c) >= 1
      /\ \A i \in 1..Len(s2c') : s2c'[i] = s2c[i + 1]
  BY DEF WsInv, WsTypeOK
<1>3. WsTypeOK'
  BY <1>1, <1>2, SessionAssumption DEF WsInv, WsTypeOK
<1>4. alive'["s"] => \A i \in 1..Len(s2c') : s2c'[i].kind = "text"
  BY <1>1, <1>2 DEF WsInv
<1>5. ASSUME honest PROVE InTouch'
  <2>0. InTouch
    BY <1>5 DEF WsInv
  <2>1. ASSUME NEW k, Leads("s", cpos, s2c, k) PROVE Leads("s", n, s2c', k)
    <3>1. PICK m \in Nodes : Moves("s", cpos, Head(s2c), m) /\ Leads("s", m, Tail(s2c), k)
      BY <1>2, <2>1, LeadsOn
    <3>2. SameType(n, m)
      BY <1>5, <3>1
    <3> QED
      BY <3>1, <3>2, LeadsBetweenSame, SameAsItself
  <2>2. alive["s"] => OnlyPinged(c2s) /\ Leads("s", n, s2c', spos)
    BY <2>0, <2>1 DEF InTouch
  <2>3. ~alive["s"] => \E k \in Nodes : Leads("s", n, s2c', k)
    BY <2>0, <2>1 DEF InTouch
  <2>4. alive'["s"] => OnlyPinged(c2s') /\ Leads("s", cpos', s2c', spos')
    BY <1>1, <2>2, Zenon
  <2>5. alive'["c"] /\ (~alive'["s"] => \E k \in Nodes : Leads("s", cpos', s2c', k))
    BY <1>1, <2>3, Zenon
  <2> QED
    BY ONLY <2>4, <2>5 DEF InTouch
<1> QED
  BY <1>1, <1>3, <1>4, <1>5 DEF WsInv

LEMMA NodeFacts ==
  ASSUME NEW n \in Nodes
  PROVE  /\ Protocol[n] \in [op : Ops, msg : Messages \cup {"none"},
                             next : Nodes, left : Nodes, right : Nodes]
         /\ Protocol[n].op \in {"send", "recv"} => Protocol[n].msg \in Messages
BY SessionAssumption

LEMMA PeerFacts ==
  ASSUME NEW n \in Nodes
  PROVE  /\ Peer[n].msg = Protocol[n].msg /\ Peer[n].next = Protocol[n].next
         /\ Peer[n].left = Protocol[n].left /\ Peer[n].right = Protocol[n].right
         /\ Peer[n].op = "send" <=> Protocol[n].op = "recv"
         /\ Peer[n].op = "recv" <=> Protocol[n].op = "send"
         /\ Peer[n].op = "select" <=> Protocol[n].op = "offer"
         /\ Peer[n].op = "offer" <=> Protocol[n].op = "select"
         /\ Peer[n].op \in Named <=> Protocol[n].op \in Named
<1>1. Peer[n] = [Protocol[n] EXCEPT !.op = DualOp(Protocol[n].op)]
  BY SessionAssumption DEF Peer, Dual
<1>2. Peer[n].op = DualOp(Protocol[n].op)
      /\ Peer[n].msg = Protocol[n].msg /\ Peer[n].next = Protocol[n].next
      /\ Peer[n].left = Protocol[n].left /\ Peer[n].right = Protocol[n].right
  BY <1>1, NodeFacts
<1> QED
  BY <1>2, NodeFacts DEF DualOp, Ops, Named

LEMMA TextIsAFrame == ASSUME NEW m \in Messages \cup Branches PROVE Text(m) \in Frames
BY DEF Frames

LEMMA WsServerKeeps == WsInv /\ WsServer => WsInv'
<1> SUFFICES ASSUME WsInv, WsServer PROVE WsInv'
  OBVIOUS
<1> DEFINE t == Protocol[spos]
<1>0. /\ spos \in Nodes /\ cpos \in Nodes /\ alive["s"]
      /\ s2c \in Seq(Frames) /\ c2s \in Seq(Frames) /\ SameType(spos, spos)
      /\ t.next \in Nodes /\ t.left \in Nodes /\ t.right \in Nodes
  <2>1. spos \in Nodes /\ cpos \in Nodes /\ s2c \in Seq(Frames) /\ c2s \in Seq(Frames)
    BY DEF WsInv, WsTypeOK
  <2>2. alive["s"]
    BY DEF WsServer, send, recv, offer, eof, select, unfold, close, ServerRuns
  <2> QED
    BY <2>1, <2>2, NodeFacts, SameAsItself
<1>same. \A n : SameType(n, n)
  BY SameAsItself
<1>1. CASE send
  <2>1. t.op = "send" /\ t.msg \in Messages
    BY <1>0, <1>1, NodeFacts DEF send
  <2>2. CASE Emit(Text(t.msg), t.next)
    <3>1. Moves("s", spos, Text(t.msg), t.next)
      BY <1>0, <2>1, <1>same DEF Moves, Follows
    <3> QED
      BY <1>0, <2>1, <2>2, <3>1, EmitKeeps
  <2>3. CASE Drop("serialize")
    BY <2>3, DropKeeps
  <2> QED
    BY <1>1, <2>2, <2>3 DEF send
<1>2. CASE select
  <2>1. t.op = "select"
    BY <1>2 DEF select
  <2>2. CASE Emit(Text("L"), t.left)
    <3>1. Moves("s", spos, Text("L"), t.left)
      BY <1>0, <2>1, <1>same DEF Moves, Follows
    <3> QED
      BY <1>0, <2>1, <2>2, <3>1, EmitKeeps DEF Branches
  <2>3. CASE Emit(Text("R"), t.right)
    <3>1. Moves("s", spos, Text("R"), t.right)
      BY <1>0, <2>1, <1>same DEF Moves, Follows
    <3> QED
      BY <1>0, <2>1, <2>3, <3>1, EmitKeeps DEF Branches
  <2> QED
    BY <1>2, <2>2, <2>3 DEF select
<1>3. CASE recv
  <2>1. t.op = "recv" /\ c2s # <<>> /\ t.op \notin Named
    BY <1>3 DEF recv, Named
  <2>2. ASSUME honest, NEW m \in Nodes, Moves("c", spos, Head(c2s), m)
        PROVE  \/ Head(c2s) = Text(t.msg) /\ SameType(t.next, m)
               \/ Head(c2s) = Ping /\ SameType(spos, m)
    BY <1>0, <2>1, <2>2, MovesHere
  <2>3. CASE /\ Head(c2s) = Text(t.msg) /\ c2s' = Tail(c2s) /\ UNCHANGED s2c
             /\ Advance(t.next)
    <3>1. Head(c2s) # Ping
      BY <2>3, FramesDiffer
    <3>2. honest => \A m \in Nodes : Moves("c", spos, Head(c2s), m) => SameType(t.next, m)
      BY <2>2, <3>1
    <3> HIDE DEF t
    <3> QED
      BY <1>0, <2>1, <2>3, <3>1, <3>2, TakeKeeps
  <2>4. CASE Head(c2s) = Ping /\ c2s' = Tail(c2s) /\ UNCHANGED s2c /\ Advance(spos)
    <3>1. Head(c2s) # Text(t.msg)
      BY <2>4, FramesDiffer
    <3>2. honest => \A m \in Nodes : Moves("c", spos, Head(c2s), m) => SameType(spos, m)
      BY <2>2, <3>1
    <3> QED
      BY <1>0, <2>1, <2>4, <3>2, TakeKeeps
  <2>5. CASE Head(c2s) = Close /\ Drop("closed")
    BY <2>5, DropKeeps
  <2>6. CASE Head(c2s) \notin {Text(t.msg), Ping, Close} /\ Drop("deserialize")
    <3>1. ASSUME honest PROVE FALSE
      <4>1. PICK n \in Nodes : Leads("c", spos, c2s, n)
        BY <1>0, <3>1, ServerReads
      <4>2. PICK m \in Nodes : Moves("c", spos, Head(c2s), m)
        BY <1>0, <2>1, <4>1, LeadsOn
      <4> QED
        BY <2>2, <2>6, <3>1, <4>2
    <3> QED
      BY <2>6, <3>1, DropKeeps
  <2> QED
    BY <1>3, <2>3, <2>4, <2>5, <2>6 DEF recv
<1>4. CASE offer
  <2>1. t.op = "offer" /\ c2s # <<>> /\ t.op \notin Named
    BY <1>4 DEF offer, Named
  <2>2. ASSUME honest, NEW m \in Nodes, Moves("c", spos, Head(c2s), m)
        PROVE  \/ Head(c2s) = Text("L") /\ SameType(t.left, m)
               \/ Head(c2s) = Text("R") /\ SameType(t.right, m)
               \/ Head(c2s) = Ping /\ SameType(spos, m)
    BY <1>0, <2>1, <2>2, MovesHere
  <2>3. CASE /\ Head(c2s).kind = "text" /\ c2s' = Tail(c2s) /\ UNCHANGED s2c
             /\ Advance(IF Head(c2s) = Text("L") THEN t.left ELSE t.right)
    <3> DEFINE n == IF Head(c2s) = Text("L") THEN t.left ELSE t.right
    <3>1. Head(c2s) # Ping /\ n \in Nodes
      BY <1>0, <2>3, FramesDiffer
    <3>2. honest => \A m \in Nodes : Moves("c", spos, Head(c2s), m) => SameType(n, m)
      BY <2>2, <3>1, FramesDiffer
    <3>3. Advance(n)
      BY <2>3
    <3> HIDE DEF n
    <3> QED
      BY <1>0, <2>1, <2>3, <3>1, <3>2, <3>3, TakeKeeps
  <2>4. CASE Head(c2s) = Ping /\ c2s' = Tail(c2s) /\ UNCHANGED s2c /\ Advance(spos)
    <3>1. honest => \A m \in Nodes : Moves("c", spos, Head(c2s), m) => SameType(spos, m)
      BY <2>2, <2>4, FramesDiffer
    <3> QED
      BY <1>0, <2>1, <2>4, <3>1, TakeKeeps
  <2>5. CASE Head(c2s) = Close /\ Drop("closed")
    BY <2>5, DropKeeps
  <2> QED
    BY <1>4, <2>3, <2>4, <2>5 DEF offer
<1>5. CASE eof
  BY <1>5, DropKeeps DEF eof
<1>6. CASE unfold
  <2>1. SameType(spos, t.next)
    BY <1>0, <1>6, NameIsSame DEF unfold, Named
  <2>2. /\ spos' = t.next /\ UNCHANGED <<cpos, s2c, c2s, alive, serr, cerr, honest>>
        /\ phase' \in {"http", "switching", "open", "refused", "failed"}
    BY <1>6 DEF unfold, Advance, WsInv, WsTypeOK
  <2>3. SameType(cpos, cpos') /\ SameType(spos, spos') /\ spos' \in Nodes /\ cpos' \in Nodes
    BY <1>0, <2>1, <2>2, <1>same
  <2> QED
    BY <2>2, <2>3, NamesKeep
<1>7. CASE close
  <2>1. CASE ~alive["c"] /\ Drop("transport")
    BY <2>1, DropKeeps
  <2>2. CASE /\ alive["c"] /\ Len(s2c) < Window /\ s2c' = Append(s2c, Close)
             /\ alive' = [alive EXCEPT !["s"] = FALSE] /\ serr' = "done"
             /\ UNCHANGED <<phase, spos, cpos, c2s, cerr, honest>>
    <3>1. alive' \in [{"s", "c"} -> BOOLEAN] /\ alive'["s"] = FALSE /\ alive'["c"]
      BY <2>2 DEF WsInv, WsTypeOK
    <3>2. Close \in Frames
      BY DEF Frames
    <3>3. s2c' \in Seq(Frames) /\ Len(s2c') = Len(s2c) + 1 /\ Len(s2c) \in Nat
      BY <1>0, <2>2, <3>2, Appended
    <3>4. WsTypeOK'
      BY <2>2, <3>1, <3>3, SessionAssumption DEF WsInv, WsTypeOK
    <3>5. ASSUME honest PROVE \E n \in Nodes : Leads("s", cpos, s2c', n)
      <4>1. t.op = "end"
        BY <1>7 DEF close
      <4>2. Leads("s", cpos, s2c, spos)
        BY <1>0, <2>2, <3>5, <4>1, ServerTurn
      <4>3. Moves("s", spos, Close, spos)
        BY <1>0, <4>1 DEF Moves
      <4>4. Leads("s", cpos, s2c', spos)
        BY <1>0, <2>2, <3>2, <4>2, <4>3, LeadsFurther
      <4> QED
        BY <1>0, <4>4
    <3>6. honest => InTouch'
      BY <2>2, <3>1, <3>5, Zenon DEF InTouch
    <3> QED
      BY <2>2, <3>1, <3>4, <3>6 DEF WsInv
  <2> QED
    BY <1>7, <2>1, <2>2 DEF close
<1> QED
  BY <1>1, <1>2, <1>3, <1>4, <1>5, <1>6, <1>7 DEF WsServer

LEMMA PeerKeeps == WsInv /\ PeerStep => WsInv'
<1> SUFFICES ASSUME WsInv, PeerStep PROVE WsInv'
  OBVIOUS
<1> DEFINE t == Peer[cpos]
           r == Protocol[cpos]
<1>0. /\ spos \in Nodes /\ cpos \in Nodes /\ alive["c"] /\ honest
      /\ s2c \in Seq(Frames) /\ c2s \in Seq(Frames)
      /\ t.next \in Nodes /\ t.left \in Nodes /\ t.right \in Nodes
      /\ t.next = r.next /\ t.left = r.left /\ t.right = r.right /\ t.msg = r.msg
  <2>1. spos \in Nodes /\ cpos \in Nodes /\ s2c \in Seq(Frames) /\ c2s \in Seq(Frames)
    BY DEF WsInv, WsTypeOK
  <2>2. alive["c"] /\ honest
    BY DEF PeerStep, ClientRuns
  <2> QED
    BY <2>1, <2>2, NodeFacts, PeerFacts
<1>same. \A n : SameType(n, n)
  BY SameAsItself
<1>1. CASE t.op = "send" /\ ClientSends(Text(t.msg), t.next)
  <2>1. r.op = "recv" /\ r.msg \in Messages
    BY <1>0, <1>1, PeerFacts, NodeFacts
  <2>2. Moves("c", cpos, Text(t.msg), t.next) /\ Text(t.msg) \in Frames
    BY <1>0, <2>1, <1>same, TextIsAFrame DEF Moves, Follows
  <2> HIDE DEF t
  <2> QED
    BY <1>0, <1>1, <2>1, <2>2, ClientSendKeeps
<1>2. CASE t.op = "select" /\ ClientSends(Text("L"), t.left)
  <2>1. r.op = "offer"
    BY <1>0, <1>2, PeerFacts
  <2>2. Moves("c", cpos, Text("L"), t.left) /\ Text("L") \in Frames
    BY <1>0, <2>1, <1>same, TextIsAFrame DEF Moves, Follows, Branches
  <2> HIDE DEF t
  <2> QED
    BY <1>0, <1>2, <2>1, <2>2, ClientSendKeeps
<1>3. CASE t.op = "select" /\ ClientSends(Text("R"), t.right)
  <2>1. r.op = "offer"
    BY <1>0, <1>3, PeerFacts
  <2>2. Moves("c", cpos, Text("R"), t.right) /\ Text("R") \in Frames
    BY <1>0, <2>1, <1>same, TextIsAFrame DEF Moves, Follows, Branches
  <2> HIDE DEF t
  <2> QED
    BY <1>0, <1>3, <2>1, <2>2, ClientSendKeeps
<1>4. CASE t.op \in {"rec", "var"} /\ ClientAdvance(t.next) /\ UNCHANGED <<s2c, c2s>>
  <2>1. SameType(cpos, r.next)
    BY <1>0, <1>4, PeerFacts, NameIsSame DEF Named
  <2>2. /\ cpos' = t.next /\ UNCHANGED <<spos, s2c, c2s, alive, serr, cerr, honest>>
        /\ phase' \in {"http", "switching", "open", "refused", "failed"}
    BY <1>4 DEF ClientAdvance, WsInv, WsTypeOK
  <2>3. SameType(cpos, cpos') /\ SameType(spos, spos') /\ spos' \in Nodes /\ cpos' \in Nodes
    BY <1>0, <2>1, <2>2, <1>same
  <2> QED
    BY <2>2, <2>3, NamesKeep
<1>5. CASE t.op = "end" /\ ClientEnds("done")
  BY <1>5, ClientEndKeeps
<1>6. CASE t.op \in {"recv", "offer"} /\ s2c = <<>> /\ ~alive["s"] /\ ClientEnds("closed")
  BY <1>6, ClientEndKeeps
<1>7. ASSUME t.op \in {"recv", "offer"}, s2c # <<>>,
             LET f == Head(s2c)
                 expected == IF t.op = "recv" THEN {Text(t.msg)} ELSE {Text(b) : b \in Branches}
             IN IF f \in expected
                THEN /\ s2c' = Tail(s2c) /\ UNCHANGED c2s
                     /\ ClientAdvance(IF t.op = "recv" THEN t.next
                                      ELSE IF f = Text("L") THEN t.left ELSE t.right)
                ELSE ClientEnds("surprised")
      PROVE  WsInv'
  <2> DEFINE f == Head(s2c)
             n == IF t.op = "recv" THEN t.next
                  ELSE IF f = Text("L") THEN t.left ELSE t.right
  <2>1. r.op \notin Named /\ (t.op = "recv" <=> r.op = "send") /\ (t.op = "offer" <=> r.op = "select")
    BY <1>0, <1>7, PeerFacts DEF Named
  <2>2. ASSUME NEW m \in Nodes, Moves("s", cpos, f, m)
        PROVE  \/ t.op = "recv" /\ f = Text(t.msg) /\ SameType(t.next, m)
               \/ t.op = "offer" /\ f = Text("L") /\ SameType(t.left, m)
               \/ t.op = "offer" /\ f = Text("R") /\ SameType(t.right, m)
    <3>1. r.op # "end"
      BY <1>7, <2>1
    <3> QED
      BY <1>0, <2>1, <2>2, <3>1, MovesHere
  <2>3. PICK m \in Nodes : Moves("s", cpos, f, m)
    <3>1. PICK k \in Nodes : Leads("s", cpos, s2c, k)
      BY <1>0, ClientReads
    <3> QED
      BY <1>0, <1>7, <3>1, LeadsOn
  <2>4. f \in IF t.op = "recv" THEN {Text(t.msg)} ELSE {Text(b) : b \in Branches}
    <3>1. CASE t.op = "recv" /\ f = Text(t.msg)
      BY <3>1
    <3>2. CASE t.op = "offer" /\ (f = Text("L") \/ f = Text("R"))
      <4>1. f \in {Text(b) : b \in Branches}
        BY <3>2 DEF Branches
      <4> QED
        BY <3>2, <4>1
    <3> QED
      BY <2>2, <2>3, <3>1, <3>2
  <2>5. s2c' = Tail(s2c) /\ UNCHANGED c2s /\ ClientAdvance(n) /\ n \in Nodes
    BY <1>0, <1>7, <2>4
  <2>6. \A k \in Nodes : Moves("s", cpos, f, k) => SameType(n, k)
    BY <2>2, FramesDiffer
  <2> HIDE DEF n
  <2> QED
    BY <1>0, <1>7, <2>5, <2>6, ClientTakeKeeps
<1> QED
  BY <1>1, <1>2, <1>3, <1>4, <1>5, <1>6, <1>7 DEF PeerStep

LEMMA WsKeeps == WsInv /\ [WsNext]_wsVars => WsInv'
<1> SUFFICES ASSUME WsInv, [WsNext]_wsVars PROVE WsInv'
  OBVIOUS
<1>1. ASSUME UNCHANGED <<spos, cpos, s2c, c2s, alive, serr, cerr, honest>>,
             phase' \in {"http", "switching", "open", "refused", "failed"}
      PROVE  WsInv'
  <2>1. SameType(spos, spos') /\ SameType(cpos, cpos') /\ spos' \in Nodes /\ cpos' \in Nodes
    BY <1>1, SameAsItself DEF WsInv, WsTypeOK
  <2> QED
    BY <1>1, <2>1, NamesKeep
<1>2. CASE \E h \in Headers : Upgrade(h)
  BY <1>1, <1>2 DEF Upgrade
<1>3. CASE Upgraded
  BY <1>1, <1>3 DEF Upgraded
<1>4. CASE WsServer
  BY <1>4, WsServerKeeps
<1>5. CASE PeerStep
  BY <1>5, PeerKeeps
<1>6. CASE RogueStep
  <2>1. alive["c"] /\ ~honest /\ cpos \in Nodes
    BY <1>6 DEF RogueStep, ClientRuns, WsInv, WsTypeOK
  <2>2. CASE \E f \in Frames : ClientSends(f, cpos)
    BY <2>1, <2>2, ClientSendKeeps
  <2>3. CASE s2c # <<>> /\ s2c' = Tail(s2c) /\ UNCHANGED c2s /\ ClientAdvance(cpos)
    BY <2>1, <2>3, ClientTakeKeeps
  <2> QED
    BY <1>6, <2>2, <2>3 DEF RogueStep
<1>7. CASE ClientPing
  <2>1. Ping \in Frames /\ cpos \in Nodes
    BY DEF Frames, WsInv, WsTypeOK
  <2> QED
    BY <1>7, <2>1, ClientSendKeeps DEF ClientPing, ClientRuns
<1>8. CASE ClientLeaves
  BY <1>8, ClientEndKeeps DEF ClientLeaves
<1>9. CASE UNCHANGED wsVars
  BY <1>1, <1>9 DEF wsVars, WsInv, WsTypeOK
<1> QED
  BY <1>2, <1>3, <1>4, <1>5, <1>6, <1>7, <1>8, <1>9 DEF WsNext

LEMMA WsSafe == WsInv => WsTypeOK /\ InStep /\ NeverBothWait
<1> SUFFICES ASSUME WsInv PROVE WsTypeOK /\ InStep /\ NeverBothWait
  OBVIOUS
<1>0. /\ WsTypeOK /\ spos \in Nodes /\ cpos \in Nodes
      /\ s2c \in Seq(Frames) /\ c2s \in Seq(Frames)
  BY DEF WsInv, WsTypeOK
<1>1. ASSUME honest, alive["s"], alive["c"], ~HasText(s2c), ~HasText(c2s)
      PROVE  SameType(spos, cpos)
  <2>1. s2c = <<>>
    <3>1. Len(s2c) = 0
      BY <1>0, <1>1 DEF HasText, WsInv
    <3> QED
      BY <1>0, <3>1
  <2>2. CASE Leads("c", spos, c2s, cpos)
    BY <1>0, <1>1, <2>2, OnlyPings
  <2>3. CASE Leads("s", cpos, s2c, spos)
    BY <1>0, <2>1, <2>3, LeadsNowhere, SameBack
  <2> QED
    BY <1>1, <2>2, <2>3 DEF WsInv, InTouch
<1>2. InStep
  BY <1>1 DEF InStep, WsInv
<1>3. ASSUME honest, ServerRuns, alive["c"], ServerWaits, PeerWaits PROVE FALSE
  <2>0. alive["s"] /\ Window \in Nat \ {0}
    BY <1>3, SessionAssumption DEF ServerRuns
  <2>1. CASE Peer[cpos].op \in {"recv", "offer"} /\ s2c = <<>>
    <3>1. Protocol[cpos].op \in {"send", "select"}
      BY <1>0, <2>1, PeerFacts
    <3>2. Len(s2c) = 0
      BY <2>1
    <3>3. Protocol[spos].op \in {"recv", "offer"} /\ c2s = <<>>
      BY <1>3, <2>0, <3>2 DEF ServerWaits
    <3>4. ~HasText(s2c) /\ ~HasText(c2s)
      BY <2>1, <3>3 DEF HasText
    <3>5. spos = cpos
      BY <1>0, <1>1, <1>3, <2>0, <3>1, <3>3, <3>4, NoNameIsItself DEF Named
    <3> QED
      BY <3>1, <3>3, <3>5
  <2>2. CASE Peer[cpos].op \in {"send", "select"} /\ Len(c2s) = Window
    <3>1. Protocol[cpos].op \in {"recv", "offer"}
      BY <1>0, <2>2, PeerFacts
    <3>2. s2c = <<>>
      BY <1>3, <3>1, ClientTurn
    <3>3. Len(s2c) = 0
      BY <3>2
    <3>4. c2s = <<>>
      BY <1>3, <2>0, <3>3 DEF ServerWaits
    <3>5. Len(c2s) = 0
      BY <3>4
    <3> QED
      BY <2>0, <2>2, <3>5
  <2> QED
    BY <1>3, <2>1, <2>2 DEF PeerWaits
<1> QED
  BY <1>0, <1>2, <1>3 DEF NeverBothWait

(* A typed socket and a client of the dual type stay in step, and never    *)
(* wait for each other, for every protocol and every window.               *)
THEOREM SessionsStayInStep == WsSpec => [](WsTypeOK /\ InStep /\ NeverBothWait)
BY WsBegins, WsKeeps, WsSafe, PTL DEF WsSpec

-----------------------------------------------------------------------------
(* The streaming call.                                                     *)

(* What the handler took is the beginning of what the client wrote, and    *)
(* what is in the request channel continues it, up to an error that can    *)
(* only be the last.                                                       *)
Taken == \A i \in 1..Len(items) : items[i] = i
Pending ==
  IF rxOpen
  THEN /\ \A j \in 1..Len(reqs) :
            \/ reqs[j] = Len(items) + j
            \/ reqs[j] = Broken /\ j = Len(reqs) /\ written = Requests
       /\ \/ Len(items) + Len(reqs) = written
          \/ /\ reqs # <<>> /\ reqs[Len(reqs)] = Broken
             /\ Len(items) + Len(reqs) <= Requests
  ELSE reqs = <<>>

(* The handler holds its receiver while it asks, ends once, and has all it *)
(* wants when it answers.                                                  *)
Complete ==
  \/ Len(items) = Requests
  \/ program.handler = "collect_limit" /\ Len(items) = Limit
  \/ polled = "dropped"
Handling ==
  /\ Len(items) <= Requests
  /\ program.handler = "collect_limit" => Len(items) <= Limit
  /\ closed.req => written = Requests \/ polled = "dropped"
  /\ closed.resp <=> outcome # "running"
  /\ outcome = "running" => (rxOpen <=> program.handler = "echo" \/ hand = NoItem)
  /\ outcome # "running" => ~rxOpen /\ hand = NoItem
  /\ program.handler # "echo" => (hand # NoItem \/ outcome = "done" => Complete)

(* What an echo took is on the wire, in the response channel or in its     *)
(* hand, in this order.                                                    *)
Gone == IF polled = "done" THEN Len(frames) - 1 ELSE Len(frames)
Echoed ==
  program.handler = "echo" /\ polled # "dropped" =>
    /\ Len(items) = Gone + Len(resps) + (IF hand = NoItem THEN 0 ELSE 1)
    /\ \A i \in 1..Gone : frames[i] = i
    /\ \A j \in 1..Len(resps) : resps[j] = Gone + j
    /\ hand # NoItem => hand = Len(items)
Ended ==
  /\ \A i \in 1..Len(frames) : frames[i] = Trailers => i = Len(frames) /\ polled = "done"
  /\ polled = "done" =>
       frames # <<>> /\ frames[Len(frames)] = Trailers /\ resps = <<>> /\ closed.resp

NsInv == NsTypeOK /\ Taken /\ Pending /\ Handling /\ Echoed /\ Ended

LEMMA NsBegins == NsInit => NsInv
<1> SUFFICES ASSUME NsInit PROVE NsInv
  OBVIOUS
<1> USE NativeAssumption
<1>1. reqs \in Seq((1..Requests) \cup {Broken}) /\ resps \in Seq(0..Requests)
      /\ items \in Seq(1..Requests) /\ frames \in Seq((0..Requests) \cup {Trailers})
  BY DEF NsInit
<1>2. Len(reqs) = 0 /\ Len(resps) = 0 /\ Len(items) = 0 /\ Len(frames) = 0
  BY DEF NsInit
<1>3. closed \in [req : BOOLEAN, resp : BOOLEAN] /\ ~closed.req /\ ~closed.resp /\ rxOpen
  BY Zenon DEF NsInit
<1>4. NsTypeOK
  BY <1>1, <1>2, <1>3 DEF NsInit, NsTypeOK, NoItem
<1>5. Taken /\ Pending
  BY <1>2, <1>3 DEF NsInit, Taken, Pending
<1>6. Handling
  BY <1>2, <1>3 DEF NsInit, Handling
<1>7. Echoed /\ Ended
  BY <1>2 DEF NsInit, Echoed, Ended, Gone
<1> QED
  BY <1>4, <1>5, <1>6, <1>7 DEF NsInv

(* A handler that returns leaves its answers to the body.                  *)
LEMMA EndKeepsStream ==
  ASSUME NsInv, outcome = "running", NEW o \in {"done", "error", "send_error"}, End(o),
         o = "done" => program.handler = "echo",
         o = "send_error" => polled # "open",
         o # "send_error" => hand = NoItem
  PROVE  NsInv'
<1> USE NativeAssumption
<1>1. closed' \in [req : BOOLEAN, resp : BOOLEAN] /\ closed'.resp /\ closed'.req = closed.req
  BY Zenon DEF NsInv, NsTypeOK, End
<1>2. reqs' = <<>> /\ reqs' \in Seq((1..Requests) \cup {Broken}) /\ Len(reqs') = 0
  BY DEF End
<1>3. NsTypeOK'
  <2>1. /\ hand' = NoItem /\ rxOpen' = FALSE /\ outcome' = o
        /\ program' = program /\ resps' = resps /\ written' = written /\ read' = read
        /\ items' = items /\ frames' = frames /\ polled' = polled
    BY DEF End, bodyVars
  <2> QED
    <3>1. Len(reqs') <= Capacity /\ hand' \in (0..Requests) \cup {NoItem}
      BY <1>2, <2>1
    <3>2. rxOpen' \in BOOLEAN /\ outcome' \in {"running", "done", "error", "send_error"}
      BY <2>1
    <3>3. NsTypeOK
      BY DEF NsInv
    <3> QED
      BY ONLY <1>1, <1>2, <2>1, <3>1, <3>2, <3>3 DEF NsTypeOK
<1>4. Taken' /\ Pending'
  BY <1>2 DEF NsInv, Taken, Pending, End
<1>5. Handling'
  BY <1>1 DEF NsInv, Handling, Complete, End, bodyVars
<1>6. Ended'
  BY <1>1 DEF NsInv, Ended, End, bodyVars
<1>7. Echoed'
  <2>1. polled = "done" => FALSE
    BY DEF NsInv, Ended, Handling
  <2> QED
    BY <2>1 DEF NsInv, NsTypeOK, Echoed, Gone, End, bodyVars
<1> QED
  BY <1>3, <1>4, <1>5, <1>6, <1>7 DEF NsInv

(* Taking the next request off the channel.                                *)
LEMMA TakingKeeps ==
  ASSUME NsInv, outcome = "running", hand = NoItem, reqs # <<>>, Head(reqs) # Broken,
         items' = Append(items, Head(reqs)), reqs' = Tail(reqs),
         UNCHANGED <<rxOpen, written>>
  PROVE  /\ reqs' \in Seq((1..Requests) \cup {Broken}) /\ Len(reqs') <= Capacity
         /\ items' \in Seq(1..Requests) /\ Len(items') = Len(items) + 1
         /\ Head(reqs) = Len(items) + 1 /\ Len(items') <= Requests
         /\ Taken' /\ Pending'
<1> USE NativeAssumption DEF NsInv, NsTypeOK
<1>1. rxOpen
  BY DEF Handling
<1>2. /\ Len(reqs) >= 1 /\ Head(reqs) = reqs[1] /\ Len(reqs') = Len(reqs) - 1
      /\ \A j \in 1..Len(reqs') : reqs'[j] = reqs[j + 1]
      /\ reqs' \in Seq((1..Requests) \cup {Broken})
      /\ reqs[1] \in 1..Requests
  BY DEF Broken
<1>7. Len(items) \in Nat /\ Len(reqs) \in Nat /\ written \in Nat /\ Requests \in Nat
  OBVIOUS
<1>3. reqs[1] = Len(items) + 1
  <2>1. 1 \in 1..Len(reqs) /\ reqs[1] # Broken
    BY <1>2
  <2>2. \A j \in 1..Len(reqs) : reqs[j] = Len(items) + j \/ reqs[j] = Broken
    BY <1>1 DEF Pending
  <2> QED
    BY <2>1, <2>2
<1>4. /\ items' \in Seq(1..Requests) /\ Len(items') = Len(items) + 1
      /\ \A i \in 1..Len(items') : items'[i] = IF i = Len(items) + 1 THEN reqs[1] ELSE items[i]
  BY <1>2
<1>5. Taken'
  BY <1>3, <1>4 DEF Taken
<1>6. Pending'
  <2>1. \A j \in 1..Len(reqs') :
            \/ reqs'[j] = Len(items') + j
            \/ reqs'[j] = Broken /\ j = Len(reqs') /\ written' = Requests
    <3> SUFFICES ASSUME NEW j \in 1..Len(reqs')
                 PROVE  \/ reqs'[j] = Len(items') + j
                        \/ reqs'[j] = Broken /\ j = Len(reqs') /\ written' = Requests
      OBVIOUS
    <3>1. j + 1 \in 1..Len(reqs) /\ reqs'[j] = reqs[j + 1] /\ Len(items') + j = Len(items) + (j + 1)
      BY <1>2, <1>4
    <3>2. \/ reqs[j + 1] = Len(items) + (j + 1)
          \/ reqs[j + 1] = Broken /\ j + 1 = Len(reqs) /\ written = Requests
      BY <1>1, <3>1 DEF Pending
    <3> QED
      BY ONLY <1>2, <1>7, <3>1, <3>2, UNCHANGED written
  <2>2. \/ Len(items') + Len(reqs') = written'
        \/ /\ reqs' # <<>> /\ reqs'[Len(reqs')] = Broken
           /\ Len(items') + Len(reqs') <= Requests
    <3>1. CASE Len(items) + Len(reqs) = written
      <4>1. Len(items') = Len(items) + 1 /\ Len(reqs') = Len(reqs) - 1 /\ written' = written
        BY <1>2, <1>4
      <4>2. Len(items') + Len(reqs') = written'
        BY ONLY <3>1, <4>1, <1>7
      <4> QED
        BY <4>2
    <3>2. CASE reqs[Len(reqs)] = Broken /\ Len(items) + Len(reqs) <= Requests
      <4>1. Len(reqs) # 1
        BY <3>2, <1>2 DEF Broken
      <4>2. Len(reqs') \in 1..Len(reqs') /\ Len(reqs') + 1 = Len(reqs)
        BY <4>1, <1>2
      <4> QED
        <5>1. reqs'[Len(reqs')] = Broken /\ reqs' # <<>>
          BY ONLY <3>2, <4>2, <1>2, <1>7
        <5>2. Len(items') + Len(reqs') <= Requests
          BY <3>2, <1>2, <1>4
        <5> QED
          BY <5>1, <5>2
    <3> QED
      BY <1>1, <3>1, <3>2 DEF Pending
  <2> QED
    BY <1>1, <2>1, <2>2 DEF Pending
<1> QED
  BY <1>2, <1>3, <1>4, <1>5, <1>6
LEMMA NsKeeps == NsInv /\ [NsNext]_nsVars => NsInv'
<1> SUFFICES ASSUME NsInv, [NsNext]_nsVars PROVE NsInv'
  OBVIOUS
<1> USE NativeAssumption
<1>0. /\ NsTypeOK /\ Taken /\ Pending /\ Handling /\ Echoed /\ Ended
      /\ Len(items) \in Nat /\ Len(reqs) \in Nat /\ Len(resps) \in Nat /\ Len(frames) \in Nat
      /\ written \in 0..Requests
  BY DEF NsInv, NsTypeOK
<1>1. CASE Write \/ WriteBroken
  <2>1. /\ closed' = closed /\ rxOpen' = rxOpen /\ program' = program /\ resps' = resps
        /\ hand' = hand /\ items' = items /\ outcome' = outcome
        /\ frames' = frames /\ polled' = polled /\ read' = read
    BY <1>1 DEF Write, WriteBroken, handlerVars, bodyVars, CanWrite
  <2>2. written' \in 0..Requests /\ (closed.req => written' = written)
    <3>1. CASE Write
      BY <1>0, <3>1 DEF Write, CanWrite
    <3>2. CASE WriteBroken
      BY <1>0, <3>2 DEF WriteBroken, CanWrite
    <3> QED
      BY <1>1, <3>1, <3>2
  <2>3. CASE rxOpen
    <3>1. PICK x \in (1..Requests) \cup {Broken} :
            /\ reqs' = Append(reqs, x) /\ Len(reqs) < Capacity /\ written < Requests
            /\ \/ x = written + 1 /\ written' = written + 1
               \/ x = Broken /\ written' = Requests
      <4>1. CASE Write
        <5>1. written + 1 \in 1..Requests
          BY <1>0, <4>1 DEF Write, CanWrite
        <5> QED
          BY <2>3, <4>1, <5>1 DEF Write, CanWrite
      <4>2. CASE WriteBroken
        BY <4>2 DEF WriteBroken, CanWrite
      <4> QED
        BY <1>1, <4>1, <4>2
    <3>2. /\ reqs' \in Seq((1..Requests) \cup {Broken}) /\ Len(reqs') = Len(reqs) + 1
          /\ \A j \in 1..Len(reqs) : reqs'[j] = reqs[j]
          /\ reqs'[Len(reqs) + 1] = x /\ Len(reqs') <= Capacity /\ reqs' # <<>>
      BY <1>0, <3>1 DEF NsTypeOK
    <3>3. NsTypeOK'
      BY <1>0, <2>1, <2>2, <3>2 DEF NsTypeOK
    <3>4. Len(items) + Len(reqs) = written /\ \A j \in 1..Len(reqs) : reqs[j] = Len(items) + j
      <4>1. reqs # <<>> => reqs[Len(reqs)] # Broken
        <5> SUFFICES ASSUME reqs # <<>>, reqs[Len(reqs)] = Broken PROVE FALSE
          OBVIOUS
        <5>1. Len(reqs) \in 1..Len(reqs)
          BY <1>0 DEF NsTypeOK
        <5>2. Len(items) + Len(reqs) = 0
          BY <1>0, <2>3, <3>1, <5>1 DEF Pending, Broken
        <5> QED
          BY <1>0, <5>1, <5>2
      <4>2. ASSUME NEW j \in 1..Len(reqs) PROVE reqs[j] = Len(items) + j
        BY <1>0, <2>3, <3>1 DEF Pending
      <4> QED
        BY <1>0, <2>3, <4>1, <4>2 DEF Pending
    <3>5. Pending'
      <4>1. ASSUME NEW j \in 1..Len(reqs')
            PROVE  \/ reqs'[j] = Len(items) + j
                   \/ reqs'[j] = Broken /\ j = Len(reqs') /\ written' = Requests
        <5>1. CASE j = Len(reqs) + 1
          <6>1. reqs'[j] = x /\ j = Len(reqs')
            BY <3>2, <5>1
          <6>2. CASE x = written + 1
            BY ONLY <1>0, <3>4, <5>1, <6>1, <6>2
          <6>3. CASE x = Broken /\ written' = Requests
            BY <6>1, <6>3
          <6> QED
            BY <3>1, <6>2, <6>3
        <5>2. CASE j # Len(reqs) + 1
          BY <1>0, <3>2, <3>4, <5>2
        <5> QED
          BY <5>1, <5>2
      <4>2. \/ Len(items) + Len(reqs') = written'
            \/ reqs'[Len(reqs')] = Broken /\ Len(items) + Len(reqs') <= Requests
        <5>1. CASE x = written + 1 /\ written' = written + 1
          BY ONLY <1>0, <3>2, <3>4, <5>1
        <5>2. CASE x = Broken /\ written' = Requests
          <6>1. Len(items) + Len(reqs') <= Requests
            BY ONLY <1>0, <3>1, <3>2, <3>4, NativeAssumption
          <6> QED
            BY <3>2, <5>2, <6>1
        <5> QED
          BY <3>1, <5>1, <5>2
      <4> QED
        BY <2>1, <2>3, <3>2, <4>1, <4>2 DEF Pending
    <3> QED
      BY <1>0, <2>1, <2>2, <3>3, <3>5 DEF NsInv, Taken, Handling, Complete, Echoed, Gone, Ended
  <2>4. CASE ~rxOpen
    <3>1. reqs' = reqs
      BY <1>1, <2>4 DEF Write, WriteBroken, CanWrite
    <3> QED
      BY <1>0, <2>1, <2>2, <2>4, <3>1
      DEF NsInv, NsTypeOK, Taken, Pending, Handling, Complete, Echoed, Gone, Ended
  <2> QED
    BY <2>3, <2>4
<1>2. CASE Finish
  <2>1. /\ closed' \in [req : BOOLEAN, resp : BOOLEAN] /\ closed'.resp = closed.resp
        /\ written = Requests
    BY <1>0, <1>2 DEF Finish, NsTypeOK, CanFinish
  <2>2. UNCHANGED <<program, reqs, resps, written, hand, items, outcome, rxOpen, frames, polled, read>>
    BY <1>2 DEF Finish, handlerVars, bodyVars, CanFinish
  <2> QED
    BY <1>0, <2>1, <2>2
    DEF NsInv, NsTypeOK, Taken, Pending, Handling, Complete, Echoed, Gone, Ended
<1>3. CASE Read
  <2>1. read' \in 0..Len(frames)
    BY <1>0, <1>3 DEF Read, NsTypeOK, CanRead
  <2>2. UNCHANGED <<program, reqs, resps, closed, written, hand, items, outcome, rxOpen, frames, polled>>
    BY <1>3 DEF Read, handlerVars, bodyVars, CanRead
  <2> QED
    BY <1>0, <2>1, <2>2
    DEF NsInv, NsTypeOK, Taken, Pending, Handling, Complete, Echoed, Gone, Ended
<1>4. CASE EchoRecv
  <2>1. CASE reqs # <<>> /\ Head(reqs) = Broken /\ End("error")
    BY <1>4, <2>1, EndKeepsStream DEF EchoRecv, Running, CanRecv
  <2>2. CASE reqs = <<>> /\ closed.req /\ End("done")
    BY <1>4, <2>2, EndKeepsStream DEF EchoRecv, Running, CanRecv
  <2>3. CASE /\ reqs # <<>> /\ Head(reqs) # Broken
             /\ hand' = Head(reqs) /\ items' = Append(items, Head(reqs))
             /\ reqs' = Tail(reqs)
             /\ UNCHANGED <<program, resps, closed, outcome, rxOpen, clientVars, bodyVars>>
    <3>1. /\ UNCHANGED <<program, resps, closed, outcome, rxOpen, written, read, frames, polled>>
          /\ outcome = "running" /\ hand = NoItem /\ program.handler = "echo"
      BY <1>4, <2>3 DEF EchoRecv, Running, clientVars, bodyVars, CanRecv
    <3>2. /\ reqs' \in Seq((1..Requests) \cup {Broken}) /\ Len(reqs') <= Capacity
          /\ items' \in Seq(1..Requests) /\ Len(items') = Len(items) + 1
          /\ Head(reqs) = Len(items) + 1 /\ Len(items') <= Requests
          /\ Taken' /\ Pending'
      BY <2>3, <3>1, TakingKeeps
    <3>3. hand' = Len(items) + 1 /\ hand' \in 0..Requests /\ hand' # NoItem
      BY <1>0, <2>3, <3>2 DEF NoItem
    <3>4. NsTypeOK'
      BY <1>0, <3>1, <3>2, <3>3 DEF NsTypeOK, NoItem
    <3>5. Handling'
      BY <1>0, <3>1, <3>2, <3>3 DEF Handling
    <3>6. Echoed'
      <4>1. Gone' = Gone
        BY <3>1 DEF Gone
      <4>2. polled # "dropped" =>
              /\ Len(items) = Gone + Len(resps)
              /\ \A i \in 1..Gone : frames[i] = i
              /\ \A j \in 1..Len(resps) : resps[j] = Gone + j
        BY <1>0, <3>1 DEF Echoed, Gone
      <4>3. polled # "dropped" =>
              /\ Len(items') = Gone + Len(resps) + 1
              /\ hand' = Len(items')
        BY <1>0, <3>1, <3>2, <3>3, <4>2 DEF Gone
      <4> QED
        BY ONLY <3>1, <3>3, <4>1, <4>2, <4>3 DEF Echoed
    <3> QED
      BY <1>0, <3>1, <3>2, <3>4, <3>5, <3>6 DEF NsInv, Ended
  <2> QED
    BY <1>4, <2>1, <2>2, <2>3 DEF EchoRecv, CanRecv
<1>5. CASE Send
  <2>1. CASE polled # "open" /\ End("send_error")
    BY <1>5, <2>1, EndKeepsStream DEF Send, Running, CanSend
  <2>2. CASE polled = "open" /\ Len(resps) < Capacity /\ resps' = Append(resps, hand)
    <3>1. /\ outcome = "running" /\ hand # NoItem /\ hand \in 0..Requests /\ hand' = NoItem
          /\ UNCHANGED <<program, reqs, items, written, read, frames, polled>>
          /\ polled = "open"
      <4>1. UNCHANGED <<program, reqs, items, written, read, frames, polled>>
        BY <1>5, <2>2 DEF Send, End, clientVars, bodyVars, CanSend
      <4> QED
        BY <1>0, <1>5, <2>2, <4>1 DEF Send, Running, NsTypeOK, End, CanSend
    <3>2. /\ resps' \in Seq(0..Requests) /\ Len(resps') = Len(resps) + 1 /\ Len(resps') <= Capacity
          /\ \A j \in 1..Len(resps') : resps'[j] = IF j = Len(resps) + 1 THEN hand ELSE resps[j]
      BY <1>0, <2>2, <3>1 DEF NsTypeOK
    <3>3. CASE program.handler = "echo"
      <4>1. UNCHANGED <<outcome, rxOpen, closed>>
        BY <1>5, <2>2, <3>3 DEF Send, CanSend
      <4>2. NsTypeOK'
        BY <1>0, <3>1, <3>2, <4>1 DEF NsTypeOK
      <4>3. Taken' /\ Pending' /\ Handling' /\ Ended'
        BY <1>0, <3>1, <3>3, <4>1 DEF Taken, Pending, Handling, Ended
      <4>4. Echoed'
        <5>1. Gone' = Gone /\ Gone \in Nat
          BY <1>0, <3>1 DEF Gone
        <5>2. /\ Len(items) = Gone + Len(resps) + 1 /\ hand = Len(items)
              /\ \A i \in 1..Gone : frames[i] = i
              /\ \A j \in 1..Len(resps) : resps[j] = Gone + j
          BY <1>0, <3>1, <3>3 DEF Echoed
        <5>3. \A j \in 1..Len(resps') : resps'[j] = Gone + j
          <6> SUFFICES ASSUME NEW j \in 1..Len(resps') PROVE resps'[j] = Gone + j
            OBVIOUS
          <6>1. CASE j = Len(resps) + 1
            BY <1>0, <3>2, <5>1, <5>2, <6>1
          <6>2. CASE j # Len(resps) + 1
            <7>1. j \in 1..Len(resps) /\ resps'[j] = resps[j]
              BY <1>0, <3>2, <6>2
            <7> QED
              BY <5>2, <7>1
          <6> QED
            BY <6>1, <6>2
        <5> QED
          BY <1>0, <3>1, <3>2, <5>1, <5>2, <5>3 DEF Echoed
      <4> QED
        BY <4>2, <4>3, <4>4 DEF NsInv
    <3>4. CASE program.handler # "echo"
      <4>1. outcome' = "done" /\ rxOpen' = FALSE /\ closed' = [closed EXCEPT !.resp = TRUE]
        BY <1>5, <2>2, <3>4 DEF Send, CanSend
      <4>2. closed' \in [req : BOOLEAN, resp : BOOLEAN] /\ closed'.resp /\ closed'.req = closed.req
        BY <1>0, <4>1 DEF NsTypeOK
      <4>3. ~rxOpen /\ reqs = <<>>
        BY <1>0, <3>1, <3>4 DEF Handling, Pending
      <4>4. NsTypeOK'
        BY <1>0, <3>1, <3>2, <4>1, <4>2 DEF NsTypeOK
      <4>5. Taken' /\ Pending' /\ Ended'
        BY <1>0, <3>1, <4>1, <4>2, <4>3 DEF Taken, Pending, Ended
      <4>6. Handling'
        BY <1>0, <3>1, <3>4, <4>1, <4>2 DEF Handling, Complete
      <4> QED
        BY <3>1, <3>4, <4>4, <4>5, <4>6 DEF NsInv, Echoed
    <3> QED
      BY <3>3, <3>4
  <2> QED
    BY <1>5, <2>1, <2>2 DEF Send, CanSend
<1>6. CASE Collect
  <2>1. CASE Wants /\ reqs # <<>> /\ Head(reqs) = Broken /\ End("error")
    BY <1>6, <2>1, EndKeepsStream DEF Collect, Running, CanCollect
  <2>2. CASE /\ Wants /\ reqs # <<>> /\ Head(reqs) # Broken
             /\ items' = Append(items, Head(reqs)) /\ reqs' = Tail(reqs)
             /\ UNCHANGED <<program, resps, closed, hand, outcome, rxOpen, clientVars, bodyVars>>
    <3>1. /\ UNCHANGED <<program, resps, closed, hand, outcome, rxOpen, written, read, frames, polled>>
          /\ outcome = "running" /\ hand = NoItem /\ program.handler # "echo"
      BY <1>6, <2>2 DEF Collect, Running, clientVars, bodyVars, CanCollect
    <3>2. /\ reqs' \in Seq((1..Requests) \cup {Broken}) /\ Len(reqs') <= Capacity
          /\ items' \in Seq(1..Requests) /\ Len(items') = Len(items) + 1
          /\ Len(items') <= Requests
          /\ Taken' /\ Pending'
      BY <2>2, <3>1, TakingKeeps
    <3>3. program.handler = "collect_limit" => Len(items') <= Limit
      BY <1>0, <2>2, <3>2 DEF Wants
    <3>4. NsTypeOK'
      BY <1>0, <3>1, <3>2 DEF NsTypeOK
    <3>5. Handling'
      BY <1>0, <3>1, <3>2, <3>3 DEF Handling
    <3> QED
      BY <1>0, <3>1, <3>2, <3>4, <3>5 DEF NsInv, Ended, Echoed
  <2>3. CASE /\ ~Wants \/ (reqs = <<>> /\ closed.req)
             /\ hand' = Len(items) /\ rxOpen' = FALSE /\ reqs' = <<>>
             /\ UNCHANGED <<program, resps, closed, items, outcome, clientVars, bodyVars>>
    <3>1. /\ UNCHANGED <<program, resps, closed, items, outcome, written, read, frames, polled>>
          /\ outcome = "running" /\ hand = NoItem /\ program.handler # "echo"
      BY <1>6, <2>3 DEF Collect, Running, clientVars, bodyVars, CanCollect
    <3>2. hand' \in 0..Requests /\ hand' # NoItem
      BY <1>0, <2>3 DEF Handling, NoItem
    <3>3. reqs' \in Seq((1..Requests) \cup {Broken}) /\ Len(reqs') <= Capacity
      BY <2>3
    <3>4. NsTypeOK'
      BY <1>0, <2>3, <3>1, <3>2, <3>3 DEF NsTypeOK
    <3>5. Complete
      <4>1. CASE ~Wants
        BY <1>0, <4>1 DEF Wants, Handling, Complete
      <4>2. CASE reqs = <<>> /\ closed.req
        <5>1. rxOpen
          BY <1>0, <3>1 DEF Handling
        <5>2. Len(items) = written
          BY <1>0, <4>2, <5>1 DEF Pending
        <5> QED
          BY <1>0, <4>2, <5>2 DEF Handling, Complete
      <4> QED
        BY <2>3, <4>1, <4>2
    <3>6. Handling'
      BY <1>0, <2>3, <3>1, <3>2, <3>5 DEF Handling, Complete
    <3>7. Taken' /\ Pending'
      BY <1>0, <2>3, <3>1 DEF Taken, Pending
    <3> QED
      BY <1>0, <3>1, <3>4, <3>6, <3>7 DEF NsInv, Ended, Echoed
  <2> QED
    BY <1>6, <2>1, <2>2, <2>3 DEF Collect, CanCollect
<1>7. CASE poll_frame
  <2>1. /\ UNCHANGED <<program, reqs, closed, hand, items, outcome, rxOpen, written, read>>
        /\ polled = "open"
    BY <1>7 DEF poll_frame, handlerVars, clientVars, CanPoll
  <2>2. CASE /\ resps # <<>>
             /\ frames' = Append(frames, Head(resps)) /\ resps' = Tail(resps)
             /\ UNCHANGED polled
    <3>1. /\ Len(resps) >= 1 /\ Head(resps) = resps[1] /\ resps[1] \in 0..Requests
          /\ resps' \in Seq(0..Requests) /\ Len(resps') = Len(resps) - 1
          /\ \A j \in 1..Len(resps') : resps'[j] = resps[j + 1]
      BY <1>0, <2>2 DEF NsTypeOK
    <3>2. /\ frames' \in Seq((0..Requests) \cup {Trailers}) /\ Len(frames') = Len(frames) + 1
          /\ \A i \in 1..Len(frames') : frames'[i] = IF i = Len(frames) + 1 THEN resps[1] ELSE frames[i]
      <4>1. frames \in Seq((0..Requests) \cup {Trailers}) /\ resps[1] \in (0..Requests) \cup {Trailers}
        BY <1>0, <3>1 DEF NsTypeOK
      <4> HIDE DEF Trailers
      <4> QED
        BY <2>2, <3>1, <4>1, Appended
    <3>3. NsTypeOK'
      BY <1>0, <2>1, <2>2, <3>1, <3>2 DEF NsTypeOK
    <3>4. Ended'
      <4>1. resps[1] # Trailers
        BY <3>1 DEF Trailers
      <4>2. \A i \in 1..Len(frames') : frames'[i] # Trailers
        BY <1>0, <2>1, <3>2, <4>1 DEF Ended
      <4> QED
        BY <2>1, <2>2, <4>2 DEF Ended
    <3>5. Echoed'
      <4> SUFFICES ASSUME program.handler = "echo" PROVE Echoed'
        BY <2>1 DEF Echoed
      <4>1. /\ Len(items) = Len(frames) + Len(resps) + (IF hand = NoItem THEN 0 ELSE 1)
            /\ \A i \in 1..Len(frames) : frames[i] = i
            /\ \A j \in 1..Len(resps) : resps[j] = Len(frames) + j
            /\ hand # NoItem => hand = Len(items)
        BY <1>0, <2>1 DEF Echoed, Gone
      <4>2. Gone' = Len(frames) + 1
        BY <2>1, <2>2, <3>2 DEF Gone
      <4>3. resps[1] = Len(frames) + 1
        BY <3>1, <4>1
      <4>4. \A i \in 1..Gone' : frames'[i] = i
        BY <1>0, <3>2, <4>1, <4>2, <4>3
      <4>5. \A j \in 1..Len(resps') : resps'[j] = Gone' + j
        BY <1>0, <3>1, <4>1, <4>2
      <4> QED
        BY <1>0, <2>1, <3>1, <4>1, <4>2, <4>4, <4>5 DEF Echoed
    <3> QED
      BY <1>0, <2>1, <2>2, <3>3, <3>4, <3>5 DEF NsInv, Taken, Pending, Handling, Complete
  <2>3. CASE /\ resps = <<>> /\ closed.resp
             /\ frames' = Append(frames, Trailers) /\ polled' = "done"
             /\ UNCHANGED resps
    <3>1. /\ frames' \in Seq((0..Requests) \cup {Trailers}) /\ Len(frames') = Len(frames) + 1
          /\ \A i \in 1..Len(frames') : frames'[i] = IF i = Len(frames) + 1 THEN Trailers ELSE frames[i]
          /\ frames' # <<>>
      <4>1. frames \in Seq((0..Requests) \cup {Trailers}) /\ Trailers \in (0..Requests) \cup {Trailers}
        BY <1>0 DEF NsTypeOK
      <4> QED
        BY <2>3, <4>1, Appended
    <3>2. NsTypeOK'
      BY <1>0, <2>1, <2>3, <3>1 DEF NsTypeOK
    <3>3. Ended'
      BY <1>0, <2>1, <2>3, <3>1 DEF Ended
    <3>4. Gone' = Len(frames) /\ Gone = Len(frames)
      BY <1>0, <2>1, <2>3, <3>1 DEF Gone
    <3>5. Echoed'
      BY <1>0, <2>1, <2>3, <3>1, <3>4 DEF Echoed
    <3> QED
      BY <1>0, <2>1, <2>3, <3>2, <3>3, <3>5 DEF NsInv, Taken, Pending, Handling, Complete
  <2> QED
    BY <1>7, <2>2, <2>3 DEF poll_frame, CanPoll
<1>8. CASE Reset
  <2>1. /\ UNCHANGED <<program, reqs, frames, hand, items, outcome, rxOpen, written, read>>
        /\ polled = "open" /\ polled' = "dropped" /\ resps' = <<>>
    BY <1>8 DEF Reset, handlerVars, clientVars
  <2>2. closed' \in [req : BOOLEAN, resp : BOOLEAN] /\ closed'.resp = closed.resp
    BY <1>0, <1>8 DEF Reset, NsTypeOK
  <2>3. resps' \in Seq(0..Requests) /\ Len(resps') <= Capacity
    BY <2>1
  <2> QED
    BY <1>0, <2>1, <2>2, <2>3
    DEF NsInv, NsTypeOK, Taken, Pending, Handling, Complete, Echoed, Ended
<1>9. CASE UNCHANGED nsVars
  BY <1>0, <1>9 DEF nsVars, NsInv, NsTypeOK, Taken, Pending, Handling, Complete, Echoed, Gone, Ended
<1> QED
  BY <1>1, <1>2, <1>3, <1>4, <1>5, <1>6, <1>7, <1>8, <1>9 DEF NsNext, NsProgress

LEMMA NsSafe == NsInv => NsTypeOK /\ OrderedThenTrailers /\ CollectedPrefix
<1> SUFFICES ASSUME NsInv PROVE NsTypeOK /\ OrderedThenTrailers /\ CollectedPrefix
  OBVIOUS
<1> USE NativeAssumption
<1>0. /\ NsTypeOK /\ Taken /\ Pending /\ Handling /\ Echoed /\ Ended
      /\ Len(items) \in Nat /\ Len(resps) \in Nat /\ Len(frames) \in Nat
  BY DEF NsInv, NsTypeOK
<1>1. items = [i \in 1..Len(items) |-> i]
  BY <1>0 DEF NsTypeOK, Taken
<1>2. CollectedPrefix
  BY <1>0, <1>1 DEF CollectedPrefix, Handling, Complete
<1>3. Len(Data) = Gone /\ Data \in Seq((0..Requests) \cup {Trailers})
      /\ \A i \in 1..Gone : Data[i] = frames[i]
  <2>1. CASE polled = "done"
    <3>1. Len(frames) >= 1 /\ Data = SubSeq(frames, 1, Len(frames) - 1)
      BY <1>0, <2>1 DEF Ended, Data, NsTypeOK
    <3>2. \A i \in 1..(Len(frames) - 1) : frames[i] \in (0..Requests) \cup {Trailers}
      BY <1>0 DEF NsTypeOK
    <3> HIDE DEF Trailers
    <3>3. /\ SubSeq(frames, 1, Len(frames) - 1) \in Seq((0..Requests) \cup {Trailers})
          /\ Len(SubSeq(frames, 1, Len(frames) - 1)) = Len(frames) - 1
          /\ \A i \in 1..(Len(frames) - 1) : SubSeq(frames, 1, Len(frames) - 1)[i] = frames[i]
      <4> DEFINE S == (0..Requests) \cup {Trailers}
                 n == Len(frames) - 1
      <4> HIDE DEF S, n
      <4>1. n \in Nat /\ \A i \in 1..n : frames[i] \in S
        BY <1>0, <3>1, <3>2 DEF S, n
      <4>2. /\ SubSeq(frames, 1, n) \in Seq(S)
            /\ Len(SubSeq(frames, 1, n)) = IF 1 <= n THEN n - 1 + 1 ELSE 0
            /\ \A i \in 1..(n - 1 + 1) : SubSeq(frames, 1, n)[i] = frames[1 + i - 1]
        BY <4>1, SubSeqProperties
      <4>3. /\ SubSeq(frames, 1, n) \in Seq(S) /\ Len(SubSeq(frames, 1, n)) = n
            /\ \A i \in 1..n : SubSeq(frames, 1, n)[i] = frames[i]
        BY <4>1, <4>2
      <4> QED
        BY <4>3 DEF S, n
    <3> QED
      BY <1>0, <2>1, <3>1, <3>3 DEF Gone
  <2>2. CASE polled # "done"
    <3>1. Data = frames
      BY <1>0, <2>2 DEF Ended, Data, NsTypeOK
    <3> QED
      BY <1>0, <2>2, <3>1 DEF Gone, NsTypeOK
  <2> QED
    BY <2>1, <2>2
<1>4. ASSUME program.handler = "echo", polled # "dropped"
      PROVE  /\ Data \o resps = SubSeq(items, 1, Len(Data) + Len(resps))
             /\ polled = "done" /\ outcome # "running" => Data = items
  <2> DEFINE n == Gone + Len(resps)
  <2>1. /\ Gone \in Nat /\ n \in Nat /\ n <= Len(items)
        /\ \A i \in 1..Gone : Data[i] = i
        /\ \A j \in 1..Len(resps) : resps[j] = Gone + j
    BY <1>0, <1>3, <1>4 DEF Echoed
  <2>2. /\ Len(Data \o resps) = n
        /\ Data \o resps \in Seq((0..Requests) \cup {Trailers})
        /\ \A i \in 1..n : (Data \o resps)[i] = i
    <3>1. resps \in Seq((0..Requests) \cup {Trailers})
      BY <1>0, SeqMonotonic, Zenon DEF NsTypeOK
    <3>2. /\ Data \o resps \in Seq((0..Requests) \cup {Trailers})
          /\ Len(Data \o resps) = Gone + Len(resps)
          /\ \A i \in 1..n : (Data \o resps)[i] = IF i <= Gone THEN Data[i] ELSE resps[i - Gone]
      BY <1>3, <3>1, ConcatProperties
    <3> QED
      BY <1>0, <2>1, <3>2
  <2>3. /\ SubSeq(items, 1, n) \in Seq(1..Requests) /\ Len(SubSeq(items, 1, n)) = n
        /\ \A i \in 1..n : SubSeq(items, 1, n)[i] = i
    BY <1>0, <2>1, SMTT(30) DEF NsTypeOK, Taken
  <2>4. Data \o resps = SubSeq(items, 1, n)
    BY <2>1, <2>2, <2>3, SeqEqual
  <2>5. ASSUME polled = "done", outcome # "running" PROVE Data = items
    <3>1. Len(items) = Gone
      BY <1>0, <1>4, <2>1, <2>5 DEF Echoed, Ended, Handling
    <3> QED
      BY <1>0, <1>3, <2>1, <3>1, SeqEqual DEF NsTypeOK, Taken
  <2> QED
    BY <1>3, <2>4, <2>5
<1>5. OrderedThenTrailers
  BY <1>0, <1>4 DEF OrderedThenTrailers, Ended, Handling
<1> QED
  BY <1>0, <1>2, <1>5

(* The connection holds no more frames than the client's window, and a     *)
(* client of one task reads none before it has written everything.         *)
Windowed ==
  /\ Len(frames) - read <= Capacity
  /\ program.client = "one" /\ ~closed.req => read = 0

LEMMA WindowKeeps == NsInv /\ Windowed /\ [NsNext]_nsVars => Windowed'
<1> SUFFICES ASSUME NsInv, Windowed, [NsNext]_nsVars PROVE Windowed'
  OBVIOUS
<1> USE NativeAssumption
<1>1. NsTypeOK /\ Len(frames) \in Nat /\ read \in Nat
  BY DEF NsInv, NsTypeOK
<1>2. CASE Read
  <2>1. UNCHANGED <<program, closed, frames>> /\ read' = read + 1 /\ read < Len(frames)
        /\ (program.client = "one" => closed.req)
    BY <1>2 DEF Read, CanRead, bodyVars
  <2> QED
    BY <1>1, <2>1 DEF Windowed
<1>3. CASE poll_frame
  <2>1. UNCHANGED <<program, closed, read>> /\ Len(frames) - read < Capacity
        /\ \E x : frames' = Append(frames, x)
    BY <1>3 DEF poll_frame, CanPoll, Room, clientVars
  <2>2. Len(frames') = Len(frames) + 1
    BY <1>1, <2>1 DEF NsTypeOK
  <2> QED
    BY <1>1, <2>1, <2>2 DEF Windowed
<1>4. CASE Finish \/ Reset
  <2>1. UNCHANGED <<program, read, frames>> /\ closed'.req
    BY <1>1, <1>4 DEF Finish, Reset, NsTypeOK, clientVars, bodyVars
  <2> QED
    BY <2>1 DEF Windowed
<1>5. CASE Write \/ WriteBroken \/ EchoRecv \/ Send \/ Collect \/ UNCHANGED nsVars
  <2>1. UNCHANGED <<program, read, frames>> /\ closed'.req = closed.req
    <3>1. CASE Write \/ WriteBroken \/ UNCHANGED nsVars
      BY <3>1 DEF Write, WriteBroken, nsVars, bodyVars
    <3>2. CASE EchoRecv
      BY <1>1, <3>2 DEF EchoRecv, End, NsTypeOK, clientVars, bodyVars
    <3>3. CASE Send
      BY <1>1, <3>3 DEF Send, End, NsTypeOK, clientVars, bodyVars
    <3>4. CASE Collect
      BY <1>1, <3>4 DEF Collect, End, NsTypeOK, clientVars, bodyVars
    <3> QED
      BY <1>5, <3>1, <3>2, <3>3, <3>4
  <2> QED
    BY <2>1 DEF Windowed
<1> QED
  BY <1>2, <1>3, <1>4, <1>5 DEF NsNext, NsProgress

(* A call that cannot move has filled everything between its ends.         *)
LEMMA StuckIsOverfull == NsInv /\ Windowed => StuckOnlyWhenOverfull
<1> SUFFICES ASSUME NsInv, Windowed, Running, ~CanMove
             PROVE  /\ program.client = "one" /\ program.handler = "echo"
                    /\ written = 3 * Capacity + 1 /\ written < Requests
  BY DEF StuckOnlyWhenOverfull, Stuck
<1> USE NativeAssumption
<1>1. /\ NsTypeOK /\ Pending /\ Handling /\ Echoed /\ Ended
      /\ Len(items) \in Nat /\ Len(reqs) \in Nat /\ Len(resps) \in Nat /\ Len(frames) \in Nat
      /\ written \in 0..Requests /\ Len(reqs) <= Capacity /\ Len(resps) <= Capacity
      /\ read \in 0..Len(frames) /\ program \in Programs
  BY DEF NsInv, NsTypeOK
<1>2. ~CanWrite /\ ~CanFinish /\ ~CanRead /\ ~CanRecv /\ ~CanSend /\ ~CanCollect /\ ~CanPoll
  BY DEF CanMove
<1>3. /\ ~closed.req => written < Requests /\ rxOpen /\ Len(reqs) = Capacity
      /\ ~closed.req => reqs # <<>>
  <2>1. ~closed.req => written < Requests /\ rxOpen /\ Len(reqs) = Capacity
    BY <1>1, <1>2 DEF CanWrite, CanFinish
  <2>2. Len(reqs) = Capacity => reqs # <<>>
    BY <1>1
  <2> QED
    BY <2>1, <2>2
<1>4. hand # NoItem
  <2> SUFFICES ASSUME hand = NoItem PROVE FALSE
    OBVIOUS
  <2>1. reqs # <<>> \/ closed.req
    BY <1>3
  <2> QED
    BY <1>1, <1>2, <2>1 DEF CanRecv, CanCollect, Programs
<1>5. polled = "open" /\ Len(resps) = Capacity /\ resps # <<>>
  <2>1. polled = "open" /\ Len(resps) = Capacity
    BY <1>1, <1>2, <1>4 DEF CanSend
  <2>2. Len(resps) = Capacity => resps # <<>>
    BY <1>1
  <2> QED
    BY <2>1, <2>2
<1>6. Len(frames) - read = Capacity
  BY <1>1, <1>2, <1>5 DEF CanPoll, Room, Windowed
<1>7. program.client = "one" /\ ~closed.req /\ read = 0
  BY <1>1, <1>2, <1>6 DEF CanRead, Windowed
<1>8. written < Requests /\ rxOpen /\ Len(reqs) = Capacity
  BY <1>3, <1>7
<1>9. program.handler = "echo"
  BY <1>1, <1>4, <1>8 DEF Handling, Running
<1>10. Len(items) = Len(frames) + Len(resps) + 1
  BY <1>1, <1>4, <1>5, <1>9 DEF Echoed, Gone
<1>11. Len(items) + Len(reqs) = written
  <2> SUFFICES ASSUME reqs # <<>>, reqs[Len(reqs)] = Broken PROVE FALSE
    BY <1>1, <1>8 DEF Pending
  <2>1. Len(reqs) \in 1..Len(reqs)
    BY <1>1, <1>8
  <2>2. reqs[Len(reqs)] = Len(items) + Len(reqs)
    BY <1>1, <1>8, <2>1 DEF Pending
  <2> QED
    BY <1>1, <2>1, <2>2 DEF Broken
<1> QED
  BY <1>1, <1>5, <1>6, <1>7, <1>8, <1>9, <1>10, <1>11

(* The call as a streaming response.  A collecting handler gives one       *)
(* answer, and with it it returns.                                         *)
Answered ==
  /\ outcome = "send_error" => polled # "open"
  /\ program.handler # "echo" =>
       /\ hand # NoItem => hand = Len(items)
       /\ polled # "dropped" =>
            IF outcome = "done"
            THEN Gone + Len(resps) = 1 /\ (IF Gone = 1 THEN frames[1] ELSE resps[1]) = Len(items)
            ELSE Gone = 0 /\ Len(resps) = 0

LEMMA AnswerKeeps == NsInv /\ Answered /\ [NsNext]_nsVars => Answered'
<1> SUFFICES ASSUME NsInv, Answered, [NsNext]_nsVars PROVE Answered'
  OBVIOUS
<1> USE NativeAssumption
<1>0. /\ NsTypeOK /\ Len(resps) \in Nat /\ Len(frames) \in Nat /\ Len(items) \in Nat
      /\ Handling /\ Ended /\ resps \in Seq(0..Requests)
      /\ frames \in Seq((0..Requests) \cup {Trailers})
  BY DEF NsInv, NsTypeOK
<1>1. CASE UNCHANGED <<program, hand, items, polled, outcome, resps, frames>>
  BY <1>1 DEF Answered, Gone
<1>2. ASSUME NEW o \in {"error", "send_error"}, End(o), outcome = "running",
             o = "send_error" => polled # "open"
      PROVE  Answered'
  <2>0. o = "send_error" => polled' # "open"
    BY <1>2 DEF End, bodyVars
  <2>1. CASE polled = "dropped"
    BY <1>2, <2>1 DEF Answered, Gone, End, bodyVars
  <2>2. CASE polled # "dropped"
    BY <1>2, <2>2 DEF Answered, Gone, End, bodyVars
  <2> QED
    BY <2>1, <2>2
<1>3. CASE EchoRecv
  <2>1. program.handler = "echo" /\ program' = program /\ outcome = "running"
    BY <1>3 DEF EchoRecv, CanRecv, Running, End
  <2>2. outcome' \in {"running", "error", "done"}
    BY <1>3, <2>1 DEF EchoRecv, End
  <2> QED
    BY <2>1, <2>2 DEF Answered
<1>4. CASE Send
  <2>1. CASE polled # "open" /\ End("send_error")
    BY <1>2, <1>4, <2>1 DEF Send, CanSend, Running
  <2>2. CASE polled = "open" /\ program.handler # "echo"
    <3>1. /\ hand # NoItem /\ outcome = "running" /\ hand = Len(items) /\ Len(resps) = 0 /\ Gone = 0
      BY <1>4, <2>2 DEF Answered, Send, CanSend, Running
    <3>2. /\ resps' = Append(resps, hand) /\ hand' = NoItem /\ outcome' = "done"
          /\ UNCHANGED <<program, items, frames, polled>>
      BY <1>4, <2>2 DEF Send, bodyVars
    <3>3. Len(resps') = 1 /\ resps'[1] = hand
      BY <1>0, <3>1, <3>2 DEF NsTypeOK
    <3> QED
      BY <2>2, <3>1, <3>2, <3>3 DEF Answered, Gone
  <2>3. CASE program.handler = "echo"
    <3>1. program' = program /\ (outcome' = "send_error" => polled' # "open")
      BY <1>4, <2>3 DEF Answered, Send, End, bodyVars
    <3> QED
      BY <2>3, <3>1 DEF Answered
  <2> QED
    BY <1>4, <2>1, <2>2, <2>3 DEF Send
<1>5. CASE Collect
  <2>1. CASE End("error")
    BY <1>2, <1>5, <2>1 DEF Collect, CanCollect, Running
  <2>2. CASE UNCHANGED <<program, hand, polled, outcome, resps, frames>>
    BY <1>5, <2>2 DEF Answered, Gone, Collect, CanCollect, Running
  <2>3. CASE hand' = Len(items) /\ UNCHANGED <<program, items, polled, outcome, resps, frames>>
    BY <1>5, <2>3 DEF Answered, Gone, Collect, CanCollect, Running
  <2> QED
    BY <1>5, <2>1, <2>2, <2>3 DEF Collect, clientVars, bodyVars
<1>6. CASE poll_frame
  <2>1. /\ polled = "open" /\ UNCHANGED <<program, hand, items, outcome>> /\ Gone = Len(frames)
    BY <1>6 DEF poll_frame, CanPoll, handlerVars, Gone
  <2>2. CASE resps # <<>>
    <3>1. /\ frames' = Append(frames, Head(resps)) /\ resps' = Tail(resps) /\ polled' = polled
          /\ Len(frames') = Len(frames) + 1 /\ Len(resps') = Len(resps) - 1 /\ Len(resps) # 0
          /\ Gone' = Len(frames')
      BY <1>0, <1>6, <2>1, <2>2 DEF poll_frame, Gone
    <3>2. Len(frames) = 0 => frames'[1] = resps[1]
      BY <1>0, <2>2, <3>1
    <3> QED
      BY <1>0, <2>1, <3>1, <3>2 DEF Answered
  <2>3. CASE resps = <<>>
    <3>1. /\ frames' = Append(frames, Trailers) /\ polled' = "done" /\ resps' = resps
          /\ Gone' = Len(frames) /\ Len(resps) = 0
      BY <1>0, <1>6, <2>3 DEF poll_frame, Gone
    <3>2. Len(frames) = 1 => frames'[1] = frames[1]
      BY <1>0, <3>1
    <3> QED
      BY <1>0, <2>1, <3>1, <3>2 DEF Answered
  <2> QED
    BY <2>2, <2>3
<1>7. CASE Reset
  BY <1>7 DEF Answered, Reset, handlerVars
<1> QED
  BY <1>1, <1>3, <1>4, <1>5, <1>6, <1>7
  DEF NsNext, NsProgress, Write, WriteBroken, Finish, Read, nsVars, handlerVars, bodyVars

(* What was delivered, with the trailers left out.                         *)
LEMMA DataFacts ==
  ASSUME NsInv
  PROVE  /\ Data \in Seq(0..Requests) /\ Len(Data) = Gone /\ Gone \in Nat
         /\ \A i \in 1..Gone : Data[i] = frames[i]
         /\ polled # "done" => Data = frames
<1> USE NativeAssumption
<1>0. /\ frames \in Seq((0..Requests) \cup {Trailers}) /\ Len(frames) \in Nat
      /\ \A i \in 1..Len(frames) : frames[i] = Trailers => i = Len(frames) /\ polled = "done"
      /\ polled = "done" => frames # <<>> /\ frames[Len(frames)] = Trailers
  BY DEF NsInv, NsTypeOK, Ended
<1>1. CASE polled = "done"
  <2>1. Data = SubSeq(frames, 1, Len(frames) - 1) /\ Gone = Len(frames) - 1 /\ Len(frames) # 0
    BY <1>0, <1>1 DEF Data, Gone
  <2>2. \A i \in 1..(Len(frames) - 1) : frames[i] \in 0..Requests
    BY <1>0
  <2>3. /\ Len(Data) = Len(frames) - 1 /\ \A i \in 1..(Len(frames) - 1) : Data[i] = frames[i]
    BY <1>0, <2>1
  <2>4. Data \in Seq(0..Requests)
    BY <1>0, <2>1, <2>2
  <2> QED
    BY <1>0, <1>1, <2>1, <2>3, <2>4
<1>2. CASE polled # "done"
  <2>1. \A i \in 1..Len(frames) : frames[i] # Trailers
    BY <1>0, <1>2
  <2>2. Data = frames
    BY <1>0, <2>1 DEF Data
  <2>3. frames \in Seq(0..Requests)
    BY <1>0, <2>1
  <2> QED
    BY <1>0, <1>2, <2>2, <2>3 DEF Gone
<1> QED
  BY <1>1, <1>2

LEMMA CallBegins == NsInit => NsPromise!Init
<1> SUFFICES ASSUME NsInit PROVE NsPromise!Init
  OBVIOUS
<1>1. TakenOn = <<>> /\ Data = <<>>
  BY DEF NsInit, TakenOn, Data
<1> QED
  BY <1>1 DEF NsInit, NsPromise!Init, Running

LEMMA CallMaps == NsInv /\ Answered /\ NsInv' /\ [NsNext]_nsVars => [NsPromise!Next]_(NsPromise!vars)
<1> SUFFICES ASSUME NsInv, Answered, NsInv', [NsNext]_nsVars
             PROVE  NsPromise!Next \/ UNCHANGED NsPromise!vars
  OBVIOUS
<1> USE NativeAssumption
<1>0. /\ NsTypeOK /\ Handling /\ Ended /\ Echoed
      /\ Len(resps) \in Nat /\ Len(frames) \in Nat /\ Len(items) \in Nat /\ Len(items) <= Requests
      /\ polled \in {"open", "done", "dropped"} /\ hand \in (0..Requests) \cup {NoItem}
      /\ resps \in Seq(0..Requests) /\ items \in Seq(1..Requests)
  <2>1. NsTypeOK /\ Handling /\ Ended /\ Echoed
    BY DEF NsInv
  <2>2. /\ resps \in Seq(0..Requests) /\ items \in Seq(1..Requests)
        /\ frames \in Seq((0..Requests) \cup {Trailers})
        /\ polled \in {"open", "done", "dropped"} /\ hand \in (0..Requests) \cup {NoItem}
    BY <2>1 DEF NsTypeOK
  <2>3. Len(items) <= Requests
    BY <2>1 DEF Handling
  <2> QED
    BY <2>1, <2>2, <2>3
<1> DEFINE Status == CASE polled = "open" -> "open" [] polled = "done" -> "ok" [] polled = "dropped" -> "cut"
<1>1. CASE UNCHANGED <<program, items, hand, outcome, frames, polled>>
  BY <1>1 DEF NsPromise!vars, TakenOn, Data, Running
<1>2. ASSUME NEW o \in {"error", "send_error", "done"}, End(o), outcome = "running",
             program.handler = "echo" \/ (o = "error" /\ hand = NoItem) \/ (o = "send_error" /\ hand # NoItem)
      PROVE  NsPromise!Close
  <2>1. /\ outcome' = o /\ hand' = NoItem /\ UNCHANGED <<program, items, frames, polled>>
    BY <1>2 DEF End, bodyVars
  <2>2. TakenOn' = TakenOn /\ Data' = Data
    BY <1>2, <2>1 DEF TakenOn, Data
  <2>3. Running /\ ~Running'
    BY <1>2, <2>1 DEF Running
  <2> QED
    BY <2>1, <2>2, <2>3 DEF NsPromise!Close
<1>3. ASSUME NEW n \in 0..Requests, TakenOn' = Append(TakenOn, n), outcome = "running",
             UNCHANGED <<outcome, frames, polled>>
      PROVE  NsPromise!Next
  <2>1. NsPromise!Accept(n)
    BY <1>3 DEF NsPromise!Accept, Running, Data
  <2> QED
    BY <2>1 DEF NsPromise!Next
<1>4. CASE EchoRecv
  <2>1. CASE End("done") \/ End("error")
    BY <1>2, <1>4, <2>1 DEF EchoRecv, CanRecv, Running, NsPromise!Next
  <2>2. CASE items' = Append(items, Head(reqs)) /\ reqs # <<>> /\ Head(reqs) # Broken
             /\ UNCHANGED <<program, outcome, frames, polled>>
    <3>1. Head(reqs) \in 0..Requests
      BY <2>2 DEF NsInv, NsTypeOK, Broken
    <3>2. TakenOn' = Append(TakenOn, Head(reqs)) /\ outcome = "running"
      BY <1>4, <2>2 DEF EchoRecv, CanRecv, Running, TakenOn
    <3> QED
      BY <1>3, <2>2, <3>1, <3>2
  <2> QED
    BY <1>4, <2>1, <2>2 DEF EchoRecv, bodyVars
<1>5. CASE Send
  <2>1. CASE polled # "open" /\ End("send_error")
    BY <1>2, <1>5, <2>1 DEF Send, CanSend, Running, NsPromise!Next
  <2>2. CASE polled = "open" /\ program.handler = "echo"
    <3>1. UNCHANGED <<program, items, outcome, frames, polled>>
      BY <1>5, <2>2 DEF Send, bodyVars
    <3> QED
      BY <2>2, <3>1 DEF NsPromise!vars, TakenOn, Data, Running
  <2>3. CASE polled = "open" /\ program.handler # "echo"
    <3>1. /\ hand # NoItem /\ outcome = "running" /\ outcome' = "done"
          /\ UNCHANGED <<program, items, frames, polled>>
      BY <1>5, <2>3 DEF Send, CanSend, Running, bodyVars
    <3>2. TakenOn' = TakenOn /\ Data' = Data /\ Running /\ ~Running'
      BY <2>3, <3>1 DEF TakenOn, Data, Running
    <3>3. NsPromise!Close
      BY <3>1, <3>2 DEF NsPromise!Close
    <3> QED
      BY <3>3 DEF NsPromise!Next
  <2> QED
    BY <1>5, <2>1, <2>2, <2>3 DEF Send
<1>6. CASE Collect
  <2>0. outcome = "running" /\ program.handler # "echo" /\ hand = NoItem
    BY <1>6 DEF Collect, CanCollect, Running
  <2>1. CASE End("error")
    BY <1>2, <2>0, <2>1 DEF NsPromise!Next
  <2>2. CASE UNCHANGED <<program, hand, outcome, frames, polled>>
    <3>1. TakenOn' = TakenOn /\ Data' = Data /\ Running' = Running
      BY <2>0, <2>2 DEF TakenOn, Data, Running
    <3> QED
      BY <2>2, <3>1 DEF NsPromise!vars
  <2>3. CASE hand' = Len(items) /\ UNCHANGED <<program, items, outcome, frames, polled>>
    <3>1. Len(items) \in 0..Requests /\ Len(items) # NoItem
      BY <1>0 DEF NoItem
    <3>2. TakenOn = <<>> /\ TakenOn' = <<Len(items)>>
      BY <2>0, <2>3, <3>1 DEF TakenOn
    <3>3. TakenOn' = Append(TakenOn, Len(items))
      BY <3>2
    <3> QED
      BY <1>3, <2>0, <2>3, <3>1, <3>3
  <2> QED
    BY <1>6, <2>1, <2>2, <2>3 DEF Collect, bodyVars
<1>7. CASE poll_frame
  <2>1. /\ polled = "open" /\ UNCHANGED <<program, hand, items, outcome>> /\ Gone = Len(frames)
        /\ TakenOn' = TakenOn /\ Running' = Running /\ Data = frames
    BY <1>7, DataFacts DEF poll_frame, CanPoll, handlerVars, Gone, TakenOn, Running
  <2>2. CASE resps # <<>>
    <3>1. /\ frames' = Append(frames, Head(resps)) /\ polled' = polled
      BY <1>7, <2>2 DEF poll_frame
    <3>2. Data' = Append(Data, Head(resps))
      <4>1. Data' = frames'
        <5>1. frames \in Seq((0..Requests) \cup {Trailers}) /\ Head(resps) \in 0..Requests
          BY <1>0, <2>2 DEF NsTypeOK
        <5>2. frames'[Len(frames')] = Head(resps) /\ Head(resps) # Trailers
          BY <3>1, <5>1 DEF Trailers
        <5> QED
          BY <5>2 DEF Data
      <4> QED
        BY <2>1, <3>1, <4>1
    <3>3. /\ Len(Data) < Len(TakenOn) /\ TakenOn[Len(Data) + 1] = Head(resps) /\ Head(resps) \in 0..Requests
      <4>1. Len(resps) # 0 /\ Head(resps) = resps[1] /\ resps[1] \in 0..Requests
        BY <1>0, <2>2
      <4>2. CASE program.handler = "echo"
        <5>1. Len(items) >= Gone + Len(resps) /\ resps[1] = Gone + 1
          BY <1>0, <2>1, <4>1, <4>2 DEF Echoed
        <5>2. items[Gone + 1] = Gone + 1
          BY <1>0, <2>1, <4>1, <5>1 DEF NsInv, Taken
        <5>3. TakenOn = items
          BY <4>2 DEF TakenOn
        <5>4. Len(Data) = Gone /\ Gone \in Nat
          BY <1>0, <2>1
        <5>5. Len(items) \in Nat /\ Gone < Len(items)
          BY <1>0, <4>1, <5>1, <5>4
        <5>6. Len(Data) < Len(TakenOn) /\ TakenOn[Len(Data) + 1] = Head(resps)
          BY <4>1, <5>1, <5>2, <5>3, <5>4, <5>5
        <5> QED
          BY <4>1, <5>6
      <4>3. CASE program.handler # "echo"
        <5>1. outcome = "done" /\ Gone = 0 /\ resps[1] = Len(items)
          BY <1>0, <2>1, <4>1, <4>3 DEF Answered
        <5> QED
          BY <1>0, <2>1, <4>1, <4>3, <5>1 DEF TakenOn
      <4> QED
        BY <4>2, <4>3
    <3>4. NsPromise!Deliver
      BY <2>1, <3>1, <3>2, <3>3 DEF NsPromise!Deliver, NsPromise!Waiting, NsPromise!NextMessage
    <3> QED
      BY <3>4 DEF NsPromise!Next
  <2>3. CASE resps = <<>>
    <3>1. frames' = Append(frames, Trailers) /\ polled' = "done" /\ Len(resps) = 0 /\ closed.resp
      BY <1>0, <1>7, <2>3 DEF poll_frame, CanPoll
    <3>2. outcome # "running" /\ hand = NoItem
      BY <1>0, <3>1 DEF Handling
    <3>3. Data' = Data
      <4>0. frames \in Seq((0..Requests) \cup {Trailers})
        BY <1>0 DEF NsTypeOK
      <4>1. frames' # <<>> /\ frames'[Len(frames')] = Trailers /\ SubSeq(frames', 1, Len(frames') - 1) = frames
        <5>1. \A T, t : \A f \in Seq(T) : t \in T =>
                 LET g == Append(f, t)
                 IN g # <<>> /\ g[Len(g)] = t /\ SubSeq(g, 1, Len(g) - 1) = f
          <6> SUFFICES ASSUME NEW T, NEW t \in T, NEW f \in Seq(T)
                       PROVE  LET g == Append(f, t)
                              IN g # <<>> /\ g[Len(g)] = t /\ SubSeq(g, 1, Len(g) - 1) = f
            OBVIOUS
          <6>1. Append(f, t) # <<>> /\ Append(f, t)[Len(f) + 1] = t /\ Len(Append(f, t)) = Len(f) + 1
            BY Appended
          <6>2. SubSeq(Append(f, t), 1, Len(f)) = f
            OBVIOUS
          <6> QED
            BY <6>1, <6>2
        <5> QED
          BY <3>1, <4>0, <5>1
      <4> QED
        BY <2>1, <4>1 DEF Data
    <3>4. ~(Len(Data) < Len(TakenOn))
      <4>1. CASE program.handler = "echo"
        BY <1>0, <2>1, <3>1, <3>2, <4>1 DEF Echoed, TakenOn
      <4>2. CASE program.handler # "echo" /\ outcome = "done"
        BY <1>0, <2>1, <3>1, <4>2 DEF Answered, TakenOn
      <4>3. CASE program.handler # "echo" /\ outcome # "done"
        <5>1. outcome # "send_error"
          BY <2>1 DEF Answered
        <5> QED
          BY <1>0, <2>1, <3>2, <4>3, <5>1 DEF TakenOn
      <4> QED
        BY <4>1, <4>2, <4>3
    <3>5. NsPromise!Finish
      BY <2>1, <3>1, <3>2, <3>3, <3>4 DEF NsPromise!Finish, NsPromise!Waiting, Running
    <3> QED
      BY <3>5 DEF NsPromise!Next
  <2> QED
    BY <2>2, <2>3
<1>8. CASE Reset
  <2>1. /\ polled = "open" /\ polled' = "dropped" /\ UNCHANGED <<program, hand, items, outcome, frames>>
    BY <1>8 DEF Reset, handlerVars
  <2>2. NsPromise!Cut
    BY <2>1 DEF NsPromise!Cut, TakenOn, Data, Running
  <2> QED
    BY <2>2 DEF NsPromise!Next
<1> QED
  BY <1>1, <1>4, <1>5, <1>6, <1>7, <1>8
  DEF NsNext, NsProgress, Write, WriteBroken, Finish, Read, nsVars, handlerVars, bodyVars

(* The streaming call implements the promise of a streaming response, for  *)
(* every handler, client, capacity and number of requests: each answer     *)
(* that was taken on comes out once and in its turn, and the trailers only *)
(* when the handler has returned and everything is out.                    *)
THEOREM CallIsAResponseStream == NsSpec => CallKeepsPromise
<1>1. NsInit => Answered
  BY DEF NsInit, Answered, Gone
<1> QED
  BY <1>1, NsBegins, NsKeeps, AnswerKeeps, CallBegins, CallMaps, PTL
  DEF NsSpec, CallKeepsPromise, NsPromise!Spec

(* What reaches the connection is what the handler sent, the trailers come *)
(* last and once, a collecting handler works with a whole prefix of the    *)
(* requests, and the call locks up only if its client writes more than all *)
(* the buffers hold before it reads, for every size of the channels.       *)
THEOREM StreamsKeepOrder ==
  NsSpec => [](NsTypeOK /\ OrderedThenTrailers /\ CollectedPrefix /\ StuckOnlyWhenOverfull)
<1>1. NsInit => Windowed
  BY NativeAssumption DEF NsInit, Windowed
<1>2. NsInv /\ Windowed
        => NsTypeOK /\ OrderedThenTrailers /\ CollectedPrefix /\ StuckOnlyWhenOverfull
  BY NsSafe, StuckIsOverfull
<1> QED
  BY <1>1, <1>2, NsBegins, NsKeeps, WindowKeeps, PTL DEF NsSpec

-----------------------------------------------------------------------------
(* Server-sent events.                                                     *)

(* The sleep runs while the body is pending, and no frame is older than it.*)
Sleeping ==
  IF keeping
  THEN /\ body # "ended"
       /\ body = "pending" => timer \in 0..(Interval - 1)
       /\ IF timer = -1 THEN quiet = 0 ELSE quiet <= timer
  ELSE timer = -1

SseInv == SseTypeOK /\ Sleeping

LEMMA SseBegins == SseInit => SseInv
<1> SUFFICES ASSUME SseInit PROVE SseInv
  OBVIOUS
<1>1. produced \in Seq(Events) /\ Len(produced) <= MaxEvents /\ taken \in 0..Len(produced)
  BY SseAssumption DEF SseInit
<1>2. keeping \in BOOLEAN /\ finished \in BOOLEAN
  BY Zenon DEF SseInit
<1> QED
  BY <1>1, <1>2, SseAssumption DEF SseInit, SseInv, SseTypeOK, Sleeping

LEMMA SseKeeps == SseInv /\ [SseNext]_sseVars => SseInv'
<1> SUFFICES ASSUME SseInv, [SseNext]_sseVars PROVE SseInv'
  OBVIOUS
<1> USE SseAssumption
<1>1. CASE \E ev \in Events : Produce(ev)
  <2>1. PICK ev \in Events : Produce(ev)
    BY <1>1
  <2>2. produced' = Append(produced, ev) /\ produced' \in Seq(Events)
        /\ Len(produced') = Len(produced) + 1
    BY <2>1 DEF SseInv, SseTypeOK, Produce
  <2>3. SseTypeOK'
    BY <2>1, <2>2 DEF SseInv, SseTypeOK, Produce, WakeBody
  <2>4. Sleeping'
    BY <2>1 DEF SseInv, SseTypeOK, Sleeping, Produce, WakeBody
  <2> QED
    BY <2>3, <2>4 DEF SseInv
<1>2. CASE EndEvents
  BY <1>2 DEF SseInv, SseTypeOK, Sleeping, EndEvents, WakeBody
<1>3. CASE Tick
  BY <1>3 DEF SseInv, SseTypeOK, Sleeping, Tick
<1>4. CASE SendEvent
  <2>1. taken' \in 0..Len(produced)
    BY <1>4 DEF SseInv, SseTypeOK, SendEvent, EventFirst, EventReady
  <2>2. timer' \in -1..Interval /\ (keeping => timer' = timer \/ timer' = 0)
        /\ (~keeping => timer' = timer) /\ turn' \in {"events", "pings"}
    BY <1>4 DEF SseInv, SseTypeOK, SendEvent, Started, Turned
  <2> QED
    BY <1>4, <2>1, <2>2 DEF SseInv, SseTypeOK, Sleeping, SendEvent
<1>5. CASE SendPing
  BY <1>5 DEF SseInv, SseTypeOK, Sleeping, SendPing, PingFirst, PingReady, Turned
<1>6. CASE Wait
  BY <1>6 DEF SseInv, SseTypeOK, Sleeping, Wait, PingReady, Started, Turned, Drained
<1>7. CASE UNCHANGED sseVars
  BY <1>7 DEF SseInv, SseTypeOK, Sleeping, sseVars
<1> QED
  BY <1>1, <1>2, <1>3, <1>4, <1>5, <1>6, <1>7 DEF SseNext, Poll

(* The texts.                                                              *)
LEMMA WithoutIsFold ==
  ASSUME NEW ends
  PROVE  /\ Without(<<>>, ends) = <<>>
         /\ \A text \in Strings : Without(text, ends) \in Strings
         /\ \A text \in Strings, c \in Characters :
              Without(Append(text, c), ends)
                = IF c \in ends THEN Without(text, ends) ELSE Append(Without(text, ends), c)
<1> DEFINE f == [kept \in Strings |-> [c \in Characters |-> IF c \in ends THEN kept ELSE Append(kept, c)]]
<1>1. f \in Steps(Strings, Characters)
  <2>1. \A kept \in Strings, c \in Characters : Append(kept, c) \in Strings
    BY DEF Strings
  <2> QED
    BY <2>1 DEF Steps
<1>2. <<>> \in Strings
  BY DEF Strings
<1>3. \A kept \in Strings, c \in Characters : f[kept][c] = IF c \in ends THEN kept ELSE Append(kept, c)
  OBVIOUS
<1>4. \A text : Without(text, ends) = Fold(f, <<>>, text)
  BY DEF Without
<1> HIDE DEF f
<1>5. Fold(f, <<>>, <<>>) = <<>>
  BY <1>1, <1>2, FoldOfNone
<1>6. ASSUME NEW text \in Strings PROVE Fold(f, <<>>, text) \in Strings
  BY <1>1, <1>2, FoldTyped DEF Strings
<1>7. ASSUME NEW text \in Strings, NEW c \in Characters
      PROVE  Fold(f, <<>>, Append(text, c)) = f[Fold(f, <<>>, text)][c]
  <2>1. text \in Seq(Characters)
    BY DEF Strings
  <2> QED
    BY <1>1, <1>2, <2>1, FoldOfMore
<1> QED
  BY <1>3, <1>4, <1>5, <1>6, <1>7

LEMMA SplitIsFold ==
  /\ Split(<<>>) = [done |-> <<>>, part |-> <<>>]
  /\ \A text \in Strings : Split(text) \in SplitState
  /\ \A text \in Strings, c \in Characters : Split(Append(text, c)) = SplitStep[Split(text)][c]
<1>1. SplitStep \in Steps(SplitState, Characters)
  <2> SUFFICES ASSUME NEW split \in SplitState, NEW c \in Characters
               PROVE  SplitStep[split][c] \in SplitState
    BY DEF SplitStep, Steps
  <2>1. split.done \in Seq(Strings) /\ split.part \in Strings
    BY DEF SplitState
  <2>2. Append(split.done, split.part) \in Seq(Strings) /\ Append(split.part, c) \in Strings /\ <<>> \in Strings
    BY <2>1 DEF Strings
  <2> QED
    BY <2>1, <2>2 DEF SplitStep, SplitState, LF, CR
<1> DEFINE first == [done |-> <<>>, part |-> <<>>]
<1>2. first \in SplitState
  BY DEF SplitState, Strings
<1>3. \A text : Split(text) = Fold(SplitStep, first, text)
  BY DEF Split
<1> HIDE DEF first
<1>5. Fold(SplitStep, first, <<>>) = first
  BY <1>1, <1>2, FoldOfNone
<1>6. ASSUME NEW text \in Strings PROVE Fold(SplitStep, first, text) \in SplitState
  BY <1>1, <1>2, FoldTyped DEF Strings
<1>7. ASSUME NEW text \in Strings, NEW c \in Characters
      PROVE  Fold(SplitStep, first, Append(text, c)) = SplitStep[Fold(SplitStep, first, text)][c]
  <2>1. text \in Seq(Characters)
    BY DEF Strings
  <2> QED
    BY <1>1, <1>2, <2>1, FoldOfMore
<1> QED
  BY <1>3, <1>5, <1>6, <1>7 DEF first

LEMMA ReadLineIsStep == ReadLine \in Steps(Readers, WireLines)
<1> SUFFICES ASSUME NEW reader \in Readers, NEW line \in WireLines
             PROVE  ReadLine[reader][line] \in Readers
  BY DEF ReadLine, Steps
<1>1. /\ reader.id \in Seq(Strings) /\ reader.event \in Seq(Strings)
      /\ reader.data \in Strings /\ reader.events \in Seq(Received) /\ line.text \in Strings
  BY DEF Readers, WireLines
<1>2. /\ <<line.text>> \in Seq(Strings) /\ Append(reader.data \o line.text, LF) \in Strings
      /\ <<>> \in Strings /\ <<>> \in Seq(Strings)
  <2>1. LF \in Characters
    BY SseAssumption
  <2> QED
    BY <1>1, <2>1 DEF Strings
<1>3. reader.data # <<>> => Dispatched(reader) \in Seq(Received)
  <2> SUFFICES ASSUME reader.data # <<>> PROVE Dispatched(reader) \in Seq(Received)
    OBVIOUS
  <2>1. Front(reader.data) \in Strings
    BY <1>1 DEF Front, Strings
  <2> QED
    BY <1>1, <2>1 DEF Dispatched, Received
<1>4. CASE line = BlankLine
  BY <1>1, <1>2, <1>3, <1>4 DEF ReadLine, Readers, Reader
<1>5. CASE line # BlankLine
  BY <1>1, <1>2, <1>5 DEF ReadLine, Readers, Reader
<1> QED
  BY <1>4, <1>5

LEMMA ReadIsFold ==
  /\ \A reader \in Readers : ReadAll(reader, <<>>) = reader
  /\ \A reader \in Readers, lines \in Seq(WireLines) : ReadAll(reader, lines) \in Readers
  /\ \A reader \in Readers, lines \in Seq(WireLines), line \in WireLines :
       ReadAll(reader, Append(lines, line)) = ReadLine[ReadAll(reader, lines)][line]
  /\ \A reader \in Readers, lines \in Seq(WireLines), more \in Seq(WireLines) :
       ReadAll(reader, lines \o more) = ReadAll(ReadAll(reader, lines), more)
BY ReadLineIsStep, FoldOfNone, FoldTyped, FoldOfMore, FoldOfBoth DEF ReadAll

LEMMA WrittenLines ==
  ASSUME NEW field \in {"id", "event", "data", ":", "blank"}
  PROVE  /\ Written(field, <<>>) = <<>>
         /\ \A lines \in Seq(Strings) : Written(field, lines) \in Seq(WireLines)
         /\ \A text \in Strings : WireLine(field, text) \in WireLines
         /\ \A lines \in Seq(Strings), text \in Strings :
              Written(field, Append(lines, text)) = Append(Written(field, lines), WireLine(field, text))
<1>1. Written(field, <<>>) = <<>>
  BY DEF Written
<1>2. \A text \in Strings : WireLine(field, text) \in WireLines
  BY DEF WireLine, WireLines
<1>3. ASSUME NEW lines \in Seq(Strings)
      PROVE  /\ Written(field, lines) \in Seq(WireLines) /\ Len(Written(field, lines)) = Len(lines)
             /\ \A i \in 1..Len(lines) : Written(field, lines)[i] = WireLine(field, lines[i])
  <2>1. \A i \in 1..Len(lines) : lines[i] \in Strings
    OBVIOUS
  <2>2. \A i \in 1..Len(lines) : WireLine(field, lines[i]) \in WireLines
    BY <1>2, <2>1
  <2>3. DOMAIN lines = 1..Len(lines) /\ Len(lines) \in Nat
    OBVIOUS
  <2>4. Written(field, lines) = [i \in 1..Len(lines) |-> WireLine(field, lines[i])]
    BY <2>3 DEF Written
  <2> QED
    BY <2>2, <2>3, <2>4
<1>4. ASSUME NEW lines \in Seq(Strings), NEW text \in Strings
      PROVE  Written(field, Append(lines, text)) = Append(Written(field, lines), WireLine(field, text))
  <2> DEFINE more == Append(lines, text)
             line == WireLine(field, text)
             old == Written(field, lines)
             new == Written(field, more)
  <2>1. /\ more \in Seq(Strings) /\ Len(more) = Len(lines) + 1 /\ more[Len(lines) + 1] = text
        /\ \A i \in 1..Len(lines) : more[i] = lines[i]
        /\ Len(lines) \in Nat
    OBVIOUS
  <2>2. /\ old \in Seq(WireLines) /\ Len(old) = Len(lines) /\ line \in WireLines
        /\ \A i \in 1..Len(lines) : old[i] = WireLine(field, lines[i])
    BY <1>2, <1>3
  <2>3. /\ new \in Seq(WireLines) /\ Len(new) = Len(more)
        /\ \A i \in 1..Len(more) : new[i] = WireLine(field, more[i])
    BY <1>3, <2>1
  <2> HIDE DEF more, old, new
  <2>4. \A i \in 1..Len(lines) : new[i] = old[i]
    BY <2>1, <2>2, <2>3
  <2>5. new[Len(lines) + 1] = line
    BY <2>1, <2>3
  <2> HIDE DEF line
  <2>6. new = Append(old, line)
    BY <2>1, <2>2, <2>3, <2>4, <2>5, SeqEqual
  <2> QED
    BY <2>6 DEF more, line, old, new
<1> QED
  BY <1>1, <1>2, <1>3, <1>4

(* A comment is read as nothing.                                           *)
LEMMA CommentUnseen ==
  ASSUME NEW reader \in Readers
  PROVE  \A lines \in Seq(Strings) : ReadAll(reader, Written(":", lines)) = reader
<1> DEFINE T == {lines \in Seq(Strings) : ReadAll(reader, Written(":", lines)) = reader}
<1>1. <<>> \in T
  BY ReadIsFold, WrittenLines
<1>2. ASSUME NEW lines \in Seq(Strings), NEW text \in Strings, lines \in T PROVE Append(lines, text) \in T
  <2> DEFINE line == WireLine(":", text)
             old == Written(":", lines)
  <2>1. /\ Written(":", Append(lines, text)) = Append(old, line)
        /\ old \in Seq(WireLines) /\ line \in WireLines
    BY WrittenLines
  <2>2. ReadAll(reader, Append(old, line)) = ReadLine[reader][line]
    <3>1. ReadAll(reader, old) = reader
      BY <1>2
    <3> HIDE DEF old, line
    <3> QED
      BY <2>1, <3>1, ReadIsFold
  <2>3. ReadLine[reader][line] = reader
    BY <2>1 DEF ReadLine, WireLine, BlankLine
  <2> QED
    <3> HIDE DEF line, old
    <3>1. ReadAll(reader, Written(":", Append(lines, text))) = reader
      BY <2>1, <2>2, <2>3, Zenon
    <3>2. Append(lines, text) \in Seq(Strings)
      OBVIOUS
    <3> QED
      BY <3>1, <3>2
<1> HIDE DEF T
<1>3. \A lines \in Seq(Strings) : lines \in T
  BY <1>1, <1>2, EverySequence
<1> QED
  BY <1>3 DEF T

(* The lines of a text, read one after the other, are the text again.      *)
LEMMA DataRead ==
  ASSUME NEW reader \in Readers, reader.data = <<>>
  PROVE  \A text \in Strings :
           \E kept \in Strings :
             /\ ReadAll(reader, Written("data", Split(text).done)) = [reader EXCEPT !.data = kept]
             /\ kept \o Split(text).part = Without(text, {CR})
<1> DEFINE Kept(text, kept) ==
             /\ ReadAll(reader, Written("data", Split(text).done)) = [reader EXCEPT !.data = kept]
             /\ kept \o Split(text).part = Without(text, {CR})
           T == {text \in Strings : \E kept \in Strings : Kept(text, kept)}
<1>1. <<>> \in T
  <2>1. Split(<<>>).done = <<>> /\ Split(<<>>).part = <<>> /\ Without(<<>>, {CR}) = <<>> /\ <<>> \in Strings
    BY SplitIsFold, WithoutIsFold DEF Strings
  <2>2. ReadAll(reader, Written("data", <<>>)) = reader /\ [reader EXCEPT !.data = <<>>] = reader
    BY ReadIsFold, WrittenLines DEF Readers
  <2>3. <<>> \o <<>> = <<>>
    OBVIOUS
  <2>4. Kept(<<>>, <<>>)
    BY <2>1, <2>2, <2>3
  <2> HIDE DEF Kept
  <2> QED
    BY <2>1, <2>4
<1>2. ASSUME NEW text \in Strings, NEW c \in Characters, text \in T PROVE Append(text, c) \in T
  <2> DEFINE more == Append(text, c)
             done == Split(text).done
             rest == Split(text).part
  <2>1. PICK kept \in Strings : Kept(text, kept)
    BY <1>2
  <2>0. text \in Strings
    OBVIOUS
  <2>2. done \in Seq(Strings) /\ rest \in Strings /\ Split(text) = [done |-> done, part |-> rest]
        /\ Split(text) \in SplitState
    BY SplitIsFold DEF SplitState
  <2>3. Split(more) = SplitStep[Split(text)][c] /\ more \in Strings
    BY SplitIsFold DEF Strings
  <2>4. Without(more, {CR}) = (IF c = CR THEN Without(text, {CR}) ELSE Append(Without(text, {CR}), c))
        /\ Without(text, {CR}) \in Strings
    <3>1. Without(more, {CR}) = (IF c \in {CR} THEN Without(text, {CR}) ELSE Append(Without(text, {CR}), c))
      BY <2>0, WithoutIsFold
    <3>2. Without(text, {CR}) \in Strings
      BY <2>0, WithoutIsFold
    <3> QED
      BY <3>1, <3>2
  <2> HIDE DEF Kept
  <2>8. ASSUME NEW k \in Strings, Kept(more, k) PROVE Append(text, c) \in T
    BY <2>3, <2>8
  <2> HIDE DEF more, done, rest, T
  <2>5. CASE c = LF
    <3> DEFINE line == WireLine("data", rest)
               old == Written("data", done)
               sofar == [reader EXCEPT !.data = kept]
               whole == Append(kept \o rest, LF)
    <3>1. Split(more).done = Append(done, rest) /\ Split(more).part = <<>>
      <4> DEFINE split == Split(text)
      <4>1. split \in SplitState /\ Split(more) = SplitStep[split][c]
            /\ done = split.done /\ rest = split.part
        BY <2>2, <2>3 DEF done, rest
      <4> HIDE DEF split
      <4>2. SplitStep[split][LF] = [done |-> Append(split.done, split.part), part |-> <<>>]
        BY <2>5, <4>1 DEF SplitStep, LF, CR
      <4> QED
        BY <2>5, <4>1, <4>2
    <3>2. Written("data", Append(done, rest)) = Append(old, line)
          /\ old \in Seq(WireLines) /\ line \in WireLines
      BY <2>2, WrittenLines
    <3>3. sofar \in Readers /\ ReadAll(reader, old) = sofar
      BY <2>1 DEF Readers, done, Kept
    <3>4. ReadAll(reader, Append(old, line)) = ReadLine[sofar][line]
      <4> HIDE DEF old, line, sofar
      <4> QED
        BY <3>2, <3>3, ReadIsFold
    <3>5. ReadLine[sofar][line] = [reader EXCEPT !.data = whole]
      BY <3>2, <3>3 DEF ReadLine, WireLine, BlankLine, Readers
    <3>6. whole = Without(more, {CR}) /\ whole \in Strings /\ whole \o <<>> = whole
      BY <2>1, <2>2, <2>4, <2>5 DEF LF, CR, Strings, rest, Kept
    <3>7. Kept(more, whole)
      <4> HIDE DEF whole, old, line, sofar
      <4> QED
        BY <3>1, <3>2, <3>4, <3>5, <3>6 DEF Kept
    <3> QED
      BY <2>8, <3>6, <3>7
  <2>6. CASE c = CR
    <3>1. Split(more) = Split(text)
      BY <2>2, <2>3, <2>6 DEF SplitStep, LF, CR
    <3>2. Kept(more, kept)
      BY <2>1, <2>4, <2>6, <3>1 DEF Kept
    <3> QED
      BY <2>8, <3>2
  <2>7. CASE c # LF /\ c # CR
    <3>1. Split(more).done = done /\ Split(more).part = Append(rest, c)
      BY <2>2, <2>3, <2>7 DEF SplitStep, SplitState
    <3>2. kept \o Append(rest, c) = Append(kept \o rest, c)
      <4>1. Append(rest, c) = rest \o <<c>> /\ Append(kept \o rest, c) = (kept \o rest) \o <<c>>
        BY <2>2, AppendIsConcat, ConcatProperties DEF Strings
      <4>2. <<c>> \in Seq(Characters)
        OBVIOUS
      <4> QED
        BY <2>2, <4>1, <4>2, ConcatAssociative DEF Strings
    <3>3. Kept(more, kept)
      BY <2>1, <2>4, <2>7, <3>1, <3>2 DEF done, rest, Kept
    <3> QED
      BY <2>8, <3>3
  <2> QED
    BY <2>5, <2>6, <2>7
<1> HIDE DEF T
<1>3. \A text \in Strings : text \in T
  BY <1>1, <1>2, EverySequence DEF Strings
<1> QED
  BY <1>3 DEF T

(* An event as it is written is read as that event, or as nothing.         *)
Between(events) == Reader(<<>>, <<>>, <<>>, events)

LEMMA ReadOne ==
  /\ \A reader \in Readers, line \in WireLines : ReadAll(reader, <<line>>) = ReadLine[reader][line]
  /\ BlankLine \in WireLines
  /\ \A reader \in Readers :
       ReadLine[reader][BlankLine]
         = Between(IF reader.data = <<>> THEN reader.events ELSE Dispatched(reader))
<1>1. ASSUME NEW reader \in Readers, NEW line \in WireLines
      PROVE  ReadAll(reader, <<line>>) = ReadLine[reader][line]
  <2>1. <<>> \in Seq(WireLines) /\ Append(<<>>, line) = <<line>>
    OBVIOUS
  <2>2. ReadAll(reader, Append(<<>>, line)) = ReadLine[ReadAll(reader, <<>>)][line]
    BY <2>1, ReadIsFold
  <2>3. ReadAll(reader, <<>>) = reader
    BY ReadIsFold
  <2> QED
    BY <2>1, <2>2, <2>3
<1>2. BlankLine \in WireLines
  BY DEF BlankLine, WireLine, WireLines, Strings
<1>3. ASSUME NEW reader \in Readers
      PROVE  ReadLine[reader][BlankLine]
               = Between(IF reader.data = <<>> THEN reader.events ELSE Dispatched(reader))
  <2> DEFINE next == Reader(<<>>, <<>>, <<>>,
                            IF reader.data = <<>> THEN reader.events ELSE Dispatched(reader))
  <2>1. BlankLine.field = "blank"
    BY DEF BlankLine, WireLine
  <2>2. ReadLine[reader][BlankLine] = next
    BY <1>2, <2>1 DEF ReadLine
  <2> QED
    BY <2>2, Zenon DEF Between
<1> QED
  BY <1>1, <1>2, <1>3

LEMMA OptionFacts ==
  ASSUME NEW value \in Option(Strings)
  PROVE  /\ Stripped(value) \in Seq(Strings) /\ Len(Stripped(value)) <= 1
         /\ value # <<>> => value[1] \in Strings
<1>1. \A i \in 1..Len(value) : strip_cr_lf(value[i]) \in Strings
  <2> SUFFICES ASSUME NEW i \in 1..Len(value) PROVE strip_cr_lf(value[i]) \in Strings
    OBVIOUS
  <2>1. value[i] \in Strings
    BY DEF Option
  <2> QED
    BY <2>1, WithoutIsFold DEF strip_cr_lf
<1>2. DOMAIN value = 1..Len(value) /\ Len(value) \in Nat /\ Len(value) <= 1
  BY DEF Option
<1>3. Stripped(value) = [i \in 1..Len(value) |-> strip_cr_lf(value[i])]
  BY <1>2 DEF Stripped
<1>4. value # <<>> => value[1] \in Strings
  BY DEF Option
<1> QED
  BY <1>1, <1>2, <1>3, <1>4

LEMMA ScalarRead ==
  ASSUME NEW reader \in Readers, NEW value \in Option(Strings)
  PROVE  /\ reader.id = <<>> => ReadAll(reader, Written("id", Stripped(value))) = [reader EXCEPT !.id = Stripped(value)]
         /\ reader.event = <<>> => ReadAll(reader, Written("event", Stripped(value))) = [reader EXCEPT !.event = Stripped(value)]
<1> DEFINE strings == Stripped(value)
<1>1. strings \in Seq(Strings) /\ Len(strings) \in Nat /\ Len(strings) <= 1
  BY OptionFacts
<1> HIDE DEF strings
<1>2. CASE strings = <<>>
  <2>1. ReadAll(reader, Written("id", strings)) = reader /\ ReadAll(reader, Written("event", strings)) = reader
    BY <1>2, WrittenLines, ReadIsFold
  <2> QED
    BY <1>2, <2>1 DEF strings, Readers
<1>3. CASE strings # <<>>
  <2> DEFINE text == strings[1]
  <2>1. text \in Strings /\ strings = <<text>>
    <3>1. Len(strings) = 1
      BY <1>1, <1>3, EmptySeq
    <3> QED
      BY <1>1, <3>1
  <2>2. ASSUME NEW field \in {"id", "event"}
        PROVE  ReadAll(reader, Written(field, strings)) = ReadLine[reader][WireLine(field, text)]
    <3> DEFINE line == WireLine(field, text)
    <3>1. line \in WireLines
      BY <2>1, WrittenLines
    <3>2. Written(field, <<text>>) = <<line>>
      BY DEF Written
    <3> HIDE DEF line, text
    <3> QED
      BY <2>1, <3>1, <3>2, ReadOne DEF line
  <2>3. /\ ReadLine[reader][WireLine("id", text)] = [reader EXCEPT !.id = <<text>>]
        /\ ReadLine[reader][WireLine("event", text)] = [reader EXCEPT !.event = <<text>>]
    BY <2>1 DEF ReadLine, WireLine, BlankLine, WireLines
  <2> QED
    BY <2>1, <2>2, <2>3 DEF strings
<1> QED
  BY <1>2, <1>3

LEMMA EventRead ==
  ASSUME NEW events \in Seq(Received), NEW ev \in SseEvents
  PROVE  /\ to_wire(ev) \in Seq(WireLines) /\ Between(events) \in Readers
         /\ ReadAll(Between(events), to_wire(ev)) = Between(ShowStep[events][ev])
         /\ ShowStep[events][ev] \in Seq(Received)
<1> DEFINE reader == Between(events)
<1>1. /\ reader \in Readers /\ reader.data = <<>> /\ reader.id = <<>> /\ reader.event = <<>>
      /\ reader.events = events
  BY DEF Between, Reader, Readers, Strings
<1>2. /\ ev.comment \in Option(Strings) /\ ev.id \in Option(Strings) /\ ev.event \in Option(Strings)
      /\ ev.data \in Strings
  BY DEF SseEvents
<1>3. BlankLine \in WireLines /\ <<BlankLine>> \in Seq(WireLines)
  BY ReadOne
<1>4. \A r \in Readers : ReadAll(r, <<BlankLine>>) = ReadLine[r][BlankLine]
  BY <1>3, ReadOne
<1>5. \A text \in Strings : Lines(text) \in Seq(Strings)
  BY SplitIsFold DEF Lines, SplitState
<1>6. CASE ev.comment # <<>>
  <2> DEFINE lines == Written(":", Lines(ev.comment[1]))
  <2>1. ev.comment[1] \in Strings
    BY <1>2, <1>6, OptionFacts
  <2>2. lines \in Seq(WireLines) /\ ReadAll(reader, lines) = reader
    BY <1>1, <1>5, <2>1, WrittenLines, CommentUnseen
  <2>3. to_wire(ev) = lines \o <<BlankLine>> /\ ShowStep[events][ev] = events
    BY <1>6 DEF to_wire, ShowStep
  <2>4. ReadLine[reader][BlankLine] = reader
    BY <1>1, ReadOne
  <2> HIDE DEF lines
  <2>5. lines \o <<BlankLine>> \in Seq(WireLines)
    BY <1>3, <2>2
  <2>6. ReadAll(reader, lines \o <<BlankLine>>) = reader
    BY <1>1, <1>3, <1>4, <2>2, <2>4, ReadIsFold
  <2> QED
    BY <1>1, <2>3, <2>5, <2>6
<1>7. CASE ev.comment = <<>>
  <2> DEFINE ids == Written("id", Stripped(ev.id))
             names == Written("event", Stripped(ev.event))
             data == Written("data", Lines(ev.data))
             id == Stripped(ev.id)
             name == Stripped(ev.event)
             clean == Without(ev.data, {CR})
             one == [reader EXCEPT !.id = id]
             two == [one EXCEPT !.event = name]
             three == [two EXCEPT !.data = Append(clean, LF)]
  <2>1. id \in Seq(Strings) /\ name \in Seq(Strings) /\ clean \in Strings
    BY <1>2, OptionFacts, WithoutIsFold
  <2>2. ids \in Seq(WireLines) /\ names \in Seq(WireLines) /\ data \in Seq(WireLines)
    BY <1>2, <1>5, <2>1, WrittenLines
  <2>3. ReadAll(reader, ids) = one
    BY <1>1, <1>2, ScalarRead
  <2>4. one \in Readers /\ one.event = <<>>
    BY <1>1, <2>1 DEF Readers
  <2>5. ReadAll(one, names) = two
    <3> HIDE DEF one
    <3> QED
      BY <1>2, <2>4, ScalarRead
  <2>6. two \in Readers /\ two.data = <<>>
    BY <1>1, <2>1, <2>4 DEF Readers
  <2>7. ReadAll(two, data) = three
    <3> DEFINE split == Split(ev.data)
               line == WireLine("data", split.part)
               done == Written("data", split.done)
    <3>1. split.done \in Seq(Strings) /\ split.part \in Strings /\ Lines(ev.data) = Append(split.done, split.part)
      BY <1>2, SplitIsFold DEF SplitState, Lines
    <3>2. data = Append(done, line) /\ done \in Seq(WireLines) /\ line \in WireLines
      BY <3>1, WrittenLines
    <3> HIDE DEF two
    <3>3. PICK kept \in Strings : ReadAll(two, done) = [two EXCEPT !.data = kept] /\ kept \o split.part = clean
      BY <1>2, <2>6, DataRead
    <3> DEFINE sofar == [two EXCEPT !.data = kept]
    <3>4. sofar \in Readers /\ sofar.data = kept
      BY <2>6, <3>3 DEF Readers
    <3>5. ReadLine[sofar][line] = [two EXCEPT !.data = Append(kept \o split.part, LF)]
      BY <2>6, <3>2, <3>4 DEF ReadLine, WireLine, BlankLine, Readers
    <3> HIDE DEF data, done, line, sofar, split
    <3>6. ReadAll(two, Append(done, line)) = ReadLine[sofar][line]
      <4>1. ReadAll(two, done) = sofar
        BY <3>3 DEF sofar
      <4>2. ReadAll(two, Append(done, line)) = ReadLine[ReadAll(two, done)][line]
        BY <2>6, <3>2, ReadIsFold, Zenon
      <4> QED
        BY <4>1, <4>2
    <3> QED
      BY <3>2, <3>3, <3>5, <3>6
  <2>8. three \in Readers /\ three.data = Append(clean, LF) /\ three.id = id /\ three.event = name /\ three.events = events
    <3>1. Append(clean, LF) \in Strings
      BY <2>1, SseAssumption DEF Strings
    <3> HIDE DEF clean, id, name
    <3> QED
      BY <1>1, <2>1, <2>4, <2>6, <3>1 DEF Readers
  <2>9. ReadLine[three][BlankLine] = Between(Append(events, Shown(ev)))
    <3>1. Append(clean, LF) # <<>> /\ Front(Append(clean, LF)) = clean
      <4>1. LF \in Characters /\ clean \in Seq(Characters)
        BY <2>1, SseAssumption DEF Strings
      <4> DEFINE more == Append(clean, LF)
      <4>2. /\ more \in Seq(Characters) /\ Len(more) = Len(clean) + 1 /\ Len(clean) \in Nat
            /\ \A i \in 1..Len(clean) : more[i] = clean[i]
        BY <4>1
      <4> HIDE DEF more, clean
      <4>3. more # <<>>
        BY <4>2, EmptySeq
      <4>4. Front(more) = clean
        BY <4>1, <4>2 DEF Front
      <4> QED
        BY <4>3, <4>4 DEF more
    <3> HIDE DEF three
    <3>2. ReadLine[three][BlankLine] = Between(Dispatched(three))
      BY <2>8, <3>1, ReadOne
    <3>3. Dispatched(three) = Append(events, Shown(ev))
      BY <2>8, <3>1 DEF Dispatched, Shown
    <3> QED
      BY <3>2, <3>3
  <2>10. /\ to_wire(ev) = ids \o names \o data \o <<BlankLine>>
         /\ ShowStep[events][ev] = Append(events, Shown(ev)) /\ Shown(ev) \in Received
    BY <1>7, <2>1 DEF to_wire, ShowStep, Shown, Received
  <2> HIDE DEF ids, names, data, one, two, three
  <2>11. /\ ids \o names \in Seq(WireLines) /\ ids \o names \o data \in Seq(WireLines)
         /\ ids \o names \o data \o <<BlankLine>> \in Seq(WireLines)
    BY <1>3, <2>2
  <2>12. ReadAll(reader, ids \o names) = two
    BY <1>1, <2>2, <2>3, <2>5, ReadIsFold
  <2>13. ReadAll(reader, ids \o names \o data) = three
    <3> DEFINE both == ids \o names
    <3>1. both \in Seq(WireLines) /\ ReadAll(reader, both) = two
      BY <2>11, <2>12
    <3> HIDE DEF both
    <3>2. ReadAll(reader, both \o data) = three
      BY <1>1, <2>2, <2>7, <3>1, ReadIsFold
    <3> QED
      BY <3>2 DEF both
  <2>14. ReadAll(reader, ids \o names \o data \o <<BlankLine>>) = Between(Append(events, Shown(ev)))
    <3> DEFINE whole == ids \o names \o data
    <3>1. whole \in Seq(WireLines) /\ ReadAll(reader, whole) = three
      BY <2>11, <2>13
    <3> HIDE DEF whole
    <3>2. ReadAll(reader, whole \o <<BlankLine>>) = ReadAll(three, <<BlankLine>>)
      BY <1>1, <1>3, <3>1, ReadIsFold
    <3>3. ReadAll(three, <<BlankLine>>) = ReadLine[three][BlankLine]
      BY <1>4, <2>8
    <3> QED
      BY <2>9, <3>2, <3>3 DEF whole
  <2> QED
    BY <1>1, <2>10, <2>11, <2>14
<1> QED
  BY <1>6, <1>7

(* What the client has read is what was sent, and it is between two events.*)
ReadSoFar ==
  /\ sent_lines \in Seq(WireLines)
  /\ ReadAll(Between(<<>>), sent_lines) = Between(AllShown(SubSeq(produced, 1, taken)))

LEMMA ShownIsFold ==
  /\ AllShown(<<>>) = <<>>
  /\ \A events \in Seq(SseEvents) : AllShown(events) \in Seq(Received)
  /\ \A events \in Seq(SseEvents), ev \in SseEvents :
       AllShown(Append(events, ev)) = ShowStep[AllShown(events)][ev]
<1>1. ShowStep \in Steps(Seq(Received), SseEvents)
  <2>1. \A shown \in Seq(Received), ev \in SseEvents : ShowStep[shown][ev] \in Seq(Received)
    BY EventRead
  <2> QED
    BY <2>1 DEF ShowStep, Steps
<1>2. <<>> \in Seq(Received)
  OBVIOUS
<1>3. AllShown(<<>>) = <<>>
  BY <1>1, <1>2, FoldOfNone DEF AllShown
<1>4. ASSUME NEW events \in Seq(SseEvents) PROVE AllShown(events) \in Seq(Received)
  BY <1>1, <1>2, FoldTyped DEF AllShown
<1>5. ASSUME NEW events \in Seq(SseEvents), NEW ev \in SseEvents
      PROVE  AllShown(Append(events, ev)) = ShowStep[AllShown(events)][ev]
  <2> DEFINE S == Seq(Received)
             none == <<>>
  <2>1. ShowStep \in Steps(S, SseEvents) /\ none \in S
    BY <1>1, <1>2
  <2> HIDE DEF S, none
  <2>2. Fold(ShowStep, none, Append(events, ev)) = ShowStep[Fold(ShowStep, none, events)][ev]
    BY <2>1, FoldOfMore
  <2> QED
    BY <2>2, Zenon DEF AllShown, none
<1> QED
  BY <1>3, <1>4, <1>5

LEMMA ReadingBegins == SseInit => ReadSoFar
<1> SUFFICES ASSUME SseInit PROVE ReadSoFar
  OBVIOUS
<1>1. sent_lines = <<>> /\ sent_lines \in Seq(WireLines) /\ SubSeq(produced, 1, taken) = <<>>
  BY DEF SseInit
<1>2. Between(<<>>) \in Readers
  BY DEF Between, Reader, Readers, Strings
<1>3. ReadAll(Between(<<>>), <<>>) = Between(<<>>) /\ AllShown(<<>>) = <<>>
  BY <1>2, ReadIsFold, ShownIsFold
<1> QED
  BY <1>1, <1>3, Zenon DEF ReadSoFar

LEMMA ReadingKeeps == SseTypeOK /\ ReadSoFar /\ [SseNext]_sseVars => ReadSoFar'
<1> SUFFICES ASSUME SseTypeOK, ReadSoFar, [SseNext]_sseVars PROVE ReadSoFar'
  OBVIOUS
<1>1. /\ produced \in Seq(Events) /\ produced \in Seq(SseEvents) /\ Len(produced) \in Nat
      /\ taken \in Nat /\ taken <= Len(produced)
  BY SseAssumption DEF SseTypeOK
<1>2. CASE UNCHANGED <<sent_lines, produced, taken>>
  BY <1>2 DEF ReadSoFar
<1>3. ASSUME NEW ev \in Events, Produce(ev) PROVE ReadSoFar'
  <2>1. produced' = Append(produced, ev) /\ UNCHANGED <<sent_lines, taken>>
    BY <1>3 DEF Produce
  <2>2. SubSeq(produced', 1, taken) = SubSeq(produced, 1, taken)
    BY <1>1, <2>1
  <2> QED
    BY <2>1, <2>2 DEF ReadSoFar
<1>4. CASE SendEvent
  <2> DEFINE ev == produced[taken + 1]
             before == SubSeq(produced, 1, taken)
             shown == AllShown(before)
             lines == to_wire(ev)
  <2>1. taken' = taken + 1 /\ produced' = produced /\ sent_lines' = sent_lines \o lines /\ taken < Len(produced)
    BY <1>4 DEF SendEvent, EventFirst, EventReady
  <2>2. ev \in SseEvents /\ before \in Seq(SseEvents) /\ SubSeq(produced, 1, taken + 1) = Append(before, ev)
    BY <1>1, <2>1
  <2>3. shown \in Seq(Received) /\ AllShown(Append(before, ev)) = ShowStep[shown][ev]
    BY <2>2, ShownIsFold
  <2>4. lines \in Seq(WireLines) /\ ReadAll(Between(shown), lines) = Between(ShowStep[shown][ev])
    BY <2>2, <2>3, EventRead
  <2>5. ReadAll(Between(<<>>), sent_lines) = Between(shown) /\ sent_lines \in Seq(WireLines)
    BY DEF ReadSoFar
  <2>6. Between(<<>>) \in Readers
    BY DEF Between, Reader, Readers, Strings
  <2> HIDE DEF lines, shown, before, ev
  <2>7. ReadAll(Between(<<>>), sent_lines \o lines) = ReadAll(ReadAll(Between(<<>>), sent_lines), lines)
    BY <2>4, <2>5, <2>6, ReadIsFold
  <2>8. sent_lines \o lines \in Seq(WireLines)
    BY <2>4, <2>5
  <2> QED
    BY <2>1, <2>2, <2>3, <2>4, <2>5, <2>7, <2>8 DEF ReadSoFar
<1> QED
  BY <1>2, <1>3, <1>4 DEF SseNext, Poll, EndEvents, Tick, SendPing, Wait, sseVars

LEMMA ReadingShows == ReadSoFar => ClientSeesEvents
<1>1. ASSUME ReadSoFar PROVE Seen = AllShown(SubSeq(produced, 1, taken))
  <2>1. Seen = ReadAll(Between(<<>>), sent_lines).events
    BY Zenon DEF Seen, Between
  <2>2. \A events : Between(events).events = events
    BY DEF Between, Reader
  <2> QED
    BY <1>1, <2>1, <2>2 DEF ReadSoFar
<1> QED
  BY <1>1 DEF ClientSeesEvents

(* With keep_alive a connection is never silent for longer than the        *)
(* interval.                                                               *)
THEOREM PingsComeInTime == SseSpec => [](SseTypeOK /\ NeverSilent)
<1>1. SseInv => SseTypeOK /\ NeverSilent
  BY SseAssumption DEF SseInv, SseTypeOK, Sleeping, NeverSilent
<1> QED
  BY <1>1, SseBegins, SseKeeps, PTL DEF SseSpec

(* The client sees the events the handler sent, in their order, each as    *)
(* one event with its data but for carriage returns, whatever line ends    *)
(* the texts contain.                                                      *)
THEOREM EventsAreSeen == SseSpec => []ClientSeesEvents
<1>1. SseInv => SseTypeOK
  BY DEF SseInv
<1> QED
  BY <1>1, SseBegins, SseKeeps, ReadingBegins, ReadingKeeps, ReadingShows, PTL DEF SseSpec

-----------------------------------------------------------------------------
(* No other part writes the state of a part.                               *)
LEMMA PartsStandAlone ==
  ASSUME [ServicesNext]_serviceVars
  PROVE  /\ [HttpNext]_httpVars /\ [WsNext]_wsVars /\ [ChatNext]_chatVars /\ [NsNext]_nsVars
         /\ [RwNext]_rwVars /\ [SseNext]_sseVars /\ [ExNext]_exVars
<1>1. CASE UNCHANGED serviceVars
  <2>1. /\ UNCHANGED httpVars /\ UNCHANGED wsVars /\ UNCHANGED chatVars /\ UNCHANGED nsVars
        /\ UNCHANGED rwVars /\ UNCHANGED sseVars /\ UNCHANGED exVars
    BY <1>1 DEF serviceVars, StateOf
  <2> QED
    BY <2>1
<1>2. CASE ServicesNext
  <2>1. [HttpNext]_httpVars
    BY <1>2 DEF ServicesNext
  <2>2. [WsNext]_wsVars
    BY <1>2 DEF ServicesNext
  <2>3. [ChatNext]_chatVars
    BY <1>2 DEF ServicesNext
  <2>4. [NsNext]_nsVars
    BY <1>2 DEF ServicesNext
  <2>5. [RwNext]_rwVars
    BY <1>2 DEF ServicesNext
  <2>6. [SseNext]_sseVars
    BY <1>2 DEF ServicesNext
  <2>7. [ExNext]_exVars
    BY <1>2 DEF ServicesNext
  <2> QED
    BY <2>1, <2>2, <2>3, <2>4, <2>5, <2>6, <2>7
<1> QED
  BY <1>1, <1>2

LEMMA PartsBegin ==
  ServicesInit => HttpInit /\ WsInit /\ ChatInit /\ NsInit /\ RwInit /\ SseInit /\ ExInit
BY DEF ServicesInit

LEMMA WholeIsItsParts ==
  ServicesSpec => HttpSpec /\ WsSpec /\ ChatSpec /\ NsSpec /\ RwSpec /\ SseSpec /\ ExSpec
<1>1. [ServicesNext]_serviceVars
        => /\ [HttpNext]_httpVars /\ [WsNext]_wsVars /\ [ChatNext]_chatVars /\ [NsNext]_nsVars
           /\ [RwNext]_rwVars /\ [SseNext]_sseVars /\ [ExNext]_exVars
  BY PartsStandAlone
<1> QED
  BY <1>1, PartsBegin, PTL
  DEF ServicesSpec, HttpSpec, WsSpec, ChatSpec, NsSpec, RwSpec, SseSpec, ExSpec

(* Every part keeps its types and bounds: attempts, windows, channels, the *)
(* pool, the roster, the order book.                                       *)
THEOREM ServicesTypeCorrect == ServicesSpec => []ServicesTypeOK
<1>1. /\ HttpTypeOK /\ OkMeansExecuted /\ RepeatsExplained /\ ErrorsHonest /\ BackoffGrows
      /\ WsTypeOK /\ InStep /\ NeverBothWait
      /\ ChatTypeOK /\ RosterExact /\ EchoesAreMessages
      /\ NsTypeOK /\ OrderedThenTrailers /\ CollectedPrefix /\ StuckOnlyWhenOverfull
      /\ RwTypeOK /\ ConstraintsHold /\ PoolWhole
      /\ SseTypeOK /\ NeverSilent
      /\ ExTypeOK /\ NumberedOnce /\ PricesAccounted /\ DroppedForGood /\ ToldIsTrue /\ StreamHasNoGap
      => ServicesTypeOK
  BY DEF ServicesTypeOK
<1> QED
  BY <1>1, WholeIsItsParts, HttpAnswersAreHonest, SessionsStayInStep, ChatIsExact,
     StreamsKeepOrder, TablesAndPoolAreWhole, PingsComeInTime, OrderBookIsWhole, PTL

(* The two ends of a session-typed socket stay at dual types and never     *)
(* both wait, for every protocol.                                          *)
THEOREM SessionsAreInStep == ServicesSpec => []SessionInStep
<1>1. WsTypeOK /\ InStep /\ NeverBothWait => SessionInStep
  BY DEF SessionInStep
<1> QED
  BY <1>1, WholeIsItsParts, SessionsStayInStep, PTL

(* What a caller is told is what happened: the results of the HTTP client, *)
(* the 201 of create_article, the acknowledgements of the order book and   *)
(* the echoes of the chat.                                                 *)
THEOREM AnswersAreHonest == ServicesSpec => []AnswersHonest
<1>1. /\ HttpTypeOK /\ OkMeansExecuted /\ RepeatsExplained /\ ErrorsHonest /\ BackoffGrows
      /\ WholeArticles
      /\ ExTypeOK /\ NumberedOnce /\ PricesAccounted /\ DroppedForGood /\ ToldIsTrue /\ StreamHasNoGap
      /\ ChatTypeOK /\ RosterExact /\ EchoesAreMessages
      => AnswersHonest
  BY DEF AnswersHonest
<1> QED
  BY <1>1, WholeIsItsParts, HttpAnswersAreHonest, CreatedArticlesAreWhole, OrderBookIsWhole,
     ChatIsExact, PTL

(* Streams deliver what was sent, in order, without a gap and never joined *)
(* or split: the streaming call, the events as a browser reads them, the   *)
(* prices of the order book; calls lock up only where no reader is left,   *)
(* and pings come in time.                                                 *)
THEOREM StreamsStayInOrder == ServicesSpec => []StreamsInOrder
<1>1. /\ NsTypeOK /\ OrderedThenTrailers /\ CollectedPrefix /\ StuckOnlyWhenOverfull
      /\ ClientSeesEvents /\ SseTypeOK /\ NeverSilent
      /\ ExTypeOK /\ NumberedOnce /\ PricesAccounted /\ DroppedForGood /\ ToldIsTrue /\ StreamHasNoGap
      => StreamsInOrder
  BY DEF StreamsInOrder
<1> QED
  BY <1>1, WholeIsItsParts, StreamsKeepOrder, EventsAreSeen, PingsComeInTime, OrderBookIsWhole, PTL

(* The state that concurrent handlers share stays whole: the roster of the *)
(* chat, the tables and the pool of RealWorld, the numbers, the prices and *)
(* the dropped requests of the order book.                                 *)
THEOREM SharedStateStaysWhole == ServicesSpec => []SharedStateWhole
<1>1. /\ ChatTypeOK /\ RosterExact /\ EchoesAreMessages
      /\ RwTypeOK /\ ConstraintsHold /\ PoolWhole
      /\ ExTypeOK /\ NumberedOnce /\ PricesAccounted /\ DroppedForGood /\ ToldIsTrue /\ StreamHasNoGap
      => SharedStateWhole
  BY DEF SharedStateWhole
<1> QED
  BY <1>1, WholeIsItsParts, ChatIsExact, TablesAndPoolAreWhole, OrderBookIsWhole, PTL

(* No step takes back what is another's, was acknowledged or taken on:     *)
(* articles and comments go by their owners' tokens, accepted orders stay  *)
(* found, what a streaming handler took on comes out or the call is cut.   *)
THEOREM NothingIsTakenBack == ServicesSpec => NothingTakenBack
BY WholeIsItsParts, OnlyOwnersChangeRows, NoMissAfterAck, CallIsAResponseStream, PTL DEF NothingTakenBack
=============================================================================
