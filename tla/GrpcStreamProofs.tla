-------------------------- MODULE GrpcStreamProofs --------------------------
(***************************************************************************)
(* Proofs about GrpcStream, for any set of tasks, items and statuses and   *)
(* any buffer: type correctness, NothingLost, OkMeansComplete,             *)
(* TrailersLast, and that the streaming response implements                *)
(* ResponseStream.                                                         *)
(***************************************************************************)
EXTENDS GrpcStream, TLAPS

(* A task that is gone is not sending: only a task that holds the sender   *)
(* adds to the channel.                                                    *)
GoneIsSilent == \A p \in Producers : p \notin alive => pending[p] = Nothing

(* `done` is set exactly when the trailers are yielded, and OK is only     *)
(* yielded for a channel that is closed and drained.                       *)
EndIsFinal ==
  /\ done <=> trailers # "none"
  /\ trailers = "ok" => alive = {} /\ Len(wire) = Len(sent)

(* The client has a stream only when the body is complete, and then has    *)
(* its data frames, none of which is empty.                                *)
ClientHasWire ==
  /\ client = "ok" =>
       /\ trailers # "none"
       /\ frames = wire
       /\ \A i \in 1..Len(wire) : wire[i] # Empty
  /\ client # "ok" => index = 0

Inv == TypeOK /\ NothingLost /\ GoneIsSilent /\ EndIsFinal /\ ClientHasWire

-----------------------------------------------------------------------------
LEMMA EmptyFacts ==
  ASSUME NEW S
  PROVE  << >> \in Seq(S) /\ Len(<< >>) = 0
  OBVIOUS

LEMMA AppendFacts ==
  ASSUME NEW S, NEW s \in Seq(S), NEW e \in S
  PROVE  /\ Append(s, e) \in Seq(S)
         /\ Len(Append(s, e)) = Len(s) + 1
         /\ \A i \in 1..Len(s) : Append(s, e)[i] = s[i]
         /\ Append(s, e)[Len(s) + 1] = e
  OBVIOUS

LEMMA TailFacts ==
  ASSUME NEW S, NEW s \in Seq(S), s # <<>>
  PROVE  /\ Tail(s) \in Seq(S)
         /\ Len(s) >= 1
         /\ Len(Tail(s)) = Len(s) - 1
         /\ \A i \in 1..Len(Tail(s)) : Tail(s)[i] = s[i + 1]
         /\ Head(s) = s[1]
         /\ Head(s) \in S
  OBVIOUS

(* A sequence none of whose elements is `e` is over the rest of the set.   *)
LEMMA Avoids ==
  ASSUME NEW S, NEW e, NEW s \in Seq(S \cup {e}),
         \A i \in 1..Len(s) : s[i] # e
  PROVE  s \in Seq(S)
  OBVIOUS

LEMMA SameSeq ==
  ASSUME NEW S, NEW T, NEW s \in Seq(S), NEW t \in Seq(T), Len(s) = Len(t),
         \A i \in 1..Len(s) : s[i] = t[i]
  PROVE  s = t
  OBVIOUS

LEMMA BufferIsPositive == 0 <= Buffer
  BY StreamAssumption

LEMMA EncodingType ==
  ASSUME NEW i \in Items
  PROVE  Encoding[i] \in Payloads
  BY DEF Encoding, Payloads

-----------------------------------------------------------------------------
LEMMA InitInv == Init => Inv
<1> SUFFICES ASSUME Init PROVE Inv
  OBVIOUS
<1>1. /\ queue = << >> /\ queue \in Seq(Messages) /\ Len(queue) = 0
      /\ wire \in Seq(Payloads) /\ Len(wire) = 0
      /\ sent \in Seq(Messages) /\ Len(sent) = 0
      /\ frames \in Seq(Items) /\ Len(frames) = 0
  BY EmptyFacts DEF Init
<1>2. TypeOK
  <2>1. Len(queue) <= Buffer
    BY <1>1, BufferIsPositive
  <2>2. alive \in SUBSET Producers /\ pending \in [Producers -> Messages \cup {Nothing}]
    BY DEF Init
  <2>3. index \in 0..Len(frames)
    BY <1>1 DEF Init
  <2>4. /\ rx_open \in BOOLEAN /\ done \in BOOLEAN
        /\ trailers \in Statuses \cup {"none", "ok"}
        /\ client \in {"waiting", "ok", "codec", "transport"}
        /\ collected \in Seq(Items) \cup {Nothing}
    BY DEF Init
  <2> QED BY <1>1, <2>1, <2>2, <2>3, <2>4 DEF TypeOK
<1>3. NothingLost
  BY <1>1, StreamAssumption DEF Init, NothingLost, Consumed, Messages
<1>4. GoneIsSilent /\ EndIsFinal /\ ClientHasWire
  BY DEF Init, GoneIsSilent, EndIsFinal, ClientHasWire
<1> QED BY <1>2, <1>3, <1>4 DEF Inv

(* The steps of the tasks.                                                 *)
LEMMA SendStep ==
  ASSUME Inv, NEW p \in Producers, NEW m \in Messages, Send(p, m)
  PROVE  Inv'
  BY StreamAssumption
  DEF Inv, TypeOK, NothingLost, GoneIsSilent, EndIsFinal, ClientHasWire,
      Consumed, Send, clientVars

LEMMA AcceptedStep ==
  ASSUME Inv, NEW p \in Producers, Accepted(p)
  PROVE  Inv'
<1> DEFINE m == pending[p]
<1>1. m \in Messages /\ sent \in Seq(Messages) /\ queue \in Seq(Messages)
  BY DEF Inv, TypeOK, Accepted
<1>2. /\ queue' = Append(queue, m)
      /\ sent' = Append(sent, m)
      /\ UNCHANGED <<alive, rx_open, done, wire, trailers>>
      /\ UNCHANGED <<client, frames, index, collected>>
      /\ rx_open
      /\ Len(queue) < Buffer
  BY DEF Accepted, clientVars
<1>3. pending' \in [Producers -> Messages \cup {Nothing}]
      /\ \A q \in Producers : pending'[q] = IF q = p THEN Nothing ELSE pending[q]
  BY DEF Inv, TypeOK, Accepted
<1>4. p \in alive
  BY StreamAssumption DEF Inv, GoneIsSilent, Accepted
<1> HIDE DEF m
<1>5. /\ queue' \in Seq(Messages)
      /\ Len(queue') = Len(queue) + 1
      /\ \A i \in 1..Len(queue) : queue'[i] = queue[i]
      /\ queue'[Len(queue) + 1] = m
  BY <1>1, <1>2, AppendFacts
<1>6. /\ sent' \in Seq(Messages)
      /\ Len(sent') = Len(sent) + 1
      /\ \A i \in 1..Len(sent) : sent'[i] = sent[i]
      /\ sent'[Len(sent) + 1] = m
  BY <1>1, <1>2, AppendFacts
<1>7. TypeOK'
  BY <1>2, <1>3, <1>5, <1>6, StreamAssumption DEF Inv, TypeOK
<1>8. NothingLost'
  <2>1. Consumed' = Consumed /\ Consumed \in Nat
    BY <1>2 DEF Consumed, Inv, TypeOK
  <2>2. /\ Len(sent) = Consumed + Len(queue)
        /\ \A i \in 1..Len(queue) : queue[i] = sent[Consumed + i]
    BY <1>2 DEF Inv, NothingLost
  <2>3. \A i \in 1..Len(wire) : i <= Len(sent') /\ sent'[i] \in Items /\ wire[i] = Encoding[sent'[i]]
    <3>1. SUFFICES ASSUME NEW i \in 1..Len(wire)
                   PROVE  i <= Len(sent') /\ sent'[i] \in Items /\ wire[i] = Encoding[sent'[i]]
      OBVIOUS
    <3>2. i <= Len(sent) /\ sent[i] \in Items /\ wire[i] = Encoding[sent[i]]
      BY DEF Inv, NothingLost
    <3>3. Len(sent) \in Nat /\ i \in 1..Len(sent)
      BY <1>1, <3>2 DEF Inv, TypeOK
    <3>4. sent'[i] = sent[i] /\ i <= Len(sent')
      BY <1>6, <3>3
    <3> QED BY <3>2, <3>4
  <2>4. trailers \in Statuses => Consumed <= Len(sent') /\ sent'[Consumed] = trailers
    BY <1>6, <1>1, <2>1 DEF Inv, NothingLost, TypeOK, Consumed
  <2>5. \A i \in 1..Len(queue') : queue'[i] = sent'[Consumed + i]
    <3>1. SUFFICES ASSUME NEW i \in 1..Len(queue')
                   PROVE  queue'[i] = sent'[Consumed + i]
      OBVIOUS
    <3>2. CASE i = Len(queue) + 1
      BY <3>2, <1>5, <1>6, <2>1, <2>2
    <3>3. CASE i # Len(queue) + 1
      BY <3>3, <1>1, <1>5, <1>6, <2>1, <2>2
    <3> QED BY <3>2, <3>3
  <2>6. Len(sent') = Consumed + Len(queue')
    BY <1>1, <1>5, <1>6, <2>1, <2>2
  <2> QED BY <1>2, <2>1, <2>3, <2>4, <2>5, <2>6 DEF NothingLost
<1>9. GoneIsSilent' /\ EndIsFinal'
  BY <1>2, <1>3, <1>4 DEF Inv, GoneIsSilent, EndIsFinal
<1>10. ClientHasWire'
  BY <1>2 DEF Inv, ClientHasWire
<1> QED BY <1>7, <1>8, <1>9, <1>10 DEF Inv

LEMMA LeaveStep ==
  ASSUME Inv, NEW p \in Producers, Refused(p) \/ Leave(p)
  PROVE  Inv'
<1>1. /\ UNCHANGED <<queue, rx_open, done, wire, trailers, sent>>
      /\ UNCHANGED <<client, frames, index, collected>>
      /\ alive' = alive \/ alive' = alive \ {p}
      /\ pending' = [pending EXCEPT ![p] = Nothing]
  BY DEF Refused, Leave, clientVars
<1>2. /\ pending' \in [Producers -> Messages \cup {Nothing}]
      /\ \A q \in Producers : pending'[q] = IF q = p THEN Nothing ELSE pending[q]
  BY <1>1 DEF Inv, TypeOK
<1>3. TypeOK'
  BY <1>1, <1>2 DEF Inv, TypeOK
<1>4. NothingLost'
  BY <1>1 DEF Inv, NothingLost, Consumed
<1>5. GoneIsSilent'
  BY <1>1, <1>2 DEF Inv, GoneIsSilent
<1>6. EndIsFinal' /\ ClientHasWire'
  BY <1>1 DEF Inv, EndIsFinal, ClientHasWire
<1> QED BY <1>3, <1>4, <1>5, <1>6 DEF Inv

-----------------------------------------------------------------------------
(* What the invariant says of the first message of the channel.            *)
LEMMA HeadOfQueue ==
  ASSUME Inv, rx_open, ~done, queue # <<>>
  PROVE  /\ Consumed = Len(wire)
         /\ Len(wire) < Len(sent)
         /\ Head(queue) = sent[Len(wire) + 1]
         /\ trailers = "none"
<1>1. trailers = "none"
  BY DEF Inv, EndIsFinal
<1>2. Consumed = Len(wire) /\ Len(wire) \in Nat
  BY <1>1, StreamAssumption DEF Consumed, Inv, TypeOK, Messages
<1>3. /\ Len(sent) = Consumed + Len(queue)
      /\ \A i \in 1..Len(queue) : queue[i] = sent[Consumed + i]
  BY DEF Inv, NothingLost
<1>4. Len(queue) \in Nat /\ Len(queue) >= 1 /\ Head(queue) = queue[1]
  BY TailFacts DEF Inv, TypeOK
<1> QED BY <1>1, <1>2, <1>3, <1>4

LEMMA PollItemStep ==
  ASSUME Inv, PollItem
  PROVE  Inv'
<1> DEFINE x == Head(queue)
           y == Encoding[x]
<1>1. /\ rx_open /\ ~done /\ queue # <<>>
      /\ x \in Items
      /\ queue' = Tail(queue)
      /\ wire' = Append(wire, y)
      /\ UNCHANGED <<alive, pending, rx_open, done, trailers, sent>>
      /\ UNCHANGED <<client, frames, index, collected>>
  BY DEF PollItem, clientVars
<1>2. /\ Consumed = Len(wire)
      /\ Len(wire) < Len(sent)
      /\ x = sent[Len(wire) + 1]
      /\ trailers = "none"
  BY <1>1, HeadOfQueue
<1>3. y \in Payloads
  BY <1>1, EncodingType
<1>4. sent \in Seq(Messages) /\ queue \in Seq(Messages) /\ wire \in Seq(Payloads)
  BY DEF Inv, TypeOK
<1>5. y = Encoding[sent[Len(wire) + 1]] /\ sent[Len(wire) + 1] \in Items
  BY <1>1, <1>2
<1> HIDE DEF x, y
<1>6. /\ wire' \in Seq(Payloads)
      /\ Len(wire') = Len(wire) + 1
      /\ \A i \in 1..Len(wire) : wire'[i] = wire[i]
      /\ wire'[Len(wire) + 1] = y
  BY <1>1, <1>3, <1>4, AppendFacts
<1>7. /\ queue' \in Seq(Messages)
      /\ Len(queue) >= 1
      /\ Len(queue') = Len(queue) - 1
      /\ \A i \in 1..Len(queue') : queue'[i] = queue[i + 1]
  BY <1>1, <1>4, TailFacts
<1>8. TypeOK'
  BY <1>1, <1>6, <1>7, <1>4, StreamAssumption DEF Inv, TypeOK
<1>9. NothingLost'
  <2>1. Consumed' = Len(wire')
    BY <1>1, <1>2, StreamAssumption DEF Consumed, Messages
  <2>2. /\ Len(sent) = Len(wire) + Len(queue)
        /\ \A i \in 1..Len(queue) : queue[i] = sent[Len(wire) + i]
    BY <1>1, <1>2 DEF Inv, NothingLost
  <2>3. ASSUME NEW i \in 1..Len(wire')
        PROVE  i <= Len(sent) /\ sent[i] \in Items /\ wire'[i] = Encoding[sent[i]]
    <3>1. CASE i = Len(wire) + 1
      BY <3>1, <1>2, <1>4, <1>5, <1>6
    <3>2. CASE i # Len(wire) + 1
      <4>1. i \in 1..Len(wire) /\ wire'[i] = wire[i]
        BY <3>2, <1>4, <1>6
      <4> QED BY <4>1 DEF Inv, NothingLost
    <3> QED BY <3>1, <3>2
  <2>4. Len(sent) = Len(wire') + Len(queue')
    BY <2>2, <1>4, <1>6, <1>7
  <2>5. ASSUME NEW i \in 1..Len(queue')
        PROVE  queue'[i] = sent[Len(wire') + i]
    BY <2>2, <1>4, <1>6, <1>7
  <2>6. trailers' \notin Statuses /\ sent' = sent /\ rx_open' = rx_open
    BY <1>1, <1>2, StreamAssumption DEF Messages
  <2> QED BY <2>1, <2>3, <2>4, <2>5, <2>6 DEF NothingLost
<1>10. GoneIsSilent' /\ EndIsFinal' /\ ClientHasWire'
  BY <1>1, <1>2 DEF Inv, GoneIsSilent, EndIsFinal, ClientHasWire
<1> QED BY <1>8, <1>9, <1>10 DEF Inv

LEMMA PollErrorStep ==
  ASSUME Inv, PollError
  PROVE  Inv'
<1>1. /\ rx_open /\ ~done /\ queue # <<>>
      /\ Head(queue) \in Statuses
      /\ queue' = Tail(queue)
      /\ done' = TRUE
      /\ trailers' = Head(queue)
      /\ UNCHANGED <<alive, pending, rx_open, wire, sent>>
      /\ UNCHANGED <<client, frames, index, collected>>
  BY DEF PollError, clientVars
<1>2. /\ Consumed = Len(wire)
      /\ Len(wire) < Len(sent)
      /\ Head(queue) = sent[Len(wire) + 1]
      /\ trailers = "none"
  BY <1>1, HeadOfQueue
<1>3. sent \in Seq(Messages) /\ queue \in Seq(Messages) /\ wire \in Seq(Payloads)
  BY DEF Inv, TypeOK
<1>4. /\ queue' \in Seq(Messages)
      /\ Len(queue) >= 1
      /\ Len(queue') = Len(queue) - 1
      /\ \A i \in 1..Len(queue') : queue'[i] = queue[i + 1]
  BY <1>1, <1>3, TailFacts
<1>5. trailers' \in Statuses /\ trailers' # "none" /\ trailers' # "ok"
  BY <1>1, StreamAssumption DEF Messages
<1>6. TypeOK'
  BY <1>1, <1>3, <1>4, <1>5, StreamAssumption DEF Inv, TypeOK
<1>7. NothingLost'
  <2>1. Consumed' = Len(wire) + 1
    BY <1>1, <1>5 DEF Consumed
  <2>2. /\ Len(sent) = Len(wire) + Len(queue)
        /\ \A i \in 1..Len(queue) : queue[i] = sent[Len(wire) + i]
    BY <1>1, <1>2 DEF Inv, NothingLost
  <2>3. \A i \in 1..Len(wire) : i <= Len(sent) /\ sent[i] \in Items /\ wire[i] = Encoding[sent[i]]
    BY DEF Inv, NothingLost
  <2>4. Len(wire) + 1 <= Len(sent) /\ sent[Len(wire) + 1] = trailers'
    BY <1>1, <1>2, <1>3
  <2>5. Len(sent) = (Len(wire) + 1) + Len(queue')
    BY <2>2, <1>3, <1>4
  <2>6. ASSUME NEW i \in 1..Len(queue')
        PROVE  queue'[i] = sent[(Len(wire) + 1) + i]
    BY <2>2, <1>3, <1>4
  <2> QED BY <1>1, <2>1, <2>3, <2>4, <2>5, <2>6 DEF NothingLost
<1>8. GoneIsSilent' /\ EndIsFinal' /\ ClientHasWire'
  BY <1>1, <1>2, <1>5 DEF Inv, GoneIsSilent, EndIsFinal, ClientHasWire
<1> QED BY <1>6, <1>7, <1>8 DEF Inv

LEMMA PollClosedStep ==
  ASSUME Inv, PollClosed
  PROVE  Inv'
<1>1. /\ rx_open /\ ~done /\ queue = <<>> /\ alive = {}
      /\ done' = TRUE
      /\ trailers' = "ok"
      /\ UNCHANGED <<alive, pending, queue, rx_open, wire, sent>>
      /\ UNCHANGED <<client, frames, index, collected>>
  BY DEF PollClosed, clientVars
<1>2. trailers = "none" /\ "ok" \notin Statuses /\ "none" \notin Statuses
  BY <1>1, StreamAssumption DEF Inv, EndIsFinal, Messages
<1>3. Consumed = Len(wire) /\ Consumed' = Len(wire) /\ Len(wire) \in Nat /\ Len(queue) = 0
  BY <1>1, <1>2 DEF Consumed, Inv, TypeOK
<1>4. Len(wire) = Len(sent)
  BY <1>1, <1>3 DEF Inv, NothingLost
<1>5. TypeOK'
  BY <1>1 DEF Inv, TypeOK
<1>6. NothingLost'
  BY <1>1, <1>2, <1>3 DEF Inv, NothingLost
<1>7. GoneIsSilent' /\ EndIsFinal' /\ ClientHasWire'
  BY <1>1, <1>2, <1>4 DEF Inv, GoneIsSilent, EndIsFinal, ClientHasWire
<1> QED BY <1>5, <1>6, <1>7 DEF Inv

LEMMA DropBodyStep ==
  ASSUME Inv, DropBody
  PROVE  Inv'
<1>1. /\ rx_open' = FALSE
      /\ queue' = <<>>
      /\ UNCHANGED <<alive, pending, done, wire, trailers, sent>>
      /\ UNCHANGED <<client, frames, index, collected>>
  BY DEF DropBody, clientVars
<1>2. TypeOK'
  <2>1. queue' \in Seq(Messages) /\ Len(queue') = 0
    BY <1>1, EmptyFacts
  <2>2. Len(queue') <= Buffer
    BY <2>1, BufferIsPositive
  <2> QED BY <1>1, <2>1, <2>2 DEF Inv, TypeOK
<1>3. NothingLost'
  BY <1>1 DEF Inv, NothingLost, Consumed
<1>4. GoneIsSilent' /\ EndIsFinal' /\ ClientHasWire'
  BY <1>1 DEF Inv, GoneIsSilent, EndIsFinal, ClientHasWire
<1> QED BY <1>2, <1>3, <1>4 DEF Inv

-----------------------------------------------------------------------------
(* The steps of the client leave the server's state alone.                 *)
LEMMA ClientStep ==
  ASSUME Inv, Break \/ Receive \/ Recv \/ Collect
  PROVE  Inv'
<1>1. UNCHANGED <<alive, pending, queue, rx_open, done, wire, trailers, sent>>
  BY DEF Break, Receive, Recv, Collect, serverVars
<1>2. NothingLost' /\ GoneIsSilent' /\ EndIsFinal'
  BY <1>1 DEF Inv, NothingLost, GoneIsSilent, EndIsFinal, Consumed
<1>3. CASE Break
  BY <1>1, <1>2, <1>3 DEF Inv, TypeOK, ClientHasWire, Break
<1>4. CASE Receive
  <2>1. /\ client = "waiting" /\ trailers # "none"
        /\ index' = index /\ collected' = collected
    BY <1>4 DEF Receive
  <2>2. CASE client' = "codec" /\ frames' = frames
    BY <1>1, <1>2, <2>1, <2>2 DEF Inv, TypeOK, ClientHasWire
  <2>3. CASE /\ client' = "ok" /\ frames' = wire
             /\ \A i \in 1..Len(wire) : wire[i] # Empty
    <3>1. wire \in Seq(Items)
      BY <2>3, Avoids DEF Inv, TypeOK, Payloads
    <3>2. index = 0 /\ Len(wire) \in Nat
      BY <2>1 DEF Inv, TypeOK, ClientHasWire
    <3> QED BY <1>1, <1>2, <2>1, <2>3, <3>1, <3>2 DEF Inv, TypeOK, ClientHasWire
  <2> QED BY <1>4, <2>2, <2>3 DEF Receive
<1>5. CASE Recv
  BY <1>1, <1>2, <1>5 DEF Inv, TypeOK, ClientHasWire, Recv
<1>6. CASE Collect
  BY <1>1, <1>2, <1>6 DEF Inv, TypeOK, ClientHasWire, Collect
<1> QED BY <1>3, <1>4, <1>5, <1>6

LEMMA InvStep == Inv /\ [Next]_vars => Inv'
<1> SUFFICES ASSUME Inv, [Next]_vars PROVE Inv'
  OBVIOUS
<1>1. ASSUME NEW p \in Producers, NEW m \in Messages, Send(p, m) PROVE Inv'
  BY <1>1, SendStep
<1>2. ASSUME NEW p \in Producers, Accepted(p) PROVE Inv'
  BY <1>2, AcceptedStep
<1>3. ASSUME NEW p \in Producers, Refused(p) \/ Leave(p) PROVE Inv'
  BY <1>3, LeaveStep
<1>4. CASE PollItem
  BY <1>4, PollItemStep
<1>5. CASE PollError
  BY <1>5, PollErrorStep
<1>6. CASE PollClosed
  BY <1>6, PollClosedStep
<1>7. CASE EndBody \/ Reset
  BY <1>7, DropBodyStep DEF EndBody, Reset
<1>8. CASE Break \/ Receive \/ Recv \/ Collect
  BY <1>8, ClientStep
<1>9. CASE UNCHANGED vars
  BY <1>9
  DEF vars, serverVars, clientVars, Inv, TypeOK, NothingLost, GoneIsSilent,
      EndIsFinal, ClientHasWire, Consumed
<1> QED BY <1>1, <1>2, <1>3, <1>4, <1>5, <1>6, <1>7, <1>8, <1>9 DEF Next

LEMMA Invariance == Spec => []Inv
  BY InitInv, InvStep, PTL DEF Spec

-----------------------------------------------------------------------------
(* Type correctness; in particular the channel never holds more than       *)
(* `buffer` messages, however many tasks share the sender.                 *)
THEOREM StreamTypeCorrect == Spec => []TypeOK
<1>1. Inv => TypeOK
  BY DEF Inv
<1> QED BY Invariance, <1>1, PTL

(* No message is lost, duplicated or reordered between a send that         *)
(* returned Ok and the wire, for any number of tasks and any buffer.       *)
THEOREM StreamLosesNothing == Spec => []NothingLost
<1>1. Inv => NothingLost
  BY DEF Inv
<1> QED BY Invariance, <1>1, PTL

(* An OK status means that every message sent is on the wire, and a client *)
(* that got the stream then has them all.                                  *)
THEOREM OkIsComplete == Spec => []OkMeansComplete
<1>1. ASSUME Inv PROVE OkMeansComplete
  <2> SUFFICES ASSUME trailers = "ok"
               PROVE  alive = {} /\ Len(wire) = Len(sent) /\ (client = "ok" => frames = sent)
    BY DEF OkMeansComplete
  <2>1. alive = {} /\ Len(wire) = Len(sent)
    BY <1>1 DEF Inv, EndIsFinal
  <2>2. ASSUME client = "ok" PROVE wire = sent
    <3>1. wire \in Seq(Payloads) /\ sent \in Seq(Messages)
      BY <1>1 DEF Inv, TypeOK
    <3>2. ASSUME NEW i \in 1..Len(wire) PROVE wire[i] = sent[i]
      <4>1. sent[i] \in Items /\ wire[i] = Encoding[sent[i]] /\ wire[i] # Empty
        BY <1>1, <2>2 DEF Inv, NothingLost, ClientHasWire
      <4> QED BY <4>1 DEF Encoding
    <3> QED BY <2>1, <3>1, <3>2, SameSeq
  <2>3. client = "ok" => frames = wire
    BY <1>1 DEF Inv, ClientHasWire
  <2> QED BY <2>1, <2>2, <2>3
<1> QED BY Invariance, <1>1, PTL

(* The body yields nothing after its trailers.                             *)
THEOREM NothingAfterTrailers == Spec => TrailersLast
<1>1. ASSUME Inv, [Next]_vars
      PROVE  [trailers # "none" => UNCHANGED <<wire, trailers>>]_vars
  <2>1. SUFFICES ASSUME trailers # "none" PROVE UNCHANGED <<wire, trailers>>
    OBVIOUS
  <2>2. done
    BY <1>1, <2>1 DEF Inv, EndIsFinal
  <2> QED
    BY <1>1, <2>2
    DEF Next, Send, Accepted, Refused, Leave, PollItem, PollError, PollClosed,
        EndBody, Reset, DropBody, Break, Receive, Recv, Collect, vars, serverVars
<1> QED BY Invariance, <1>1, PTL DEF Spec, TrailersLast

-----------------------------------------------------------------------------
(* The refinement: every step of the response is a step of the promise or  *)
(* leaves it alone.                                                        *)
LEMMA InitMaps == Init => Promise!Init
  BY StreamAssumption DEF Init, Promise!Init

LEMMA StepMaps ==
  ASSUME Inv, [Next]_vars
  PROVE  [Promise!Next]_(Promise!vars)
<1> USE DEF Promise!vars
<1>1. ASSUME NEW p \in Producers, NEW m \in Messages, Send(p, m)
      PROVE  UNCHANGED Promise!vars
  BY <1>1 DEF Send
<1>2. ASSUME NEW p \in Producers, Accepted(p)
      PROVE  \E m \in Messages : Promise!Accept(m)
  <2>1. p \in alive /\ pending[p] \in Messages
    BY <1>2 DEF Inv, GoneIsSilent, TypeOK, Accepted
  <2>2. Promise!Accept(pending[p])
    BY <1>2, <2>1 DEF Accepted, Promise!Accept
  <2> QED BY <2>1, <2>2
<1>3. ASSUME NEW p \in Producers, Refused(p)
      PROVE  UNCHANGED Promise!vars
  BY <1>3 DEF Refused
<1>4. ASSUME NEW p \in Producers, Leave(p)
      PROVE  Promise!Close \/ UNCHANGED Promise!vars
  BY <1>4 DEF Leave, Promise!Close
<1>5. CASE PollItem
  <2>1. rx_open /\ ~done /\ queue # <<>> /\ Head(queue) \in Items
    BY <1>5 DEF PollItem
  <2>2. /\ Len(wire) < Len(sent)
        /\ Head(queue) = sent[Len(wire) + 1]
        /\ trailers = "none"
    BY <2>1, HeadOfQueue
  <2>3. Promise!Deliver
    BY <1>5, <2>1, <2>2 DEF PollItem, Promise!Deliver, Promise!Waiting, Promise!NextMessage
  <2> QED BY <2>3 DEF Promise!Next
<1>6. CASE PollError
  <2>1. rx_open /\ ~done /\ queue # <<>> /\ Head(queue) \in Statuses
    BY <1>6 DEF PollError
  <2>2. /\ Len(wire) < Len(sent)
        /\ Head(queue) = sent[Len(wire) + 1]
        /\ trailers = "none"
    BY <2>1, HeadOfQueue
  <2>3. trailers' = Head(queue) /\ trailers' # "none"
    BY <1>6, <2>1, StreamAssumption DEF PollError, Messages
  <2>4. Promise!Fail
    BY <1>6, <2>1, <2>2, <2>3 DEF PollError, Promise!Fail, Promise!Waiting, Promise!NextMessage
  <2> QED BY <2>4 DEF Promise!Next
<1>7. CASE PollClosed
  <2>1. rx_open /\ ~done /\ queue = <<>> /\ alive = {}
    BY <1>7 DEF PollClosed
  <2>2. trailers = "none"
    BY <2>1 DEF Inv, EndIsFinal
  <2>3. Len(wire) = Len(sent) /\ Len(wire) \in Nat
    <3>1. Inv'
      BY <1>7, PollClosedStep
    <3> QED BY <1>7, <3>1 DEF Inv, EndIsFinal, PollClosed, TypeOK
  <2>4. Promise!Finish
    BY <1>7, <2>1, <2>2, <2>3 DEF PollClosed, Promise!Finish, Promise!Waiting
  <2> QED BY <2>4 DEF Promise!Next
<1>8. CASE EndBody
  <2>1. trailers # "none"
    BY <1>8 DEF EndBody, Inv, EndIsFinal
  <2> QED BY <1>8, <2>1 DEF EndBody, DropBody
<1>9. CASE Reset
  <2>1. CASE trailers = "none"
    <3>1. Promise!Cut
      BY <1>9, <2>1 DEF Reset, DropBody, Promise!Cut
    <3> QED BY <3>1 DEF Promise!Next
  <2>2. CASE trailers # "none"
    BY <1>9, <2>2 DEF Reset, DropBody
  <2> QED BY <2>1, <2>2
<1>10. CASE Break \/ Receive \/ Recv \/ Collect
  BY <1>10 DEF Break, Receive, Recv, Collect, serverVars
<1>11. CASE UNCHANGED vars
  BY <1>11 DEF vars, serverVars
<1> HIDE DEF Promise!vars
<1> QED
  BY <1>1, <1>2, <1>3, <1>4, <1>5, <1>6, <1>7, <1>8, <1>9, <1>10, <1>11
  DEF Next, Promise!Next, Messages

(* The streaming response implements ResponseStream: what the handler's    *)
(* tasks handed over is delivered once, in order, and the stream ends with *)
(* the first error or, after the last message, with OK.                    *)
THEOREM StreamKeepsPromise == Spec => KeepsPromise
  BY InitMaps, StepMaps, Invariance, PTL DEF Spec, KeepsPromise, Promise!Spec
=============================================================================
