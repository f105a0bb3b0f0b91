----------------------------- MODULE AppsProofs -----------------------------
(***************************************************************************)
(* Proofs about the example applications: Chat, Exchange and RealWorld,    *)
(* for every set of connections, clients, workers and names.               *)
(***************************************************************************)
EXTENDS Chat, Exchange, RealWorld, FiniteSetTheorems, SequenceTheorems, TLAPS

-----------------------------------------------------------------------------
(* Chat.  A handler past its authentication has a name, and a name never   *)
(* changes; so a handler that leaves takes off the name it put on.         *)
ChatInv ==
  /\ \A c \in Sockets : task[c] \notin {"auth", "gone"} => username[c] \in Nicknames
  /\ \A c \in Sockets : task[c] = "auth" => username[c] = Nobody
  /\ users \subseteq Names(Registered)
  /\ (\A c, d \in Sockets : username[c] = username[d] => c = d \/ username[c] = Nobody)
       => Names(Registered) \subseteq users

LEMMA ChatTypeStep == ChatTypeOK /\ ChatInv /\ [ChatNext]_chatVars => ChatTypeOK'
<1> SUFFICES ASSUME ChatTypeOK, ChatInv, [ChatNext]_chatVars PROVE ChatTypeOK'
  OBVIOUS
<1> USE ChatAssumption DEF ChatTypeOK, Move
<1>1. ASSUME NEW c \in Sockets, NEW n \in Nicknames, Authenticate(c, n) PROVE ChatTypeOK'
  BY <1>1 DEF Authenticate
<1>2. ASSUME NEW c \in Sockets, NoAuth(c) \/ WelcomeFails(c) \/ Undo(c) PROVE ChatTypeOK'
  BY <1>2 DEF NoAuth, WelcomeFails, Undo
<1>3. ASSUME NEW c \in Sockets, Register(c) PROVE ChatTypeOK'
  BY <1>3 DEF Register, ChatInv
<1>4. ASSUME NEW c \in Sockets, Welcome(c) \/ Reply(c) \/ Disconnect(c) \/ Cleanup(c) PROVE ChatTypeOK'
  BY <1>4 DEF Welcome, Reply, Disconnect, Cleanup
<1>5. ASSUME NEW c \in Sockets, Receive(c) PROVE ChatTypeOK'
  BY <1>5 DEF Receive
<1>6. CASE UNCHANGED chatVars
  BY <1>6 DEF chatVars
<1> QED
  BY <1>1, <1>2, <1>3, <1>4, <1>5, <1>6 DEF ChatNext

LEMMA ChatInvStep == ChatTypeOK /\ ChatInv /\ [ChatNext]_chatVars => ChatInv'
<1> SUFFICES ASSUME ChatTypeOK, ChatInv, [ChatNext]_chatVars PROVE ChatInv'
  OBVIOUS
<1> USE ChatAssumption DEF ChatTypeOK, ChatInv, Move, Names, Registered
<1>1. ASSUME NEW c \in Sockets, NEW n \in Nicknames, Authenticate(c, n) PROVE ChatInv'
  BY <1>1 DEF Authenticate
<1>2. ASSUME NEW c \in Sockets, NoAuth(c) \/ WelcomeFails(c) PROVE ChatInv'
  BY <1>2 DEF NoAuth, WelcomeFails
<1>3. ASSUME NEW c \in Sockets, Register(c) PROVE ChatInv'
  BY <1>3 DEF Register
<1>4. ASSUME NEW c \in Sockets, Welcome(c) \/ Receive(c) \/ Reply(c) \/ Disconnect(c) PROVE ChatInv'
  BY <1>4 DEF Welcome, Receive, Reply, Disconnect
<1>5. ASSUME NEW c \in Sockets, Undo(c) \/ Cleanup(c) PROVE ChatInv'
  BY <1>5 DEF Undo, Cleanup
<1>6. CASE UNCHANGED chatVars
  BY <1>6 DEF chatVars
<1> QED
  BY <1>1, <1>2, <1>3, <1>4, <1>5, <1>6 DEF ChatNext

(* One connection comes to owe an answer, or no longer does.               *)
Replying == {c \in Sockets : task[c] = "reply"}

LEMMA EchoStep ==
  ASSUME ChatTypeOK, EchoesAreMessages, [ChatNext]_chatVars
  PROVE  EchoesAreMessages'
<1> USE ChatAssumption DEF ChatTypeOK, Move, Replying
<1>f. IsFiniteSet(Replying) /\ Cardinality(Replying) \in Nat
  BY FS_Subset, FS_CardinalityType
<1>e. echoed + Cardinality(Replying) <= message_count /\ message_count <= published
  BY DEF EchoesAreMessages
<1>g. SUFFICES echoed' + Cardinality(Replying') <= message_count' /\ message_count' <= published'
  BY DEF EchoesAreMessages
<1>1. ASSUME NEW c \in Sockets, Receive(c) PROVE <1>g!1
  <2>1. Replying' = Replying \cup {c} /\ c \notin Replying
    BY <1>1 DEF Receive
  <2>2. Cardinality(Replying') = Cardinality(Replying) + 1
    BY <1>f, <2>1, FS_AddElement
  <2> QED
    BY <1>1, <1>e, <1>f, <2>2 DEF Receive
<1>2. ASSUME NEW c \in Sockets, Reply(c) PROVE <1>g!1
  <2>1. Replying' = Replying \ {c} /\ c \in Replying
    BY <1>2 DEF Reply
  <2>2. Cardinality(Replying') = Cardinality(Replying) - 1
    BY ONLY <1>f, <2>1, FS_RemoveElement
  <2> QED
    BY <1>2, <1>e, <1>f, <2>2 DEF Reply
<1>3. ASSUME NEW c \in Sockets, Disconnect(c) PROVE <1>g!1
  <2>1. Replying' = Replying \ {c}
    BY <1>3 DEF Disconnect
  <2>2. Cardinality(Replying') <= Cardinality(Replying) /\ Cardinality(Replying') \in Nat
    <3>1. Replying' \in SUBSET Replying
      BY <2>1
    <3>2. IsFiniteSet(Replying') /\ Cardinality(Replying') <= Cardinality(Replying)
      BY ONLY <1>f, <3>1, FS_Subset
    <3> QED
      BY ONLY <3>2, FS_CardinalityType
  <2> QED
    BY <1>3, <1>e, <1>f, <2>2 DEF Disconnect
<1>4. ASSUME \/ UNCHANGED chatVars
             \/ \E c \in Sockets :
                  \/ \E n \in Nicknames : Authenticate(c, n)
                  \/ NoAuth(c) \/ Register(c) \/ Welcome(c) \/ WelcomeFails(c) \/ Undo(c) \/ Cleanup(c)
      PROVE  <1>g!1
  <2>1. Replying' = Replying
    BY <1>4 DEF chatVars, Authenticate, NoAuth, Register, Welcome, WelcomeFails, Undo, Cleanup
  <2>2. echoed' = echoed /\ message_count' = message_count /\ published' \in {published, published + 1}
    BY <1>4 DEF chatVars, Authenticate, NoAuth, Register, Welcome, WelcomeFails, Undo, Cleanup
  <2>3. Cardinality(Replying') = Cardinality(Replying)
    BY <2>1
  <2> HIDE DEF Replying
  <2> QED
    BY <1>e, <1>f, <2>2, <2>3
<1> QED
  BY <1>1, <1>2, <1>3, <1>4 DEF ChatNext

(* What holds of the chat from its start and across its steps.             *)
ChatSafe == ChatTypeOK /\ ChatInv /\ EchoesAreMessages

LEMMA ChatStart == ChatInit => ChatSafe
<1> SUFFICES ASSUME ChatInit PROVE ChatSafe
  OBVIOUS
<1> USE ChatAssumption
<1>1. ChatTypeOK /\ ChatInv
  BY DEF ChatInit, ChatTypeOK, ChatInv, Names, Registered
<1>2. {c \in Sockets : task[c] = "reply"} = {}
  BY DEF ChatInit
<1>3. EchoesAreMessages
  BY <1>2, FS_EmptySet DEF ChatInit, EchoesAreMessages
<1> QED
  BY <1>1, <1>3 DEF ChatSafe

LEMMA ChatStep == ChatSafe /\ [ChatNext]_chatVars => ChatSafe'
  BY ChatTypeStep, ChatInvStep, EchoStep DEF ChatSafe

LEMMA ChatIsSafe == ChatSafe => RosterExact
  BY DEF ChatSafe, ChatInv, RosterExact

(* A name on the roster belongs to a connection whose handler will take it *)
(* off, the roster is complete as long as nobody shares a name, and every  *)
(* message is counted and answered at most once, however the handlers of   *)
(* the connections interleave (handle_chat).                               *)
THEOREM ChatIsExact == ChatSpec => [](ChatTypeOK /\ RosterExact /\ EchoesAreMessages)
<1>1. ChatSafe => ChatTypeOK /\ RosterExact /\ EchoesAreMessages
  BY ChatIsSafe DEF ChatSafe
<1> QED
  BY <1>1, ChatStart, ChatStep, PTL DEF ChatSpec

-----------------------------------------------------------------------------
(* The order book.  Numbers in use are below the counter; a call that has  *)
(* a number is on its way to publish its price or, with the price out, to  *)
(* store the order, and nobody else has done either for it.                *)
Priced(id) == \E j \in 1..Len(prices) : prices[j] = id
Stored(id) == \E k \in 1..Len(orders) : orders[k].id = id

Numbering ==
  /\ \A k \in 1..Len(orders) : orders[k].id < nextId
  /\ \A j \in 1..Len(prices) : prices[j] < nextId
  /\ \A c \in Clients :
       /\ call[c].id < nextId
       /\ call[c].at \in {"publish", "store"} <=> call[c].id # 0
       /\ call[c].at = "publish" => ~Priced(call[c].id)
       /\ call[c].at = "store" => Priced(call[c].id) /\ ~Stored(call[c].id)

(* The cursor of a stream is where its subscription began plus what it has *)
(* received.                                                               *)
Cursors ==
  \A c \in Clients : call[c].at = "stream" =>
    /\ call[c].next = call[c].from + Len(call[c].got) + 1
    /\ call[c].from + Len(call[c].got) <= Len(prices)
    /\ \A i \in 1..Len(call[c].got) : call[c].got[i] = prices[call[c].from + i]

ExSafe == ExTypeOK /\ Numbering /\ NumberedOnce /\ PricesAccounted /\ DroppedForGood /\ ToldIsTrue /\ Cursors

(* DroppedForGood in terms of Priced and Stored.                           *)
LEMMA DroppedFacts ==
  DroppedForGood <=>
    \A id \in dropped : /\ Priced(id) /\ ~Stored(id) /\ \A c \in Clients : call[c].id # id
                        /\ told[id] \subseteq {"not_found"}
BY DEF DroppedForGood, Priced, Stored

LEMMA DroppedFactsNext ==
  DroppedForGood' <=>
    \A id \in dropped' : /\ Priced(id)' /\ ~Stored(id)' /\ \A c \in Clients : call'[c].id # id
                         /\ told'[id] \subseteq {"not_found"}
BY DEF DroppedForGood, Priced, Stored

LEMMA IdleCallType == IdleCall \in CallType
  BY ExchangeAssumption DEF IdleCall, CallType, OrderIds

(* Replacing one call's record by another.                                 *)
LEMMA CallReplaced ==
  ASSUME NEW c \in Clients, NEW q \in CallType, Len(q.got) <= Batch,
         call \in [Clients -> CallType], call' = [call EXCEPT ![c] = q],
         \A d \in Clients : Len(call[d].got) <= Batch
  PROVE  /\ call' \in [Clients -> CallType]
         /\ call'[c] = q /\ \A d \in Clients \ {c} : call'[d] = call[d]
         /\ \A d \in Clients : Len(call'[d].got) <= Batch
OBVIOUS

LEMMA OrderNumber ==
  ASSUME orders \in Seq(OrderType)
  PROVE  \A k \in 1..Len(orders) : orders[k].id \in Nat \ {0}
<1>1. \A k \in 1..Len(orders) : orders[k] \in OrderType
  OBVIOUS
<1> QED
  BY <1>1, ExchangeAssumption DEF OrderType, OrderIds

(* submit_order, up to its number.                                         *)
LEMMA ExNumber ==
  ASSUME ExSafe, NEW c \in Clients, next_order_id(c)
  PROVE  ExSafe'
<1> USE ExchangeAssumption DEF OrderIds
<1> DEFINE q == [IdleCall EXCEPT !.at = "publish", !.id = nextId]
<1>1. /\ nextId \in OrderIds /\ nextId' = nextId + 1 /\ call[c].at = "idle"
      /\ call' = [call EXCEPT ![c] = q] /\ UNCHANGED <<orders, prices, dropped, told>>
  BY DEF ExSafe, ExTypeOK, next_order_id
<1>2. /\ q \in CallType /\ q.at = "publish" /\ q.id = nextId /\ q.got = <<>>
  <2>1. IdleCall \in CallType /\ IdleCall.got = <<>>
    BY IdleCallType DEF IdleCall
  <2>2. nextId \in 0..MaxOrders
    BY <1>1
  <2> QED
    BY <2>1, <2>2 DEF CallType
<1> HIDE DEF q
<1>3. /\ call' \in [Clients -> CallType]
      /\ call'[c] = q /\ \A d \in Clients \ {c} : call'[d] = call[d]
      /\ \A d \in Clients : Len(call'[d].got) <= Batch
  BY <1>1, <1>2, CallReplaced DEF ExSafe, ExTypeOK
<1>4. ExTypeOK'
  BY <1>1, <1>3 DEF ExSafe, ExTypeOK
<1>t. /\ orders \in Seq(OrderType) /\ prices \in Seq(OrderIds) /\ nextId \in Nat
      /\ \A d \in Clients : call[d].id \in Nat
  BY DEF ExSafe, ExTypeOK, CallType
<1>u. \A k \in 1..Len(orders) : orders[k].id \in Nat
  BY <1>t, OrderNumber
<1>5. Numbering'
  BY <1>1, <1>2, <1>3, <1>t, <1>u DEF ExSafe, Numbering, Priced, Stored
<1>6. NumberedOnce'
  BY <1>1, <1>2, <1>3, <1>t, <1>u DEF ExSafe, Numbering, NumberedOnce
<1>7. PricesAccounted'
  BY <1>1, <1>2, <1>3, SMTT(30) DEF ExSafe, PricesAccounted
<1>d. DroppedForGood'
  <2>1. \A id \in dropped : id < nextId
    BY DroppedFacts DEF ExSafe, Numbering, Priced
  <2>2. ASSUME NEW id \in dropped, NEW d \in Clients PROVE call'[d].id # id
    <3>1. id < nextId /\ call[d].id # id
      BY <2>1 DEF ExSafe, DroppedForGood
    <3>2. call'[d].id = nextId \/ call'[d].id = call[d].id
      BY <1>2, <1>3
    <3>3. id \in Nat /\ nextId \in Nat
      BY <1>t DEF ExSafe, ExTypeOK
    <3> QED
      BY <3>1, <3>2, <3>3
  <2>3. \A id : (Priced(id)' <=> Priced(id)) /\ (Stored(id)' <=> Stored(id))
    BY <1>1 DEF Priced, Stored
  <2> QED
    BY <1>1, <2>2, <2>3, DroppedFacts, DroppedFactsNext DEF ExSafe
<1>8. ToldIsTrue'
  BY <1>1 DEF ExSafe, ToldIsTrue, Book
<1>9. Cursors'
  BY <1>1, <1>2, <1>3 DEF ExSafe, Cursors
<1> QED
  BY <1>4, <1>5, <1>6, <1>7, <1>d, <1>8, <1>9 DEF ExSafe

(* The price goes out.                                                     *)
LEMMA ExPublish ==
  ASSUME ExSafe, NEW c \in Clients, Publish(c)
  PROVE  ExSafe'
<1> USE ExchangeAssumption DEF OrderIds
<1> DEFINE q == [call[c] EXCEPT !.at = "store"]
<1>t. /\ orders \in Seq(OrderType) /\ prices \in Seq(OrderIds) /\ nextId \in Nat
      /\ call \in [Clients -> CallType] /\ \A d \in Clients : call[d].id \in 0..MaxOrders
      /\ \A d \in Clients : call[d].from \in Nat /\ call[d].got \in Seq(OrderIds)
  BY DEF ExSafe, ExTypeOK, CallType
<1>1. /\ call[c].at = "publish" /\ prices' = Append(prices, call[c].id)
      /\ call' = [call EXCEPT ![c] = q] /\ UNCHANGED <<nextId, orders, dropped, told>>
  BY DEF Publish
<1>i. call[c].id \in OrderIds
  BY <1>t, <1>1 DEF ExSafe, Numbering
<1>2. /\ q \in CallType /\ q.at = "store" /\ q.id = call[c].id /\ q.got = call[c].got
  BY <1>t DEF CallType
<1> HIDE DEF q
<1>3. /\ call' \in [Clients -> CallType]
      /\ call'[c] = q /\ \A d \in Clients \ {c} : call'[d] = call[d]
      /\ \A d \in Clients : Len(call'[d].got) <= Batch
  BY <1>1, <1>2, CallReplaced DEF ExSafe, ExTypeOK
<1>p. /\ prices' \in Seq(OrderIds) /\ Len(prices') = Len(prices) + 1
      /\ prices'[Len(prices) + 1] = call[c].id
      /\ \A j \in 1..Len(prices) : prices'[j] = prices[j]
  BY <1>t, <1>1, <1>i
<1>l. Len(prices) \in Nat
  BY <1>t
<1>n. ~Priced(call[c].id)
  BY <1>1 DEF ExSafe, Numbering
<1>4. ExTypeOK'
  BY <1>1, <1>3, <1>p DEF ExSafe, ExTypeOK
<1>s. ~Stored(call[c].id)
  BY <1>n, <1>l DEF ExSafe, PricesAccounted, Stored, Priced
<1>5. Numbering'
  <2>1. \A j \in 1..Len(prices') : prices'[j] < nextId
    BY <1>p, <1>l, SMTT(30) DEF ExSafe, Numbering
  <2>2. \A id : Priced(id)' <=> Priced(id) \/ id = call[c].id
    BY <1>p, <1>l DEF Priced
  <2>3. \A id : Stored(id)' <=> Stored(id)
    BY <1>1 DEF Stored
  <2>4. ASSUME NEW d \in Clients \ {c}, call[d].at = "publish" PROVE call[d].id # call[c].id
    BY <1>1, <2>4 DEF ExSafe, Numbering, NumberedOnce
  <2> QED
    BY <1>1, <1>2, <1>3, <1>s, <2>1, <2>2, <2>3, <2>4 DEF ExSafe, Numbering
<1>6. NumberedOnce'
  <2>1. \A j, k \in 1..Len(prices') : prices'[j] = prices'[k] => j = k
    BY <1>p, <1>n, <1>l DEF ExSafe, NumberedOnce, Priced
  <2>2. \A d, e \in Clients : call'[d].id # 0 /\ call'[d].id = call'[e].id => d = e
    BY <1>2, <1>3 DEF ExSafe, NumberedOnce
  <2> QED
    BY <1>1, <2>1, <2>2 DEF ExSafe, NumberedOnce
<1>7. PricesAccounted'
  <2>1. \A k \in 1..Len(orders) : \E j \in 1..Len(prices') : prices'[j] = orders[k].id
    <3>1. ASSUME NEW k \in 1..Len(orders) PROVE \E j \in 1..Len(prices') : prices'[j] = orders[k].id
      <4>1. PICK j \in 1..Len(prices) : prices[j] = orders[k].id
        BY DEF ExSafe, PricesAccounted
      <4>2. j \in 1..Len(prices') /\ prices'[j] = prices[j]
        BY <1>p, <1>l
      <4> QED
        BY <4>1, <4>2
    <3> QED
      BY <3>1
  <2>2. ASSUME NEW j \in 1..Len(prices')
        PROVE  \/ \E k \in 1..Len(orders) : orders[k].id = prices'[j]
               \/ \E d \in Clients : call'[d].at = "store" /\ call'[d].id = prices'[j]
               \/ prices'[j] \in dropped
    <3>1. CASE j = Len(prices) + 1
      BY <1>2, <1>3, <1>p, <3>1
    <3>2. CASE j \in 1..Len(prices)
      <4>1. prices'[j] = prices[j]
        BY <1>p, <3>2
      <4>2. CASE \E k \in 1..Len(orders) : orders[k].id = prices[j]
        BY <4>1, <4>2
      <4>3. ASSUME NEW d \in Clients, call[d].at = "store", call[d].id = prices[j]
            PROVE  call'[d].at = "store" /\ call'[d].id = prices'[j]
        BY <1>1, <1>3, <4>1, <4>3
      <4> QED
        BY <3>2, <4>1, <4>2, <4>3 DEF ExSafe, PricesAccounted
    <3> QED
      BY <1>p, <1>l, <3>1, <3>2
  <2> QED
    BY <1>1, <2>1, <2>2 DEF PricesAccounted
<1>d. DroppedForGood'
  <2>1. \A id : Priced(id) => Priced(id)'
    BY <1>p, <1>l DEF Priced
  <2>2. \A id : Stored(id)' <=> Stored(id)
    BY <1>1 DEF Stored
  <2>3. \A d \in Clients : call'[d].id = call[d].id
    BY <1>2, <1>3
  <2> QED
    BY <1>1, <2>1, <2>2, <2>3, DroppedFacts, DroppedFactsNext DEF ExSafe
<1>8. ToldIsTrue'
  BY <1>1 DEF ExSafe, ToldIsTrue, Book
<1>9. Cursors'
  <2> SUFFICES ASSUME NEW d \in Clients, call'[d].at = "stream"
               PROVE  /\ call'[d].next = call'[d].from + Len(call'[d].got) + 1
                      /\ call'[d].from + Len(call'[d].got) <= Len(prices')
                      /\ \A i \in 1..Len(call'[d].got) : call'[d].got[i] = prices'[call'[d].from + i]
    BY DEF Cursors
  <2>1. d # c /\ call'[d] = call[d]
    BY <1>2, <1>3
  <2>2. /\ call[d].next = call[d].from + Len(call[d].got) + 1
        /\ call[d].from + Len(call[d].got) <= Len(prices)
        /\ \A i \in 1..Len(call[d].got) : call[d].got[i] = prices[call[d].from + i]
    BY <2>1 DEF ExSafe, Cursors
  <2>3. call[d].from \in Nat /\ Len(call[d].got) \in Nat
    BY <1>t
  <2>4. \A i \in 1..Len(call[d].got) : call[d].from + i \in 1..Len(prices)
    BY <2>2, <2>3, <1>l
  <2>5. \A i \in 1..Len(call[d].got) : call[d].got[i] = prices'[call[d].from + i]
    BY <1>p, <2>2, <2>4
  <2> QED
    BY <1>p, <1>l, <2>1, <2>2, <2>3, <2>5
<1> QED
  BY <1>4, <1>5, <1>6, <1>7, <1>d, <1>8, <1>9 DEF ExSafe

(* The order is stored and acknowledged.                                   *)
LEMMA ExStore ==
  ASSUME ExSafe, NEW c \in Clients, Store(c)
  PROVE  ExSafe'
<1> USE ExchangeAssumption DEF OrderIds
<1>t. /\ orders \in Seq(OrderType) /\ prices \in Seq(OrderIds) /\ nextId \in Nat
      /\ call \in [Clients -> CallType] /\ \A d \in Clients : call[d].id \in 0..MaxOrders
      /\ told \in [OrderIds -> SUBSET Answers]
  BY DEF ExSafe, ExTypeOK, CallType
<1> DEFINE o == [id |-> call[c].id, status |-> "accepted"]
<1>1. /\ call[c].at = "store" /\ orders' = Append(orders, o)
      /\ told' = [told EXCEPT ![call[c].id] = @ \union {"accepted"}]
      /\ call' = [call EXCEPT ![c] = IdleCall] /\ UNCHANGED <<nextId, prices, dropped>>
  BY DEF Store
<1>i. call[c].id \in OrderIds
  BY <1>t, <1>1 DEF ExSafe, Numbering
<1>2. IdleCall \in CallType /\ IdleCall.at = "idle" /\ IdleCall.id = 0 /\ IdleCall.got = <<>>
  BY IdleCallType DEF IdleCall
<1>3. /\ call' \in [Clients -> CallType]
      /\ call'[c] = IdleCall /\ \A d \in Clients \ {c} : call'[d] = call[d]
      /\ \A d \in Clients : Len(call'[d].got) <= Batch
  BY <1>1, <1>2, CallReplaced DEF ExSafe, ExTypeOK
<1>o. o \in OrderType /\ o.id = call[c].id /\ o.status = "accepted"
  BY <1>i DEF OrderType
<1> HIDE DEF o
<1>l. Len(orders) \in Nat
  BY <1>t
<1>p. /\ orders' \in Seq(OrderType) /\ Len(orders') = Len(orders) + 1
      /\ orders'[Len(orders) + 1] = o
      /\ \A k \in 1..Len(orders) : orders'[k] = orders[k]
  BY <1>t, <1>1, <1>o
<1>n. Priced(call[c].id) /\ ~Stored(call[c].id)
  BY <1>1 DEF ExSafe, Numbering
<1>4. ExTypeOK'
  <2>1. told' \in [OrderIds -> SUBSET Answers]
    BY <1>t, <1>1, <1>i DEF Answers
  <2> QED
    BY <1>1, <1>3, <1>p, <2>1 DEF ExSafe, ExTypeOK
<1>m. \A d \in Clients \ {c} : call[d].id = call[c].id => FALSE
  BY <1>i DEF ExSafe, NumberedOnce
<1>s. \A id : Stored(id)' <=> Stored(id) \/ id = call[c].id
  BY <1>p, <1>l, <1>o DEF Stored
<1>5. Numbering'
  <2>1. \A k \in 1..Len(orders') : orders'[k].id < nextId
    BY <1>p, <1>l, <1>o DEF ExSafe, Numbering
  <2>2. \A id : Priced(id)' <=> Priced(id)
    BY <1>1 DEF Priced
  <2>3. 0 < nextId
    BY DEF ExSafe, ExTypeOK
  <2> QED
    BY <1>1, <1>2, <1>3, <1>m, <1>s, <2>1, <2>2, <2>3 DEF ExSafe, Numbering
<1>6. NumberedOnce'
  <2>1. \A j, k \in 1..Len(orders') : orders'[j].id = orders'[k].id => j = k
    BY <1>p, <1>n, <1>l, <1>o DEF ExSafe, NumberedOnce, Stored
  <2>2. \A d, e \in Clients : call'[d].id # 0 /\ call'[d].id = call'[e].id => d = e
    BY <1>2, <1>3 DEF ExSafe, NumberedOnce
  <2> QED
    BY <1>1, <2>1, <2>2 DEF ExSafe, NumberedOnce
<1>7. PricesAccounted'
  <2>1. ASSUME NEW k \in 1..Len(orders') PROVE \E j \in 1..Len(prices) : prices[j] = orders'[k].id
    <3>1. CASE k = Len(orders) + 1
      BY <1>n, <1>o, <1>p, <3>1 DEF Priced
    <3>2. CASE k \in 1..Len(orders)
      BY <1>p, <3>2 DEF ExSafe, PricesAccounted
    <3> QED
      BY <1>l, <1>p, <3>1, <3>2
  <2>2. ASSUME NEW j \in 1..Len(prices)
        PROVE  \/ Stored(prices[j])' \/ prices[j] \in dropped
               \/ \E d \in Clients : call'[d].at = "store" /\ call'[d].id = prices[j]
    <3>1. CASE Stored(prices[j])
      BY <1>1, <1>s, <3>1
    <3>2. ASSUME NEW d \in Clients, call[d].at = "store", call[d].id = prices[j]
          PROVE  Stored(prices[j])' \/ (call'[d].at = "store" /\ call'[d].id = prices[j])
      BY <1>1, <1>3, <1>s, <3>2
    <3>3. \/ Stored(prices[j]) \/ prices[j] \in dropped
          \/ \E d \in Clients : call[d].at = "store" /\ call[d].id = prices[j]
      BY DEF ExSafe, PricesAccounted, Stored
    <3> QED
      BY <3>1, <3>2, <3>3
  <2>3. \A k \in 1..Len(orders') : \E j \in 1..Len(prices') : prices'[j] = orders'[k].id
    BY <1>1, <2>1
  <2>4. \A j \in 1..Len(prices') :
          \/ \E k \in 1..Len(orders') : orders'[k].id = prices'[j]
          \/ prices'[j] \in dropped'
          \/ \E d \in Clients : call'[d].at = "store" /\ call'[d].id = prices'[j]
    BY <1>1, <2>2 DEF Stored
  <2> QED
    BY <2>3, <2>4 DEF PricesAccounted
<1>d. DroppedForGood'
  <2>1. \A id : Priced(id)' <=> Priced(id)
    BY <1>1 DEF Priced
  <2>2. ASSUME NEW id \in dropped
        PROVE  /\ id # call[c].id /\ told'[id] = told[id]
               /\ \A d \in Clients : call'[d].id # id
    <3>1. id # call[c].id /\ id \in OrderIds /\ \A d \in Clients : call[d].id # id
      BY DEF ExSafe, ExTypeOK, DroppedForGood
    <3> QED
      BY <1>1, <1>2, <1>3, <1>t, <1>i, <3>1
  <2> QED
    BY <1>1, <1>s, <2>1, <2>2, DroppedFacts, DroppedFactsNext DEF ExSafe
<1>8. ToldIsTrue'
  <2> SUFFICES ASSUME NEW id \in OrderIds
               PROVE  /\ told'[id] \intersect {"accepted", "cancelled"} # {} => Stored(id)'
                      /\ "cancelled" \in told'[id] => id \notin Book'
    BY DEF ToldIsTrue, Stored
  <2>1. CASE id = call[c].id
    <3>1. "cancelled" \notin told[id]
      BY <1>n, <2>1 DEF ExSafe, ToldIsTrue, Stored
    <3>2. told'[id] = told[id] \union {"accepted"}
      BY <1>1, <1>t, <2>1
    <3> QED
      BY <1>s, <2>1, <3>1, <3>2
  <2>2. CASE id # call[c].id
    <3>1. told'[id] = told[id]
      BY <1>1, <1>t, <1>i, <2>2
    <3>2. told[id] \intersect {"accepted", "cancelled"} # {} => Stored(id)
      BY DEF ExSafe, ToldIsTrue, Stored
    <3>3. ASSUME "cancelled" \in told[id] PROVE id \notin Book'
      <4>1. \A k \in 1..Len(orders) : orders[k].status = "accepted" => orders[k].id # id
        BY <3>3 DEF ExSafe, ToldIsTrue, Book
      <4>2. \A k \in 1..Len(orders') : orders'[k].status = "accepted" => orders'[k].id # id
        BY <1>l, <1>o, <1>p, <2>2, <4>1
      <4> QED
        BY <4>2 DEF Book
    <3> QED
      BY <1>s, <3>1, <3>2, <3>3
  <2> QED
    BY <2>1, <2>2
<1>9. Cursors'
  BY <1>1, <1>2, <1>3 DEF ExSafe, Cursors
<1> QED
  BY <1>4, <1>5, <1>6, <1>7, <1>d, <1>8, <1>9 DEF ExSafe

(* Numbers being unique, the first order with a number is the only one,    *)
(* and there is one if the number is stored.                               *)
LEMMA FirstIsOnly ==
  ASSUME ExSafe, NEW id
  PROVE  /\ First(id) = {} <=> ~Stored(id)
         /\ \A k \in First(id) : /\ k \in 1..Len(orders) /\ orders[k].id = id
                                 /\ \A j \in 1..Len(orders) : orders[j].id = id => j = k
<1>l. Len(orders) \in Nat
  BY DEF ExSafe, ExTypeOK
<1>1. \A j, k \in 1..Len(orders) : orders[j].id = orders[k].id => j = k
  BY DEF ExSafe, NumberedOnce
<1>2. ASSUME NEW k \in 1..Len(orders), orders[k].id = id PROVE k \in First(id)
  <2>1. ASSUME NEW j \in 1..(k - 1) PROVE orders[j].id # id
    <3>1. j \in 1..Len(orders) /\ j # k
      BY <1>l
    <3> QED
      BY <1>1, <1>2, <3>1
  <2> QED
    BY <1>2, <2>1 DEF First
<1>3. \A k \in First(id) : k \in 1..Len(orders) /\ orders[k].id = id
  BY DEF First
<1> QED
  BY <1>1, <1>2, <1>3 DEF Stored

(* cancel_order.                                                           *)
LEMMA ExCancel ==
  ASSUME ExSafe, NEW c \in Clients, NEW id \in OrderIds, cancel_order(c, id)
  PROVE  ExSafe'
<1> USE ExchangeAssumption DEF OrderIds
<1>t. /\ orders \in Seq(OrderType) /\ prices \in Seq(OrderIds) /\ nextId \in Nat
      /\ call \in [Clients -> CallType] /\ told \in [OrderIds -> SUBSET Answers]
  BY DEF ExSafe, ExTypeOK
<1>u. UNCHANGED <<nextId, prices, call, dropped>>
  BY DEF cancel_order
<1>1. CASE /\ First(id) = {} /\ UNCHANGED orders
           /\ told' = [told EXCEPT ![id] = @ \union {"not_found"}]
  <2>1. told' \in [OrderIds -> SUBSET Answers]
    BY <1>t, <1>1 DEF Answers
  <2>2. ExTypeOK'
    BY <1>u, <1>1, <2>1 DEF ExSafe, ExTypeOK
  <2>3. \A i \in OrderIds : \A a \in {"accepted", "cancelled"} : a \in told'[i] => a \in told[i]
    BY <1>t, <1>1
  <2>4. ToldIsTrue'
    BY <1>1, <2>3 DEF ExSafe, ToldIsTrue, Book
  <2>5. Numbering' /\ NumberedOnce' /\ PricesAccounted' /\ Cursors'
    BY <1>u, <1>1 DEF ExSafe, Numbering, NumberedOnce, PricesAccounted, Cursors, Priced, Stored
  <2>6. \A i \in OrderIds : told'[i] \subseteq told[i] \union {"not_found"}
    BY <1>t, <1>1
  <2>7. DroppedForGood'
    <3>1. \A i : (Priced(i)' <=> Priced(i)) /\ (Stored(i)' <=> Stored(i))
      BY <1>u, <1>1 DEF Priced, Stored
    <3>2. dropped \subseteq OrderIds
      BY DEF ExSafe, ExTypeOK
    <3> QED
      BY <1>u, <2>6, <3>1, <3>2, DroppedFacts, DroppedFactsNext DEF ExSafe
  <2> QED
    BY <2>2, <2>4, <2>5, <2>7 DEF ExSafe
<1>2. ASSUME NEW k \in First(id), orders' = [orders EXCEPT ![k] = [@ EXCEPT !.status = "cancelled"]],
             told' = [told EXCEPT ![id] = @ \union {"cancelled"}]
      PROVE  ExSafe'
  <2>1. /\ k \in 1..Len(orders) /\ orders[k].id = id
        /\ \A j \in 1..Len(orders) : orders[j].id = id => j = k
    BY FirstIsOnly
  <2>2. \A j \in 1..Len(orders) : orders[j] \in OrderType
    BY <1>t
  <2> DEFINE o == [orders[k] EXCEPT !.status = "cancelled"]
  <2>3. o \in OrderType /\ o.id = id /\ o.status = "cancelled"
    BY <2>1, <2>2 DEF OrderType
  <2>4. orders' = [orders EXCEPT ![k] = o]
    BY <1>2
  <2> HIDE DEF o
  <2>5. /\ orders' \in Seq(OrderType) /\ Len(orders') = Len(orders)
        /\ orders'[k] = o /\ \A j \in 1..Len(orders) : j # k => orders'[j] = orders[j]
    BY <1>t, <2>1, <2>3, <2>4
  <2>6. \A j \in 1..Len(orders) : orders'[j].id = orders[j].id
    BY <2>1, <2>3, <2>5
  <2>7. \A i : Stored(i)' <=> Stored(i)
    BY <2>5, <2>6 DEF Stored
  <2>8. told' \in [OrderIds -> SUBSET Answers]
    BY <1>t, <1>2 DEF Answers
  <2>9. ExTypeOK'
    BY <1>u, <2>5, <2>8 DEF ExSafe, ExTypeOK
  <2>10. Numbering'
    BY <1>u, <2>5, <2>6, <2>7 DEF ExSafe, Numbering, Priced
  <2>11. NumberedOnce'
    BY <1>u, <2>5, <2>6 DEF ExSafe, NumberedOnce
  <2>12. PricesAccounted'
    <3>1. \A j \in 1..Len(prices) :
            \/ Stored(prices[j])' \/ prices[j] \in dropped
            \/ \E d \in Clients : call[d].at = "store" /\ call[d].id = prices[j]
      BY <1>u, <2>7 DEF ExSafe, PricesAccounted, Stored
    <3>2. \A i \in 1..Len(orders') : \E j \in 1..Len(prices) : prices[j] = orders'[i].id
      BY <2>5, <2>6 DEF ExSafe, PricesAccounted
    <3> QED
      BY <1>u, <3>1, <3>2 DEF PricesAccounted, Stored
  <2>13. ToldIsTrue'
    <3> SUFFICES ASSUME NEW i \in OrderIds
                 PROVE  /\ told'[i] \intersect {"accepted", "cancelled"} # {} => Stored(i)'
                        /\ "cancelled" \in told'[i] => i \notin Book'
      BY DEF ToldIsTrue, Stored
    <3>b. i \in Book' <=> \E j \in 1..Len(orders) : orders'[j].status = "accepted" /\ orders'[j].id = i
      BY <2>5 DEF Book
    <3>1. CASE i = id
      <4>1. Stored(i)'
        BY <2>1, <2>7, <3>1 DEF Stored
      <4>2. i \notin Book'
        BY <2>1, <2>3, <2>5, <2>6, <3>1, <3>b
      <4> QED
        BY <4>1, <4>2
    <3>2. CASE i # id
      <4>1. told'[i] = told[i]
        BY <1>t, <1>2, <3>2
      <4>2. told[i] \intersect {"accepted", "cancelled"} # {} => Stored(i)
        BY DEF ExSafe, ToldIsTrue, Stored
      <4>3. i \in Book' => i \in Book
        BY <2>3, <2>5, <3>2, <3>b DEF Book
      <4>4. "cancelled" \in told[i] => i \notin Book
        BY DEF ExSafe, ToldIsTrue
      <4> QED
        BY <2>7, <4>1, <4>2, <4>3, <4>4
    <3> QED
      BY <3>1, <3>2
  <2>14. Cursors'
    BY <1>u DEF ExSafe, Cursors
  <2>15. DroppedForGood'
    <3>1. ASSUME NEW i \in dropped PROVE i # id /\ told'[i] = told[i]
      <4>1. i \in OrderIds /\ ~Stored(i)
        BY DroppedFacts DEF ExSafe, ExTypeOK
      <4>2. i # id
        BY <2>1, <4>1 DEF Stored
      <4> QED
        BY <1>t, <1>2, <4>1, <4>2
    <3>2. \A i : Priced(i)' <=> Priced(i)
      BY <1>u DEF Priced
    <3> QED
      BY <1>u, <2>7, <3>1, <3>2, DroppedFacts, DroppedFactsNext DEF ExSafe
  <2> QED
    BY <2>9, <2>10, <2>11, <2>12, <2>13, <2>14, <2>15 DEF ExSafe
<1> QED
  BY <1>1, <1>2 DEF cancel_order

(* A step of stream_prices concerns the reader's own record only.          *)
LEMMA ExReader ==
  ASSUME ExSafe, NEW c \in Clients, NEW q \in CallType, Len(q.got) <= Batch,
         call[c].at \in {"idle", "stream"}, q.at \in {"idle", "stream"}, q.id = 0,
         call' = [call EXCEPT ![c] = q], UNCHANGED <<nextId, orders, prices, dropped, told>>,
         q.at = "stream" => /\ q.next = q.from + Len(q.got) + 1
                            /\ q.from + Len(q.got) <= Len(prices)
                            /\ \A i \in 1..Len(q.got) : q.got[i] = prices[q.from + i]
  PROVE  ExSafe'
<1>3. /\ call' \in [Clients -> CallType]
      /\ call'[c] = q /\ \A d \in Clients \ {c} : call'[d] = call[d]
      /\ \A d \in Clients : Len(call'[d].got) <= Batch
  BY CallReplaced DEF ExSafe, ExTypeOK
<1>4. ExTypeOK'
  BY <1>3 DEF ExSafe, ExTypeOK
<1>n. 0 < nextId
  BY DEF ExSafe, ExTypeOK
<1>5. Numbering'
  BY <1>3, <1>n DEF ExSafe, Numbering, Priced, Stored
<1>6. NumberedOnce'
  BY <1>3 DEF ExSafe, NumberedOnce
<1>7. PricesAccounted'
  <2>1. \A d \in Clients : call[d].at = "store" => call'[d] = call[d]
    BY <1>3
  <2> QED
    BY <2>1 DEF ExSafe, PricesAccounted
<1>d. DroppedForGood'
  <2>1. \A id : (Priced(id)' <=> Priced(id)) /\ (Stored(id)' <=> Stored(id))
    BY DEF Priced, Stored
  <2>2. ASSUME NEW id \in dropped, NEW d \in Clients PROVE call'[d].id # id
    <3>1. id # 0 /\ call[d].id # id
      BY ExchangeAssumption DEF ExSafe, ExTypeOK, OrderIds, DroppedForGood
    <3> QED
      BY <1>3, <3>1
  <2> QED
    BY <2>1, <2>2, DroppedFacts, DroppedFactsNext DEF ExSafe
<1>8. ToldIsTrue'
  BY DEF ExSafe, ToldIsTrue, Book
<1>9. Cursors'
  BY <1>3 DEF ExSafe, Cursors
<1> QED
  BY <1>4, <1>5, <1>6, <1>7, <1>d, <1>8, <1>9 DEF ExSafe

(* The request is dropped at the lock: its number is in the channel, and   *)
(* with the call nobody has it any more.                                   *)
LEMMA ExAbandon ==
  ASSUME ExSafe, NEW c \in Clients, DropRequest(c)
  PROVE  ExSafe'
<1> USE ExchangeAssumption DEF OrderIds
<1> DEFINE i == call[c].id
<1>t. /\ call \in [Clients -> CallType] /\ i \in 0..MaxOrders /\ nextId \in Nat
      /\ told \in [OrderIds -> SUBSET Answers]
  BY DEF ExSafe, ExTypeOK, CallType
<1>1. /\ call[c].at = "store" /\ dropped' = dropped \union {i}
      /\ call' = [call EXCEPT ![c] = IdleCall] /\ UNCHANGED <<nextId, orders, prices, told>>
  BY DEF DropRequest
<1>2. IdleCall \in CallType /\ IdleCall.at = "idle" /\ IdleCall.id = 0 /\ IdleCall.got = <<>>
  BY IdleCallType DEF IdleCall
<1>3. /\ call' \in [Clients -> CallType]
      /\ call'[c] = IdleCall /\ \A d \in Clients \ {c} : call'[d] = call[d]
      /\ \A d \in Clients : Len(call'[d].got) <= Batch
  BY <1>1, <1>2, CallReplaced DEF ExSafe, ExTypeOK
<1>n. Priced(i) /\ ~Stored(i) /\ i \in OrderIds
  BY <1>1, <1>t DEF ExSafe, Numbering
<1>m. \A d \in Clients \ {c} : call[d].id # i
  BY <1>n DEF ExSafe, NumberedOnce
<1>s. \A id : (Priced(id)' <=> Priced(id)) /\ (Stored(id)' <=> Stored(id))
  BY <1>1 DEF Priced, Stored
<1>w. told[i] \subseteq {"not_found"}
  BY <1>n, <1>t DEF ExSafe, ToldIsTrue, Stored, Answers
<1>4. ExTypeOK'
  BY <1>1, <1>3, <1>n DEF ExSafe, ExTypeOK
<1>5. Numbering'
  <2>1. 0 < nextId
    BY DEF ExSafe, ExTypeOK
  <2> QED
    BY <1>1, <1>2, <1>3, <1>s, <2>1 DEF ExSafe, Numbering
<1>6. NumberedOnce'
  BY <1>1, <1>2, <1>3 DEF ExSafe, NumberedOnce
<1>7. PricesAccounted'
  <2>1. ASSUME NEW d \in Clients, call[d].at = "store"
        PROVE  call[d].id \in dropped' \/ (call'[d].at = "store" /\ call'[d].id = call[d].id)
    <3>1. CASE d = c
      BY <1>1, <3>1
    <3>2. CASE d # c
      BY <1>3, <2>1, <3>2
    <3> QED
      BY <3>1, <3>2
  <2> QED
    BY <1>1, <2>1 DEF ExSafe, PricesAccounted
<1>d. DroppedForGood'
  <2>1. ASSUME NEW id \in dropped', NEW d \in Clients PROVE call'[d].id # id
    <3>1. id # 0 /\ (d # c => call[d].id # id)
      BY <1>1, <1>m, <1>n DEF ExSafe, ExTypeOK, DroppedForGood
    <3> QED
      BY <1>2, <1>3, <3>1
  <2>2. \A id \in dropped' : Priced(id) /\ ~Stored(id) /\ told[id] \subseteq {"not_found"}
    BY <1>1, <1>n, <1>w, DroppedFacts DEF ExSafe
  <2> QED
    BY <1>1, <1>s, <2>1, <2>2, DroppedFactsNext
<1>8. ToldIsTrue'
  BY <1>1 DEF ExSafe, ToldIsTrue, Book
<1>9. Cursors'
  BY <1>1, <1>2, <1>3 DEF ExSafe, Cursors
<1> QED
  BY <1>4, <1>5, <1>6, <1>7, <1>d, <1>8, <1>9 DEF ExSafe

LEMMA ExStream ==
  ASSUME ExSafe, NEW c \in Clients, Subscribe(c) \/ Recv(c) \/ StreamEnds(c)
  PROVE  ExSafe'
<1> USE ExchangeAssumption
<1>t. /\ prices \in Seq(OrderIds) /\ Len(prices) \in Nat /\ call[c] \in CallType
      /\ call[c].from \in Nat /\ call[c].got \in Seq(OrderIds) /\ Len(call[c].got) \in Nat
      /\ call[c].next \in Nat
  BY DEF ExSafe, ExTypeOK, CallType
<1>i. /\ IdleCall \in CallType /\ IdleCall.got = <<>> /\ IdleCall.id = 0 /\ IdleCall.at = "idle"
  BY IdleCallType DEF IdleCall
<1>z. call[c].at \in {"idle", "stream"} => call[c].id = 0
  BY DEF ExSafe, Numbering
<1>1. CASE Subscribe(c)
  <2> DEFINE q == [IdleCall EXCEPT !.at = "stream", !.from = Len(prices), !.next = Len(prices) + 1]
  <2>1. /\ q \in CallType /\ q.at = "stream" /\ q.id = 0 /\ q.got = <<>>
        /\ q.from = Len(prices) /\ q.next = Len(prices) + 1
    <3>1. Len(prices) + 1 \in Nat
      BY <1>t
    <3> QED
      BY <1>i, <1>t, <3>1 DEF CallType
  <2>2. /\ call[c].at = "idle" /\ call' = [call EXCEPT ![c] = q]
        /\ UNCHANGED <<nextId, orders, prices, dropped, told>>
    BY <1>1 DEF Subscribe
  <2> HIDE DEF q
  <2>3. /\ Len(q.got) <= Batch /\ q.next = q.from + Len(q.got) + 1
        /\ q.from + Len(q.got) <= Len(prices)
        /\ \A i \in 1..Len(q.got) : q.got[i] = prices[q.from + i]
    BY <1>t, <2>1
  <2> QED
    BY <2>1, <2>2, <2>3, ExReader
<1>2. CASE Recv(c)
  <2> DEFINE n == call[c].next
             q == [call[c] EXCEPT !.next = n + 1, !.got = Append(@, prices[n])]
  <2>1. /\ call[c].at = "stream" /\ Len(call[c].got) < Batch /\ n <= Len(prices)
        /\ call' = [call EXCEPT ![c] = q] /\ UNCHANGED <<nextId, orders, prices, dropped, told>>
    BY <1>2 DEF Recv, Take
  <2>2. /\ n = call[c].from + Len(call[c].got) + 1
        /\ \A i \in 1..Len(call[c].got) : call[c].got[i] = prices[call[c].from + i]
    BY <2>1 DEF ExSafe, Cursors
  <2>n. n \in Nat
    BY <1>t
  <2> DEFINE f == call[c].from  l == Len(call[c].got)
  <2>m. f \in Nat /\ l \in Nat /\ n = f + l + 1 /\ l < Batch /\ n <= Len(prices)
    BY <1>t, <2>1, <2>2
  <2> HIDE DEF n, f, l
  <2>3. n \in 1..Len(prices) /\ n + 1 \in Nat /\ prices[n] \in OrderIds
    <3>1. n \in 1..Len(prices) /\ n + 1 \in Nat
      BY <1>t, <2>n, <2>m
    <3> QED
      BY <1>t, <3>1
  <2>4. Append(call[c].got, prices[n]) \in Seq(OrderIds)
    BY <1>t, <2>3
  <2>5. /\ q \in CallType /\ q.at = "stream" /\ q.id = 0 /\ q.next = n + 1
        /\ q.from = call[c].from /\ q.got = Append(call[c].got, prices[n])
    BY <1>t, <1>z, <2>1, <2>3, <2>4 DEF CallType
  <2> HIDE DEF q
  <2>6. /\ Len(q.got) = Len(call[c].got) + 1 /\ q.got[Len(call[c].got) + 1] = prices[n]
        /\ \A i \in 1..Len(call[c].got) : q.got[i] = call[c].got[i]
    BY <1>t, <2>3, <2>5
  <2>7. /\ Len(q.got) <= Batch /\ q.next = q.from + Len(q.got) + 1
        /\ q.from + Len(q.got) <= Len(prices)
    <3>1. Len(q.got) = l + 1 /\ q.next = n + 1 /\ q.from = f
      BY <2>5, <2>6 DEF f, l
    <3> QED
      BY <1>t, <2>n, <2>m, <3>1
  <2>8. ASSUME NEW i \in 1..Len(q.got) PROVE q.got[i] = prices[q.from + i]
    <3>1. CASE i = Len(call[c].got) + 1
      <4>1. q.from + i = n
        BY <2>m, <2>5, <3>1, SMTT(30) DEF f, l
      <4> QED
        BY <2>6, <3>1, <4>1
    <3>2. CASE i \in 1..Len(call[c].got)
      BY <2>2, <2>5, <2>6, <3>2
    <3> QED
      BY <1>t, <2>6, <3>1, <3>2, SMTT(30)
  <2> QED
    BY <2>1, <2>5, <2>7, <2>8, ExReader
<1>3. CASE StreamEnds(c)
  <2>1. /\ call[c].at = "stream" /\ call' = [call EXCEPT ![c] = IdleCall]
        /\ UNCHANGED <<nextId, orders, prices, dropped, told>>
    BY <1>3 DEF StreamEnds
  <2>2. Len(IdleCall.got) <= Batch
    BY <1>i
  <2> QED
    BY <1>i, <2>1, <2>2, ExReader
<1> QED
  BY <1>1, <1>2, <1>3

LEMMA ExStart == ExInit => ExSafe
<1> SUFFICES ASSUME ExInit PROVE ExSafe
  OBVIOUS
<1> USE ExchangeAssumption
<1>i. /\ IdleCall \in CallType /\ IdleCall.got = <<>> /\ IdleCall.id = 0 /\ IdleCall.at = "idle"
  BY IdleCallType DEF IdleCall
<1>1. call \in [Clients -> CallType] /\ \A c \in Clients : call[c] = IdleCall
  BY <1>i DEF ExInit
<1>2. ExTypeOK
  BY <1>i, <1>1 DEF ExInit, ExTypeOK
<1>3. Numbering /\ NumberedOnce /\ PricesAccounted /\ DroppedForGood /\ Cursors
  BY <1>i, <1>1 DEF ExInit, Numbering, NumberedOnce, PricesAccounted, DroppedForGood, Cursors
<1>4. ToldIsTrue
  BY DEF ExInit, ToldIsTrue, Book, OrderIds
<1> QED
  BY <1>2, <1>3, <1>4 DEF ExSafe

LEMMA ExStep == ExSafe /\ [ExNext]_exVars => ExSafe'
<1> SUFFICES ASSUME ExSafe, [ExNext]_exVars PROVE ExSafe'
  OBVIOUS
<1>1. CASE ExNext
  BY <1>1, ExNumber, ExPublish, ExStore, ExAbandon, ExCancel, ExStream DEF ExNext
<1>2. CASE UNCHANGED exVars
  <2>1. UNCHANGED <<nextId, orders, prices, call, dropped, told>>
    BY <1>2 DEF exVars
  <2>2. ExTypeOK' /\ NumberedOnce' /\ Cursors'
    BY <2>1 DEF ExSafe, ExTypeOK, NumberedOnce, Cursors
  <2>3. Numbering'
    BY <2>1 DEF ExSafe, Numbering, Priced, Stored
  <2>4. PricesAccounted' /\ DroppedForGood' /\ ToldIsTrue'
    BY <2>1 DEF ExSafe, PricesAccounted, DroppedForGood, ToldIsTrue, Book
  <2> QED
    BY <2>2, <2>3, <2>4 DEF ExSafe
<1> QED
  BY <1>1, <1>2

(* What a stream has received is the part of the channel behind its cursor.*)
LEMMA CursorsHaveNoGap == ExSafe => StreamHasNoGap
<1> SUFFICES ASSUME ExSafe, NEW c \in Clients, call[c].at = "stream"
             PROVE  call[c].got = SubSeq(prices, call[c].from + 1, call[c].from + Len(call[c].got))
  BY DEF StreamHasNoGap
<1>1. /\ prices \in Seq(OrderIds) /\ call[c].got \in Seq(OrderIds) /\ call[c].from \in Nat
      /\ Len(call[c].got) \in Nat /\ Len(prices) \in Nat
  BY DEF ExSafe, ExTypeOK, CallType
<1>2. /\ call[c].from + Len(call[c].got) <= Len(prices)
      /\ \A i \in 1..Len(call[c].got) : call[c].got[i] = prices[call[c].from + i]
  BY DEF ExSafe, Cursors
<1>3. ASSUME NEW p \in Seq(OrderIds), NEW h \in Seq(OrderIds), NEW m \in Nat,
             m + Len(h) <= Len(p), \A i \in 1..Len(h) : h[i] = p[m + i]
      PROVE  h = SubSeq(p, m + 1, m + Len(h))
  BY <1>3
<1> QED
  BY <1>1, <1>2, <1>3

(* cancel_order says not_found only of a number that is not stored, and an *)
(* acknowledged one is.                                                    *)
LEMMA MissIsEarly ==
  ASSUME ExSafe, [ExNext]_exVars, NEW id \in OrderIds,
         "accepted" \in told[id], "not_found" \in told'[id]
  PROVE  "not_found" \in told[id]
<1>t. told \in [OrderIds -> SUBSET Answers]
  BY DEF ExSafe, ExTypeOK
<1>s. First(id) # {}
  BY FirstIsOnly DEF ExSafe, ToldIsTrue, Stored
<1>1. ASSUME NEW c \in Clients, NEW i \in OrderIds, cancel_order(c, i) PROVE "not_found" \in told[id]
  <2>1. CASE i = id
    BY <1>t, <1>s, <1>1, <2>1 DEF cancel_order
  <2>2. CASE i # id
    BY <1>t, <1>1, <2>2 DEF cancel_order
  <2> QED
    BY <2>1, <2>2
<1>2. ASSUME NEW c \in Clients, Store(c) PROVE "not_found" \in told[id]
  BY <1>t, <1>2 DEF Store
<1>3. CASE \/ UNCHANGED exVars
           \/ \E c \in Clients : next_order_id(c) \/ Publish(c) \/ DropRequest(c) \/ Subscribe(c) \/ Recv(c) \/ StreamEnds(c)
  BY <1>3 DEF exVars, next_order_id, Publish, DropRequest, Subscribe, Recv, StreamEnds
<1> QED
  BY <1>1, <1>2, <1>3 DEF ExNext

(* The order book of any number of concurrent clients, whose requests may  *)
(* be dropped: numbers are given out once, every stored order had its      *)
(* price published, a published price is of an order that is stored, on    *)
(* its way there or of a dropped request, such an order is never stored or *)
(* confirmed to anyone, what clients were told stays true, and a stream    *)
(* has no gap (submit_order, cancel_order, stream_prices).                 *)
THEOREM OrderBookIsWhole ==
  ExSpec => [](/\ ExTypeOK /\ NumberedOnce /\ PricesAccounted /\ DroppedForGood
               /\ ToldIsTrue /\ StreamHasNoGap)
<1>1. ExSafe => /\ ExTypeOK /\ NumberedOnce /\ PricesAccounted /\ DroppedForGood
                /\ ToldIsTrue /\ StreamHasNoGap
  BY CursorsHaveNoGap DEF ExSafe
<1> QED
  BY <1>1, ExStart, ExStep, PTL DEF ExSpec

(* An acknowledged order is never reported as missing afterwards           *)
(* (cancel_order).                                                         *)
THEOREM NoMissAfterAck == ExSpec => NoLateMiss
<1>1. ExSafe /\ [ExNext]_exVars =>
        [\A id \in OrderIds : "accepted" \in told[id] /\ "not_found" \in told'[id]
                                => "not_found" \in told[id]]_exVars
  BY MissIsEarly
<1> QED
  BY <1>1, ExStart, ExStep, PTL DEF ExSpec, NoLateMiss

-----------------------------------------------------------------------------
(* RealWorld.  The tables as functions and sets of rows, and what the      *)
(* schema's constraints say of them.  A row's owner is an id, keys start   *)
(* at one.                                                                 *)
Keys == Nat \ {0}
Vals == Usernames \cup Slugs \cup Nat
Articles == [slug : Vals, author : Nat]
Comments == [author : Nat, article : Nat]
Table(f, R) == DOMAIN f \subseteq Keys /\ f \in [DOMAIN f -> R]

Rows(u, a, t, fa, fo, c) ==
  /\ Table(u, Vals) /\ Table(a, Articles) /\ Table(c, Comments)
  /\ \A x, y \in DOMAIN u : u[x] = u[y] => x = y
  /\ \A x, y \in DOMAIN a : a[x].slug = a[y].slug => x = y
  /\ \A x \in DOMAIN a : a[x].author \in DOMAIN u
  /\ \A x \in DOMAIN c : c[x].author \in DOMAIN u /\ c[x].article \in DOMAIN a \cup {None}
  /\ \A f \in fa : f[1] \in DOMAIN u /\ f[2] \in DOMAIN a \cup {None}
  /\ \A f \in fo : f[1] \in DOMAIN u /\ f[2] \in DOMAIN u
  /\ \A x \in t : x[1] \in DOMAIN a

(* What a statement made with the token of user w may do to the articles   *)
(* and the comments of others: nothing.                                    *)
Respects(w, a, c, b, e) ==
  /\ \A x \in DOMAIN a : (x \in DOMAIN b /\ b[x] = a[x]) \/ w = a[x].author
  /\ \A x \in DOMAIN c : x \in DOMAIN e \/ w \in {c[x].author, a[c[x].article].author}

LEMMA WithRow ==
  ASSUME NEW R, NEW f, Table(f, R), NEW k \in Keys, NEW v \in R
  PROVE  /\ Table(With(f, k, v), R) /\ DOMAIN With(f, k, v) = DOMAIN f \cup {k}
         /\ \A x \in DOMAIN f : With(f, k, v)[x] = f[x]
         /\ k \notin DOMAIN f => With(f, k, v)[k] = v
BY DEF With, Table

LEMMA FewerRows ==
  ASSUME NEW R, NEW f, Table(f, R), NEW S, S \subseteq DOMAIN f
  PROVE  /\ Table(Restrict(f, S), R) /\ DOMAIN Restrict(f, S) = S
         /\ \A x \in S : Restrict(f, S)[x] = f[x]
BY DEF Restrict, Table

LEMMA RowsInsertUser ==
  ASSUME NEW u, NEW a, NEW t, NEW fa, NEW fo, NEW c, Rows(u, a, t, fa, fo, c),
         NEW i \in Keys, NEW v \in Vals, \A x \in DOMAIN u : u[x] # v
  PROVE  Rows(With(u, i, v), a, t, fa, fo, c)
<1>1. /\ Table(With(u, i, v), Vals) /\ DOMAIN With(u, i, v) = DOMAIN u \cup {i}
      /\ \A x \in DOMAIN u : With(u, i, v)[x] = u[x]
      /\ i \notin DOMAIN u => With(u, i, v)[i] = v
  BY WithRow, ZenonT(40) DEF Rows
<1> QED
  BY <1>1 DEF Rows

LEMMA RowsUpdateUser ==
  ASSUME NEW u, NEW a, NEW t, NEW fa, NEW fo, NEW c, Rows(u, a, t, fa, fo, c),
         NEW i \in DOMAIN u, NEW v \in Vals, \A x \in DOMAIN u \ {i} : u[x] # v
  PROVE  Rows([u EXCEPT ![i] = v], a, t, fa, fo, c)
<1> DEFINE w == [u EXCEPT ![i] = v]
<1>1. /\ Table(w, Vals) /\ DOMAIN w = DOMAIN u /\ w[i] = v
      /\ \A x \in DOMAIN u \ {i} : w[x] = u[x]
  BY DEF Rows, Table
<1> HIDE DEF w
<1>2. Rows(w, a, t, fa, fo, c)
  BY <1>1 DEF Rows
<1> QED
  BY <1>2 DEF w

LEMMA RowsInsertArticle ==
  ASSUME NEW u, NEW a, NEW t, NEW fa, NEW fo, NEW c, Rows(u, a, t, fa, fo, c),
         NEW i \in Keys, NEW r \in Articles, r.author \in DOMAIN u, \A x \in DOMAIN a : a[x].slug # r.slug
  PROVE  Rows(u, With(a, i, r), t, fa, fo, c)
<1> DEFINE b == With(a, i, r)
<1>2. /\ Table(b, Articles) /\ DOMAIN b = DOMAIN a \cup {i}
      /\ \A x \in DOMAIN a : b[x] = a[x]
      /\ i \notin DOMAIN a => b[i] = r
  BY WithRow, SMTT(30) DEF Rows
<1> HIDE DEF b
<1>3. Rows(u, b, t, fa, fo, c)
  BY <1>2 DEF Rows
<1> QED
  BY <1>3 DEF b

LEMMA RowsUpdateArticle ==
  ASSUME NEW u, NEW a, NEW t, NEW fa, NEW fo, NEW c, Rows(u, a, t, fa, fo, c),
         NEW i \in DOMAIN a, NEW s \in Vals, \A x \in DOMAIN a \ {i} : a[x].slug # s
  PROVE  LET b == [a EXCEPT ![i].slug = s]
         IN /\ Rows(u, b, t, fa, fo, c) /\ DOMAIN b = DOMAIN a
            /\ \A x \in DOMAIN a \ {i} : b[x] = a[x]
<1> DEFINE r == [a[i] EXCEPT !.slug = s]
           b == [a EXCEPT ![i] = r]
<1>1. a[i] \in Articles
  BY DEF Rows, Table
<1>2. r \in Articles /\ r.slug = s /\ r.author = a[i].author
  BY <1>1 DEF Articles
<1> HIDE DEF r
<1>3. /\ Table(b, Articles) /\ DOMAIN b = DOMAIN a /\ b[i] = r
      /\ \A x \in DOMAIN a \ {i} : b[x] = a[x]
  BY <1>2 DEF Rows, Table
<1> HIDE DEF b
<1>4. Rows(u, b, t, fa, fo, c)
  BY <1>2, <1>3 DEF Rows
<1>5. b = [a EXCEPT ![i].slug = s]
  BY DEF b, r
<1> QED
  BY <1>3, <1>4, <1>5

LEMMA RowsInsertComment ==
  ASSUME NEW u, NEW a, NEW t, NEW fa, NEW fo, NEW c, Rows(u, a, t, fa, fo, c),
         NEW i \in Keys, NEW w \in DOMAIN u, w \in Nat, NEW x \in DOMAIN a \cup {None}, x \in Nat
  PROVE  LET e == With(c, i, [author |-> w, article |-> x])
         IN Rows(u, a, t, fa, fo, e) /\ DOMAIN c \subseteq DOMAIN e
<1> DEFINE r == [author |-> w, article |-> x]
           e == With(c, i, r)
<1>1. r \in Comments /\ r.author = w /\ r.article = x
  BY DEF Comments
<1> HIDE DEF r
<1>2. /\ Table(e, Comments) /\ DOMAIN e = DOMAIN c \cup {i}
      /\ \A y \in DOMAIN c : e[y] = c[y]
      /\ i \notin DOMAIN c => e[i] = r
  <2>1. Table(c, Comments)
    BY DEF Rows
  <2> QED
    BY ONLY <1>1, <2>1, i \in Keys, WithRow
<1> HIDE DEF e
<1>3. Rows(u, a, t, fa, fo, e)
  BY <1>1, <1>2 DEF Rows
<1> QED
  BY <1>2, <1>3 DEF e, r

LEMMA RowsDeleteComment ==
  ASSUME NEW u, NEW a, NEW t, NEW fa, NEW fo, NEW c, Rows(u, a, t, fa, fo, c),
         NEW S, S \subseteq DOMAIN c
  PROVE  Rows(u, a, t, fa, fo, Restrict(c, S)) /\ DOMAIN Restrict(c, S) = S
<1> DEFINE e == Restrict(c, S)
<1>1. Table(e, Comments) /\ DOMAIN e = S /\ \A x \in S : e[x] = c[x]
  BY FewerRows DEF Rows
<1> HIDE DEF e
<1>2. Rows(u, a, t, fa, fo, e)
  BY <1>1 DEF Rows
<1> QED
  BY <1>1, <1>2 DEF e

(* A database made of its tables and its sequences of ids.                 *)
DbOf(u, a, t, fa, fo, c, i, j, k) ==
  [users |-> u, articles |-> a, tags |-> t, favorites |-> fa, follows |-> fo, comments |-> c,
   next |-> [user |-> i, article |-> j, comment |-> k]]

RwDb(d) ==
  \E u, a, t, fa, fo, c : \E i, j, k \in Keys :
    d = DbOf(u, a, t, fa, fo, c, i, j, k) /\ Rows(u, a, t, fa, fo, c)

ReqType ==
  [op : DOMAIN Script \cup {"none"}, who : Nat, arg : Vals, pc : Keys, own : BOOLEAN,
   lent : BOOLEAN, found : Nat, owner : Nat, answer : {"none", "ok", "404", "409", "500", "gone"}]

(* A statement may set the locals of its handler, and skip to the end.     *)
SameCall(q, p) ==
  /\ p \in ReqType
  /\ p.op = q.op /\ p.who = q.who /\ p.own = q.own /\ p.lent = q.lent /\ p.answer = q.answer
  /\ p.pc = q.pc \/ p.pc = Len(Script[q.op])

(* What every statement leaves behind; `new` are the articles it may add.  *)
Sound(d, q, r, new) ==
  /\ RwDb(r.db)
  /\ Respects(q.who, d.articles, d.comments, r.db.articles, r.db.comments)
  /\ DOMAIN r.db.articles \subseteq DOMAIN d.articles \cup new
  /\ r.status \in {"ok", "404", "409", "500"}
  /\ SameCall(q, r.q)

Locals(q, f, o) == [q EXCEPT !.found = f, !.owner = o]

LEMMA SetLocals ==
  ASSUME NEW q \in ReqType, NEW f \in Nat, NEW o \in Nat
  PROVE  /\ SameCall(q, q) /\ SameCall(q, [q EXCEPT !.owner = o])
         /\ SameCall(q, Locals(q, f, o)) /\ Locals(q, f, o).found = f
BY DEF SameCall, ReqType, Locals

LEMMA SkipToEnd ==
  ASSUME NEW q \in ReqType, Len(Script[q.op]) \in Keys
  PROVE  SameCall(q, [q EXCEPT !.pc = Len(Script[q.op])])
<1> DEFINE n == Len(Script[q.op])
           p == [q EXCEPT !.pc = n]
<1> HIDE DEF n
<1>1. p \in ReqType /\ p.op = q.op /\ p.who = q.who /\ p.own = q.own /\ p.lent = q.lent
      /\ p.answer = q.answer /\ p.pc = n
  BY Len(Script[q.op]) \in Keys DEF ReqType, n
<1> QED
  BY <1>1 DEF SameCall, n

LEMMA Unchanged ==
  ASSUME NEW d, RwDb(d), NEW q, NEW p, SameCall(q, p), NEW new,
         NEW st \in {"ok", "404", "409", "500"}, NEW r, r.db = d, r.q = p, r.status = st
  PROVE  Sound(d, q, r, new)
BY DEF Sound, Respects

LEMMA Changed ==
  ASSUME NEW u, NEW a, NEW t, NEW fa, NEW fo, NEW c, NEW i, NEW j, NEW k,
         NEW u2, NEW a2, NEW t2, NEW fa2, NEW fo2, NEW c2, NEW i2 \in Keys, NEW j2 \in Keys,
         NEW k2 \in Keys, Rows(u2, a2, t2, fa2, fo2, c2),
         NEW d, d = DbOf(u, a, t, fa, fo, c, i, j, k),
         NEW r, r.db = DbOf(u2, a2, t2, fa2, fo2, c2, i2, j2, k2), r.status = "ok",
         NEW q, SameCall(q, r.q), Respects(q.who, a, c, a2, c2), NEW new,
         DOMAIN a2 \subseteq DOMAIN a \cup new
  PROVE  Sound(d, q, r, new)
<1>1. d.articles = a /\ d.comments = c /\ r.db.articles = a2 /\ r.db.comments = c2
  BY DEF DbOf
<1>2. RwDb(r.db)
  BY Zenon DEF RwDb
<1> QED
  BY <1>1, <1>2 DEF Sound

(* Adding nothing and taking nothing away respects everybody.              *)
LEMMA RespectsMore ==
  ASSUME NEW w, NEW a, NEW c, NEW b, NEW e, DOMAIN a \subseteq DOMAIN b, DOMAIN c \subseteq DOMAIN e,
         \A x \in DOMAIN a : b[x] = a[x]
  PROVE  Respects(w, a, c, b, e)
BY DEF Respects

(* An EXCEPT of several tables is one of each table after the other.       *)
SetUser(d, u2, n) ==
  [d EXCEPT !.users = u2, !.next.user = n]
SetArticle(d, a2, n) ==
  [d EXCEPT !.articles = a2, !.next.article = n]
SetComment(d, c2, n) ==
  [d EXCEPT !.comments = c2, !.next.comment = n]
SetAll(d, u2, a2, t2, fa2, fo2, c2) ==
  [d EXCEPT !.users = u2, !.articles = a2, !.tags = t2, !.favorites = fa2, 
     !.follows = fo2, !.comments = c2]
SetArticles(d, a2, t2, fa2, c2) ==
  [d EXCEPT !.articles = a2, !.tags = t2, !.favorites = fa2, !.comments = c2]

LEMMA DbSetUser ==
  ASSUME NEW u, NEW a, NEW t, NEW fa, NEW fo, NEW c, NEW i, NEW j, NEW k,
         NEW d, d = DbOf(u, a, t, fa, fo, c, i, j, k), NEW u2, NEW n
  PROVE  SetUser(d, u2, n) = DbOf(u2, a, t, fa, fo, c, n, j, k)
<1>1. SetUser(d, u2, n) = [[d EXCEPT !.users = u2] EXCEPT !.next.user = n]
  BY DEF SetUser
<1>2. [d EXCEPT !.users = u2] = DbOf(u2, a, t, fa, fo, c, i, j, k)
  BY DEF DbOf
<1>3. [DbOf(u2, a, t, fa, fo, c, i, j, k) EXCEPT !.next.user = n]
        = DbOf(u2, a, t, fa, fo, c, n, j, k)
  BY DEF DbOf
<1> QED
  BY <1>1, <1>2, <1>3, Zenon

LEMMA DbSetArticle ==
  ASSUME NEW u, NEW a, NEW t, NEW fa, NEW fo, NEW c, NEW i, NEW j, NEW k,
         NEW d, d = DbOf(u, a, t, fa, fo, c, i, j, k), NEW a2, NEW n
  PROVE  SetArticle(d, a2, n) = DbOf(u, a2, t, fa, fo, c, i, n, k)
<1>1. SetArticle(d, a2, n) = [[d EXCEPT !.articles = a2] EXCEPT !.next.article = n]
  BY DEF SetArticle
<1>2. [d EXCEPT !.articles = a2] = DbOf(u, a2, t, fa, fo, c, i, j, k)
  BY DEF DbOf
<1>3. [DbOf(u, a2, t, fa, fo, c, i, j, k) EXCEPT !.next.article = n]
        = DbOf(u, a2, t, fa, fo, c, i, n, k)
  BY DEF DbOf
<1> QED
  BY <1>1, <1>2, <1>3, Zenon

LEMMA DbSetComment ==
  ASSUME NEW u, NEW a, NEW t, NEW fa, NEW fo, NEW c, NEW i, NEW j, NEW k,
         NEW d, d = DbOf(u, a, t, fa, fo, c, i, j, k), NEW c2, NEW n
  PROVE  SetComment(d, c2, n) = DbOf(u, a, t, fa, fo, c2, i, j, n)
<1>1. SetComment(d, c2, n) = [[d EXCEPT !.comments = c2] EXCEPT !.next.comment = n]
  BY DEF SetComment
<1>2. [d EXCEPT !.comments = c2] = DbOf(u, a, t, fa, fo, c2, i, j, k)
  BY DEF DbOf
<1>3. [DbOf(u, a, t, fa, fo, c2, i, j, k) EXCEPT !.next.comment = n]
        = DbOf(u, a, t, fa, fo, c2, i, j, n)
  BY DEF DbOf
<1> QED
  BY <1>1, <1>2, <1>3, Zenon

LEMMA DbSetAll ==
  ASSUME NEW u, NEW a, NEW t, NEW fa, NEW fo, NEW c, NEW i, NEW j, NEW k,
         NEW d, d = DbOf(u, a, t, fa, fo, c, i, j, k), NEW u2, NEW a2, NEW t2, NEW fa2, NEW fo2, NEW c2
  PROVE  SetAll(d, u2, a2, t2, fa2, fo2, c2) = DbOf(u2, a2, t2, fa2, fo2, c2, i, j, k)
<1>1. SetAll(d, u2, a2, t2, fa2, fo2, c2) = [[[[[[d EXCEPT !.users = u2] EXCEPT !.articles = a2] EXCEPT !.tags = t2]
                EXCEPT !.favorites = fa2] EXCEPT !.follows = fo2] EXCEPT !.comments =
                c2]
  BY DEF SetAll
<1>2. [d EXCEPT !.users = u2] = DbOf(u2, a, t, fa, fo, c, i, j, k)
  BY DEF DbOf
<1>3. [DbOf(u2, a, t, fa, fo, c, i, j, k) EXCEPT !.articles = a2]
        = DbOf(u2, a2, t, fa, fo, c, i, j, k)
  BY DEF DbOf
<1>4. [DbOf(u2, a2, t, fa, fo, c, i, j, k) EXCEPT !.tags = t2]
        = DbOf(u2, a2, t2, fa, fo, c, i, j, k)
  BY DEF DbOf
<1>a. [[[d EXCEPT !.users = u2] EXCEPT !.articles = a2] EXCEPT !.tags = t2]
        = DbOf(u2, a2, t2, fa, fo, c, i, j, k)
  BY <1>2, <1>3, <1>4, Zenon
<1>5. [DbOf(u2, a2, t2, fa, fo, c, i, j, k) EXCEPT !.favorites = fa2]
        = DbOf(u2, a2, t2, fa2, fo, c, i, j, k)
  BY DEF DbOf
<1>6. [DbOf(u2, a2, t2, fa2, fo, c, i, j, k) EXCEPT !.follows = fo2]
        = DbOf(u2, a2, t2, fa2, fo2, c, i, j, k)
  BY DEF DbOf
<1>7. [DbOf(u2, a2, t2, fa2, fo2, c, i, j, k) EXCEPT !.comments = c2]
        = DbOf(u2, a2, t2, fa2, fo2, c2, i, j, k)
  BY DEF DbOf
<1> QED
  BY <1>1, <1>a, <1>5, <1>6, <1>7, Zenon

LEMMA DbSetArticles ==
  ASSUME NEW u, NEW a, NEW t, NEW fa, NEW fo, NEW c, NEW i, NEW j, NEW k,
         NEW d, d = DbOf(u, a, t, fa, fo, c, i, j, k), NEW a2, NEW t2, NEW fa2, NEW c2
  PROVE  SetArticles(d, a2, t2, fa2, c2) = DbOf(u, a2, t2, fa2, fo, c2, i, j, k)
<1>1. SetArticles(d, a2, t2, fa2, c2) = [[[[d EXCEPT !.articles = a2] EXCEPT !.tags = t2] EXCEPT !.favorites = fa2]
                EXCEPT !.comments = c2]
  BY DEF SetArticles
<1>2. [d EXCEPT !.articles = a2] = DbOf(u, a2, t, fa, fo, c, i, j, k)
  BY DEF DbOf
<1>3. [DbOf(u, a2, t, fa, fo, c, i, j, k) EXCEPT !.tags = t2]
        = DbOf(u, a2, t2, fa, fo, c, i, j, k)
  BY DEF DbOf
<1>4. [DbOf(u, a2, t2, fa, fo, c, i, j, k) EXCEPT !.favorites = fa2]
        = DbOf(u, a2, t2, fa2, fo, c, i, j, k)
  BY DEF DbOf
<1>5. [DbOf(u, a2, t2, fa2, fo, c, i, j, k) EXCEPT !.comments = c2]
        = DbOf(u, a2, t2, fa2, fo, c2, i, j, k)
  BY DEF DbOf
<1> QED
  BY <1>1, <1>2, <1>3, <1>4, <1>5, Zenon

(* Every statement of every handler.                                       *)
LEMMA UserStatements ==
  ASSUME NEW d, RwDb(d), NEW q \in ReqType
  PROVE  /\ Sound(d, q, insert_user(d, q), {}) /\ Sound(d, q, update_user(d, q), {})
         /\ Sound(d, q, delete_user(d, q), {}) /\ Sound(d, q, find_user(d, q), {})
         /\ Sound(d, q, follow_user(d, q), {})
         /\ \A id : Sound(d, q, find_user_by_id(d, q, id), {})
         /\ Sound(d, q, Ok([d EXCEPT !.follows = @ \ {<<q.who, q.owner>>}], q), {})
<1>1. PICK u, a, t, fa, fo, c : \E i, j, k \in Keys :
        d = DbOf(u, a, t, fa, fo, c, i, j, k) /\ Rows(u, a, t, fa, fo, c)
  BY DEF RwDb
<1>2. PICK i \in Keys, j \in Keys, k \in Keys : d = DbOf(u, a, t, fa, fo, c, i, j, k)
  BY <1>1
<1>r. Rows(u, a, t, fa, fo, c)
  BY <1>1
<1>d. /\ d.users = u /\ d.articles = a /\ d.tags = t /\ d.favorites = fa /\ d.follows = fo
      /\ d.comments = c /\ d.next.user = i /\ d.next.article = j /\ d.next.comment = k
  BY <1>2 DEF DbOf
<1>q. SameCall(q, q) /\ q.arg \in Vals /\ q.who \in Nat
  BY SetLocals DEF ReqType
<1>k. i + 1 \in Keys /\ i \in Nat
  BY DEF Keys
<1>s. \A w : Respects(w, a, c, a, c)
  BY RespectsMore
<1>n. None \notin DOMAIN u /\ None \notin DOMAIN a /\ DOMAIN u \subseteq Nat
  BY <1>r DEF Rows, Table, Keys, None
<1>f. ASSUME NEW st \in {"404", "409", "500"} PROVE Sound(d, q, Refused(d, q, st), {})
  BY <1>q, Unchanged DEF Refused
<1>3. Sound(d, q, insert_user(d, q), {})
  <2>1. CASE NameTaken(d, q.arg, None)
    BY <1>f, <2>1 DEF insert_user
  <2>2. CASE ~NameTaken(d, q.arg, None)
    <3> DEFINE e == [d EXCEPT !.users = With(@, d.next.user, q.arg), !.next.user = @ + 1]
               p == [q EXCEPT !.owner = d.next.user]
    <3>1. insert_user(d, q) = Ok(e, p)
      BY <2>2 DEF insert_user
    <3>a. e = SetUser(d, With(u, i, q.arg), i + 1)
      BY <1>d, Zenon DEF SetUser
    <3>2. e = DbOf(With(u, i, q.arg), a, t, fa, fo, c, i + 1, j, k)
      BY <1>2, <3>a, DbSetUser
    <3>3. SameCall(q, p)
      BY <1>d, <1>k, SetLocals
    <3>4. \A x \in DOMAIN u : u[x] # q.arg
      BY <1>d, <1>n, <2>2 DEF NameTaken
    <3>5. Rows(With(u, i, q.arg), a, t, fa, fo, c)
      BY <1>r, <1>q, <3>4, RowsInsertUser
    <3> HIDE DEF e, p
    <3>6. /\ insert_user(d, q).db = e /\ insert_user(d, q).q = p /\ insert_user(d, q).status = "ok"
      BY <3>1 DEF Ok
    <3> QED
      BY <1>2, <1>k, <1>s, <3>2, <3>3, <3>5, <3>6, Changed
  <2> QED
    BY <2>1, <2>2
<1>4. Sound(d, q, update_user(d, q), {})
  <2>1. CASE q.who \notin DOMAIN d.users \/ NameTaken(d, q.arg, q.who)
    BY <1>f, <2>1 DEF update_user
  <2>2. CASE ~(q.who \notin DOMAIN d.users \/ NameTaken(d, q.arg, q.who))
    <3> DEFINE e == [d EXCEPT !.users[q.who] = q.arg]
    <3>1. update_user(d, q) = Ok(e, q)
      BY <2>2 DEF update_user
    <3>2. e = DbOf([u EXCEPT ![q.who] = q.arg], a, t, fa, fo, c, i, j, k)
      BY <1>2 DEF DbOf
    <3>3. q.who \in DOMAIN u /\ \A x \in DOMAIN u \ {q.who} : u[x] # q.arg
      BY <1>d, <2>2 DEF NameTaken
    <3>4. Rows([u EXCEPT ![q.who] = q.arg], a, t, fa, fo, c)
      BY <1>r, <1>q, <3>3, RowsUpdateUser
    <3> HIDE DEF e
    <3>5. update_user(d, q).db = e /\ update_user(d, q).q = q /\ update_user(d, q).status = "ok"
      BY <3>1 DEF Ok
    <3> QED
      BY <1>2, <1>q, <1>s, <3>2, <3>4, <3>5, Changed
  <2> QED
    BY <2>1, <2>2
<1>5. Sound(d, q, delete_user(d, q), {})
  <2>1. CASE q.who \notin DOMAIN d.users
    BY <1>f, <2>1 DEF delete_user
  <2>2. CASE q.who \in DOMAIN d.users
    <3> DEFINE gone == {x \in DOMAIN d.articles : d.articles[x].author = q.who}
               names == Restrict(d.users, DOMAIN d.users \ {q.who})
               arts == Restrict(d.articles, DOMAIN d.articles \ gone)
               tags == {x \in d.tags : x[1] \notin gone}
               favs == {f \in d.favorites : f[1] # q.who /\ f[2] \notin gone}
               folw == {f \in d.follows : q.who \notin {f[1], f[2]}}
               left == {x \in DOMAIN d.comments :
                          d.comments[x].author # q.who /\ d.comments[x].article \notin gone}
               e == SetAll(d, names, arts, tags, favs, folw, Restrict(d.comments, left))
    <3>1. delete_user(d, q) = Ok(e, q)
      BY <2>2 DEF delete_user, SetAll
    <3>2. /\ Rows(names, arts, tags, favs, folw, Restrict(d.comments, left))
          /\ Respects(q.who, a, c, arts, Restrict(d.comments, left))
          /\ DOMAIN arts \subseteq DOMAIN a
      <4> DEFINE coms == Restrict(d.comments, left)
      <4>r. Rows(d.users, d.articles, d.tags, d.favorites, d.follows, d.comments)
        BY <1>r, <1>d
      <4>1. /\ Table(names, Vals) /\ DOMAIN names = DOMAIN d.users \ {q.who}
            /\ \A x \in DOMAIN names : names[x] = d.users[x]
        BY <4>r, FewerRows DEF Rows
      <4>2. /\ Table(arts, Articles) /\ DOMAIN arts = DOMAIN d.articles \ gone
            /\ \A x \in DOMAIN arts : arts[x] = d.articles[x]
        BY <4>r, FewerRows DEF Rows
      <4>3. /\ Table(coms, Comments) /\ DOMAIN coms = left
            /\ \A x \in DOMAIN coms : coms[x] = d.comments[x]
        BY <4>r, FewerRows, SMTT(30) DEF Rows
      <4> HIDE DEF names, arts, coms
      <4>4. Rows(names, arts, tags, favs, folw, coms)
        BY <4>r, <4>1, <4>2, <4>3 DEF Rows
      <4>5. Respects(q.who, d.articles, d.comments, arts, coms) /\ DOMAIN arts \subseteq DOMAIN d.articles
        BY <4>2, <4>3 DEF Respects
      <4> QED
        BY <1>d, <4>4, <4>5 DEF coms
    <3> HIDE DEF gone, left, names, arts, tags, favs, folw
    <3>3. e = DbOf(names, arts, tags, favs, folw, Restrict(d.comments, left), i, j, k)
      BY <1>2, DbSetAll
    <3> HIDE DEF e
    <3>4. delete_user(d, q).db = e /\ delete_user(d, q).q = q /\ delete_user(d, q).status = "ok"
      BY <3>1 DEF Ok
    <3> QED
      BY <1>2, <1>q, <3>2, <3>3, <3>4, Changed
  <2> QED
    BY <2>1, <2>2
<1>6. Sound(d, q, find_user(d, q), {})
  <2> DEFINE S == {x \in DOMAIN d.users : d.users[x] = q.arg}
             v == CHOOSE x \in S : TRUE
  <2>1. CASE S = {}
    BY <1>f, <2>1 DEF find_user
  <2>2. CASE S # {}
    <3>1. find_user(d, q) = Ok(d, [q EXCEPT !.owner = v])
      BY <2>2 DEF find_user
    <3>2. v \in Nat
      BY <1>d, <1>n, <2>2
    <3> HIDE DEF v
    <3>3. SameCall(q, [q EXCEPT !.owner = v])
      BY <3>2, SetLocals
    <3> QED
      BY <3>1, <3>3, Unchanged DEF Ok
  <2> QED
    BY <2>1, <2>2
<1>7. Sound(d, q, follow_user(d, q), {})
  <2>1. CASE ~(Exists(d, q.who, None) /\ Exists(d, q.owner, None))
    BY <1>f, <2>1 DEF follow_user
  <2>2. CASE Exists(d, q.who, None) /\ Exists(d, q.owner, None)
    <3> DEFINE g == fo \cup {<<q.who, q.owner>>}
               e == DbOf(u, a, t, fa, g, c, i, j, k)
    <3>1. follow_user(d, q) = Ok(e, q)
      BY <1>2, <2>2 DEF follow_user, DbOf
    <3>2. Rows(u, a, t, fa, g, c)
      BY <1>r, <1>d, <2>2 DEF Rows, Exists
    <3>3. follow_user(d, q).db = e /\ follow_user(d, q).q = q /\ follow_user(d, q).status = "ok"
      BY <3>1 DEF Ok
    <3> QED
      BY <1>2, <1>q, <1>s, <3>2, <3>3, Changed
  <2> QED
    BY <2>1, <2>2
<1>8. \A id : Sound(d, q, find_user_by_id(d, q, id), {})
  BY <1>f, <1>q, Unchanged DEF find_user_by_id, Ok
<1>9. Sound(d, q, Ok([d EXCEPT !.follows = @ \ {<<q.who, q.owner>>}], q), {})
  <2> DEFINE g == fo \ {<<q.who, q.owner>>}
             r == Ok([d EXCEPT !.follows = @ \ {<<q.who, q.owner>>}], q)
  <2>1. r.db = DbOf(u, a, t, fa, g, c, i, j, k) /\ r.q = q /\ r.status = "ok"
    BY <1>2 DEF DbOf, Ok
  <2>2. Rows(u, a, t, fa, g, c)
    BY <1>r DEF Rows
  <2> QED
    BY <1>2, <1>q, <1>s, <2>1, <2>2, Changed
<1> QED
  BY <1>3, <1>4, <1>5, <1>6, <1>7, <1>8, <1>9

LEMMA ArticleStatements ==
  ASSUME NEW d, RwDb(d), NEW q \in ReqType, Len(Script[q.op]) \in Keys
  PROVE  /\ Sound(d, q, select_article(d, q), {})
         /\ LET r == insert_article(d, q)
            IN Sound(d, q, r, IF r.status = "ok" THEN {r.q.found} ELSE {})
         /\ Sound(d, q, insert_tag(d, q), {})
         /\ \A s \in Vals : Sound(d, q, update_article(d, q, s), {})
         /\ Sound(d, q, delete_article(d, q), {}) /\ Sound(d, q, insert_favorite(d, q), {})
         /\ Sound(d, q, insert_comment(d, q), {}) /\ Sound(d, q, delete_comment(d, q), {})
         /\ Sound(d, q, select_comments(d, q), {})
         /\ Sound(d, q, Ok([d EXCEPT !.favorites = @ \ {<<q.who, q.found>>}], q), {})
<1>1. PICK u, a, t, fa, fo, c : \E i, j, k \in Keys :
        d = DbOf(u, a, t, fa, fo, c, i, j, k) /\ Rows(u, a, t, fa, fo, c)
  BY DEF RwDb
<1>2. PICK i \in Keys, j \in Keys, k \in Keys : d = DbOf(u, a, t, fa, fo, c, i, j, k)
  BY <1>1
<1>r. Rows(u, a, t, fa, fo, c)
  BY <1>1
<1>d. /\ d.users = u /\ d.articles = a /\ d.tags = t /\ d.favorites = fa /\ d.follows = fo
      /\ d.comments = c /\ d.next.user = i /\ d.next.article = j /\ d.next.comment = k
  BY <1>2 DEF DbOf
<1>q. SameCall(q, q) /\ q.arg \in Vals /\ q.who \in Nat /\ q.found \in Nat
  BY SetLocals DEF ReqType
<1>k. j + 1 \in Keys /\ j \in Nat /\ k + 1 \in Keys
  BY DEF Keys
<1>s. \A w : Respects(w, a, c, a, c)
  BY RespectsMore
<1>n. /\ None \notin DOMAIN u /\ None \notin DOMAIN a /\ DOMAIN a \subseteq Nat
      /\ \A x \in DOMAIN a : a[x] \in Articles /\ a[x].author \in Nat
      /\ \A x \in DOMAIN c : c[x].author \in Nat
  BY <1>r DEF Rows, Table, Keys, None, Articles, Comments
<1>f. ASSUME NEW st \in {"404", "409", "500"}, NEW new PROVE Sound(d, q, Refused(d, q, st), new)
  BY <1>q, Unchanged DEF Refused
<1>3. Sound(d, q, select_article(d, q), {})
  <2> DEFINE v == CHOOSE x \in BySlugId(d, q.arg) : TRUE
  <2>1. CASE BySlugId(d, q.arg) = {}
    BY <1>f, <2>1 DEF select_article
  <2>2. CASE BySlugId(d, q.arg) # {}
    <3>1. select_article(d, q) = Ok(d, Locals(q, v, d.articles[v].author))
      BY <2>2 DEF select_article, Locals
    <3>2. v \in DOMAIN a
      BY <1>d, <2>2 DEF BySlugId
    <3> HIDE DEF v
    <3>3. SameCall(q, Locals(q, v, d.articles[v].author))
      BY <1>d, <1>n, <3>2, SetLocals
    <3> QED
      BY <3>1, <3>3, Unchanged DEF Ok
  <2> QED
    BY <2>1, <2>2
<1>4. LET r == insert_article(d, q)
      IN Sound(d, q, r, IF r.status = "ok" THEN {r.q.found} ELSE {})
  <2> DEFINE r == insert_article(d, q)
  <2>1. CASE SlugTaken(d, q.arg, None) \/ ~Exists(d, q.who, None)
    BY <1>f, <2>1 DEF insert_article
  <2>2. CASE ~SlugTaken(d, q.arg, None) /\ Exists(d, q.who, None)
    <3> DEFINE b == With(a, j, [slug |-> q.arg, author |-> q.who])
               e == SetArticle(d, b, j + 1)
               p == Locals(q, d.next.article, q.who)
    <3>1. r = Ok(e, p)
      BY <1>d, <2>2 DEF insert_article, SetArticle, Locals
    <3>2. e = DbOf(u, b, t, fa, fo, c, i, j + 1, k)
      BY <1>2, DbSetArticle
    <3>3. SameCall(q, p) /\ p.found = j
      <4>1. d.next.article \in Nat
        BY <1>d, <1>k
      <4>2. SameCall(q, p) /\ p.found = d.next.article
        BY <1>q, <4>1, SetLocals
      <4> QED
        BY <1>d, <4>2
    <3>4. \A x \in DOMAIN a : a[x].slug # q.arg
      BY <1>d, <1>n, <2>2 DEF SlugTaken
    <3>5. q.who \in DOMAIN u
      BY <1>d, <2>2 DEF Exists
    <3>6. Rows(u, b, t, fa, fo, c) /\ DOMAIN b = DOMAIN a \cup {j} /\ \A x \in DOMAIN a : b[x] = a[x]
      <4> DEFINE row == [slug |-> q.arg, author |-> q.who]
      <4>1. row \in Articles /\ row.slug = q.arg /\ row.author = q.who
        BY <1>q DEF Articles
      <4> HIDE DEF row
      <4>2. row.author \in DOMAIN u /\ \A x \in DOMAIN a : a[x].slug # row.slug
        BY <3>4, <3>5, <4>1
      <4>3. Rows(u, With(a, j, row), t, fa, fo, c)
        BY <1>r, <4>1, <4>2, RowsInsertArticle
      <4>4. /\ DOMAIN With(a, j, row) = DOMAIN a \cup {j}
            /\ \A x \in DOMAIN a : With(a, j, row)[x] = a[x]
        BY DEF With
      <4> QED
        BY <4>3, <4>4 DEF row
    <3> HIDE DEF b, e, p
    <3>7. r.db = e /\ r.q = p /\ r.status = "ok"
      BY <3>1 DEF Ok
    <3> HIDE DEF r
    <3>8. Respects(q.who, a, c, b, c)
      BY <3>6, RespectsMore
    <3>9. Sound(d, q, r, {r.q.found})
      <4> DEFINE new == {r.q.found}
      <4>1. SameCall(q, r.q) /\ DOMAIN b \subseteq DOMAIN a \cup new
        BY <3>3, <3>6, <3>7
      <4>2. r.db = DbOf(u, b, t, fa, fo, c, i, j + 1, k)
        BY <3>2, <3>7
      <4> HIDE DEF new
      <4>3. Sound(d, q, r, new)
        BY <1>2, <1>k, <3>6, <3>7, <3>8, <4>1, <4>2, Changed
      <4> QED
        BY <4>3 DEF new
    <3> QED
      BY <3>7, <3>9 DEF r
  <2> QED
    BY <2>1, <2>2
<1>5. Sound(d, q, insert_tag(d, q), {})
  <2> DEFINE rest == {x \in TagNames : <<q.found, x>> \notin d.tags}
             tag == CHOOSE x \in rest : TRUE
             g == t \cup {<<q.found, tag>>}
             e == DbOf(u, a, g, fa, fo, c, i, j, k)
  <2>1. CASE q.found \notin DOMAIN d.articles
    BY <1>f, <2>1 DEF insert_tag
  <2>2. CASE q.found \in DOMAIN d.articles /\ rest = {}
    BY <1>q, <2>2, Unchanged DEF insert_tag, Ok
  <2>3. CASE q.found \in DOMAIN d.articles /\ rest # {}
    <3>1. insert_tag(d, q) = Ok([d EXCEPT !.tags = @ \cup {<<q.found, tag>>}], q)
      BY <2>3 DEF insert_tag
    <3>2. Rows(u, a, g, fa, fo, c)
      BY <1>r, <1>d, <2>3 DEF Rows
    <3>a. d.tags \cup {<<q.found, tag>>} = g
      BY <1>d
    <3> HIDE DEF rest, tag, g
    <3>b. [d EXCEPT !.tags = g] = e
      BY <1>2 DEF DbOf
    <3> HIDE DEF e
    <3>3. [d EXCEPT !.tags = @ \cup {<<q.found, tag>>}] = e
      BY <3>a, <3>b
    <3>4. insert_tag(d, q).db = e /\ insert_tag(d, q).q = q /\ insert_tag(d, q).status = "ok"
      BY <3>1, <3>3 DEF Ok
    <3> QED
      BY <1>2, <1>q, <1>s, <3>2, <3>4, Changed DEF e
  <2> QED
    BY <2>1, <2>2, <2>3
<1>6. ASSUME NEW s \in Vals PROVE Sound(d, q, update_article(d, q, s), {})
  <2> DEFINE v == CHOOSE x \in Mine(d, q) : TRUE
             r == update_article(d, q, s)
  <2>1. CASE Mine(d, q) = {} \/ SlugTaken(d, s, v)
    BY <1>f, <2>1 DEF update_article
  <2>2. CASE Mine(d, q) # {} /\ ~SlugTaken(d, s, v)
    <3> DEFINE b == [a EXCEPT ![v].slug = s]
               e == DbOf(u, b, t, fa, fo, c, i, j, k)
               p == Locals(q, v, d.articles[v].author)
    <3>1. r = Ok([d EXCEPT !.articles[v].slug = s], p)
      BY <2>2 DEF update_article, Locals
    <3>2. v \in DOMAIN a /\ a[v].author = q.who /\ \A x \in DOMAIN a \ {v} : a[x].slug # s
      BY <1>d, <2>2 DEF Mine, BySlugId, SlugTaken
    <3> HIDE DEF v
    <3>3. SameCall(q, p)
      BY <1>d, <1>n, <3>2, SetLocals
    <3>4. [d EXCEPT !.articles[v].slug = s] = e
      BY <1>2 DEF DbOf
    <3>5. Rows(u, b, t, fa, fo, c) /\ DOMAIN b = DOMAIN a /\ \A x \in DOMAIN a \ {v} : b[x] = a[x]
      BY <1>r, <3>2, RowsUpdateArticle
    <3> HIDE DEF b, e, p
    <3>6. r.db = e /\ r.q = p /\ r.status = "ok"
      BY <3>1, <3>4 DEF Ok
    <3>7. Respects(q.who, a, c, b, c)
      BY <3>2, <3>5 DEF Respects
    <3>8. SameCall(q, r.q) /\ DOMAIN b \subseteq DOMAIN a \cup {}
      BY <3>3, <3>5, <3>6
    <3> HIDE DEF r
    <3>9. Sound(d, q, r, {})
      BY <1>2, <3>5, <3>6, <3>7, <3>8, Changed DEF e
    <3> QED
      BY <3>9 DEF r
  <2> QED
    BY <2>1, <2>2
<1>7. Sound(d, q, delete_article(d, q), {})
  <2> DEFINE gone == Mine(d, q)
  <2>1. CASE gone = {}
    BY <1>f, <2>1 DEF delete_article
  <2>2. CASE gone # {}
    <3> DEFINE arts == Restrict(d.articles, DOMAIN d.articles \ gone)
               tags == {x \in d.tags : x[1] \notin gone}
               favs == {f \in d.favorites : f[2] \notin gone}
               left == {x \in DOMAIN d.comments : d.comments[x].article \notin gone}
               coms == Restrict(d.comments, left)
               e == SetArticles(d, arts, tags, favs, coms)
    <3>1. delete_article(d, q) = Ok(e, q)
      BY <2>2 DEF delete_article, SetArticles
    <3>g. gone \subseteq DOMAIN d.articles /\ None \notin gone /\ \A x \in gone : d.articles[x].author = q.who
      BY <1>d, <1>n DEF Mine, BySlugId
    <3>r. Rows(d.users, d.articles, d.tags, d.favorites, d.follows, d.comments)
      BY <1>r, <1>d
    <3> HIDE DEF gone
    <3>2. /\ Table(arts, Articles) /\ DOMAIN arts = DOMAIN d.articles \ gone
          /\ \A x \in DOMAIN arts : arts[x] = d.articles[x]
      BY <3>r, FewerRows DEF Rows
    <3>3. /\ Table(coms, Comments) /\ DOMAIN coms = left
          /\ \A x \in DOMAIN coms : coms[x] = d.comments[x]
      BY <3>r, FewerRows DEF Rows
    <3> HIDE DEF arts, coms
    <3>4. Rows(d.users, arts, tags, favs, d.follows, coms)
      BY <3>r, <3>g, <3>2, <3>3 DEF Rows
    <3>5. Respects(q.who, d.articles, d.comments, arts, coms) /\ DOMAIN arts \subseteq DOMAIN d.articles
      BY <3>g, <3>2, <3>3 DEF Respects
    <3> HIDE DEF left, tags, favs
    <3>6. e = DbOf(u, arts, tags, favs, fo, coms, i, j, k)
      BY <1>2, DbSetArticles
    <3> HIDE DEF e
    <3>7. /\ delete_article(d, q).db = e /\ delete_article(d, q).q = q
          /\ delete_article(d, q).status = "ok"
      BY <3>1 DEF Ok
    <3> QED
      BY <1>2, <1>d, <1>q, <3>4, <3>5, <3>6, <3>7, Changed
  <2> QED
    BY <2>1, <2>2
<1>8. Sound(d, q, insert_favorite(d, q), {})
  <2>1. CASE ~Exists(d, q.who, q.found)
    BY <1>f, <2>1 DEF insert_favorite
  <2>2. CASE Exists(d, q.who, q.found)
    <3> DEFINE g == fa \cup {<<q.who, q.found>>}
               e == DbOf(u, a, t, g, fo, c, i, j, k)
    <3>1. insert_favorite(d, q) = Ok(e, q)
      <4>a. d.favorites \cup {<<q.who, q.found>>} = g
        BY <1>d
      <4> HIDE DEF g
      <4>b. [d EXCEPT !.favorites = g] = e
        BY <1>2 DEF DbOf
      <4> QED
        BY <2>2, <4>a, <4>b DEF insert_favorite
    <3>2. Rows(u, a, t, g, fo, c)
      BY <1>r, <1>d, <2>2 DEF Rows, Exists
    <3>3. /\ insert_favorite(d, q).db = e /\ insert_favorite(d, q).q = q
          /\ insert_favorite(d, q).status = "ok"
      BY <3>1 DEF Ok
    <3> QED
      BY <1>2, <1>q, <1>s, <3>2, <3>3, Changed
  <2> QED
    BY <2>1, <2>2
<1>9. Sound(d, q, insert_comment(d, q), {})
  <2>1. CASE ~Exists(d, q.who, q.found)
    BY <1>f, <2>1 DEF insert_comment
  <2>2. CASE Exists(d, q.who, q.found)
    <3> DEFINE b == With(c, k, [author |-> q.who, article |-> q.found])
               e == SetComment(d, b, k + 1)
    <3>1. insert_comment(d, q) = Ok(e, q)
      BY <1>d, <2>2 DEF insert_comment, SetComment
    <3>2. e = DbOf(u, a, t, fa, fo, b, i, j, k + 1)
      BY <1>2, DbSetComment
    <3>3. q.who \in DOMAIN u /\ q.found \in DOMAIN a \cup {None}
      BY <1>d, <2>2 DEF Exists
    <3>4. Rows(u, a, t, fa, fo, b) /\ DOMAIN c \subseteq DOMAIN b
      BY <1>r, <1>q, <3>3, RowsInsertComment
    <3> HIDE DEF b, e
    <3>5. /\ insert_comment(d, q).db = e /\ insert_comment(d, q).q = q
          /\ insert_comment(d, q).status = "ok"
      BY <3>1 DEF Ok
    <3>6. Respects(q.who, a, c, a, b)
      BY <3>4, RespectsMore
    <3> QED
      BY <1>2, <1>q, <1>k, <3>2, <3>4, <3>5, <3>6, Changed
  <2> QED
    BY <2>1, <2>2
<1>10. Sound(d, q, delete_comment(d, q), {})
  <2>1. CASE ~(q.arg \in DOMAIN d.comments /\ d.comments[q.arg].author = q.who)
    BY <1>f, <2>1 DEF delete_comment
  <2>2. CASE q.arg \in DOMAIN d.comments /\ d.comments[q.arg].author = q.who
    <3> DEFINE b == Restrict(c, DOMAIN c \ {q.arg})
               e == DbOf(u, a, t, fa, fo, b, i, j, k)
    <3>1. delete_comment(d, q) = Ok(e, q)
      BY <1>2, <2>2 DEF delete_comment, DbOf
    <3>2. Rows(u, a, t, fa, fo, b) /\ DOMAIN b = DOMAIN c \ {q.arg}
      BY <1>r, RowsDeleteComment
    <3> HIDE DEF b
    <3>3. Respects(q.who, a, c, a, b)
      BY <1>d, <2>2, <3>2 DEF Respects
    <3>4. /\ delete_comment(d, q).db = e /\ delete_comment(d, q).q = q
          /\ delete_comment(d, q).status = "ok"
      BY <3>1 DEF Ok
    <3> QED
      BY <1>2, <1>q, <3>2, <3>3, <3>4, Changed
  <2> QED
    BY <2>1, <2>2
<1>11. Sound(d, q, select_comments(d, q), {})
  <2> DEFINE S == {d.comments[x].author : x \in {y \in DOMAIN d.comments :
                                                   d.comments[y].article = q.found}}
             v == CHOOSE x \in S : TRUE
  <2>1. CASE S = {}
    <3> DEFINE p == [q EXCEPT !.pc = Len(Script[q.op])]
    <3>1. select_comments(d, q) = Ok(d, p)
      BY <2>1 DEF select_comments
    <3>2. SameCall(q, p)
      BY SkipToEnd
    <3> HIDE DEF p
    <3> QED
      BY <3>1, <3>2, Unchanged DEF Ok
  <2>2. CASE S # {}
    <3>1. select_comments(d, q) = Ok(d, [q EXCEPT !.owner = v])
      BY <2>2 DEF select_comments
    <3>2. v \in Nat
      BY <1>d, <1>n, <2>2
    <3> HIDE DEF v
    <3>3. SameCall(q, [q EXCEPT !.owner = v])
      BY <3>2, SetLocals
    <3> QED
      BY <3>1, <3>3, Unchanged DEF Ok
  <2> QED
    BY <2>1, <2>2
<1>12. Sound(d, q, Ok([d EXCEPT !.favorites = @ \ {<<q.who, q.found>>}], q), {})
  <2> DEFINE g == fa \ {<<q.who, q.found>>}
             r == Ok([d EXCEPT !.favorites = @ \ {<<q.who, q.found>>}], q)
  <2>1. r.db = DbOf(u, a, t, g, fo, c, i, j, k) /\ r.q = q /\ r.status = "ok"
    BY <1>2 DEF DbOf, Ok
  <2>2. Rows(u, a, t, g, fo, c)
    BY <1>r DEF Rows
  <2> QED
    BY <1>2, <1>q, <1>s, <2>1, <2>2, Changed
<1> QED
  BY <1>3, <1>4, <1>5, <1>6, <1>7, <1>8, <1>9, <1>10, <1>11, <1>12

(* What Execute does, whatever the statement.                              *)
Added(sql, r) == IF sql = "insert_article" /\ r.status = "ok" THEN {r.q.found} ELSE {}

LEMMA ExecuteIsSound ==
  ASSUME NEW d, RwDb(d), NEW q \in ReqType, Len(Script[q.op]) \in Keys, NEW s \in Vals, NEW sql
  PROVE  LET r == Execute(sql, d, q, s) IN Sound(d, q, r, Added(sql, r))
<1> DEFINE r == Execute(sql, d, q, s)
<1>1. CASE sql \in {"insert_user", "update_user", "select_self", "find_self", "find_author",
                    "comment_author", "delete_user", "find_user", "insert_follow"}
  <2>1. Sound(d, q, r, {})
    <3>1. /\ Sound(d, q, insert_user(d, q), {}) /\ Sound(d, q, update_user(d, q), {})
          /\ Sound(d, q, delete_user(d, q), {}) /\ Sound(d, q, find_user(d, q), {})
          /\ Sound(d, q, follow_user(d, q), {})
          /\ \A id : Sound(d, q, find_user_by_id(d, q, id), {})
      BY UserStatements
    <3> QED
      BY <1>1, <3>1 DEF Execute
  <2> QED
    BY <1>1, <2>1 DEF Added
<1>2. CASE sql \in {"select_article", "insert_tag", "update_article", "delete_article",
                    "insert_favorite", "insert_comment", "delete_comment", "select_comments"}
  <2>1. Sound(d, q, r, {})
    <3>1. /\ Sound(d, q, select_article(d, q), {}) /\ Sound(d, q, insert_tag(d, q), {})
          /\ Sound(d, q, update_article(d, q, s), {})
          /\ Sound(d, q, delete_article(d, q), {}) /\ Sound(d, q, insert_favorite(d, q), {})
          /\ Sound(d, q, insert_comment(d, q), {}) /\ Sound(d, q, delete_comment(d, q), {})
          /\ Sound(d, q, select_comments(d, q), {})
      BY ArticleStatements
    <3> QED
      BY <1>2, <3>1 DEF Execute
  <2> QED
    BY <1>2, <2>1 DEF Added
<1>3. CASE sql = "insert_article"
  <2>1. r = insert_article(d, q)
    BY <1>3 DEF Execute
  <2> QED
    BY <1>3, <2>1, ArticleStatements DEF Added
<1>4. CASE sql = "delete_follow"
  <2>1. r = Ok([d EXCEPT !.follows = @ \ {<<q.who, q.owner>>}], q)
    BY <1>4 DEF Execute
  <2> QED
    BY <1>4, <2>1, UserStatements DEF Added
<1>5. CASE sql = "delete_favorite"
  <2>1. r = Ok([d EXCEPT !.favorites = @ \ {<<q.who, q.found>>}], q)
    BY <1>5 DEF Execute
  <2> QED
    BY <1>5, <2>1, ArticleStatements DEF Added
<1>6. CASE sql \notin {"insert_user", "update_user", "select_self", "find_self", "find_author",
                       "comment_author", "delete_user", "find_user", "insert_follow",
                       "delete_follow", "select_article", "insert_article", "insert_tag",
                       "update_article", "delete_article", "insert_favorite", "delete_favorite",
                       "insert_comment", "delete_comment", "select_comments"}
  <2>1. r = Ok(d, q)
    BY <1>6 DEF Execute
  <2>2. SameCall(q, q)
    BY SetLocals
  <2>3. Sound(d, q, r, {})
    BY <2>1, <2>2, Unchanged DEF Ok
  <2> QED
    BY <1>6, <2>3 DEF Added
<1> QED
  BY <1>1, <1>2, <1>3, <1>4, <1>5, <1>6

(* A script is a sequence of at least one statement.  Only create_article  *)
(* inserts articles and tags.                                              *)
Statements ==
  {"insert_user", "update_user", "select_self", "find_self", "find_author", "comment_author",
   "delete_user", "find_user", "insert_follow", "delete_follow", "select_article",
   "update_article", "delete_article", "insert_favorite", "delete_favorite", "insert_comment",
   "delete_comment", "select_comments", "is_following", "get_tags_for_article",
   "favorites_count", "is_favorited", "select_articles", "count"}
StepType == [sql : Statements, conn : {"own", "lent"}]
Runs(f) == f \in Seq(StepType) /\ f # <<>>

LEMMA OneRun == ASSUME NEW x \in StepType PROVE <<x>> \in Seq(StepType) /\ Runs(<<x>>)
BY DEF Runs

LEMMA TwoRun ==
  ASSUME NEW x \in StepType, NEW y \in StepType PROVE <<x, y>> \in Seq(StepType) /\ Runs(<<x, y>>)
BY DEF Runs

LEMMA CatRun ==
  ASSUME NEW f, Runs(f), NEW g \in Seq(StepType) PROVE Runs(f \o g) /\ f \o g \in Seq(StepType)
<1>1. f \o g \in Seq(StepType) /\ Len(f \o g) = Len(f) + Len(g)
  BY ConcatProperties DEF Runs
<1>2. Len(f) \in Nat \ {0} /\ Len(g) \in Nat
  BY DEF Runs
<1> QED
  BY <1>1, <1>2 DEF Runs

LEMMA CatAt ==
  ASSUME NEW S, NEW f \in Seq(S), NEW g \in Seq(S)
  PROVE  /\ f \o g \in Seq(S) /\ Len(f \o g) = Len(f) + Len(g)
         /\ \A i \in 1..Len(f) : (f \o g)[i] = f[i]
         /\ \A i \in (Len(f) + 1)..(Len(f) + Len(g)) : (f \o g)[i] = g[i - Len(f)]
<1> DEFINE m == Len(f)
           n == Len(g)
           h == f \o g
<1>1. h \in Seq(S) /\ Len(h) = m + n /\ m \in Nat /\ n \in Nat
  BY ConcatProperties
<1>2. \A i \in 1..(m + n) : h[i] = IF i <= m THEN f[i] ELSE g[i - m]
  BY ConcatProperties
<1> HIDE DEF m, n, h
<1>3. \A i \in 1..m : i \in 1..(m + n) /\ i <= m
  BY <1>1
<1>4. \A i \in (m + 1)..(m + n) : i \in 1..(m + n) /\ ~(i <= m)
  BY <1>1
<1>5. \A i \in 1..m : h[i] = f[i]
  BY <1>2, <1>3, Zenon
<1>6. \A i \in (m + 1)..(m + n) : h[i] = g[i - m]
  BY <1>2, <1>4, Zenon
<1> QED
  BY <1>1, <1>5, <1>6 DEF m, n, h

LEMMA ScriptParts ==
  /\ \A sql \in Statements : Own(sql) \in StepType /\ Lent(sql) \in StepType
  /\ build_profile \in Seq(StepType) /\ build_article \in Seq(StepType)
<1>1. \A sql \in Statements : Own(sql) \in StepType /\ Lent(sql) \in StepType
  BY DEF Own, Lent, StepType
<1>2. build_profile \in Seq(StepType)
  BY <1>1, OneRun DEF build_profile, Statements
<1>3. build_article \in Seq(StepType)
  <2>1. <<Lent("get_tags_for_article"), Lent("favorites_count"), Lent("is_favorited")>> \in Seq(StepType)
    BY <1>1 DEF Statements
  <2>2. Runs(<<Lent("find_author")>>)
    BY <1>1, OneRun DEF Statements
  <2> QED
    BY <1>2, <2>1, <2>2, CatRun DEF build_article
<1> QED
  BY <1>1, <1>2, <1>3

(* create_article: the row, a statement for every tag, and the answer.     *)
NTags == Cardinality(TagNames)

LEMMA CreateScript ==
  /\ NTags \in Nat /\ "create_article" \in DOMAIN Script
  /\ LET f == Script["create_article"]
     IN /\ Len(f) = NTags + 6 /\ DOMAIN f = 1..(NTags + 6) /\ f[1] = Own("insert_article")
        /\ \A i \in 2..(NTags + 1) : f[i] = Own("insert_tag")
        /\ \A i \in (NTags + 2)..(NTags + 6) : f[i] \in StepType
<1> DEFINE f == <<Own("insert_article")>>
           g == InsertTags
           h == build_article
           S == {Own("insert_article"), Own("insert_tag")} \cup StepType
<1>1. NTags \in Nat
  BY PoolAssumption, FS_CardinalityType DEF NTags
<1>2. f \in Seq(S) /\ Len(f) = 1 /\ f[1] = Own("insert_article")
  OBVIOUS
<1>3. g \in Seq(S) /\ Len(g) = NTags /\ \A i \in 1..NTags : g[i] = Own("insert_tag")
  BY <1>1 DEF InsertTags, NTags
<1>4. h \in Seq(S) /\ Len(h) = 5 /\ \A i \in 1..5 : h[i] \in StepType
  <2>1. h \in Seq(StepType)
    BY ScriptParts
  <2>2. Len(h) = 5
    BY DEF build_article, build_profile
  <2> QED
    BY <2>1, <2>2
<1> HIDE DEF f, g, h, S
<1> DEFINE e == f \o g
<1>5. /\ e \in Seq(S) /\ Len(e) = NTags + 1 /\ e[1] = Own("insert_article")
      /\ \A i \in 2..(NTags + 1) : e[i] = Own("insert_tag")
  <2>1. /\ e \in Seq(S) /\ Len(e) = Len(f) + Len(g)
        /\ \A i \in 1..Len(f) : e[i] = f[i]
        /\ \A i \in (Len(f) + 1)..(Len(f) + Len(g)) : e[i] = g[i - Len(f)]
    BY <1>2, <1>3, CatAt, Zenon
  <2> HIDE DEF e
  <2>2. e[1] = f[1] /\ Len(e) = NTags + 1
    BY <1>1, <1>2, <1>3, <2>1
  <2>3. ASSUME NEW i \in 2..(NTags + 1) PROVE e[i] = g[i - 1] /\ i - 1 \in 1..NTags
    BY <1>1, <1>2, <1>3, <2>1
  <2> QED
    BY <1>2, <1>3, <2>1, <2>2, <2>3
<1> HIDE DEF e
<1> DEFINE k == e \o h
<1>6. /\ Len(k) = NTags + 6 /\ DOMAIN k = 1..(NTags + 6) /\ k[1] = Own("insert_article")
      /\ \A i \in 2..(NTags + 1) : k[i] = Own("insert_tag")
      /\ \A i \in (NTags + 2)..(NTags + 6) : k[i] \in StepType
  <2>0. /\ k \in Seq(S) /\ Len(k) = Len(e) + Len(h)
        /\ \A i \in 1..Len(e) : k[i] = e[i]
        /\ \A i \in (Len(e) + 1)..(Len(e) + Len(h)) : k[i] = h[i - Len(e)]
    BY <1>4, <1>5, CatAt, Zenon
  <2> HIDE DEF k
  <2>1. Len(k) = NTags + 6 /\ DOMAIN k = 1..(NTags + 6)
    <3>1. Len(k) = NTags + 6
      BY <1>1, <1>4, <1>5, <2>0
    <3> QED
      BY <2>0, <3>1
  <2>2. \A i \in 1..(NTags + 1) : k[i] = e[i]
    BY <1>5, <2>0
  <2>3. ASSUME NEW i \in (NTags + 2)..(NTags + 6)
        PROVE  k[i] = h[i - (NTags + 1)] /\ i - (NTags + 1) \in 1..5
    BY <1>1, <1>4, <1>5, <2>0
  <2>4. k[1] = e[1] /\ \A i \in 2..(NTags + 1) : k[i] = e[i]
    BY <1>1, <2>2
  <2> QED
    BY <1>4, <1>5, <2>1, <2>3, <2>4
<1>7. "create_article" \in DOMAIN Script /\ Script["create_article"] = k
  <2>1. ArticleScript["create_article"] = k /\ "create_article" \in DOMAIN ArticleScript
    BY DEF ArticleScript, k, e, f, g, h
  <2> DEFINE Others == DOMAIN UserScript \cup DOMAIN AccountScript \cup DOMAIN ProfileScript
                       \cup DOMAIN FavoriteScript \cup DOMAIN CommentScript
                       \cup DOMAIN ListScript \cup DOMAIN StatsScript
  <2>2. "create_article" \notin Others
    BY DEF UserScript, AccountScript, ProfileScript, FavoriteScript, CommentScript,
           ListScript, StatsScript
  <2>3. "create_article" \in ScriptNames
    BY <2>1 DEF ScriptNames
  <2> HIDE DEF k
  <2>4. ASSUME NEW op \in ScriptNames, op \in DOMAIN ArticleScript,
               op \notin Others
        PROVE  Script[op] = ArticleScript[op]
    BY <2>4 DEF Script
  <2>5. DOMAIN Script = ScriptNames
    BY DEF Script
  <2> QED
    BY <2>1, <2>2, <2>3, <2>4, <2>5, Zenon
<1> HIDE DEF k
<1> QED
  BY <1>1, <1>6, <1>7

LEMMA ScriptRuns ==
  ASSUME NEW op \in DOMAIN Script
  PROVE  /\ op # "create_article" => Runs(Script[op])
         /\ Len(Script[op]) \in Keys /\ DOMAIN Script[op] = 1..Len(Script[op])
         /\ op # "none"
<1>o. \A sql \in Statements : /\ Own(sql) \in StepType /\ Lent(sql) \in StepType
                              /\ Runs(<<Own(sql)>>) /\ Runs(<<Lent(sql)>>)
  BY ScriptParts, OneRun
<1>t. \A v, w \in Statements : Runs(<<Own(v), Own(w)>>) /\ Runs(<<Lent(v), Lent(w)>>)
  BY ScriptParts, TwoRun
<1>p. build_profile \in Seq(StepType) /\ build_article \in Seq(StepType)
  BY ScriptParts
<1>c. \A f, g : Runs(f) /\ g \in Seq(StepType) => Runs(f \o g)
  BY CatRun
<1>1. \A x \in DOMAIN UserScript : Runs(UserScript[x])
  BY <1>o DEF UserScript, Statements
<1>2. \A x \in DOMAIN AccountScript : Runs(AccountScript[x])
  BY <1>o DEF AccountScript, Statements
<1>3. \A x \in DOMAIN ProfileScript : Runs(ProfileScript[x])
  <2>1. Runs(<<Lent("find_user")>>) /\ Runs(<<Lent("find_user"), Lent("insert_follow")>>)
        /\ Runs(<<Lent("find_user"), Lent("delete_follow")>>)
    BY <1>o, <1>t DEF Statements
  <2> DEFINE f == <<Lent("find_user")>> \o build_profile
             g == <<Lent("find_user"), Lent("insert_follow")>> \o build_profile
             h == <<Lent("find_user"), Lent("delete_follow")>> \o build_profile
  <2>2. Runs(f) /\ Runs(g) /\ Runs(h)
    BY <1>p, <1>c, <2>1, Zenon
  <2>3. ProfileScript = [get_profile |-> f, follow_profile |-> g, unfollow_profile |-> h]
    BY DEF ProfileScript
  <2> HIDE DEF f, g, h
  <2> QED
    BY <2>2, <2>3
<1>4. \A x \in DOMAIN ArticleScript \ {"create_article"} : Runs(ArticleScript[x])
  <2>1. /\ Runs(<<Own("select_article")>>)
        /\ Runs(<<Own("update_article")>>) /\ Runs(<<Own("delete_article")>>)
    BY <1>o DEF Statements
  <2> DEFINE f == <<Own("select_article")>> \o build_article
             g == <<Own("insert_article")>> \o InsertTags \o build_article
             h == <<Own("update_article")>> \o build_article
             k == <<Own("delete_article")>>
  <2>2. Runs(f) /\ Runs(h) /\ Runs(k)
    BY <1>p, <1>c, <2>1, Zenon
  <2>3. ArticleScript = [get_article |-> f, create_article |-> g, update_article |-> h,
                         delete_article |-> k]
    BY DEF ArticleScript
  <2> HIDE DEF f, g, h, k
  <2> QED
    BY <2>2, <2>3
<1>5. \A x \in DOMAIN FavoriteScript : Runs(FavoriteScript[x])
  <2>1. /\ Runs(<<Own("select_article"), Own("insert_favorite")>>)
        /\ Runs(<<Own("select_article"), Own("delete_favorite")>>)
    BY <1>t DEF Statements
  <2> DEFINE f == <<Own("select_article"), Own("insert_favorite")>> \o build_article
             g == <<Own("select_article"), Own("delete_favorite")>> \o build_article
  <2>2. Runs(f) /\ Runs(g)
    BY <1>p, <1>c, <2>1, Zenon
  <2>3. FavoriteScript = [favorite_article |-> f, unfavorite_article |-> g]
    BY DEF FavoriteScript
  <2> HIDE DEF f, g
  <2> QED
    BY <2>2, <2>3
<1>6. \A x \in DOMAIN CommentScript : Runs(CommentScript[x])
  <2> DEFINE f == <<Own("select_article"), Own("select_comments"), Lent("comment_author"),
                    Lent("is_following")>>
             e == <<Own("select_article"), Own("insert_comment"), Lent("find_self")>>
             g == e \o build_profile
             h == <<Own("delete_comment")>>
  <2>1. Runs(f) /\ Runs(e) /\ Runs(h)
    BY <1>o DEF Statements, Runs
  <2>2. Runs(g)
    BY <1>p, <1>c, <2>1, Zenon
  <2>3. CommentScript = [get_comments |-> f, add_comment |-> g, delete_comment |-> h]
    BY DEF CommentScript
  <2> HIDE DEF e, f, g, h
  <2> QED
    BY <2>1, <2>2, <2>3
<1>7. \A x \in DOMAIN ListScript : Runs(ListScript[x])
  BY <1>o DEF ListScript, Statements
<1>8. \A x \in DOMAIN StatsScript : Runs(StatsScript[x])
  <2>1. Runs(<<Own("count"), Own("count"), Own("count")>>)
    BY <1>o DEF Statements, Runs
  <2> QED
    BY <2>1 DEF StatsScript
<1>9. op \in ScriptNames
  BY DEF Script
<1>10. op # "create_article" => Runs(Script[op])
  BY <1>1, <1>2, <1>3, <1>4, <1>5, <1>6, <1>7, <1>8, <1>9 DEF Script, ScriptNames
<1>11. Len(Script[op]) \in Keys /\ DOMAIN Script[op] = 1..Len(Script[op])
  <2> DEFINE f == Script[op]
  <2> HIDE DEF f
  <2>1. CASE op # "create_article"
    <3>1. Len(f) \in Keys /\ DOMAIN f = 1..Len(f)
      BY <1>10, <2>1 DEF Runs, Keys, f
    <3> QED
      BY <3>1 DEF f
  <2>2. CASE op = "create_article"
    BY <2>2, CreateScript DEF Keys
  <2> QED
    BY <2>1, <2>2
<1>12. op # "none"
  BY <1>9 DEF ScriptNames, UserScript, AccountScript, ProfileScript, ArticleScript,
              FavoriteScript, CommentScript, ListScript, StatsScript
<1> QED
  BY <1>10, <1>11, <1>12

LEMMA OnlyCreateInserts ==
  ASSUME NEW op \in DOMAIN Script, NEW i \in DOMAIN Script[op], Script[op][i].sql = "insert_article"
  PROVE  op = "create_article" /\ i = 1
<1>o. Own("insert_tag").sql = "insert_tag" /\ \A x \in StepType : x.sql # "insert_article"
  BY DEF Own, StepType, Statements
<1>1. CASE op # "create_article"
  <2> DEFINE f == Script[op]
  <2>1. f \in Seq(StepType)
    BY <1>1, ScriptRuns DEF Runs
  <2> HIDE DEF f
  <2>2. \A k \in DOMAIN f : f[k] \in StepType
    BY <2>1
  <2> QED
    BY <1>o, <2>2 DEF f
<1>2. CASE op = "create_article"
  <2> DEFINE f == Script["create_article"]
  <2>1. /\ NTags \in Nat /\ DOMAIN f = 1..(NTags + 6)
        /\ \A k \in 2..(NTags + 1) : f[k] = Own("insert_tag")
        /\ \A k \in (NTags + 2)..(NTags + 6) : f[k] \in StepType
    BY CreateScript
  <2>2. i \in DOMAIN f /\ f[i].sql = "insert_article"
    BY <1>2
  <2> HIDE DEF f
  <2>3. i = 1 \/ i \in 2..(NTags + 1) \/ i \in (NTags + 2)..(NTags + 6)
    BY <2>1, <2>2
  <2> QED
    BY <1>o, <1>2, <2>1, <2>2, <2>3
<1> QED
  BY <1>1, <1>2

(* The records a request goes through.                                     *)
RwAnswers == {"none", "ok", "404", "409", "500", "gone"}
Fresh(op, u, arg) == [Idle EXCEPT !.op = op, !.who = u, !.arg = arg]
Advanced(q) == [q EXCEPT !.pc = @ + 1, !.lent = FALSE]

IsFresh(p, op) ==
  /\ p \in ReqType /\ p.op = op /\ p.pc = 1 /\ p.own = FALSE /\ p.lent = FALSE /\ p.answer = "none"

LEMMA FreshCall ==
  ASSUME NEW op \in DOMAIN Script, NEW u \in Nat, NEW arg \in Vals
  PROVE  IsFresh(Fresh(op, u, arg), op)
<1>0. PICK no : no = FALSE
  OBVIOUS
<1>i. Idle = [op |-> "none", who |-> None, arg |-> None, pc |-> 1, own |-> no, lent |-> no,
              found |-> None, owner |-> None, answer |-> "none"]
  BY <1>0 DEF Idle
<1> DEFINE p == Fresh(op, u, arg)
<1>1. p = [op |-> op, who |-> u, arg |-> arg, pc |-> 1, own |-> no, lent |-> no,
           found |-> None, owner |-> None, answer |-> "none"]
  <2>1. p = [[[Idle EXCEPT !.op = op] EXCEPT !.who = u] EXCEPT !.arg = arg]
    BY DEF Fresh
  <2>2. [Idle EXCEPT !.op = op]
          = [op |-> op, who |-> None, arg |-> None, pc |-> 1, own |-> no, lent |-> no,
             found |-> None, owner |-> None, answer |-> "none"]
    BY <1>i
  <2> DEFINE e == [op |-> op, who |-> None, arg |-> None, pc |-> 1, own |-> no, lent |-> no,
                   found |-> None, owner |-> None, answer |-> "none"]
             f == [op |-> op, who |-> u, arg |-> None, pc |-> 1, own |-> no, lent |-> no,
                   found |-> None, owner |-> None, answer |-> "none"]
  <2>3. [e EXCEPT !.who = u] = f
    OBVIOUS
  <2>4. [f EXCEPT !.arg = arg]
          = [op |-> op, who |-> u, arg |-> arg, pc |-> 1, own |-> no, lent |-> no,
             found |-> None, owner |-> None, answer |-> "none"]
    OBVIOUS
  <2> HIDE DEF p
  <2> QED
    BY <2>1, <2>2, <2>3, <2>4, Zenon
<1> HIDE DEF p
<1>2. None \in Nat /\ 1 \in Keys
  BY DEF None, Keys
<1>3. p \in ReqType
  BY <1>0, <1>1, <1>2 DEF ReqType
<1> QED
  BY <1>0, <1>1, <1>3 DEF p, IsFresh

LEMMA AnsweredCall ==
  ASSUME NEW st \in RwAnswers
  PROVE  LET p == [Idle EXCEPT !.answer = st]
         IN p \in ReqType /\ p.op = "none" /\ p.own = FALSE /\ p.lent = FALSE /\ p.answer = st
<1>0. PICK no : no = FALSE
  OBVIOUS
<1>i. Idle = [op |-> "none", who |-> None, arg |-> None, pc |-> 1, own |-> no, lent |-> no,
              found |-> None, owner |-> None, answer |-> "none"]
  BY <1>0 DEF Idle
<1> DEFINE p == [Idle EXCEPT !.answer = st]
<1>1. p = [op |-> "none", who |-> None, arg |-> None, pc |-> 1, own |-> no, lent |-> no,
           found |-> None, owner |-> None, answer |-> st]
  BY <1>i
<1>2. None \in Nat /\ None \in Vals /\ 1 \in Keys
  BY DEF None, Keys, Vals
<1> HIDE DEF p
<1>3. p \in ReqType
  BY <1>0, <1>1, <1>2 DEF ReqType, RwAnswers
<1> QED
  BY <1>0, <1>1, <1>3 DEF p

LEMMA IdleRequest == Idle \in ReqType /\ Idle.op = "none" /\ Idle.own = FALSE /\ Idle.lent = FALSE
<1>1. None \in Nat /\ None \in Vals /\ 1 \in Keys
  BY DEF None, Keys, Vals
<1> QED
  BY <1>1 DEF Idle, ReqType

LEMMA HoldingCall ==
  ASSUME NEW q \in ReqType
  PROVE  /\ LET p == [q EXCEPT !.own = TRUE]
            IN p \in ReqType /\ p.op = q.op /\ p.pc = q.pc /\ p.answer = q.answer /\ p.own = TRUE
               /\ p.lent = q.lent
         /\ LET p == [q EXCEPT !.lent = TRUE]
            IN p \in ReqType /\ p.op = q.op /\ p.pc = q.pc /\ p.answer = q.answer /\ p.lent = TRUE
               /\ p.own = q.own
BY DEF ReqType

LEMMA AdvancedCall ==
  ASSUME NEW q \in ReqType
  PROVE  LET p == Advanced(q)
         IN p \in ReqType /\ p.op = q.op /\ p.pc = q.pc + 1 /\ p.answer = q.answer /\ p.own = q.own
            /\ p.lent = FALSE
<1> DEFINE p == Advanced(q)
           e == [q EXCEPT !.pc = q.pc + 1]
<1>1. q.pc + 1 \in Keys
  BY DEF ReqType, Keys
<1>2. e \in ReqType /\ e.op = q.op /\ e.pc = q.pc + 1 /\ e.answer = q.answer /\ e.own = q.own
  BY <1>1 DEF ReqType
<1>3. p = [e EXCEPT !.lent = FALSE]
  BY DEF Advanced
<1> HIDE DEF e, p
<1>4. p \in ReqType /\ p.op = e.op /\ p.pc = e.pc /\ p.answer = e.answer /\ p.own = e.own
      /\ p.lent = FALSE
  BY <1>2, <1>3 DEF ReqType
<1> QED
  BY <1>2, <1>4 DEF p

(* The invariant of the application.  A request that is not in service     *)
(* holds nothing; one in service is at a statement of its script.          *)
CallOK(p) ==
  /\ p.op = "none" \/ p.answer # "none" => p.own = FALSE /\ p.lent = FALSE
  /\ p.op # "none" /\ p.answer = "none" => p.pc <= Len(Script[p.op])

Calls == req \in [Workers -> ReqType] /\ \A w \in Workers : CallOK(req[w])
TablesKept == RwDb(db) /\ DOMAIN db.articles \subseteq DOMAIN made
Counted == idle \in Nat /\ PoolWhole /\ served \in [Workers -> 0..Rounds]

RwInv == TablesKept /\ Calls /\ Counted

(* Connections are counted by the requests that hold them.                 *)
One(b) == IF b THEN 1 ELSE 0

LEMMA CountOne ==
  ASSUME NEW S, IsFiniteSet(S), NEW w
  PROVE  /\ Cardinality(S \ {w}) \in Nat
         /\ w \in S => Cardinality(S) = Cardinality(S \ {w}) + 1
         /\ w \notin S => Cardinality(S) = Cardinality(S \ {w})
<1>1. Cardinality(S) \in Nat
  BY FS_CardinalityType
<1>2. CASE w \in S
  <2>1. Cardinality(S \ {w}) = Cardinality(S) - 1 /\ IsFiniteSet(S \ {w})
    BY <1>2, FS_RemoveElement
  <2>2. Cardinality(S \ {w}) \in Nat
    BY <2>1, FS_CardinalityType
  <2> QED
    BY <1>1, <1>2, <2>1, <2>2
<1>3. CASE w \notin S
  <2>1. S \ {w} = S
    BY <1>3
  <2> QED
    BY <1>1, <1>3, <2>1
<1> QED
  BY <1>2, <1>3

LEMMA FiniteHolders == Owners \in SUBSET Workers /\ IsFiniteSet(Owners) /\ Lenders \in SUBSET Workers /\ IsFiniteSet(Lenders)
<1>1. Owners \subseteq Workers /\ Lenders \subseteq Workers
  BY DEF Owners, Lenders
<1> QED
  BY <1>1, PoolAssumption, FS_Subset

(* The request of one worker goes on, and what it gives back is what the   *)
(* pool gains.                                                             *)
LEMMA CallStep ==
  ASSUME Calls, PoolWhole, idle \in Nat, NEW w \in Workers, NEW p \in ReqType, CallOK(p),
         req' = [req EXCEPT ![w] = p], idle' \in Nat,
         idle' + One(p.own) + One(p.lent) = idle + One(req[w].own) + One(req[w].lent)
  PROVE  Calls' /\ PoolWhole'
<1>1. /\ req' \in [Workers -> ReqType] /\ req'[w] = p
      /\ \A x \in Workers \ {w} : req'[x] = req[x]
  BY DEF Calls
<1>2. Calls'
  BY <1>1 DEF Calls
<1>3. PoolWhole'
  <2>1. Owners' \ {w} = Owners \ {w} /\ Lenders' \ {w} = Lenders \ {w}
    BY <1>1 DEF Owners, Lenders
  <2>2. /\ (w \in Owners) <=> req[w].own
        /\ (w \in Lenders) <=> req[w].lent
        /\ (w \in Owners') <=> p.own
        /\ (w \in Lenders') <=> p.lent
    BY <1>1, Zenon DEF Owners, Lenders
  <2>3. IsFiniteSet(Owners) /\ IsFiniteSet(Lenders) /\ IsFiniteSet(Owners') /\ IsFiniteSet(Lenders')
    <3>1. Owners' \subseteq Workers /\ Lenders' \subseteq Workers
      BY DEF Owners, Lenders
    <3> QED
      BY <3>1, FiniteHolders, PoolAssumption, FS_Subset
  <2> DEFINE m == Cardinality(Owners \ {w})
             n == Cardinality(Lenders \ {w})
  <2>4. m \in Nat /\ n \in Nat
    BY <2>3, CountOne
  <2>5. Cardinality(Owners) = m + One(req[w].own)
    BY <2>2, <2>3, <2>4, CountOne DEF One
  <2>6. Cardinality(Lenders) = n + One(req[w].lent)
    BY <2>2, <2>3, <2>4, CountOne DEF One
  <2>7. Cardinality(Owners') = m + One(p.own)
    BY <2>1, <2>2, <2>3, <2>4, CountOne DEF One
  <2>8. Cardinality(Lenders') = n + One(p.lent)
    BY <2>1, <2>2, <2>3, <2>4, CountOne DEF One
  <2>9. \A b : One(b) \in Nat
    BY DEF One
  <2> HIDE DEF m, n
  <2>10. idle + Cardinality(Owners) + Cardinality(Lenders)
           = idle' + Cardinality(Owners') + Cardinality(Lenders')
    BY <2>4, <2>5, <2>6, <2>7, <2>8, <2>9
  <2> QED
    BY <2>10 DEF PoolWhole
<1> QED
  BY <1>2, <1>3

LEMMA AnswerStep ==
  ASSUME Calls, PoolWhole, idle \in Nat, NEW w \in Workers, NEW st \in RwAnswers \ {"none"},
         Answer(w, st)
  PROVE  Calls' /\ PoolWhole' /\ idle' \in Nat
<1> DEFINE p == [Idle EXCEPT !.answer = st]
<1>1. p \in ReqType /\ p.op = "none" /\ p.own = FALSE /\ p.lent = FALSE
  BY AnsweredCall
<1>2. req' = [req EXCEPT ![w] = p] /\ idle' = idle + One(req[w].own) + One(req[w].lent)
  BY DEF Answer, Held, One
<1> HIDE DEF p
<1>3. CallOK(p)
  BY <1>1 DEF CallOK
<1>4. idle' \in Nat
  BY <1>2 DEF One
<1>5. idle' + One(p.own) + One(p.lent) = idle + One(req[w].own) + One(req[w].lent)
  BY <1>1, <1>2, <1>4 DEF One
<1> QED
  BY <1>1, <1>2, <1>3, <1>4, <1>5, CallStep

LEMMA RwStart == RwInit => RwInv
<1> SUFFICES ASSUME RwInit PROVE RwInv
  OBVIOUS
<1>1. RwDb(Seed) /\ DOMAIN Seed.articles = {1}
  <2> DEFINE first == CHOOSE n \in Usernames : TRUE
             second == CHOOSE n \in Usernames \ {first} : TRUE
             slug == CHOOSE x \in Slugs : TRUE
             art == [slug |-> slug, author |-> 1]
             com == [author |-> 2, article |-> 1]
             t == {<<1, x>> : x \in TagNames}
  <2>1. first \in Usernames /\ second \in Usernames /\ first # second /\ slug \in Slugs
    <3>1. first \in Usernames /\ slug \in Slugs
      BY PoolAssumption
    <3> HIDE DEF first
    <3>2. \E n \in Usernames \ {first} : TRUE
      BY PoolAssumption
    <3>3. second \in Usernames \ {first}
      BY <3>2
    <3> QED
      BY <3>1, <3>3
  <2>2. Seed = DbOf(<<first, second>>, <<art>>, t, {<<2, 1>>}, {<<2, 1>>}, <<com>>, 3, 2, 2)
    BY DEF Seed, DbOf
  <2> HIDE DEF first, second, slug
  <2>3. art \in Articles /\ art.author = 1 /\ com \in Comments /\ com.author = 2 /\ com.article = 1
    BY <2>1 DEF Articles, Comments, Vals
  <2> HIDE DEF art, com
  <2>4. /\ Table(<<first, second>>, Vals) /\ Table(<<art>>, Articles) /\ Table(<<com>>, Comments)
    BY <2>1, <2>3 DEF Table, Vals, Keys
  <2>5. Rows(<<first, second>>, <<art>>, t, {<<2, 1>>}, {<<2, 1>>}, <<com>>)
    <3> DEFINE u == <<first, second>>
               a == <<art>>
               c == <<com>>
    <3>1. DOMAIN u = {1, 2} /\ u[1] # u[2] /\ DOMAIN a = {1} /\ a[1] = art /\ DOMAIN c = {1} /\ c[1] = com
      BY <2>1
    <3>2. \A x \in t : x[1] = 1
      OBVIOUS
    <3>3. \A x \in {<<2, 1>>} : x[1] = 2 /\ x[2] = 1
      OBVIOUS
    <3>4. Table(u, Vals) /\ Table(a, Articles) /\ Table(c, Comments)
      BY <2>4
    <3> DEFINE f == {<<2, 1>>}
    <3> HIDE DEF u, a, c, t, f
    <3>5. Rows(u, a, t, f, f, c)
      BY <2>3, <3>1, <3>2, <3>3, <3>4 DEF Rows, f
    <3> QED
      BY <3>5 DEF u, a, c, f
  <2>6. 2 \in Keys /\ 3 \in Keys
    BY DEF Keys
  <2> HIDE DEF t
  <2>7. RwDb(Seed)
    <3> DEFINE u == <<first, second>>
               a == <<art>>
               f == {<<2, 1>>}
               c == <<com>>
    <3> HIDE DEF u, a, f, c
    <3>1. Seed = DbOf(u, a, t, f, f, c, 3, 2, 2) /\ Rows(u, a, t, f, f, c)
      BY <2>2, <2>5 DEF u, a, f, c
    <3> QED
      BY <2>6, <3>1, Zenon DEF RwDb
  <2>8. DOMAIN Seed.articles = {1}
    <3>1. Seed.articles = <<art>>
      BY <2>2 DEF DbOf
    <3> QED
      BY <3>1
  <2> QED
    BY <2>7, <2>8
<1>2. TablesKept
  BY <1>1 DEF RwInit, TablesKept
<1>3. Calls
  BY IdleRequest DEF RwInit, Calls, CallOK
<1>4. Counted
  <2>1. Owners = {} /\ Lenders = {}
    BY IdleRequest DEF RwInit, Owners, Lenders
  <2>2. PoolSize \in Nat /\ Rounds \in Nat
    BY PoolAssumption
  <2>3. Cardinality({}) = 0
    BY FS_EmptySet
  <2> QED
    BY <2>1, <2>2, <2>3 DEF RwInit, Counted, PoolWhole
<1> QED
  BY <1>2, <1>3, <1>4 DEF RwInv

LEMMA BeginStep ==
  ASSUME RwInv, NEW w \in Workers, NEW op \in DOMAIN Script, NEW u \in {1, 2}, NEW arg \in Args(op),
         Begin(w, op, u, arg)
  PROVE  RwInv'
<1> DEFINE p == Fresh(op, u, arg)
<1>1. arg \in Vals /\ u \in Nat
  BY DEF Args, Vals, None
<1>2. /\ p \in ReqType /\ p.op = op /\ p.pc = 1 /\ p.own = FALSE /\ p.lent = FALSE
      /\ p.answer = "none"
  <2>1. IsFresh(p, op)
    BY <1>1, FreshCall
  <2> QED
    BY <2>1 DEF IsFresh
<1>3. CallOK(p)
  <2>1. Len(Script[op]) \in Keys
    BY ScriptRuns
  <2>2. 1 <= Len(Script[op])
    BY <2>1 DEF Keys
  <2> HIDE DEF p
  <2> QED
    BY <1>2, <2>2 DEF CallOK
<1>4. req' = [req EXCEPT ![w] = p] /\ idle' = idle /\ db' = db /\ made' = made
  BY DEF Begin, Fresh
<1>5. req[w].own = FALSE /\ req[w].lent = FALSE
  BY DEF Begin, InService, RwInv, Calls, CallOK
<1> HIDE DEF p
<1>6. Calls' /\ PoolWhole'
  <2>1. idle' + One(p.own) + One(p.lent) = idle + One(req[w].own) + One(req[w].lent)
    BY <1>2, <1>4, <1>5
  <2> QED
    BY <1>2, <1>3, <1>4, <2>1, CallStep DEF RwInv, Counted
<1>7. served' \in [Workers -> 0..Rounds]
  BY PoolAssumption DEF Begin, RwInv, Counted
<1> QED
  BY <1>4, <1>6, <1>7 DEF RwInv, TablesKept, Counted

LEMMA GetStep ==
  ASSUME RwInv, NEW w \in Workers, Get(w)
  PROVE  RwInv'
<1>q. req[w] \in ReqType /\ CallOK(req[w]) /\ req[w].op # "none" /\ req[w].answer = "none"
  BY DEF Get, Waits, InService, RwInv, Calls
<1>i. idle \in Nat /\ idle' = idle - 1 /\ idle' \in Nat
  BY DEF Get, RwInv, Counted
<1>u. UNCHANGED <<db, served, made>>
  BY DEF Get
<1>1. CASE Step(w).conn = "own"
  <2> DEFINE p == [req[w] EXCEPT !.own = TRUE]
  <2>1. /\ p \in ReqType /\ p.op = req[w].op /\ p.pc = req[w].pc /\ p.answer = req[w].answer
        /\ p.own = TRUE /\ p.lent = req[w].lent
    BY <1>q, HoldingCall
  <2>2. req' = [req EXCEPT ![w] = p] /\ ~req[w].own
    BY <1>1 DEF Get, Waits
  <2> HIDE DEF p
  <2>3. CallOK(p)
    BY <1>q, <2>1 DEF CallOK
  <2>4. idle' + One(p.own) + One(p.lent) = idle + One(req[w].own) + One(req[w].lent)
    BY <1>i, <2>1, <2>2 DEF One
  <2>5. Calls' /\ PoolWhole'
    BY <1>i, <2>1, <2>2, <2>3, <2>4, CallStep DEF RwInv, Counted
  <2> QED
    BY <1>u, <1>i, <2>5 DEF RwInv, TablesKept, Counted
<1>2. CASE Step(w).conn # "own"
  <2> DEFINE p == [req[w] EXCEPT !.lent = TRUE]
  <2>1. /\ p \in ReqType /\ p.op = req[w].op /\ p.pc = req[w].pc /\ p.answer = req[w].answer
        /\ p.lent = TRUE /\ p.own = req[w].own
    BY <1>q, HoldingCall
  <2>2. req' = [req EXCEPT ![w] = p] /\ ~req[w].lent
    BY <1>2 DEF Get, Waits
  <2> HIDE DEF p
  <2>3. CallOK(p)
    BY <1>q, <2>1 DEF CallOK
  <2>4. idle' + One(p.own) + One(p.lent) = idle + One(req[w].own) + One(req[w].lent)
    BY <1>i, <2>1, <2>2 DEF One
  <2>5. Calls' /\ PoolWhole'
    BY <1>i, <2>1, <2>2, <2>3, <2>4, CallStep DEF RwInv, Counted
  <2> QED
    BY <1>u, <1>i, <2>5 DEF RwInv, TablesKept, Counted
<1> QED
  BY <1>1, <1>2

LEMMA EndStep ==
  ASSUME RwInv, NEW w \in Workers, WaitTimeout(w) \/ QueryFails(w) \/ Abandon(w)
  PROVE  RwInv' /\ UNCHANGED db
<1>1. UNCHANGED <<db, served, made>> /\ \E st \in RwAnswers \ {"none"} : Answer(w, st)
  BY DEF WaitTimeout, QueryFails, Abandon, RwAnswers
<1>2. Calls' /\ PoolWhole' /\ idle' \in Nat
  BY <1>1, AnswerStep DEF RwInv, Counted
<1> QED
  BY <1>1, <1>2 DEF RwInv, TablesKept, Counted

LEMMA QueryStep ==
  ASSUME RwInv, NEW w \in Workers, Query(w)
  PROVE  RwInv' /\ OwnerStep
<1> DEFINE q == req[w]
           sql == Step(w).sql
           n == Len(Script[q.op])
<1>1. PICK s \in IF sql = "update_article" THEN Slugs ELSE {None} :
        LET r == Execute(sql, db, q, s)
            last == r.q.pc >= n
        IN /\ db' = r.db
           /\ made' = IF sql = "insert_article" /\ r.status = "ok"
                      THEN With(made, r.q.found, <<w, served[w]>>) ELSE made
           /\ IF r.status # "ok" \/ last THEN Answer(w, r.status)
              ELSE /\ req' = [req EXCEPT ![w] = [r.q EXCEPT !.pc = @ + 1, !.lent = FALSE]]
                   /\ idle' = idle + (IF req[w].lent THEN 1 ELSE 0)
  BY DEF Query
<1> DEFINE r == Execute(sql, db, q, s)
<1>q. q \in ReqType /\ CallOK(q) /\ q.op # "none" /\ q.answer = "none"
  BY DEF Query, Ready, InService, RwInv, Calls
<1>o. q.op \in DOMAIN Script /\ n \in Keys /\ n \in Nat /\ q.pc \in Nat
  BY <1>q, ScriptRuns DEF ReqType, Keys
<1>s. s \in Vals
  BY DEF Vals, None
<1>2. Sound(db, q, r, Added(sql, r))
  BY <1>q, <1>o, <1>s, ExecuteIsSound DEF RwInv, TablesKept
<1>3. /\ db' = r.db
      /\ made' = IF sql = "insert_article" /\ r.status = "ok"
                 THEN With(made, r.q.found, <<w, served[w]>>) ELSE made
  BY <1>1
<1>4. \/ (r.status # "ok" \/ r.q.pc >= n) /\ Answer(w, r.status)
      \/ /\ r.status = "ok" /\ ~(r.q.pc >= n)
         /\ req' = [req EXCEPT ![w] = Advanced(r.q)] /\ idle' = idle + One(q.lent)
  BY <1>1 DEF Advanced, One
<1>5. served' = served
  BY DEF Query
<1> HIDE DEF r, q, sql, n
<1>6. TablesKept'
  <2>1. DOMAIN r.db.articles \subseteq DOMAIN made'
    <3>1. DOMAIN r.db.articles \subseteq DOMAIN db.articles \cup Added(sql, r)
      BY <1>2 DEF Sound
    <3>2. DOMAIN made \cup Added(sql, r) \subseteq DOMAIN made'
      BY <1>3 DEF Added, With
    <3> QED
      BY <3>1, <3>2 DEF RwInv, TablesKept
  <2> QED
    BY <1>2, <1>3, <2>1 DEF TablesKept, Sound
<1>7. Calls' /\ PoolWhole' /\ idle' \in Nat /\ req'[w] # q
  <2>1. CASE Answer(w, r.status)
    <3>1. r.status \in RwAnswers \ {"none"}
      BY <1>2 DEF Sound, RwAnswers
    <3>2. Calls' /\ PoolWhole' /\ idle' \in Nat
      BY <2>1, <3>1, AnswerStep DEF RwInv, Counted
    <3>3. req'[w] = [Idle EXCEPT !.answer = r.status]
      BY <2>1 DEF Answer, RwInv, Calls
    <3>4. req'[w].op = "none"
      BY <3>1, <3>3, AnsweredCall
    <3> QED
      BY <1>q, <3>2, <3>4
  <2>2. CASE /\ r.status = "ok" /\ ~(r.q.pc >= n)
             /\ req' = [req EXCEPT ![w] = Advanced(r.q)] /\ idle' = idle + One(q.lent)
    <3> DEFINE p == Advanced(r.q)
    <3>1. SameCall(q, r.q)
      BY <1>2 DEF Sound
    <3>2. /\ r.q \in ReqType /\ r.q.op = q.op /\ r.q.own = q.own /\ r.q.answer = q.answer
          /\ r.q.pc \in Nat
      BY <3>1 DEF SameCall, ReqType, Keys
    <3>3. r.q.pc = q.pc
      BY <1>o, <2>2, <3>1 DEF SameCall, n
    <3>4. /\ p \in ReqType /\ p.op = q.op /\ p.pc = q.pc + 1 /\ p.answer = q.answer
          /\ p.own = q.own /\ p.lent = FALSE
      BY <3>2, <3>3, AdvancedCall
    <3> HIDE DEF p
    <3>5. CallOK(p)
      <4>1. q.pc + 1 <= n
        BY <1>o, <2>2, <3>3
      <4> QED
        BY <1>q, <3>4, <4>1 DEF CallOK, n
    <3>6. idle \in Nat /\ idle' \in Nat
      BY <2>2 DEF RwInv, Counted, One
    <3>7. idle' + One(p.own) + One(p.lent) = idle + One(q.own) + One(q.lent)
      <4>1. One(p.lent) = 0 /\ One(p.own) = One(q.own) /\ One(q.own) \in Nat /\ One(q.lent) \in Nat
        BY <3>4 DEF One
      <4> QED
        BY <2>2, <3>6, <4>1
    <3>8. req' = [req EXCEPT ![w] = p]
      BY <2>2 DEF p
    <3>9. Calls' /\ PoolWhole'
      BY <3>4, <3>5, <3>6, <3>7, <3>8, CallStep DEF RwInv, Counted, q
    <3>10. req'[w] = p
      BY <3>8 DEF RwInv, Calls
    <3> QED
      BY <1>o, <3>4, <3>6, <3>9, <3>10
  <2> QED
    BY <1>4, <2>1, <2>2
<1>8. OwnerStep
  <2>1. Respects(q.who, db.articles, db.comments, db'.articles, db'.comments)
    BY <1>2, <1>3 DEF Sound
  <2> QED
    BY <1>7, <2>1 DEF OwnerStep, Respects, q
<1> QED
  BY <1>5, <1>6, <1>7, <1>8 DEF RwInv, Counted

LEMMA RwStep ==
  ASSUME RwInv, [RwNext]_rwVars
  PROVE  RwInv' /\ [OwnerStep]_rwVars
<1>u. ASSUME UNCHANGED db PROVE OwnerStep
  BY <1>u DEF OwnerStep
<1>1. CASE UNCHANGED rwVars
  <2>1. RwInv'
    BY <1>1 DEF rwVars, RwInv, TablesKept, RwDb, Calls, Counted, PoolWhole, Owners, Lenders
  <2> QED
    BY <1>1, <2>1
<1>2. CASE RwNext
  <2>1. PICK w \in Workers :
          \/ \E op \in DOMAIN Script : \E u \in {1, 2}, arg \in Args(op) : Begin(w, op, u, arg)
          \/ RwProgress(w) \/ QueryFails(w) \/ Abandon(w)
    BY <1>2 DEF RwNext
  <2>2. CASE \E op \in DOMAIN Script : \E u \in {1, 2}, arg \in Args(op) : Begin(w, op, u, arg)
    BY <1>u, <2>2, BeginStep DEF Begin
  <2>3. CASE Get(w)
    BY <1>u, <2>3, GetStep DEF Get
  <2>4. CASE WaitTimeout(w) \/ QueryFails(w) \/ Abandon(w)
    BY <1>u, <2>4, EndStep
  <2>5. CASE Query(w)
    BY <2>5, QueryStep
  <2> QED
    BY <2>1, <2>2, <2>3, <2>4, <2>5 DEF RwProgress
<1> QED
  BY <1>1, <1>2

LEMMA RwSafe == RwInv => RwTypeOK /\ ConstraintsHold /\ PoolWhole
<1> SUFFICES ASSUME RwInv PROVE RwTypeOK /\ ConstraintsHold /\ PoolWhole
  OBVIOUS
<1>1. RwTypeOK
  <2>1. idle \in 0..PoolSize
    <3>1. Cardinality(Owners) \in Nat /\ Cardinality(Lenders) \in Nat
      BY FiniteHolders, FS_CardinalityType
    <3> QED
      BY <3>1, PoolAssumption DEF RwInv, Counted, PoolWhole
  <2>2. ASSUME NEW w \in Workers
        PROVE  /\ req[w].op \in DOMAIN Script \cup {"none"}
               /\ req[w].answer \in {"none", "ok", "404", "409", "500", "gone"}
               /\ InService(w) => req[w].pc \in DOMAIN Script[req[w].op]
    <3>1. req[w] \in ReqType /\ CallOK(req[w])
      BY DEF RwInv, Calls
    <3>2. req[w].op \in DOMAIN Script \cup {"none"} /\ req[w].pc \in Keys
          /\ req[w].answer \in {"none", "ok", "404", "409", "500", "gone"}
      BY <3>1 DEF ReqType
    <3>3. ASSUME InService(w) PROVE req[w].pc \in DOMAIN Script[req[w].op]
      <4>1. req[w].op \in DOMAIN Script /\ req[w].pc <= Len(Script[req[w].op])
        BY <3>1, <3>2, <3>3 DEF InService, CallOK
      <4>2. /\ Len(Script[req[w].op]) \in Keys
            /\ DOMAIN Script[req[w].op] = 1..Len(Script[req[w].op])
        BY <4>1, ScriptRuns
      <4>3. req[w].pc \in 1..Len(Script[req[w].op])
        BY <3>2, <4>1, <4>2 DEF Keys
      <4> QED
        BY <4>2, <4>3
    <3> QED
      BY <3>2, <3>3
  <2> QED
    BY <2>1, <2>2 DEF RwTypeOK, RwInv, Counted, TablesKept
<1>2. ConstraintsHold
  <2>1. PICK u, a, t, fa, fo, c : \E i, j, k \in Keys :
          db = DbOf(u, a, t, fa, fo, c, i, j, k) /\ Rows(u, a, t, fa, fo, c)
    BY DEF RwInv, TablesKept, RwDb
  <2>2. /\ db.users = u /\ db.articles = a /\ db.tags = t /\ db.favorites = fa
        /\ db.follows = fo /\ db.comments = c
    BY <2>1 DEF DbOf
  <2>3. Rows(u, a, t, fa, fo, c)
    BY <2>1
  <2> QED
    BY <2>2, <2>3 DEF ConstraintsHold, Exists, Rows, IsInjective
<1> QED
  BY <1>1, <1>2 DEF RwInv, Counted

(* For any number of requests and any pool: no interleaving of handlers,   *)
(* deletions, timeouts and dropped futures leaves a row that points at     *)
(* nothing, two rows of one name, or a connection out of the pool.         *)
THEOREM TablesAndPoolAreWhole == RwSpec => [](RwTypeOK /\ ConstraintsHold /\ PoolWhole)
<1>1. RwInv /\ [RwNext]_rwVars => RwInv'
  BY RwStep
<1> QED
  BY RwStart, <1>1, RwSafe, PTL DEF RwSpec

(* No handler changes or removes an article without its author's token, or *)
(* a comment without its author's or the article author's, delete_user and *)
(* its cascade included.                                                   *)
THEOREM OnlyOwnersChangeRows == RwSpec => OwnerOnly
<1>1. RwInv /\ [RwNext]_rwVars => RwInv' /\ [OwnerStep]_rwVars
  BY RwStep
<1> QED
  BY RwStart, <1>1, PTL DEF RwSpec, OwnerOnly

-----------------------------------------------------------------------------
(* create_article and its tags.                                            *)

(* The tags an article lacks.                                              *)
Missing(d, a) == {t \in TagNames : <<a, t>> \notin d.tags}

(* The request still has a statement for every tag its article lacks.      *)
Tagging(d, q, a) ==
  /\ q.op = "create_article" /\ q.answer = "none" /\ q.found = a /\ q.pc >= 2
  /\ Cardinality(Missing(d, a)) + q.pc <= NTags + 2
Failed(q) == q.op = "none" /\ q.answer \notin {"none", "ok"}

(* An article that lacks a tag was made by a request that is at its tags,  *)
(* failed, or was followed by another one of the same worker.              *)
Explained(a) ==
  \E w \in Workers, k \in Nat :
    /\ made[a] = <<w, k>> /\ k <= served[w]
    /\ k = served[w] => Tagging(db, req[w], a) \/ Failed(req[w])

NewIds == \A a \in DOMAIN made : a \in Nat /\ a < db.next.article
TagsExplained == \A a \in DOMAIN db.articles : Missing(db, a) # {} => Explained(a)
TagInv == NewIds /\ TagsExplained

(* Every other statement leaves the ids alone and takes no tag from an     *)
(* article that stays.                                                     *)
TagsKept(d, e) ==
  /\ e.next.article = d.next.article
  /\ \A a \in DOMAIN e.articles : \A t \in TagNames : <<a, t>> \in d.tags => <<a, t>> \in e.tags

LEMMA KeptByTables ==
  ASSUME NEW u, NEW a, NEW t, NEW fa, NEW fo, NEW c, NEW i, NEW j, NEW k, NEW u2, NEW a2,
         NEW t2, NEW fa2, NEW fo2, NEW c2, NEW i2, NEW k2,
         \A x \in DOMAIN a2 : \A y \in TagNames : <<x, y>> \in t => <<x, y>> \in t2
  PROVE  TagsKept(DbOf(u, a, t, fa, fo, c, i, j, k), DbOf(u2, a2, t2, fa2, fo2, c2, i2, j, k2))
BY DEF TagsKept, DbOf

LEMMA UserTags ==
  ASSUME NEW d, RwDb(d), NEW q
  PROVE  /\ TagsKept(d, insert_user(d, q).db) /\ TagsKept(d, update_user(d, q).db)
         /\ TagsKept(d, delete_user(d, q).db) /\ TagsKept(d, find_user(d, q).db)
         /\ TagsKept(d, follow_user(d, q).db)
         /\ \A id : TagsKept(d, find_user_by_id(d, q, id).db)
         /\ TagsKept(d, [d EXCEPT !.follows = @ \ {<<q.who, q.owner>>}])
<1>1. PICK u, a, t, fa, fo, c : \E i, j, k \in Keys :
        d = DbOf(u, a, t, fa, fo, c, i, j, k) /\ Rows(u, a, t, fa, fo, c)
  BY DEF RwDb
<1>2. PICK i \in Keys, j \in Keys, k \in Keys : d = DbOf(u, a, t, fa, fo, c, i, j, k)
  BY <1>1
<1>s. TagsKept(d, d)
  BY DEF TagsKept
<1>f. \A st : TagsKept(d, Refused(d, q, st).db)
  BY <1>s DEF Refused
<1>3. TagsKept(d, insert_user(d, q).db)
  <2>1. CASE NameTaken(d, q.arg, None)
    BY <1>f, <2>1 DEF insert_user
  <2>2. CASE ~NameTaken(d, q.arg, None)
    <3> DEFINE n == With(d.users, d.next.user, q.arg)
               m == d.next.user + 1
    <3>1. insert_user(d, q).db = SetUser(d, n, m)
      BY <2>2 DEF insert_user, SetUser, Ok
    <3> HIDE DEF n, m
    <3>2. SetUser(d, n, m) = DbOf(n, a, t, fa, fo, c, m, j, k)
      BY <1>2, DbSetUser
    <3>3. TagsKept(DbOf(u, a, t, fa, fo, c, i, j, k), DbOf(n, a, t, fa, fo, c, m, j, k))
      BY KeptByTables
    <3> QED
      BY <1>2, <3>1, <3>2, <3>3
  <2> QED
    BY <2>1, <2>2
<1>4. TagsKept(d, update_user(d, q).db)
  <2>1. CASE q.who \notin DOMAIN d.users \/ NameTaken(d, q.arg, q.who)
    BY <1>f, <2>1 DEF update_user
  <2>2. CASE ~(q.who \notin DOMAIN d.users \/ NameTaken(d, q.arg, q.who))
    <3> DEFINE n == [d.users EXCEPT ![q.who] = q.arg]
    <3>1. update_user(d, q).db = [d EXCEPT !.users = n]
      BY <2>2 DEF update_user, Ok
    <3> HIDE DEF n
    <3>2. [d EXCEPT !.users = n] = DbOf(n, a, t, fa, fo, c, i, j, k)
      BY <1>2 DEF DbOf
    <3>3. TagsKept(DbOf(u, a, t, fa, fo, c, i, j, k), DbOf(n, a, t, fa, fo, c, i, j, k))
      BY KeptByTables
    <3> QED
      BY <1>2, <3>1, <3>2, <3>3
  <2> QED
    BY <2>1, <2>2
<1>5. TagsKept(d, delete_user(d, q).db)
  <2>1. CASE q.who \notin DOMAIN d.users
    BY <1>f, <2>1 DEF delete_user
  <2>2. CASE q.who \in DOMAIN d.users
    <3> DEFINE gone == {x \in DOMAIN d.articles : d.articles[x].author = q.who}
               names == Restrict(d.users, DOMAIN d.users \ {q.who})
               arts == Restrict(d.articles, DOMAIN d.articles \ gone)
               tags == {x \in d.tags : x[1] \notin gone}
               favs == {f \in d.favorites : f[1] # q.who /\ f[2] \notin gone}
               folw == {f \in d.follows : q.who \notin {f[1], f[2]}}
               coms == Restrict(d.comments,
                                {x \in DOMAIN d.comments :
                                   d.comments[x].author # q.who
                                   /\ d.comments[x].article \notin gone})
    <3>1. delete_user(d, q).db = SetAll(d, names, arts, tags, favs, folw, coms)
      BY <2>2 DEF delete_user, SetAll, Ok
    <3>2. d.tags = t
      BY <1>2 DEF DbOf
    <3>3. \A x \in DOMAIN arts : x \notin gone
      BY DEF Restrict
    <3>4. \A x \in DOMAIN arts : \A y \in TagNames : <<x, y>> \in t => <<x, y>> \in tags
      BY <3>2, <3>3
    <3> HIDE DEF gone, names, arts, tags, favs, folw, coms
    <3>5. SetAll(d, names, arts, tags, favs, folw, coms)
            = DbOf(names, arts, tags, favs, folw, coms, i, j, k)
      BY <1>2, DbSetAll
    <3>6. TagsKept(DbOf(u, a, t, fa, fo, c, i, j, k),
                   DbOf(names, arts, tags, favs, folw, coms, i, j, k))
      BY <3>4, KeptByTables
    <3> QED
      BY <1>2, <3>1, <3>5, <3>6
  <2> QED
    BY <2>1, <2>2
<1>6. TagsKept(d, find_user(d, q).db) /\ \A id : TagsKept(d, find_user_by_id(d, q, id).db)
  BY <1>s, <1>f DEF find_user, find_user_by_id, Ok
<1>g. \A g : TagsKept(d, [d EXCEPT !.follows = g])
  <2> SUFFICES ASSUME NEW g PROVE TagsKept(d, [d EXCEPT !.follows = g])
    OBVIOUS
  <2>1. [d EXCEPT !.follows = g] = DbOf(u, a, t, fa, g, c, i, j, k)
    BY <1>2 DEF DbOf
  <2>2. TagsKept(DbOf(u, a, t, fa, fo, c, i, j, k), DbOf(u, a, t, fa, g, c, i, j, k))
    BY KeptByTables
  <2> QED
    BY <1>2, <2>1, <2>2
<1>7. TagsKept(d, follow_user(d, q).db)
  <2>1. CASE ~(Exists(d, q.who, None) /\ Exists(d, q.owner, None))
    BY <1>f, <2>1 DEF follow_user
  <2>2. CASE Exists(d, q.who, None) /\ Exists(d, q.owner, None)
    <3>1. follow_user(d, q).db = [d EXCEPT !.follows = d.follows \cup {<<q.who, q.owner>>}]
      BY <2>2 DEF follow_user, Ok
    <3> QED
      BY <1>g, <3>1, Zenon
  <2> QED
    BY <2>1, <2>2
<1>8. TagsKept(d, [d EXCEPT !.follows = @ \ {<<q.who, q.owner>>}])
  BY <1>g
<1> QED
  BY <1>3, <1>4, <1>5, <1>6, <1>7, <1>8

LEMMA ArticleTags ==
  ASSUME NEW d, RwDb(d), NEW q
  PROVE  /\ TagsKept(d, select_article(d, q).db) /\ TagsKept(d, insert_tag(d, q).db)
         /\ \A s : TagsKept(d, update_article(d, q, s).db)
         /\ TagsKept(d, delete_article(d, q).db) /\ TagsKept(d, insert_favorite(d, q).db)
         /\ TagsKept(d, insert_comment(d, q).db) /\ TagsKept(d, delete_comment(d, q).db)
         /\ TagsKept(d, select_comments(d, q).db)
         /\ TagsKept(d, [d EXCEPT !.favorites = @ \ {<<q.who, q.found>>}])
<1>1. PICK u, a, t, fa, fo, c : \E i, j, k \in Keys :
        d = DbOf(u, a, t, fa, fo, c, i, j, k) /\ Rows(u, a, t, fa, fo, c)
  BY DEF RwDb
<1>2. PICK i \in Keys, j \in Keys, k \in Keys : d = DbOf(u, a, t, fa, fo, c, i, j, k)
  BY <1>1
<1>d. d.tags = t
  BY <1>2 DEF DbOf
<1>s. TagsKept(d, d)
  BY DEF TagsKept
<1>f. \A st : TagsKept(d, Refused(d, q, st).db)
  BY <1>s DEF Refused
<1>3. TagsKept(d, select_article(d, q).db) /\ TagsKept(d, select_comments(d, q).db)
  BY <1>s, <1>f DEF select_article, select_comments, Ok
<1>4. TagsKept(d, insert_tag(d, q).db)
  <2> DEFINE rest == {x \in TagNames : <<q.found, x>> \notin d.tags}
             g == d.tags \cup {<<q.found, CHOOSE x \in rest : TRUE>>}
  <2>1. CASE q.found \notin DOMAIN d.articles \/ rest = {}
    BY <1>s, <1>f, <2>1 DEF insert_tag, Ok
  <2>2. CASE q.found \in DOMAIN d.articles /\ rest # {}
    <3>1. insert_tag(d, q).db = [d EXCEPT !.tags = g]
      BY <2>2 DEF insert_tag, Ok
    <3>2. t \subseteq g
      BY <1>d
    <3> HIDE DEF g
    <3>3. [d EXCEPT !.tags = g] = DbOf(u, a, g, fa, fo, c, i, j, k)
      BY <1>2 DEF DbOf
    <3>4. TagsKept(DbOf(u, a, t, fa, fo, c, i, j, k), DbOf(u, a, g, fa, fo, c, i, j, k))
      BY <3>2, KeptByTables
    <3> QED
      BY <1>2, <3>1, <3>3, <3>4
  <2> QED
    BY <2>1, <2>2
<1>5. ASSUME NEW s PROVE TagsKept(d, update_article(d, q, s).db)
  <2> DEFINE v == CHOOSE x \in Mine(d, q) : TRUE
             b == [d.articles EXCEPT ![v].slug = s]
  <2>1. CASE Mine(d, q) = {} \/ SlugTaken(d, s, v)
    BY <1>f, <2>1 DEF update_article
  <2>2. CASE Mine(d, q) # {} /\ ~SlugTaken(d, s, v)
    <3>1. update_article(d, q, s).db = [d EXCEPT !.articles[v].slug = s]
      BY <2>2 DEF update_article, Ok
    <3>2. [d EXCEPT !.articles[v].slug = s] = [d EXCEPT !.articles = b]
      <4> HIDE DEF v
      <4> QED
        BY <1>2 DEF DbOf
    <3> HIDE DEF b
    <3>3. [d EXCEPT !.articles = b] = DbOf(u, b, t, fa, fo, c, i, j, k)
      BY <1>2 DEF DbOf
    <3>4. TagsKept(DbOf(u, a, t, fa, fo, c, i, j, k), DbOf(u, b, t, fa, fo, c, i, j, k))
      BY KeptByTables
    <3> QED
      BY <1>2, <3>1, <3>2, <3>3, <3>4
  <2> QED
    BY <2>1, <2>2
<1>6. TagsKept(d, delete_article(d, q).db)
  <2> DEFINE gone == Mine(d, q)
  <2>1. CASE gone = {}
    BY <1>f, <2>1 DEF delete_article
  <2>2. CASE gone # {}
    <3> DEFINE arts == Restrict(d.articles, DOMAIN d.articles \ gone)
               tags == {x \in d.tags : x[1] \notin gone}
               favs == {f \in d.favorites : f[2] \notin gone}
               coms == Restrict(d.comments, {x \in DOMAIN d.comments :
                                               d.comments[x].article \notin gone})
    <3>1. delete_article(d, q).db = SetArticles(d, arts, tags, favs, coms)
      BY <2>2 DEF delete_article, SetArticles, Ok
    <3> HIDE DEF gone
    <3>2. \A x \in DOMAIN arts : x \notin gone
      BY DEF Restrict
    <3>3. \A x \in DOMAIN arts : \A y \in TagNames : <<x, y>> \in t => <<x, y>> \in tags
      BY <1>d, <3>2
    <3> HIDE DEF arts, tags, favs, coms
    <3>4. SetArticles(d, arts, tags, favs, coms) = DbOf(u, arts, tags, favs, fo, coms, i, j, k)
      BY <1>2, DbSetArticles
    <3>5. TagsKept(DbOf(u, a, t, fa, fo, c, i, j, k), DbOf(u, arts, tags, favs, fo, coms, i, j, k))
      BY <3>3, KeptByTables
    <3> QED
      BY <1>2, <3>1, <3>4, <3>5
  <2> QED
    BY <2>1, <2>2
<1>g. \A g : TagsKept(d, [d EXCEPT !.favorites = g])
  <2> SUFFICES ASSUME NEW g PROVE TagsKept(d, [d EXCEPT !.favorites = g])
    OBVIOUS
  <2>1. [d EXCEPT !.favorites = g] = DbOf(u, a, t, g, fo, c, i, j, k)
    BY <1>2 DEF DbOf
  <2>2. TagsKept(DbOf(u, a, t, fa, fo, c, i, j, k), DbOf(u, a, t, g, fo, c, i, j, k))
    BY KeptByTables
  <2> QED
    BY <1>2, <2>1, <2>2
<1>7. TagsKept(d, insert_favorite(d, q).db)
  <2>1. CASE ~Exists(d, q.who, q.found)
    BY <1>f, <2>1 DEF insert_favorite
  <2>2. CASE Exists(d, q.who, q.found)
    <3>1. insert_favorite(d, q).db = [d EXCEPT !.favorites = d.favorites \cup {<<q.who, q.found>>}]
      BY <2>2 DEF insert_favorite, Ok
    <3> QED
      BY <1>g, <3>1, Zenon
  <2> QED
    BY <2>1, <2>2
<1>8. TagsKept(d, insert_comment(d, q).db)
  <2>1. CASE ~Exists(d, q.who, q.found)
    BY <1>f, <2>1 DEF insert_comment
  <2>2. CASE Exists(d, q.who, q.found)
    <3> DEFINE b == With(d.comments, d.next.comment, [author |-> q.who, article |-> q.found])
               n == d.next.comment + 1
    <3>1. insert_comment(d, q).db = SetComment(d, b, n)
      BY <2>2 DEF insert_comment, SetComment, Ok
    <3> HIDE DEF b, n
    <3>2. SetComment(d, b, n) = DbOf(u, a, t, fa, fo, b, i, j, n)
      BY <1>2, DbSetComment
    <3>3. TagsKept(DbOf(u, a, t, fa, fo, c, i, j, k), DbOf(u, a, t, fa, fo, b, i, j, n))
      BY KeptByTables
    <3> QED
      BY <1>2, <3>1, <3>2, <3>3
  <2> QED
    BY <2>1, <2>2
<1>9. TagsKept(d, delete_comment(d, q).db)
  <2>1. CASE ~(q.arg \in DOMAIN d.comments /\ d.comments[q.arg].author = q.who)
    BY <1>f, <2>1 DEF delete_comment
  <2>2. CASE q.arg \in DOMAIN d.comments /\ d.comments[q.arg].author = q.who
    <3> DEFINE b == Restrict(d.comments, DOMAIN d.comments \ {q.arg})
    <3>1. delete_comment(d, q).db = [d EXCEPT !.comments = b]
      BY <2>2 DEF delete_comment, Ok
    <3> HIDE DEF b
    <3>2. [d EXCEPT !.comments = b] = DbOf(u, a, t, fa, fo, b, i, j, k)
      BY <1>2 DEF DbOf
    <3>3. TagsKept(DbOf(u, a, t, fa, fo, c, i, j, k), DbOf(u, a, t, fa, fo, b, i, j, k))
      BY KeptByTables
    <3> QED
      BY <1>2, <3>1, <3>2, <3>3
  <2> QED
    BY <2>1, <2>2
<1>10. TagsKept(d, [d EXCEPT !.favorites = @ \ {<<q.who, q.found>>}])
  BY <1>g
<1> QED
  BY <1>3, <1>4, <1>5, <1>6, <1>7, <1>8, <1>9, <1>10

LEMMA ExecuteKeepsTags ==
  ASSUME NEW d, RwDb(d), NEW q, NEW s, NEW sql, sql # "insert_article"
  PROVE  TagsKept(d, Execute(sql, d, q, s).db)
<1>s. TagsKept(d, d)
  BY DEF TagsKept
<1>1. CASE sql \in {"insert_user", "update_user", "select_self", "find_self", "find_author",
                    "comment_author", "delete_user", "find_user", "insert_follow",
                    "delete_follow"}
  <2>1. /\ TagsKept(d, insert_user(d, q).db) /\ TagsKept(d, update_user(d, q).db)
        /\ TagsKept(d, delete_user(d, q).db) /\ TagsKept(d, find_user(d, q).db)
        /\ TagsKept(d, follow_user(d, q).db)
        /\ \A id : TagsKept(d, find_user_by_id(d, q, id).db)
        /\ TagsKept(d, Ok([d EXCEPT !.follows = @ \ {<<q.who, q.owner>>}], q).db)
    BY UserTags DEF Ok
  <2> QED
    BY <1>1, <2>1 DEF Execute
<1>2. CASE sql \in {"select_article", "insert_tag", "update_article", "delete_article",
                    "insert_favorite", "delete_favorite", "insert_comment", "delete_comment",
                    "select_comments"}
  <2>1. /\ TagsKept(d, select_article(d, q).db) /\ TagsKept(d, insert_tag(d, q).db)
        /\ TagsKept(d, update_article(d, q, s).db)
        /\ TagsKept(d, delete_article(d, q).db) /\ TagsKept(d, insert_favorite(d, q).db)
        /\ TagsKept(d, insert_comment(d, q).db) /\ TagsKept(d, delete_comment(d, q).db)
        /\ TagsKept(d, select_comments(d, q).db)
        /\ TagsKept(d, Ok([d EXCEPT !.favorites = @ \ {<<q.who, q.found>>}], q).db)
    BY ArticleTags DEF Ok
  <2> QED
    BY <1>2, <2>1 DEF Execute
<1>3. CASE sql \notin {"insert_user", "update_user", "select_self", "find_self", "find_author",
                       "comment_author", "delete_user", "find_user", "insert_follow",
                       "delete_follow", "select_article", "insert_article", "insert_tag",
                       "update_article", "delete_article", "insert_favorite", "delete_favorite",
                       "insert_comment", "delete_comment", "select_comments"}
  <2>1. Execute(sql, d, q, s) = Ok(d, q)
    BY <1>3 DEF Execute
  <2> QED
    BY <1>s, <2>1 DEF Ok
<1> QED
  BY <1>1, <1>2, <1>3

(* An article gets a new id and no tag.                                    *)
LEMMA InsertsArticle ==
  ASSUME NEW d, RwDb(d), NEW q \in ReqType, NEW r, r = insert_article(d, q)
  PROVE  /\ r.status # "ok" => r.db = d
         /\ r.status = "ok" =>
              /\ r.q.found = d.next.article /\ r.db.next.article = d.next.article + 1
              /\ d.next.article \in Nat /\ r.db.tags = d.tags
              /\ DOMAIN r.db.articles = DOMAIN d.articles \cup {d.next.article}
<1>1. PICK u, a, t, fa, fo, c : \E i, j, k \in Keys :
        d = DbOf(u, a, t, fa, fo, c, i, j, k) /\ Rows(u, a, t, fa, fo, c)
  BY DEF RwDb
<1>2. PICK i \in Keys, j \in Keys, k \in Keys : d = DbOf(u, a, t, fa, fo, c, i, j, k)
  BY <1>1
<1>d. d.articles = a /\ d.tags = t /\ d.next.article = j
  BY <1>2 DEF DbOf
<1>3. CASE SlugTaken(d, q.arg, None) \/ ~Exists(d, q.who, None)
  BY <1>3 DEF insert_article, Refused
<1>4. CASE ~SlugTaken(d, q.arg, None) /\ Exists(d, q.who, None)
  <2> DEFINE b == With(d.articles, d.next.article, [slug |-> q.arg, author |-> q.who])
             n == d.next.article + 1
             p == Locals(q, d.next.article, q.who)
  <2>1. r.db = SetArticle(d, b, n) /\ r.q = p /\ r.status = "ok"
    BY <1>4 DEF insert_article, SetArticle, Locals, Ok
  <2>2. DOMAIN b = DOMAIN a \cup {j}
    BY <1>d DEF With
  <2>3. p.found = j
    <3>1. q.who \in Nat /\ d.next.article \in Nat
      BY <1>d DEF ReqType, Keys
    <3> QED
      BY <1>d, <3>1, SetLocals
  <2>4. n = j + 1 /\ j \in Nat
    BY <1>d DEF Keys
  <2> HIDE DEF b, n, p
  <2>5. SetArticle(d, b, n) = DbOf(u, b, t, fa, fo, c, i, n, k)
    BY <1>2, DbSetArticle
  <2>6. r.db.articles = b /\ r.db.tags = t /\ r.db.next.article = n
    BY <2>1, <2>5 DEF DbOf
  <2> QED
    BY <1>d, <2>1, <2>2, <2>3, <2>4, <2>6
<1> QED
  BY <1>3, <1>4

(* A tag is added if one is missing.                                       *)
LEMMA InsertsTag ==
  ASSUME NEW d, RwDb(d), NEW q, NEW r, r = insert_tag(d, q), q.found \in DOMAIN d.articles,
         Missing(d, q.found) # {}
  PROVE  /\ r.status = "ok" /\ r.q = q
         /\ \E x \in Missing(d, q.found) : Missing(r.db, q.found) = Missing(d, q.found) \ {x}
<1>1. PICK u, a, t, fa, fo, c : \E i, j, k \in Keys :
        d = DbOf(u, a, t, fa, fo, c, i, j, k) /\ Rows(u, a, t, fa, fo, c)
  BY DEF RwDb
<1>2. PICK i \in Keys, j \in Keys, k \in Keys : d = DbOf(u, a, t, fa, fo, c, i, j, k)
  BY <1>1
<1> DEFINE x == CHOOSE y \in Missing(d, q.found) : TRUE
           g == d.tags \cup {<<q.found, x>>}
<1>3. r = Ok([d EXCEPT !.tags = g], q)
  BY DEF insert_tag, Missing
<1>4. x \in Missing(d, q.found)
  OBVIOUS
<1> HIDE DEF x
<1>5. {y \in TagNames : <<q.found, y>> \notin g} = Missing(d, q.found) \ {x}
  BY <1>4 DEF Missing
<1> HIDE DEF g
<1> DEFINE e == [d EXCEPT !.tags = g]
<1>6. e.tags = g
  BY <1>2 DEF DbOf
<1> HIDE DEF e
<1>7. r.db = e /\ r.q = q /\ r.status = "ok"
  BY <1>3 DEF Ok, e
<1> QED
  BY <1>4, <1>5, <1>6, <1>7 DEF Missing

LEMMA MissingFinite ==
  ASSUME NEW d, NEW a
  PROVE  /\ IsFiniteSet(Missing(d, a)) /\ Cardinality(Missing(d, a)) \in Nat
         /\ Cardinality(Missing(d, a)) <= NTags
<1>1. Missing(d, a) \subseteq TagNames
  BY DEF Missing
<1> QED
  BY <1>1, PoolAssumption, FS_Subset, FS_CardinalityType DEF NTags

LEMMA TagStart == RwInit => TagInv
<1> SUFFICES ASSUME RwInit PROVE TagInv
  OBVIOUS
<1>1. DOMAIN made = {1}
  BY DEF RwInit
<1>2. db.next.article = 2 /\ db.tags = {<<1, t>> : t \in TagNames} /\ DOMAIN db.articles = {1}
  BY DEF RwInit, Seed
<1>3. \A a \in DOMAIN db.articles : Missing(db, a) = {}
  BY <1>2 DEF Missing
<1> QED
  BY <1>1, <1>2, <1>3 DEF TagInv, NewIds, TagsExplained

(* Steps that leave the tables alone and only change what worker w does.   *)
LEMMA TagsStay ==
  ASSUME RwInv, TagInv, NEW w \in Workers, NEW p, req' = [req EXCEPT ![w] = p],
         UNCHANGED <<db, made>>,
         \A x \in Workers \ {w} : served'[x] = served[x],
         \/ served'[w] = served[w] /\ (Failed(req[w]) => Failed(p))
            /\ \A a : Tagging(db, req[w], a) => Tagging(db, p, a) \/ Failed(p)
         \/ served'[w] = served[w] + 1
  PROVE  TagInv'
<1>1. NewIds'
  BY DEF TagInv, NewIds
<1>2. TagsExplained'
  <2> SUFFICES ASSUME NEW a \in DOMAIN db'.articles, Missing(db', a) # {} PROVE Explained(a)'
    BY DEF TagsExplained
  <2>1. a \in DOMAIN db.articles /\ Missing(db, a) # {}
    OBVIOUS
  <2>2. PICK v \in Workers : \E k \in Nat :
          /\ made[a] = <<v, k>> /\ k <= served[v]
          /\ k = served[v] => Tagging(db, req[v], a) \/ Failed(req[v])
    BY <2>1 DEF TagInv, TagsExplained, Explained
  <2>3. PICK k \in Nat :
          /\ made[a] = <<v, k>> /\ k <= served[v]
          /\ k = served[v] => Tagging(db, req[v], a) \/ Failed(req[v])
    BY <2>2
  <2>4. served[v] \in Nat /\ req'[w] = p /\ \A x \in Workers \ {w} : req'[x] = req[x]
    BY DEF RwInv, Counted, Calls
  <2>5. k <= served'[v] /\ (k = served'[v] => Tagging(db, req'[v], a) \/ Failed(req'[v]))
    <3>1. CASE v # w
      BY <2>3, <2>4, <3>1
    <3>2. CASE v = w /\ served'[w] = served[w] + 1
      BY <2>3, <2>4, <3>2
    <3>3. CASE v = w /\ served'[w] = served[w] /\ (Failed(req[w]) => Failed(p))
               /\ \A b : Tagging(db, req[w], b) => Tagging(db, p, b) \/ Failed(p)
      BY <2>3, <2>4, <3>3
    <3> QED
      BY <3>1, <3>2, <3>3
  <2>6. made'[a] = <<v, k>> /\ Tagging(db, req'[v], a) = Tagging(db, req[v], a)'
    BY <2>3 DEF Tagging, Missing
  <2>7. Failed(req'[v]) = Failed(req[v])'
    BY DEF Failed
  <2> QED
    BY <2>5, <2>6, <2>7 DEF Explained
<1> QED
  BY <1>1, <1>2 DEF TagInv

LEMMA AdvancedKeeps ==
  ASSUME NEW q \in ReqType
  PROVE  LET p == Advanced(q)
         IN p.op = q.op /\ p.pc = q.pc + 1 /\ p.answer = q.answer /\ p.found = q.found
<1> DEFINE p == Advanced(q)
           e == [q EXCEPT !.pc = q.pc + 1]
<1>1. e.found = q.found /\ e.lent = q.lent /\ e \in ReqType
  BY DEF ReqType, Keys
<1>2. p = [e EXCEPT !.lent = FALSE]
  BY DEF Advanced
<1> HIDE DEF e
<1>3. p.found = e.found
  BY <1>1, <1>2 DEF ReqType
<1> QED
  BY <1>1, <1>3, AdvancedCall

(* Inserting an article does not move the program counter.                 *)
LEMMA PlainPc ==
  ASSUME NEW d, RwDb(d), NEW q \in ReqType
  PROVE  insert_article(d, q).q.pc = q.pc
<1>1. insert_article(d, q).q \in {q, Locals(q, d.next.article, q.who)}
  BY DEF insert_article, Ok, Refused, Locals
<1>2. \A f, o : Locals(q, f, o).pc = q.pc
  BY DEF Locals, ReqType
<1> QED
  BY <1>1, <1>2

LEMMA TagBegin ==
  ASSUME RwInv, TagInv, NEW w \in Workers, NEW op, NEW u, NEW arg, Begin(w, op, u, arg)
  PROVE  TagInv'
<1>1. /\ req' = [req EXCEPT ![w] = [Idle EXCEPT !.op = op, !.who = u, !.arg = arg]]
      /\ UNCHANGED <<db, made>> /\ served' = [served EXCEPT ![w] = @ + 1]
  BY DEF Begin
<1>2. served'[w] = served[w] + 1 /\ \A x \in Workers \ {w} : served'[x] = served[x]
  BY <1>1 DEF RwInv, Counted
<1> QED
  BY <1>1, <1>2, TagsStay

LEMMA TagGet ==
  ASSUME RwInv, TagInv, NEW w \in Workers, Get(w)
  PROVE  TagInv'
<1>q. req[w] \in ReqType
  BY DEF RwInv, Calls
<1>1. UNCHANGED <<db, made, served>>
  BY DEF Get
<1>2. PICK p : /\ req' = [req EXCEPT ![w] = p]
               /\ p = [req[w] EXCEPT !.own = TRUE] \/ p = [req[w] EXCEPT !.lent = TRUE]
  BY DEF Get
<1>3. /\ p.op = req[w].op /\ p.answer = req[w].answer /\ p.found = req[w].found
      /\ p.pc = req[w].pc
  BY <1>q, <1>2 DEF ReqType
<1>4. Failed(req[w]) => Failed(p)
  BY <1>3 DEF Failed
<1>5. \A a : Tagging(db, req[w], a) => Tagging(db, p, a)
  BY <1>3 DEF Tagging
<1> QED
  BY <1>1, <1>2, <1>4, <1>5, TagsStay

LEMMA TagEnd ==
  ASSUME RwInv, TagInv, NEW w \in Workers, WaitTimeout(w) \/ QueryFails(w) \/ Abandon(w)
  PROVE  TagInv'
<1>1. UNCHANGED <<db, served, made>> /\ \E st \in {"500", "gone"} : Answer(w, st)
  BY DEF WaitTimeout, QueryFails, Abandon
<1>2. PICK st \in {"500", "gone"} : Answer(w, st)
  BY <1>1
<1> DEFINE p == [Idle EXCEPT !.answer = st]
<1>3. p.op = "none" /\ p.answer = st
  BY AnsweredCall DEF RwAnswers
<1>4. req' = [req EXCEPT ![w] = p]
  BY <1>2 DEF Answer
<1> HIDE DEF p
<1>5. Failed(p)
  BY <1>3 DEF Failed
<1> QED
  BY <1>1, <1>4, <1>5, TagsStay

(* A statement: the one that inserts an article starts its tags, one that  *)
(* inserts a tag takes one step, and no answer is given before they are    *)
(* all there.                                                              *)
LEMMA TagQuery ==
  ASSUME RwInv, TagInv, NEW w \in Workers, Query(w)
  PROVE  TagInv'
<1> DEFINE q == req[w]
           sql == Step(w).sql
           n == Len(Script[q.op])
<1>1. PICK s \in IF sql = "update_article" THEN Slugs ELSE {None} :
        LET r == Execute(sql, db, q, s)
            last == r.q.pc >= n
        IN /\ db' = r.db
           /\ made' = IF sql = "insert_article" /\ r.status = "ok"
                      THEN With(made, r.q.found, <<w, served[w]>>) ELSE made
           /\ IF r.status # "ok" \/ last THEN Answer(w, r.status)
              ELSE /\ req' = [req EXCEPT ![w] = [r.q EXCEPT !.pc = @ + 1, !.lent = FALSE]]
                   /\ idle' = idle + (IF req[w].lent THEN 1 ELSE 0)
  BY DEF Query
<1> DEFINE r == Execute(sql, db, q, s)
<1>q. q \in ReqType /\ CallOK(q) /\ q.op # "none" /\ q.answer = "none"
  BY DEF Query, Ready, InService, RwInv, Calls
<1>o. /\ q.op \in DOMAIN Script /\ n \in Keys /\ n \in Nat /\ q.pc \in Nat /\ q.pc >= 1
      /\ q.pc <= n /\ q.pc \in DOMAIN Script[q.op] /\ sql = Script[q.op][q.pc].sql
  <2>1. q.op \in DOMAIN Script /\ q.pc \in Keys
    BY <1>q DEF ReqType
  <2>2. n \in Keys /\ DOMAIN Script[q.op] = 1..n
    BY <2>1, ScriptRuns
  <2>3. q.pc <= n
    BY <1>q DEF CallOK
  <2>4. sql = Script[q.op][q.pc].sql
    BY DEF Step
  <2> HIDE DEF n, sql, q
  <2> QED
    BY <2>1, <2>2, <2>3, <2>4 DEF Keys
<1>s. s \in Vals
  BY DEF Vals, None
<1>d. RwDb(db) /\ DOMAIN db.articles \subseteq DOMAIN made
  BY DEF RwInv, TablesKept
<1>2. Sound(db, q, r, Added(sql, r))
  BY <1>q, <1>o, <1>s, <1>d, ExecuteIsSound
<1>3. /\ db' = r.db
      /\ made' = IF sql = "insert_article" /\ r.status = "ok"
                 THEN With(made, r.q.found, <<w, served[w]>>) ELSE made
  BY <1>1
<1>4. \/ (r.status # "ok" \/ r.q.pc >= n) /\ Answer(w, r.status)
      \/ /\ r.status = "ok" /\ ~(r.q.pc >= n)
         /\ req' = [req EXCEPT ![w] = Advanced(r.q)]
  BY <1>1 DEF Advanced
<1>5. served' = served /\ served[w] \in Nat
  BY DEF Query, RwInv, Counted
<1>k. sql # "insert_article" => TagsKept(db, r.db)
  BY <1>d, ExecuteKeepsTags
<1>a. sql = "insert_article" => r = insert_article(db, q)
  BY DEF Execute
<1>t. sql = "insert_tag" => r = insert_tag(db, q)
  BY DEF Execute
<1>w. \A x \in Workers \ {w} : req'[x] = req[x]
  BY <1>4 DEF Answer, RwInv, Calls
<1>e. r.status = "ok" /\ ~(r.q.pc >= n) => req'[w] = Advanced(r.q)
  BY <1>4 DEF RwInv, Calls
<1> HIDE DEF r, q, sql, n
<1>i. /\ sql = "insert_article" /\ r.status = "ok" =>
           /\ r.q.found = db.next.article /\ r.db.next.article = db.next.article + 1
           /\ db.next.article \in Nat /\ r.db.tags = db.tags
           /\ DOMAIN r.db.articles = DOMAIN db.articles \cup {db.next.article}
      /\ sql = "insert_article" /\ r.status # "ok" => r.db = db
  BY <1>d, <1>q, <1>a, InsertsArticle
<1>6. NewIds'
  <2>1. \A x \in DOMAIN made : x \in Nat /\ x < db.next.article
    BY DEF TagInv, NewIds
  <2>2. CASE sql = "insert_article" /\ r.status = "ok"
    <3>1. DOMAIN made' = DOMAIN made \cup {db.next.article}
      BY <1>3, <1>i, <2>2 DEF With
    <3>2. \A x \in DOMAIN made : x < db.next.article + 1
      BY <1>i, <2>1, <2>2
    <3>3. db.next.article < db.next.article + 1
      BY <1>i, <2>2
    <3> QED
      BY <1>3, <1>i, <2>1, <2>2, <3>1, <3>2, <3>3 DEF NewIds
  <2>3. CASE ~(sql = "insert_article" /\ r.status = "ok")
    <3>1. made' = made
      BY <1>3, <2>3
    <3>2. db'.next.article = db.next.article
      BY <1>3, <1>i, <1>k, <2>3 DEF TagsKept
    <3> QED
      BY <2>1, <3>1, <3>2 DEF NewIds
  <2> QED
    BY <2>2, <2>3
<1>7. ASSUME NEW a \in DOMAIN db'.articles, Missing(db', a) # {} PROVE Explained(a)'
  <2>1. CASE sql = "insert_article" /\ r.status = "ok" /\ a = db.next.article
    <3>1. q.op = "create_article" /\ q.pc = 1
      BY <1>o, <2>1, OnlyCreateInserts
    <3>2. n = NTags + 6 /\ NTags \in Nat
      BY <3>1, CreateScript DEF n
    <3>3. SameCall(q, r.q)
      BY <1>2 DEF Sound
    <3> DEFINE p == Advanced(r.q)
    <3>4. r.q \in ReqType /\ r.q.op = q.op /\ r.q.answer = q.answer /\ (r.q.pc = 1 \/ r.q.pc = n)
      BY <3>1, <3>3 DEF SameCall, n
    <3>m. made'[a] = <<w, served[w]>>
      <4>1. a \notin DOMAIN made
        BY <1>i, <2>1 DEF TagInv, NewIds
      <4>2. made' = With(made, a, <<w, served[w]>>)
        BY <1>3, <1>i, <2>1
      <4> QED
        BY <4>1, <4>2 DEF With
    <3>5. r.q.pc = 1
      BY <1>a, <1>d, <1>q, <2>1, <3>1, PlainPc
    <3>6. req'[w] = p
      BY <1>e, <2>1, <3>2, <3>5
    <3>7. p.op = "create_article" /\ p.pc = 2 /\ p.answer = "none" /\ p.found = a
      BY <1>q, <1>i, <2>1, <3>1, <3>4, <3>5, AdvancedKeeps
    <3> HIDE DEF p
    <3>8. Tagging(db', p, a)
      <4>1. Cardinality(Missing(db', a)) \in Nat /\ Cardinality(Missing(db', a)) <= NTags
        BY MissingFinite
      <4> QED
        BY <3>2, <3>7, <4>1 DEF Tagging
    <3>9. Tagging(db, req[w], a)'
      BY <3>6, <3>8 DEF Tagging, Missing
    <3> QED
      BY <1>5, <3>m, <3>9 DEF Explained
  <2>2. CASE ~(sql = "insert_article" /\ r.status = "ok" /\ a = db.next.article)
    <3>1. a \in DOMAIN db.articles /\ Missing(db', a) \subseteq Missing(db, a)
      <4>1. CASE sql = "insert_article"
        BY <1>3, <1>i, <2>2, <4>1 DEF Missing
      <4>2. CASE sql # "insert_article"
        <5>1. a \in DOMAIN db.articles
          BY <1>2, <1>3, <4>2 DEF Sound, Added
        <5> QED
          BY <1>3, <1>k, <4>2, <5>1 DEF Missing, TagsKept
      <4> QED
        BY <4>1, <4>2
    <3>2. made'[a] = made[a]
      BY <1>3, <1>d, <3>1 DEF With
    <3>3. Explained(a)
      BY <1>7, <3>1 DEF TagInv, TagsExplained
    <3>4. PICK v \in Workers : \E k \in Nat :
            /\ made[a] = <<v, k>> /\ k <= served[v]
            /\ k = served[v] => Tagging(db, req[v], a) \/ Failed(req[v])
      BY <3>3 DEF Explained
    <3>5. PICK k \in Nat :
            /\ made[a] = <<v, k>> /\ k <= served[v]
            /\ k = served[v] => Tagging(db, req[v], a) \/ Failed(req[v])
      BY <3>4
    <3>6. ASSUME k = served[v] PROVE (Tagging(db, req[v], a) \/ Failed(req[v]))'
      <4> DEFINE m == Cardinality(Missing(db, a))
                 m2 == Cardinality(Missing(db', a))
      <4>1. m \in Nat /\ m2 \in Nat /\ m2 <= m /\ m > 0
        <5>1. IsFiniteSet(Missing(db, a)) /\ m \in Nat /\ m2 \in Nat
          BY MissingFinite
        <5>2. m2 <= m
          BY <3>1, <5>1, FS_Subset
        <5>3. m # 0
          BY <1>7, <3>1, <5>1, FS_EmptySet
        <5> QED
          BY <5>1, <5>2, <5>3
      <4>2. CASE v # w
        <5>1. req'[v] = req[v]
          BY <1>w, <4>2
        <5>2. Failed(req[v]) => Failed(req[v])'
          BY <5>1 DEF Failed
        <5>3. Tagging(db, req[v], a) => Tagging(db, req[v], a)'
          <6> SUFFICES ASSUME Tagging(db, req[v], a) PROVE Tagging(db, req[v], a)'
            OBVIOUS
          <6>1. m + req[v].pc <= NTags + 2 /\ req[v].pc \in Nat /\ NTags \in Nat
            BY CreateScript DEF Tagging, RwInv, Calls, ReqType, Keys
          <6>2. m2 + req[v].pc <= NTags + 2
            BY <4>1, <6>1
          <6> QED
            BY <5>1, <6>2 DEF Tagging, Missing
        <5> QED
          BY <3>5, <3>6, <5>2, <5>3
      <4>3. CASE v = w
        <5>1. Tagging(db, q, a)
          BY <1>q, <3>5, <3>6, <4>3 DEF Failed, q
        <5>2. q.op = "create_article" /\ q.found = a /\ q.pc >= 2 /\ m + q.pc <= NTags + 2
          BY <5>1 DEF Tagging
        <5>3. n = NTags + 6 /\ NTags \in Nat
          BY <5>2, CreateScript DEF n
        <5>4. q.pc \in 2..(NTags + 1)
          BY <1>o, <4>1, <5>2, <5>3
        <5>5. sql = "insert_tag"
          BY <1>o, <5>2, <5>4, CreateScript DEF Own
        <5>6. /\ r.status = "ok" /\ r.q = q
              /\ \E x \in Missing(db, a) : Missing(r.db, a) = Missing(db, a) \ {x}
          <6>1. RwDb(db) /\ r = insert_tag(db, q) /\ q.found = a
            BY <1>d, <1>t, <5>2, <5>5
          <6>2. a \in DOMAIN db.articles /\ Missing(db, a) # {}
            BY <1>7, <3>1
          <6> QED
            BY <6>1, <6>2, InsertsTag
        <5>7. m2 = m - 1
          <6>1. PICK x \in Missing(db, a) : Missing(r.db, a) = Missing(db, a) \ {x}
            BY <5>6
          <6>2. IsFiniteSet(Missing(db, a))
            BY MissingFinite
          <6> QED
            BY <1>3, <6>1, <6>2, FS_RemoveElement
        <5> DEFINE p == Advanced(q)
        <5>8. req'[w] = p
          BY <1>e, <1>o, <5>3, <5>4, <5>6
        <5>9. p.op = q.op /\ p.pc = q.pc + 1 /\ p.answer = q.answer /\ p.found = q.found
          BY <1>q, AdvancedKeeps
        <5> HIDE DEF p
        <5>10. m2 + p.pc <= NTags + 2 /\ p.pc >= 2
          BY <1>o, <4>1, <5>2, <5>3, <5>7, <5>9
        <5>11. Tagging(db, req[w], a)'
          BY <1>q, <5>2, <5>8, <5>9, <5>10 DEF Tagging, Missing
        <5> QED
          BY <4>3, <5>11
      <4> QED
        BY <4>2, <4>3
    <3> QED
      BY <1>5, <3>2, <3>5, <3>6 DEF Explained
  <2> QED
    BY <2>1, <2>2
<1> QED
  BY <1>6, <1>7 DEF TagInv, TagsExplained

LEMMA TagStep == RwInv /\ TagInv /\ [RwNext]_rwVars => TagInv'
<1> SUFFICES ASSUME RwInv, TagInv, [RwNext]_rwVars PROVE TagInv'
  OBVIOUS
<1>1. CASE UNCHANGED rwVars
  BY <1>1 DEF rwVars, TagInv, NewIds, TagsExplained, Explained, Missing, Tagging, Failed
<1>2. CASE RwNext
  <2>1. PICK w \in Workers :
          \/ \E op \in DOMAIN Script : \E u \in {1, 2}, arg \in Args(op) : Begin(w, op, u, arg)
          \/ RwProgress(w) \/ QueryFails(w) \/ Abandon(w)
    BY <1>2 DEF RwNext
  <2>2. CASE \E op \in DOMAIN Script : \E u \in {1, 2}, arg \in Args(op) : Begin(w, op, u, arg)
    BY <2>2, TagBegin
  <2>3. CASE Get(w)
    BY <2>3, TagGet
  <2>4. CASE WaitTimeout(w) \/ QueryFails(w) \/ Abandon(w)
    BY <2>4, TagEnd
  <2>5. CASE Query(w)
    BY <2>5, TagQuery
  <2> QED
    BY <2>1, <2>2, <2>3, <2>4, <2>5 DEF RwProgress
<1> QED
  BY <1>1, <1>2

LEMMA TagSafe == TagInv => WholeArticles
<1> SUFFICES ASSUME TagInv, NEW a \in DOMAIN db.articles, NEW t \in TagNames,
                    <<a, t>> \notin db.tags, made[a][2] = served[made[a][1]],
                    req[made[a][1]].answer = "ok"
             PROVE  FALSE
  BY DEF WholeArticles
<1>1. Explained(a)
  BY DEF TagInv, TagsExplained, Missing
<1> QED
  BY <1>1 DEF Explained, Tagging, Failed

(* An article that was answered with 201 has all its tags, whatever else   *)
(* ran at the time and however other attempts broke off (create_article).  *)
THEOREM CreatedArticlesAreWhole == RwSpec => []WholeArticles
<1>1. RwInv /\ [RwNext]_rwVars => RwInv'
  BY RwStep
<1> QED
  BY RwStart, <1>1, TagStart, TagStep, TagSafe, PTL DEF RwSpec
=============================================================================
