------------------------------ MODULE Exchange ------------------------------
(***************************************************************************)
(* examples/orderbook/src/main.rs: the order book several clients share    *)
(* through REST and gRPC.  submit_order takes a number from an atomic      *)
(* counter, publishes its price on a broadcast channel and stores the      *)
(* order under a lock, one step each; the other handlers hold the lock for *)
(* all they do.  An order is known by its number, and its price with it.   *)
(*                                                                         *)
(* The future of a handler is dropped with its request (the client leaves, *)
(* the stream is reset, a gRPC deadline passes), at an await.  submit_order*)
(* has one, at the lock, with the price already out: DropRequest.  At the  *)
(* lock of cancel_order and of the book nothing has been done yet, and a   *)
(* stream that is dropped is one that ends.                                *)
(***************************************************************************)
EXTENDS Naturals, Sequences, FiniteSets

CONSTANTS
  Clients,
  MaxOrders,   (* bound: orders submitted                                  *)
  Backlog,    (* the broadcast channel's: older prices are overwritten    *)
  Batch        (* the most prices one call of stream_prices returns        *)

ASSUME ExchangeAssumption ==
  MaxOrders \in Nat /\ Backlog \in Nat \ {0} /\ Batch \in Nat \ {0}

VARIABLES
  nextId,      (* next_id                                                  *)
  orders,      (* the vector behind the lock: records [id, status]         *)
  prices,      (* every price sent so far                                  *)
  call,        (* per client: the handler it waits for                     *)
  dropped,     (* the orders whose request was dropped at the lock         *)
  told         (* per order: what clients were told of it                  *)

exVars == <<nextId, orders, prices, call, dropped, told>>

OrderIds == 1..MaxOrders
Answers == {"accepted", "cancelled", "not_found"}
IdleCall == [at |-> "idle", id |-> 0, from |-> 0, next |-> 0, got |-> <<>>]
CallType == [at : {"idle", "publish", "store", "stream"}, id : 0..MaxOrders,
             from : Nat, next : Nat, got : Seq(OrderIds)]
OrderType == [id : OrderIds, status : {"accepted", "cancelled"}]

(* The type invariant, with the bound of a batch.                          *)
ExTypeOK ==
  /\ nextId \in 1..(MaxOrders + 1)
  /\ orders \in Seq(OrderType)
  /\ prices \in Seq(OrderIds)
  /\ call \in [Clients -> CallType]
  /\ dropped \subseteq OrderIds /\ told \in [OrderIds -> SUBSET Answers]
  /\ \A c \in Clients : Len(call[c].got) <= Batch

ExInit ==
  /\ nextId = 1 /\ orders = <<>> /\ prices = <<>> /\ dropped = {}
  /\ call = [c \in Clients |-> IdleCall]
  /\ told = [i \in OrderIds |-> {}]

(* Mutant: the number is read, not taken.                                  *)
next_order_id_Load(c) ==
  /\ call[c].at = "idle" /\ nextId <= MaxOrders
  /\ call' = [call EXCEPT ![c] = [IdleCall EXCEPT !.at = "publish", !.id = nextId]]
  /\ nextId' \in {nextId, nextId + 1}
  /\ UNCHANGED <<orders, prices, dropped, told>>

(* submit_order: fetch_add, and the acknowledgement is made.               *)
next_order_id(c) ==
  /\ call[c].at = "idle" /\ nextId <= MaxOrders
  /\ call' = [call EXCEPT ![c] = [IdleCall EXCEPT !.at = "publish", !.id = nextId]]
  /\ nextId' = nextId + 1
  /\ UNCHANGED <<orders, prices, dropped, told>>

(* price_tx.send: readers can see the price before the order is stored.    *)
Publish(c) ==
  /\ call[c].at = "publish"
  /\ prices' = Append(prices, call[c].id)
  /\ call' = [call EXCEPT ![c].at = "store"]
  /\ UNCHANGED <<nextId, orders, dropped, told>>

(* Mutant: the client is answered before the order is stored.              *)
Store_AnswerFirst(c) ==
  /\ call[c].at = "store"
  /\ \/ /\ orders' = Append(orders, [id |-> call[c].id, status |-> "accepted"])
        /\ call' = [call EXCEPT ![c] = IdleCall]
        /\ UNCHANGED told
     \/ /\ told' = [told EXCEPT ![call[c].id] = @ \union {"accepted"}]
        /\ UNCHANGED <<orders, call>>
  /\ UNCHANGED <<nextId, prices, dropped>>

(* Mutant: the order can be stored before its price is published.          *)
Store_Unpublished(c) ==
  /\ call[c].at \in {"publish", "store"}
  /\ orders' = Append(orders, [id |-> call[c].id, status |-> "accepted"])
  /\ told' = [told EXCEPT ![call[c].id] = @ \union {"accepted"}]
  /\ call' = [call EXCEPT ![c] = IdleCall]
  /\ UNCHANGED <<nextId, prices, dropped>>

(* orders.lock().await.push, and the answer 201.                           *)
Store(c) ==
  /\ call[c].at = "store"
  /\ orders' = Append(orders, [id |-> call[c].id, status |-> "accepted"])
  /\ told' = [told EXCEPT ![call[c].id] = @ \union {"accepted"}]
  /\ call' = [call EXCEPT ![c] = IdleCall]
  /\ UNCHANGED <<nextId, prices, dropped>>

(* Mutant: the rest of the handler is a task of its own, which outlives    *)
(* the request.                                                            *)
DropRequest_Detached(c) ==
  /\ call[c].at = "store"
  /\ dropped' = dropped \union {call[c].id}
  /\ UNCHANGED <<nextId, orders, prices, call, told>>

(* The request is dropped while submit_order waits for the lock: the order *)
(* is never stored and nobody is answered.                                 *)
DropRequest(c) ==
  /\ call[c].at = "store"
  /\ dropped' = dropped \union {call[c].id}
  /\ call' = [call EXCEPT ![c] = IdleCall]
  /\ UNCHANGED <<nextId, orders, prices, told>>

(* cancel_order: the first order with the number is marked, otherwise the  *)
(* answer is not_found.                                                    *)
First(id) == {k \in 1..Len(orders) : orders[k].id = id /\ \A j \in 1..(k - 1) : orders[j].id # id}
cancel_order(c, id) ==
  /\ call[c].at = "idle"
  /\ \/ /\ \E k \in First(id) : orders' = [orders EXCEPT ![k] = [@ EXCEPT !.status = "cancelled"]]
        /\ told' = [told EXCEPT ![id] = @ \union {"cancelled"}]
     \/ /\ First(id) = {}
        /\ told' = [told EXCEPT ![id] = @ \union {"not_found"}]
        /\ UNCHANGED orders
  /\ UNCHANGED <<nextId, prices, call, dropped>>

(* get_order_book: the orders still accepted.  (It sorts them by price     *)
(* into two sides and changes nothing.)                                    *)
Book == {orders[k].id : k \in {j \in 1..Len(orders) : orders[j].status = "accepted"}}

(* stream_prices: subscribe, then receive until Batch prices are there,    *)
(* the second is over, or the channel says that prices were lost.          *)
Subscribe(c) ==
  /\ call[c].at = "idle"
  /\ call' = [call EXCEPT ![c] = [IdleCall EXCEPT !.at = "stream", !.from = Len(prices), !.next = Len(prices) + 1]]
  /\ UNCHANGED <<nextId, orders, prices, dropped, told>>

(* The broadcast channel (external) still has the last Backlog prices.    *)
Lagged(c) == Len(prices) - call[c].next >= Backlog
Take(c, at) == [call[c] EXCEPT !.next = at + 1, !.got = Append(@, prices[at])]

(* Mutant: a receiver that lags goes on with the oldest price there is.    *)
Recv_SkipLost(c) ==
  /\ call[c].at = "stream" /\ Len(call[c].got) < Batch /\ call[c].next <= Len(prices)
  /\ call' = [call EXCEPT ![c] = Take(c, IF Lagged(c) THEN Len(prices) - Backlog + 1 ELSE call[c].next)]
  /\ UNCHANGED <<nextId, orders, prices, dropped, told>>

(* Mutant: the loop is left one price too late.                            *)
Recv_OneMore(c) ==
  /\ call[c].at = "stream" /\ Len(call[c].got) <= Batch /\ call[c].next <= Len(prices) /\ ~Lagged(c)
  /\ call' = [call EXCEPT ![c] = Take(c, call[c].next)]
  /\ UNCHANGED <<nextId, orders, prices, dropped, told>>

Recv(c) ==
  /\ call[c].at = "stream" /\ Len(call[c].got) < Batch /\ call[c].next <= Len(prices) /\ ~Lagged(c)
  /\ call' = [call EXCEPT ![c] = Take(c, call[c].next)]
  /\ UNCHANGED <<nextId, orders, prices, dropped, told>>

(* Mutant: without a deadline only a full batch or a loss ends the call.   *)
StreamEnds_NoDeadline(c) ==
  /\ call[c].at = "stream"
  /\ Len(call[c].got) = Batch \/ (call[c].next <= Len(prices) /\ Lagged(c))
  /\ call' = [call EXCEPT ![c] = IdleCall]
  /\ UNCHANGED <<nextId, orders, prices, dropped, told>>

(* Enough prices, the deadline, or prices lost by lagging: any of these    *)
(* ends the call with what it has.                                         *)
StreamEnds(c) ==
  /\ call[c].at = "stream"
  /\ call' = [call EXCEPT ![c] = IdleCall]
  /\ UNCHANGED <<nextId, orders, prices, dropped, told>>

Handle(c) == Publish(c) \/ Store(c) \/ StreamEnds(c)
ExNext ==
  \E c \in Clients :
    \/ next_order_id(c) \/ Publish(c) \/ Store(c) \/ DropRequest(c)
    \/ Subscribe(c) \/ Recv(c) \/ StreamEnds(c)
    \/ \E id \in OrderIds : cancel_order(c, id)

(* Every handler runs on; the deadline comes.                              *)
ExFairness == \A c \in Clients : WF_exVars(Handle(c))
ExSpec == ExInit /\ [][ExNext]_exVars
ExFairSpec == ExSpec /\ ExFairness

-----------------------------------------------------------------------------
(* Properties                                                              *)

(* What a client was told stays true for everyone: an acknowledged order   *)
(* is stored, and one reported as cancelled is in nobody's order book any  *)
(* more, whatever calls run at the same time.                              *)
ToldIsTrue ==
  \A id \in OrderIds :
    /\ told[id] \intersect {"accepted", "cancelled"} # {} => \E k \in 1..Len(orders) : orders[k].id = id
    /\ "cancelled" \in told[id] => id \notin Book

(* An acknowledged order is never reported as missing afterwards.          *)
NoLateMiss ==
  [][\A id \in OrderIds : "accepted" \in told[id] /\ "not_found" \in told'[id] => "not_found" \in told[id]]_exVars

(* Numbers are given out once, in the channel, in the vector and to the    *)
(* calls under way.                                                        *)
NumberedOnce ==
  /\ \A j, k \in 1..Len(orders) : orders[j].id = orders[k].id => j = k
  /\ \A j, k \in 1..Len(prices) : prices[j] = prices[k] => j = k
  /\ \A c, d \in Clients : call[c].id # 0 /\ call[c].id = call[d].id => c = d

(* An order in the vector has had its price published, and one whose price *)
(* is out is stored, on its way there, or its request was dropped: a reader*)
(* of prices may cancel too early, or an order that will never be there.   *)
PricesAccounted ==
  /\ \A k \in 1..Len(orders) : \E j \in 1..Len(prices) : prices[j] = orders[k].id
  /\ \A j \in 1..Len(prices) :
       \/ \E k \in 1..Len(orders) : orders[k].id = prices[j]
       \/ \E c \in Clients : call[c].at = "store" /\ call[c].id = prices[j]
       \/ prices[j] \in dropped

(* What a dropped request leaves behind is a price and nothing else: its   *)
(* order is never stored, no handler goes on with it, and the only thing   *)
(* anyone is ever told of it is not_found.                                 *)
DroppedForGood ==
  \A id \in dropped :
    /\ \E j \in 1..Len(prices) : prices[j] = id
    /\ \A k \in 1..Len(orders) : orders[k].id # id
    /\ \A c \in Clients : call[c].id # id
    /\ told[id] \subseteq {"not_found"}

(* A stream returns the prices since it subscribed without a gap, even if  *)
(* it was too slow for the channel.                                        *)
StreamHasNoGap ==
  \A c \in Clients : call[c].at = "stream" =>
    call[c].got = SubSeq(prices, call[c].from + 1, call[c].from + Len(call[c].got))

(* Every call is answered.                                                 *)
CallsAnswered == \A c \in Clients : []<>(call[c].at = "idle")
=============================================================================
