----------------------------- MODULE MCServices -----------------------------
(***************************************************************************)
(* The clients, channels and example applications around the server core,  *)
(* one of them at a time: `part` is chosen once, the steps are those of    *)
(* that part and the rest of the state keeps its first value.  The states  *)
(* are the sum of the parts' and not their product: the parts are separate *)
(* programs that share nothing.                                            *)
(***************************************************************************)
EXTENDS HttpClient, WsSession, Chat, NativeStream, RealWorld, Sse, Exchange

VARIABLE part

(* HttpClient: zero, one and two retries, a client built with and without  *)
(* a timeout, and one passed in.                                           *)
Policy(n, codes, t, own, timeout, inner, initial, cap) ==
  [max_retries |-> n, retry_on_status |-> codes, retry_on_timeout |-> t,
   own |-> own, timeout |-> timeout, inner_timeout |-> inner,
   initial_backoff |-> initial, max_backoff |-> cap, backoff_multiplier |-> 2]
MCConfigs == {
  Policy(2, {"s503"}, TRUE, TRUE, TRUE, FALSE, 3, 6),
  Policy(2, {"s503"}, FALSE, TRUE, TRUE, FALSE, 4, 8),
  Policy(0, {}, FALSE, TRUE, FALSE, FALSE, 4, 8),
  Policy(1, {"s503"}, TRUE, FALSE, TRUE, FALSE, 4, 8),
  Policy(1, {"s503"}, TRUE, FALSE, TRUE, TRUE, 4, 8) }

(* WsSession: every operation, with a loop through both kinds of choice.   *)
Type(op, msg, next, left, right) == [op |-> op, msg |-> msg, next |-> next, left |-> left, right |-> right]
MCProtocol ==
  [a |-> Type("recv", "auth", "b", "a", "a"),
   b |-> Type("send", "hello", "r", "a", "a"),
   r |-> Type("rec", "none", "c", "a", "a"),
   c |-> Type("offer", "none", "c", "d", "e"),
   d |-> Type("send", "hello", "f", "a", "a"),
   e |-> Type("select", "none", "e", "v", "z"),
   f |-> Type("recv", "auth", "v", "a", "a"),
   v |-> Type("var", "none", "r", "a", "a"),
   z |-> Type("end", "none", "z", "z", "z")]

(* Sse: plain data, texts full of line ends, and a comment.                *)
Event(comment, id, event, data) == [comment |-> comment, id |-> id, event |-> event, data |-> data]
MCEvents ==
  {Event(<<>>, <<>>, <<>>, <<"x">>),
   Event(<<>>, <<<<"1", CR, LF>>>>, <<<<"n">>>>, <<LF, "x", CR, LF, LF>>),
   Event(<<<<"c", LF, LF>>>>, <<>>, <<>>, <<>>)}

Parts == <<"http", "ws", "chat", "native", "realworld", "sse", "exchange">>
StateOf == <<httpVars, wsVars, chatVars, nsVars, rwVars, sseVars, exVars>>
serviceVars == <<part, StateOf>>

ServicesInit ==
  /\ part \in Range(Parts)
  /\ HttpInit /\ (part # "http" => config = Policy(0, {}, FALSE, TRUE, FALSE, FALSE, 4, 8))
  /\ WsInit /\ (part # "ws" => honest)
  /\ ChatInit
  /\ NsInit /\ (part # "native" => program = [handler |-> "echo", client |-> "one"])
  /\ RwInit
  /\ SseInit /\ (part # "sse" => keeping)
  /\ ExInit

ServicesNext ==
  /\ part' = part
  /\ \/ part = "http" /\ HttpNext /\ UNCHANGED <<wsVars, chatVars, nsVars, rwVars, sseVars, exVars>>
     \/ part = "ws" /\ WsNext /\ UNCHANGED <<httpVars, chatVars, nsVars, rwVars, sseVars, exVars>>
     \/ part = "chat" /\ ChatNext /\ UNCHANGED <<httpVars, wsVars, nsVars, rwVars, sseVars, exVars>>
     \/ part = "native" /\ NsNext /\ UNCHANGED <<httpVars, wsVars, chatVars, rwVars, sseVars, exVars>>
     \/ part = "realworld" /\ RwNext /\ UNCHANGED <<httpVars, wsVars, chatVars, nsVars, sseVars, exVars>>
     \/ part = "sse" /\ SseNext /\ UNCHANGED <<httpVars, wsVars, chatVars, nsVars, rwVars, exVars>>
     \/ part = "exchange" /\ ExNext /\ UNCHANGED <<httpVars, wsVars, chatVars, nsVars, rwVars, sseVars>>

(* The parts' fairness, each asked for in that part only: the others stand *)
(* still, which TLC then sees without evaluating their actions.            *)
ServicesFairness ==
  /\ WF_httpVars(part = "http" /\ Wake)
  /\ WF_httpVars(part = "http" /\ HttpSend)
  /\ WF_httpVars(part = "http" /\ Arrive)
  /\ WF_httpVars(part = "http" /\ Timeout)
  /\ WF_httpVars(part = "http" /\ HasTimeout /\ (BodyOk \/ BodyError))
  /\ WF_wsVars(part = "ws" /\ WsServer) /\ SF_wsVars(part = "ws" /\ PeerStep)
  /\ \A c \in Sockets : WF_chatVars(part = "chat" /\ (Register(c) \/ Undo(c) \/ Cleanup(c)))
  /\ WF_nsVars(part = "native" /\ NsProgress)
  /\ \A w \in Workers : WF_rwVars(part = "realworld" /\ RwProgress(w))
  /\ WF_sseVars(part = "sse" /\ Poll) /\ WF_sseVars(part = "sse" /\ Tick)
  /\ \A c \in Clients : WF_exVars(part = "exchange" /\ Handle(c))

ServicesSpec == ServicesInit /\ [][ServicesNext]_serviceVars /\ ServicesFairness

-----------------------------------------------------------------------------
(* What the parts promise, by what it is about.  Each name is stated where *)
(* its part is modelled.                                                   *)

(* The bounds of the parts: no more attempts than the policy allows, no    *)
(* more messages under way than a window, channel or backlog holds, and no *)
(* entry of a chat, database or order book without its owner.              *)
ServicesTypeOK ==
  HttpTypeOK /\ WsTypeOK /\ ChatTypeOK /\ NsTypeOK /\ RwTypeOK /\ SseTypeOK /\ ExTypeOK

(* What a caller is told is what happened, however often its request was   *)
(* sent and however late its copies arrive: the results of the HTTP client *)
(* and its repetitions (client.rs, retry.rs), the 201 of create_article    *)
(* (handlers.rs), the acknowledgements of the order book and the echoes of *)
(* the chat (main.rs of the two).                                          *)
AnswersHonest ==
  /\ OkMeansExecuted /\ RepeatsExplained /\ ErrorsHonest /\ BackoffGrows
  /\ WholeArticles
  /\ ToldIsTrue
  /\ EchoesAreMessages

(* The two ends of a session-typed socket stay at dual types and never     *)
(* both wait (typed_ws.rs, session.rs).                                    *)
SessionInStep == InStep /\ NeverBothWait

(* Streams deliver what was sent, in order, without a gap and never joined *)
(* or split, with the trailers last; channels at their limit lock up only  *)
(* where no reader is left, and keep-alive pings come in time              *)
(* (native_streaming.rs, trailer_body.rs, sse.rs, the order book's prices).*)
StreamsInOrder ==
  /\ OrderedThenTrailers /\ CollectedPrefix /\ StuckOnlyWhenOverfull
  /\ ClientSeesEvents /\ NeverSilent
  /\ StreamHasNoGap

(* State shared by concurrent handlers stays whole, whatever breaks off in *)
(* the middle: the chat's roster, the tables and the pool of RealWorld,    *)
(* the numbers, the prices and the dropped requests of the order book.     *)
SharedStateWhole ==
  /\ RosterExact
  /\ ConstraintsHold /\ PoolWhole
  /\ NumberedOnce /\ PricesAccounted /\ DroppedForGood

(* No step undoes what belongs to somebody else, was acknowledged or taken *)
(* on: an article goes by its author's token only (handlers.rs), an order  *)
(* that was accepted is never reported missing afterwards (cancel_order),  *)
(* an answer a streaming handler took on comes out, once and in its turn,  *)
(* or the call is cut (native_streaming.rs, trailer_body.rs).              *)
NothingTakenBack == OwnerOnly /\ NoLateMiss /\ CallKeepsPromise

(* What was begun comes to an end: calls with a timer, sessions, streams   *)
(* with a reader, requests that wait for a connection of a spent pool,     *)
(* roster entries of the departed, events among endless pings.             *)
EverythingEnds ==
  /\ CallsReturn /\ SessionMoves /\ RosterDrains /\ CallEnds
  /\ RequestsAnswered /\ EventsGetOut /\ CallsAnswered
=============================================================================
