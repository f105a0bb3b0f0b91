----------------------------- MODULE GrpcStream -----------------------------
(***************************************************************************)
(* A server-streaming response, end to end: the tasks that hold the        *)
(* GrpcStreamSender, the bounded tokio channel, the response body that     *)
(* hyper polls (typeway-server/src/grpc_stream.rs) and the native client   *)
(* that reads it (call_server_stream and ClientStream in                   *)
(* typeway-grpc/src/client.rs).                                            *)
(*                                                                         *)
(* A task in `send().await` waits for a free slot.  The body is an unfold  *)
(* over the receiver: each poll yields a data frame or, once, the trailers.*)
(* Dropping the body drops the receiver and whatever is still queued.      *)
(***************************************************************************)
EXTENDS Integers, Sequences

CONSTANTS
  Producers,       (* tasks sharing the sender                             *)
  Items,           (* the items they may send                              *)
  Unserializable,  (* the items serde_json::to_vec fails on                *)
  Statuses,        (* error statuses for send_error                        *)
  Buffer,          (* the size given to GrpcStream::channel                *)
  MaxSends,        (* bound on the sends, for model checking               *)
  Nothing,         (* a task that is not sending                           *)
  Empty            (* the payload of zero bytes                            *)

Messages == Items \cup Statuses

ASSUME StreamAssumption ==
  /\ Producers # {}
  /\ Unserializable \subseteq Items
  /\ Items \cap Statuses = {}
  /\ Messages \cap {"open", "cut", "none", "ok"} = {}
  /\ Nothing \notin Messages
  /\ Empty \notin Items
  /\ Buffer \in Nat \ {0}
  /\ MaxSends \in Nat

VARIABLES
  alive,     (* the tasks that still hold the sender                       *)
  pending,   (* the message each task is waiting to send                   *)
  queue,     (* the channel's buffer                                       *)
  rx_open,   (* the body, and with it the receiver, exists                 *)
  done,      (* StreamState::done                                          *)
  wire,      (* payloads of the data frames the body yielded               *)
  trailers,  (* grpc-status of the trailers it yielded, or "none"          *)
  sent,      (* every message a send returned Ok for, in order             *)
  client,    (* outcome of call_server_stream: "waiting" until it returns  *)
  frames,    (* ClientStream::frames                                       *)
  index,     (* ClientStream::index                                        *)
  collected  (* what ClientStream::collect returned, or Nothing            *)

serverVars == <<alive, pending, queue, rx_open, done, wire, trailers, sent>>
clientVars == <<client, frames, index, collected>>
vars == <<serverVars, clientVars>>

Payloads == Items \cup {Empty}

(* serde_json::to_vec(&item).unwrap_or_default(), framed.                  *)
Encoding == [i \in Items |-> IF i \in Unserializable THEN Empty ELSE i]

TypeOK ==
  /\ alive \in SUBSET Producers
  /\ pending \in [Producers -> Messages \cup {Nothing}]
  /\ queue \in Seq(Messages)
  /\ Len(queue) <= Buffer
  /\ rx_open \in BOOLEAN
  /\ done \in BOOLEAN
  /\ wire \in Seq(Payloads)
  /\ trailers \in Statuses \cup {"none", "ok"}
  /\ sent \in Seq(Messages)
  /\ client \in {"waiting", "ok", "codec", "transport"}
  /\ frames \in Seq(Items)
  /\ index \in 0..Len(frames)
  /\ collected \in Seq(Items) \cup {Nothing}

(* GrpcStream::channel, into_response, and a client that waits for it.     *)
Init ==
  /\ alive = Producers
  /\ pending = [p \in Producers |-> Nothing]
  /\ queue = <<>>
  /\ rx_open = TRUE
  /\ done = FALSE
  /\ wire = <<>>
  /\ trailers = "none"
  /\ sent = <<>>
  /\ client = "waiting"
  /\ frames = <<>>
  /\ index = 0
  /\ collected = Nothing

-----------------------------------------------------------------------------
(* The tasks.                                                              *)

(* send(item) or send_error(status) is called and awaits a slot.           *)
Send(p, m) ==
  /\ p \in alive
  /\ pending[p] = Nothing
  /\ Len(sent) < MaxSends
  /\ pending' = [pending EXCEPT ![p] = m]
  /\ UNCHANGED <<alive, queue, rx_open, done, wire, trailers, sent, clientVars>>

(* Mutant: an unbounded channel.                                           *)
Accepted_Unbounded(p) ==
  /\ pending[p] # Nothing
  /\ rx_open
  /\ queue' = Append(queue, pending[p])
  /\ sent' = Append(sent, pending[p])
  /\ pending' = [pending EXCEPT ![p] = Nothing]
  /\ UNCHANGED <<alive, rx_open, done, wire, trailers, clientVars>>

(* A slot is free: the send returns Ok.                                    *)
Accepted(p) ==
  /\ pending[p] # Nothing
  /\ rx_open
  /\ Len(queue) < Buffer
  /\ queue' = Append(queue, pending[p])
  /\ sent' = Append(sent, pending[p])
  /\ pending' = [pending EXCEPT ![p] = Nothing]
  /\ UNCHANGED <<alive, rx_open, done, wire, trailers, clientVars>>

(* Mutant: the task tries again when the send fails.                       *)
Refused_Retry(p) ==
  /\ pending[p] # Nothing
  /\ ~rx_open
  /\ UNCHANGED vars

(* The receiver is gone: the send returns StreamSendError.                 *)
Refused(p) ==
  /\ pending[p] # Nothing
  /\ ~rx_open
  /\ pending' = [pending EXCEPT ![p] = Nothing]
  /\ UNCHANGED <<alive, queue, rx_open, done, wire, trailers, sent, clientVars>>

(* The task ends: it returns, panics or is aborted, the last two possibly  *)
(* inside a send, which is then dropped.                                   *)
Leave(p) ==
  /\ p \in alive
  /\ alive' = alive \ {p}
  /\ pending' = [pending EXCEPT ![p] = Nothing]
  /\ UNCHANGED <<queue, rx_open, done, wire, trailers, sent, clientVars>>

-----------------------------------------------------------------------------
(* The body: one poll of the unfold, by the message it finds.              *)

(* Mutant: an item that does not serialize is skipped.                     *)
PollItem_Skip ==
  /\ rx_open
  /\ ~done
  /\ queue # <<>>
  /\ Head(queue) \in Items
  /\ queue' = Tail(queue)
  /\ wire' = IF Head(queue) \in Unserializable THEN wire
             ELSE Append(wire, Encoding[Head(queue)])
  /\ UNCHANGED <<alive, pending, rx_open, done, trailers, sent, clientVars>>

(* Some(Ok(item)): a data frame.                                           *)
PollItem ==
  /\ rx_open
  /\ ~done
  /\ queue # <<>>
  /\ Head(queue) \in Items
  /\ queue' = Tail(queue)
  /\ wire' = Append(wire, Encoding[Head(queue)])
  /\ UNCHANGED <<alive, pending, rx_open, done, trailers, sent, clientVars>>

(* Mutant: `done` is not set by an error.                                  *)
PollError_Continue ==
  /\ rx_open
  /\ ~done
  /\ queue # <<>>
  /\ Head(queue) \in Statuses
  /\ queue' = Tail(queue)
  /\ trailers' = Head(queue)
  /\ UNCHANGED <<alive, pending, rx_open, done, wire, sent, clientVars>>

(* Some(Err(status)): the trailers carry it and the stream is done.        *)
PollError ==
  /\ rx_open
  /\ ~done
  /\ queue # <<>>
  /\ Head(queue) \in Statuses
  /\ queue' = Tail(queue)
  /\ done' = TRUE
  /\ trailers' = Head(queue)
  /\ UNCHANGED <<alive, pending, rx_open, wire, sent, clientVars>>

(* Mutant: an empty channel is taken for a closed one.                     *)
PollClosed_Early ==
  /\ rx_open
  /\ ~done
  /\ queue = <<>>
  /\ done' = TRUE
  /\ trailers' = "ok"
  /\ UNCHANGED <<alive, pending, queue, rx_open, wire, sent, clientVars>>

(* Mutant: a closed channel is not drained.                                *)
PollClosed_Undrained ==
  /\ rx_open
  /\ ~done
  /\ alive = {}
  /\ done' = TRUE
  /\ trailers' = "ok"
  /\ UNCHANGED <<alive, pending, queue, rx_open, wire, sent, clientVars>>

(* Mutant: a stream without items never ends.                              *)
PollClosed_Hang ==
  /\ rx_open
  /\ ~done
  /\ queue = <<>>
  /\ alive = {}
  /\ wire # <<>>
  /\ done' = TRUE
  /\ trailers' = "ok"
  /\ UNCHANGED <<alive, pending, queue, rx_open, wire, sent, clientVars>>

(* None: the channel is closed and drained, the trailers say OK.           *)
PollClosed ==
  /\ rx_open
  /\ ~done
  /\ queue = <<>>
  /\ alive = {}
  /\ done' = TRUE
  /\ trailers' = "ok"
  /\ UNCHANGED <<alive, pending, queue, rx_open, wire, sent, clientVars>>

DropBody ==
  /\ rx_open' = FALSE
  /\ queue' = <<>>
  /\ UNCHANGED <<alive, pending, done, wire, trailers, sent, clientVars>>

(* hyper drops the body once it has the trailers.                          *)
EndBody ==
  /\ rx_open
  /\ done
  /\ DropBody

(* hyper drops the body because the client reset the stream.               *)
Reset ==
  /\ rx_open
  /\ client = "transport"
  /\ DropBody

-----------------------------------------------------------------------------
(* The client.                                                             *)

(* The timeout expires, the connection breaks or the future is dropped.    *)
Break ==
  /\ client = "waiting"
  /\ client' = "transport"
  /\ UNCHANGED <<serverVars, frames, index, collected>>

(* `bytes()` completes.  The status is looked up in the response headers,  *)
(* where a stream has none, so it counts as 0; the trailers are not read.  *)
(* Every frame is then decoded, and one that does not decode is an error.  *)
Receive ==
  /\ client = "waiting"
  /\ trailers # "none"
  /\ \/ /\ \E i \in 1..Len(wire) : wire[i] = Empty
        /\ client' = "codec"
        /\ UNCHANGED frames
     \/ /\ \A i \in 1..Len(wire) : wire[i] # Empty
        /\ client' = "ok"
        /\ frames' = wire
  /\ UNCHANGED <<serverVars, index, collected>>

(* ClientStream::recv, on a stream that has a message left.                *)
Recv ==
  /\ client = "ok"
  /\ collected = Nothing
  /\ index < Len(frames)
  /\ index' = index + 1
  /\ UNCHANGED <<serverVars, client, frames, collected>>

(* ClientStream::collect, which consumes the stream.                       *)
Collect ==
  /\ client = "ok"
  /\ collected = Nothing
  /\ collected' = frames
  /\ UNCHANGED <<serverVars, client, frames, index>>

-----------------------------------------------------------------------------
Poll == PollItem \/ PollError \/ PollClosed

Next ==
  \/ \E p \in Producers :
       \/ \E m \in Messages : Send(p, m)
       \/ Accepted(p)
       \/ Refused(p)
       \/ Leave(p)
  \/ PollItem
  \/ PollError
  \/ PollClosed
  \/ EndBody
  \/ Reset
  \/ Break
  \/ Receive
  \/ Recv
  \/ Collect

Spec == Init /\ [][Next]_vars

(* The native client reads without pause, so hyper keeps polling the body; *)
(* the runtime polls the tasks it has woken; tokio's channel hands out its *)
(* slots in the order they were asked for, so a waiting task is not        *)
(* overtaken for ever.                                                     *)
Fairness ==
  /\ WF_vars(Poll)
  /\ WF_vars(EndBody)
  /\ WF_vars(Reset)
  /\ \A p \in Producers : SF_vars(Accepted(p)) /\ WF_vars(Refused(p))

FairSpec == Spec /\ Fairness

-----------------------------------------------------------------------------
(* How many messages the body has taken from the channel.                  *)
Consumed == Len(wire) + (IF trailers \in Statuses THEN 1 ELSE 0)

(* No message is lost, duplicated or reordered between a send that         *)
(* returned Ok and the wire, whatever the tasks, the buffer and the        *)
(* disconnects do: the data frames are the first messages sent, an error   *)
(* in the trailers is the message after them, and while the body exists    *)
(* the rest is in the channel.                                             *)
NothingLost ==
  /\ \A i \in 1..Len(wire) :
       i <= Len(sent) /\ sent[i] \in Items /\ wire[i] = Encoding[sent[i]]
  /\ trailers \in Statuses => Consumed <= Len(sent) /\ sent[Consumed] = trailers
  /\ rx_open =>
       /\ Len(sent) = Consumed + Len(queue)
       /\ \A i \in 1..Len(queue) : queue[i] = sent[Consumed + i]

(* An OK status means that the tasks are gone and that every message they  *)
(* sent is on the wire; a client that gets the stream then has them all.   *)
OkMeansComplete ==
  trailers = "ok" =>
    /\ alive = {}
    /\ Len(wire) = Len(sent)
    /\ client = "ok" => frames = sent

(* The trailers are the last frame of the body: after them it yields no    *)
(* data and no other status.                                               *)
TrailersLast == [][trailers # "none" => UNCHANGED <<wire, trailers>>]_vars

(* The promise of ResponseStream.  A message handed over is one whose send *)
(* returned Ok; the stream is cut when the body goes without trailers.     *)
Promise ==
  INSTANCE ResponseStream WITH
    Encoded <- Encoding,
    accepted <- sent,
    delivered <- wire,
    status <- IF trailers # "none" THEN trailers
              ELSE IF rx_open THEN "open" ELSE "cut",
    closed <- alive = {}

(* The streaming response implements that promise.                         *)
KeepsPromise == Promise!Spec

(* Backpressure never blocks a task for good: a send returns once the body *)
(* has been read that far, or fails once the client is gone or the stream  *)
(* has ended, also when an error status was queued before it.              *)
SendsReturn == \A p \in Producers : pending[p] # Nothing ~> pending[p] = Nothing

(* Once its tasks are gone, however they ended, the body ends and frees    *)
(* the channel.                                                            *)
StreamEnds == alive = {} ~> ~rx_open

-----------------------------------------------------------------------------
(* "Send an error status, ending the stream with that status."             *)
(* (grpc_stream.rs:63) and "The error will be conveyed as a gRPC status to *)
(* the client." (native_streaming.rs:50): a client told Ok read a stream   *)
(* that ended with OK.                                                     *)
ErrorReachesClient == client = "ok" => trailers = "ok"
=============================================================================
