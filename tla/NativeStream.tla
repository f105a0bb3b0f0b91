---------------------------- MODULE NativeStream ----------------------------
(***************************************************************************)
(* The channels of typeway-grpc/src/native_streaming.rs and the body that  *)
(* turns one into a response (trailer_body.rs): a bidirectional call whose *)
(* handler holds a GrpcBiStream, the transport that feeds its request      *)
(* channel and polls a GrpcStreamBody over its response channel.           *)
(*                                                                         *)
(* The client writes its requests and reads the responses either with two  *)
(* tasks or, like a straightforward program, one after the other.          *)
(***************************************************************************)
EXTENDS Naturals, Sequences

CONSTANTS
  Capacity,   (* buffer of each channel                                    *)
  Requests,   (* number of requests the client sends                       *)
  Limit       (* of collect_limit                                          *)

ASSUME NativeAssumption ==
  Capacity \in Nat \ {0} /\ Requests \in Nat /\ Limit \in Nat

VARIABLES
  program,    (* what the handler does, and how the client reads           *)
  reqs,       (* the request channel: numbers of requests, or an error     *)
  resps,      (* the response channel                                      *)
  written,    (* requests the client has written                           *)
  closed,     (* which request senders and response senders are dropped    *)
  rxOpen,     (* the handler still holds its receiver                      *)
  hand,       (* the request the handler works on                          *)
  items,      (* what it has taken so far                                  *)
  outcome,    (* how the handler ended                                     *)
  frames,     (* what the body has handed to the connection                *)
  polled,     (* GrpcStreamBody::done, or the body was dropped             *)
  read        (* frames the client has read                                *)

nsVars == <<program, reqs, resps, written, closed, rxOpen, hand, items, outcome,
            frames, polled, read>>

(* Requests are 1..Requests, and an answer of a collecting handler is a    *)
(* count; the numbers outside stand for what is not a message.             *)
Broken == 0
NoItem == Requests + 1
Trailers == Requests + 1
Programs == [handler : {"echo", "collect", "collect_limit"}, client : {"two", "one"}]

NsTypeOK ==
  /\ program \in Programs
  /\ reqs \in Seq((1..Requests) \cup {Broken}) /\ Len(reqs) <= Capacity
  /\ resps \in Seq(0..Requests) /\ Len(resps) <= Capacity
  /\ written \in 0..Requests
  /\ closed \in [req : BOOLEAN, resp : BOOLEAN]
  /\ rxOpen \in BOOLEAN
  /\ hand \in (0..Requests) \cup {NoItem}
  /\ items \in Seq(1..Requests)
  /\ outcome \in {"running", "done", "error", "send_error"}
  /\ frames \in Seq((0..Requests) \cup {Trailers})
  /\ polled \in {"open", "done", "dropped"}
  /\ read \in 0..Len(frames)

NsInit ==
  /\ program \in Programs
  /\ reqs = <<>> /\ resps = <<>>
  /\ written = 0
  /\ closed = [req |-> FALSE, resp |-> FALSE]
  /\ rxOpen = TRUE
  /\ hand = NoItem /\ items = <<>> /\ outcome = "running"
  /\ frames = <<>> /\ polled = "open" /\ read = 0

clientVars == <<written, read>>
handlerVars == <<hand, items, outcome, rxOpen>>
bodyVars == <<frames, polled>>

-----------------------------------------------------------------------------
(* External: the client and the transport.                                 *)

(* A request goes into the channel, or finds its receiver gone.            *)
CanWrite == written < Requests /\ ~closed.req /\ (rxOpen => Len(reqs) < Capacity)
Write ==
  /\ CanWrite
  /\ reqs' = IF rxOpen THEN Append(reqs, written + 1) ELSE reqs
  /\ written' = written + 1
  /\ UNCHANGED <<program, resps, closed, handlerVars, bodyVars, read>>

(* A request that does not decode: the transport puts an error.            *)
WriteBroken ==
  /\ CanWrite /\ rxOpen
  /\ reqs' = Append(reqs, Broken)
  /\ written' = Requests
  /\ UNCHANGED <<program, resps, closed, handlerVars, bodyVars, read>>

(* The client has sent all and drops its sender.                           *)
CanFinish == written = Requests /\ ~closed.req
Finish ==
  /\ CanFinish
  /\ closed' = [closed EXCEPT !.req = TRUE]
  /\ UNCHANGED <<program, reqs, resps, written, handlerVars, bodyVars, read>>

(* It reads; with one task, only once it has written everything.           *)
CanRead == (program.client = "one" => closed.req) /\ read < Len(frames)
Read ==
  /\ CanRead
  /\ read' = read + 1
  /\ UNCHANGED <<program, reqs, resps, closed, written, handlerVars, bodyVars>>

-----------------------------------------------------------------------------
(* The handler.                                                            *)
Running == outcome = "running"

(* It returns: the bi-stream and with it both its ends are dropped.        *)
End(o) ==
  /\ outcome' = o
  /\ rxOpen' = FALSE
  /\ closed' = [closed EXCEPT !.resp = TRUE]
  /\ reqs' = <<>>
  /\ hand' = NoItem
  /\ UNCHANGED <<program, resps, written, read, items, bodyVars>>

(* Mutant: the handler goes on asking when the requests have ended.        *)
CanRecv_NoEnd == Running /\ program.handler = "echo" /\ hand = NoItem /\ reqs # <<>>

(* recv, then send, until the requests end or one is an error.             *)
CanRecv == Running /\ program.handler = "echo" /\ hand = NoItem /\ (reqs # <<>> \/ closed.req)
EchoRecv ==
  /\ CanRecv
  /\ \/ /\ reqs # <<>> /\ Head(reqs) # Broken
        /\ hand' = Head(reqs) /\ items' = Append(items, Head(reqs))
        /\ reqs' = Tail(reqs)
        /\ UNCHANGED <<program, resps, closed, outcome, rxOpen, clientVars, bodyVars>>
     \/ reqs # <<>> /\ Head(reqs) = Broken /\ End("error")
     \/ reqs = <<>> /\ End("done")

(* Mutant: send does not wait for a slot.                                  *)
Send_NoWait ==
  /\ Running /\ hand # NoItem
  /\ \/ /\ polled = "open"
        /\ resps' = Append(resps, hand)
        /\ hand' = NoItem
        /\ UNCHANGED <<outcome, rxOpen, closed>>
        /\ UNCHANGED <<program, reqs, items, clientVars, bodyVars>>
     \/ polled # "open" /\ End("send_error")

(* GrpcBiStream::send waits for a slot and fails when the body is gone.    *)
CanSend == Running /\ hand # NoItem /\ (polled = "open" => Len(resps) < Capacity)
Send ==
  /\ CanSend
  /\ \/ /\ polled = "open"
        /\ resps' = Append(resps, hand)
        /\ IF program.handler = "echo"
           THEN /\ hand' = NoItem
                /\ UNCHANGED <<outcome, rxOpen, closed>>
           ELSE hand' = NoItem /\ outcome' = "done" /\ rxOpen' = FALSE
                /\ closed' = [closed EXCEPT !.resp = TRUE]
        /\ UNCHANGED <<program, reqs, items, clientVars, bodyVars>>
     \/ polled # "open" /\ End("send_error")

(* Mutant: collect_limit takes one item more than its limit.               *)
Wants_OffByOne ==
  program.handler = "collect_limit" => Len(items) <= Limit

(* The loop of collect_limit goes on; that of collect always does.         *)
Wants == program.handler = "collect_limit" => Len(items) < Limit

(* Mutant: an error ends the loop like the end of the stream.              *)
Collect_ErrorIsEnd ==
  /\ Running /\ program.handler \in {"collect", "collect_limit"} /\ hand = NoItem
  /\ \/ /\ Wants /\ reqs # <<>> /\ Head(reqs) # Broken
        /\ items' = Append(items, Head(reqs)) /\ reqs' = Tail(reqs)
        /\ UNCHANGED <<program, resps, closed, hand, outcome, rxOpen, clientVars, bodyVars>>
     \/ /\ \/ ~Wants
           \/ reqs = <<>> /\ closed.req
           \/ reqs # <<>> /\ Head(reqs) = Broken
        /\ hand' = Len(items) /\ rxOpen' = FALSE /\ reqs' = <<>>
        /\ UNCHANGED <<program, resps, closed, items, outcome, clientVars, bodyVars>>

(* collect and collect_limit take the receiver: messages until the end,    *)
(* the first error, or the limit; what is left in the channel is dropped.  *)
(* The handler then answers with how many it got.                          *)
CanCollect ==
  /\ Running /\ program.handler \in {"collect", "collect_limit"} /\ hand = NoItem
  /\ ~Wants \/ reqs # <<>> \/ closed.req
Collect ==
  /\ CanCollect
  /\ \/ /\ Wants /\ reqs # <<>> /\ Head(reqs) # Broken
        /\ items' = Append(items, Head(reqs)) /\ reqs' = Tail(reqs)
        /\ UNCHANGED <<program, resps, closed, hand, outcome, rxOpen, clientVars, bodyVars>>
     \/ Wants /\ reqs # <<>> /\ Head(reqs) = Broken /\ End("error")
     \/ /\ ~Wants \/ reqs = <<>>
        /\ hand' = Len(items) /\ rxOpen' = FALSE /\ reqs' = <<>>
        /\ UNCHANGED <<program, resps, closed, items, outcome, clientVars, bodyVars>>

-----------------------------------------------------------------------------
(* GrpcStreamBody::poll_frame.  The status was fixed when the body was     *)
(* made.  The connection takes a frame only when the client's window has   *)
(* room for it.                                                            *)
Room == Len(frames) - read < Capacity

(* Mutant: the body ends as soon as the channel is empty.                  *)
poll_frame_EmptyIsEnd ==
  /\ polled = "open" /\ Room
  /\ \/ /\ resps # <<>>
        /\ frames' = Append(frames, Head(resps)) /\ resps' = Tail(resps)
        /\ UNCHANGED polled
     \/ /\ resps = <<>> /\ items # <<>>
        /\ frames' = Append(frames, Trailers) /\ polled' = "done"
        /\ UNCHANGED resps
  /\ UNCHANGED <<program, reqs, closed, handlerVars, clientVars>>

CanPoll == polled = "open" /\ Room /\ (resps # <<>> \/ closed.resp)
poll_frame ==
  /\ CanPoll
  /\ \/ /\ resps # <<>>
        /\ frames' = Append(frames, Head(resps)) /\ resps' = Tail(resps)
        /\ UNCHANGED polled
     \/ /\ resps = <<>>
        /\ frames' = Append(frames, Trailers) /\ polled' = "done"
        /\ UNCHANGED resps
  /\ UNCHANGED <<program, reqs, closed, handlerVars, clientVars>>

(* The client resets the call: hyper drops the body and the receiver in it.*)
Reset ==
  /\ polled = "open"
  /\ polled' = "dropped"
  /\ resps' = <<>>
  /\ closed' = [closed EXCEPT !.req = TRUE]
  /\ UNCHANGED <<program, reqs, frames, handlerVars, clientVars>>

NsProgress ==
  \/ Write \/ Finish \/ Read \/ EchoRecv \/ Send \/ Collect \/ poll_frame

NsNext == NsProgress \/ WriteBroken \/ Reset

NsFairness == WF_nsVars(NsProgress)
NsSpec == NsInit /\ [][NsNext]_nsVars

-----------------------------------------------------------------------------
(* The frames before the trailers.                                         *)
Data == IF frames # <<>> /\ frames[Len(frames)] = Trailers
        THEN SubSeq(frames, 1, Len(frames) - 1) ELSE frames

(* What reaches the connection is what the handler sent, in its order and  *)
(* without a gap, and trailers end it once, after the last of it           *)
(* (GrpcStreamBody::poll_frame).                                           *)
OrderedThenTrailers ==
  /\ \A i \in 1..Len(frames) : frames[i] = Trailers => i = Len(frames)
  /\ program.handler = "echo" /\ polled # "dropped" =>
       Data \o resps = SubSeq(items, 1, Len(Data) + Len(resps))
  /\ polled = "done" => /\ outcome # "running" /\ resps = <<>>
                        /\ outcome = "done" /\ program.handler = "echo" => Data = items

(* The answers the handler has taken on: an echo owes each request it      *)
(* takes, a collecting handler the count it answers with.                  *)
TakenOn ==
  IF program.handler = "echo" THEN items
  ELSE IF hand # NoItem \/ outcome \in {"done", "send_error"} THEN <<Len(items)>> ELSE <<>>

(* The call keeps the promise of a streaming response: what the handler    *)
(* took on comes out once each and in order, and the trailers follow when  *)
(* the handler has returned and everything is out, unless the call is cut. *)
(* (The body's status is fixed before its first frame, trailer_body.rs.)   *)
NsPromise ==
  INSTANCE ResponseStream WITH
    Items <- 0..Requests,
    Statuses <- {},
    Encoded <- [n \in 0..Requests |-> n],
    accepted <- TakenOn,
    delivered <- Data,
    status <- CASE polled = "open" -> "open" [] polled = "done" -> "ok" [] polled = "dropped" -> "cut",
    closed <- ~Running
CallKeepsPromise == NsPromise!Spec

(* What a collecting handler works with is a prefix of what was sent, as   *)
(* long as its limit at most, and never a prefix cut by an error           *)
(* (GrpcReceiver::collect, collect_limit).                                 *)
CollectedPrefix ==
  program.handler # "echo" =>
    /\ items = [i \in 1..Len(items) |-> i]
    /\ program.handler = "collect_limit" => Len(items) <= Limit
    /\ hand # NoItem \/ outcome = "done" =>
         \/ Len(items) = Requests
         \/ program.handler = "collect_limit" /\ Len(items) = Limit
         \/ polled = "dropped"

(* Both sides wait for the other's channel to drain.                       *)
CanMove == CanWrite \/ CanFinish \/ CanRead \/ CanRecv \/ CanSend \/ CanCollect \/ CanPoll
Stuck == Running /\ ~CanMove

(* The two directions do not lock each other out if the client reads while *)
(* it writes; one that writes first has room for what the two channels,    *)
(* the connection and the handler's hand hold, and not for one more        *)
(* (GrpcBiStream::send, native_streaming.rs).                              *)
StuckOnlyWhenOverfull ==
  Stuck => /\ program.client = "one" /\ program.handler = "echo"
           /\ written = 3 * Capacity + 1 /\ written < Requests

(* A call whose client reads comes to its end, and the guards named above  *)
(* are exactly what lets a step happen.                                    *)
CallEnds ==
  /\ []<>(program.client = "two" => outcome # "running")
  /\ [](CanMove <=> ENABLED NsProgress)
=============================================================================
