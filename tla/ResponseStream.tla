--------------------------- MODULE ResponseStream ---------------------------
(***************************************************************************)
(* What a server-streaming response promises, whatever carries it: the     *)
(* messages the handler's tasks handed over come out once each, in order   *)
(* and encoded, and the stream ends with one status: the first error       *)
(* handed over, or OK once the tasks are gone and everything is delivered. *)
(* The stream may be cut at any point, and then has no status.             *)
(***************************************************************************)
EXTENDS Integers, Sequences

CONSTANTS
  Items,     (* what a task may send                                       *)
  Statuses,  (* the error statuses a task may end the stream with          *)
  Encoded    (* function: the payload of each item                         *)

VARIABLES
  accepted,  (* what the tasks handed over, in order                       *)
  delivered, (* the payloads delivered                                     *)
  status,    (* "open", "cut", "ok" or an error status                     *)
  closed     (* no task is left to send                                    *)

vars == <<accepted, delivered, status, closed>>

Init ==
  /\ accepted = <<>>
  /\ delivered = <<>>
  /\ status = "open"
  /\ closed = FALSE

(* The next message to deliver.                                            *)
Waiting == Len(delivered) < Len(accepted)
NextMessage == accepted[Len(delivered) + 1]

Accept(m) ==
  /\ ~closed
  /\ accepted' = Append(accepted, m)
  /\ UNCHANGED <<delivered, status, closed>>

Close ==
  /\ ~closed
  /\ closed' = TRUE
  /\ UNCHANGED <<accepted, delivered, status>>

Deliver ==
  /\ status = "open"
  /\ Waiting
  /\ NextMessage \in Items
  /\ delivered' = Append(delivered, Encoded[NextMessage])
  /\ UNCHANGED <<accepted, status, closed>>

Fail ==
  /\ status = "open"
  /\ Waiting
  /\ NextMessage \in Statuses
  /\ status' = NextMessage
  /\ UNCHANGED <<accepted, delivered, closed>>

Finish ==
  /\ status = "open"
  /\ closed
  /\ ~Waiting
  /\ status' = "ok"
  /\ UNCHANGED <<accepted, delivered, closed>>

Cut ==
  /\ status = "open"
  /\ status' = "cut"
  /\ UNCHANGED <<accepted, delivered, closed>>

Next ==
  \/ \E m \in Items \cup Statuses : Accept(m)
  \/ Close
  \/ Deliver
  \/ Fail
  \/ Finish
  \/ Cut

Spec == Init /\ [][Next]_vars
=============================================================================
