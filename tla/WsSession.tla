------------------------------ MODULE WsSession ------------------------------
(***************************************************************************)
(* A session-typed WebSocket: the upgrade (typeway-server/src/ws.rs), the  *)
(* operations of TypedWebSocket (typed_ws.rs) and the protocol types and   *)
(* their duals (typeway-core/src/session.rs).                              *)
(*                                                                         *)
(* A protocol is a table: a node is one type, with its operation, the      *)
(* message it moves and the nodes that follow.  The server's handler walks *)
(* it; the type checker sees to that, so the model does not let the server *)
(* do anything else.  The client is another program.  An honest one walks  *)
(* the dual protocol, a rogue one sends what it likes, and both may send   *)
(* control frames or go away.                                              *)
(***************************************************************************)
EXTENDS Naturals, Sequences, FiniteSets

CONSTANTS
  Nodes,      (* the types of the protocol                                 *)
  Protocol,   (* Nodes -> [op, msg, next, left, right]                     *)
  Entry,      (* the type the channel starts in                            *)
  Messages,   (* message types                                             *)
  Window      (* frames a connection buffers in each direction             *)

Ops == {"send", "recv", "offer", "select", "end", "rec", "var"}

(* What a type does not use is there and has any value.                    *)
ASSUME SessionAssumption ==
  /\ Window \in Nat \ {0}
  /\ Entry \in Nodes
  /\ Protocol \in [Nodes -> [op : Ops, msg : Messages \cup {"none"},
                             next : Nodes, left : Nodes, right : Nodes]]
  /\ \A n \in Nodes : Protocol[n].op \in {"send", "recv"} => Protocol[n].msg \in Messages

VARIABLES
  phase,      (* of the connection: HTTP, switching, open, refused, failed *)
  spos, cpos, (* type of the server's and of the client's channel          *)
  s2c, c2s,   (* frames on their way                                       *)
  alive,      (* which of the two still holds its end                      *)
  serr, cerr, (* how the server's and the client's session ended           *)
  honest      (* the client keeps to the dual protocol                     *)

wsVars == <<phase, spos, cpos, s2c, c2s, alive, serr, cerr, honest>>

(* Mutant: the dual of a choice keeps its side.                            *)
DualOp_Choice(op) ==
  CASE op = "send" -> "recv" [] op = "recv" -> "send" [] OTHER -> op

(* Dual: each type with its operation mirrored, its messages and branches  *)
(* unchanged.                                                              *)
DualOp(op) ==
  CASE op = "send"   -> "recv"
    [] op = "recv"   -> "send"
    [] op = "offer"  -> "select"
    [] op = "select" -> "offer"
    [] OTHER         -> op

Dual(p) == [n \in DOMAIN p |-> [p[n] EXCEPT !.op = DualOp(@)]]

Text(m) == [kind |-> "text", msg |-> m]
Ping == [kind |-> "ping", msg |-> "none"]
Close == [kind |-> "close", msg |-> "none"]
Branches == {"L", "R"}

Frames == {Ping, Close} \cup {Text(m) : m \in Messages \cup Branches}

WsTypeOK ==
  /\ phase \in {"http", "switching", "open", "refused", "failed"}
  /\ spos \in Nodes /\ cpos \in Nodes
  /\ s2c \in Seq(Frames) /\ c2s \in Seq(Frames)
  /\ Len(s2c) <= Window /\ Len(c2s) <= Window
  /\ alive \in [{"s", "c"} -> BOOLEAN]
  /\ serr \in {"none", "done", "closed", "serialize", "deserialize", "transport"}
  /\ cerr \in {"none", "done", "closed", "surprised"}
  /\ honest \in BOOLEAN

WsInit ==
  /\ phase = "http"
  /\ spos = Entry /\ cpos = Entry
  /\ s2c = <<>> /\ c2s = <<>>
  /\ alive = [x \in {"s", "c"} |-> TRUE]
  /\ serr = "none" /\ cerr = "none"
  /\ honest \in BOOLEAN

-----------------------------------------------------------------------------
(* The handshake.                                                          *)

(* WebSocketUpgrade::from_request_parts and on_upgrade: 101 goes out and a *)
(* task waits for the connection; or 400, 500.                             *)
Upgrade(hdr) ==
  /\ phase = "http"
  /\ phase' = IF hdr.upgrade /\ hdr.websocket /\ hdr.key /\ hdr.hyper
              THEN "switching" ELSE "refused"
  /\ UNCHANGED <<spos, cpos, s2c, c2s, alive, serr, cerr, honest>>

(* The task gets the connection, or an error when the peer left before.    *)
Upgraded ==
  /\ phase = "switching"
  /\ phase' = IF alive["c"] THEN "open" ELSE "failed"
  /\ UNCHANGED <<spos, cpos, s2c, c2s, alive, serr, cerr, honest>>

-----------------------------------------------------------------------------
(* The server's channel.  Every operation consumes it; an error drops it   *)
(* and with it the connection.                                             *)
ServerRuns == phase = "open" /\ alive["s"]
Drop(e) ==
  /\ alive' = [alive EXCEPT !["s"] = FALSE]
  /\ serr' = e
  /\ UNCHANGED <<phase, spos, cpos, s2c, c2s, cerr, honest>>

Advance(n) ==
  /\ spos' = n
  /\ UNCHANGED <<phase, cpos, alive, serr, cerr, honest>>

(* Mutant: nothing holds the sender back.                                  *)
Emit_Unbounded(f, n) ==
  \/ alive["c"] /\ s2c' = Append(s2c, f) /\ UNCHANGED c2s /\ Advance(n)
  \/ ~alive["c"] /\ Drop("transport")

(* A frame goes into the connection, or the peer is gone.                  *)
Emit(f, n) ==
  \/ alive["c"] /\ Len(s2c) < Window /\ s2c' = Append(s2c, f) /\ UNCHANGED c2s /\ Advance(n)
  \/ ~alive["c"] /\ Drop("transport")

send ==
  /\ ServerRuns /\ Protocol[spos].op = "send"
  /\ \/ Emit(Text(Protocol[spos].msg), Protocol[spos].next)
     \/ Drop("serialize")

(* recv: text that parses advances, control frames are skipped, a close    *)
(* frame ends the session, and so does text of another type.               *)
recv ==
  /\ ServerRuns /\ Protocol[spos].op = "recv" /\ c2s # <<>>
  /\ \/ /\ Head(c2s) = Text(Protocol[spos].msg)
        /\ c2s' = Tail(c2s) /\ UNCHANGED s2c
        /\ Advance(Protocol[spos].next)
     \/ /\ Head(c2s) = Ping
        /\ c2s' = Tail(c2s) /\ UNCHANGED s2c
        /\ Advance(spos)
     \/ Head(c2s) = Close /\ Drop("closed")
     \/ /\ Head(c2s) \notin {Text(Protocol[spos].msg), Ping, Close}
        /\ Drop("deserialize")

(* Mutant: only the right branch has to be named.                          *)
offer_Swapped ==
  /\ ServerRuns /\ Protocol[spos].op = "offer" /\ c2s # <<>>
  /\ c2s' = Tail(c2s) /\ UNCHANGED s2c
  /\ Advance(IF Head(c2s) = Text("L") THEN Protocol[spos].right ELSE Protocol[spos].left)

(* offer: a text that names the left branch takes it; every other text     *)
(* takes the right one.                                                    *)
offer ==
  /\ ServerRuns /\ Protocol[spos].op = "offer" /\ c2s # <<>>
  /\ \/ /\ Head(c2s).kind = "text"
        /\ c2s' = Tail(c2s) /\ UNCHANGED s2c
        /\ Advance(IF Head(c2s) = Text("L") THEN Protocol[spos].left
                                            ELSE Protocol[spos].right)
     \/ /\ Head(c2s) = Ping
        /\ c2s' = Tail(c2s) /\ UNCHANGED s2c
        /\ Advance(spos)
     \/ Head(c2s) = Close /\ Drop("closed")

(* Mutant: the end of the stream is not an answer.                         *)
eof_Ignored ==
  /\ ServerRuns /\ Protocol[spos].op \in {"recv", "offer"}
  /\ c2s = <<>> /\ ~alive["c"]
  /\ UNCHANGED wsVars

(* recv and offer when the peer went away without a close frame.           *)
eof ==
  /\ ServerRuns /\ Protocol[spos].op \in {"recv", "offer"}
  /\ c2s = <<>> /\ ~alive["c"]
  /\ Drop("closed")

(* select_left, select_right.                                              *)
select ==
  /\ ServerRuns /\ Protocol[spos].op = "select"
  /\ \/ Emit(Text("L"), Protocol[spos].left)
     \/ Emit(Text("R"), Protocol[spos].right)

(* enter and recurse: no frame.  The caller names the type recurse goes    *)
(* to; the table has the one it names.                                     *)
unfold ==
  /\ ServerRuns /\ Protocol[spos].op \in {"rec", "var"}
  /\ Advance(Protocol[spos].next)
  /\ UNCHANGED <<s2c, c2s>>

(* close, at the end of the protocol.                                      *)
close ==
  /\ ServerRuns /\ Protocol[spos].op = "end"
  /\ \/ /\ alive["c"] /\ Len(s2c) < Window
        /\ s2c' = Append(s2c, Close)
        /\ alive' = [alive EXCEPT !["s"] = FALSE]
        /\ serr' = "done"
        /\ UNCHANGED <<phase, spos, cpos, c2s, cerr, honest>>
     \/ ~alive["c"] /\ Drop("transport")

-----------------------------------------------------------------------------
(* External: the client.                                                   *)
ClientRuns == phase = "open" /\ alive["c"]
Peer == Dual(Protocol)

ClientEnds(e) ==
  /\ alive' = [alive EXCEPT !["c"] = FALSE]
  /\ cerr' = e
  /\ UNCHANGED <<phase, spos, cpos, s2c, c2s, serr, honest>>

ClientAdvance(n) == cpos' = n /\ UNCHANGED <<phase, spos, alive, serr, cerr, honest>>

ClientSends(f, n) ==
  /\ Len(c2s) < Window
  /\ c2s' = Append(c2s, f) /\ UNCHANGED s2c
  /\ ClientAdvance(n)

(* One step of a client that follows the dual protocol.                    *)
PeerStep ==
  /\ ClientRuns /\ honest
  /\ LET t == Peer[cpos]
     IN \/ t.op = "send" /\ ClientSends(Text(t.msg), t.next)
        \/ t.op = "select" /\ ClientSends(Text("L"), t.left)
        \/ t.op = "select" /\ ClientSends(Text("R"), t.right)
        \/ t.op \in {"rec", "var"} /\ ClientAdvance(t.next) /\ UNCHANGED <<s2c, c2s>>
        \/ t.op = "end" /\ ClientEnds("done")
        \/ /\ t.op \in {"recv", "offer"} /\ s2c # <<>>
           /\ LET f == Head(s2c)
                  expected == IF t.op = "recv" THEN {Text(t.msg)} ELSE {Text(b) : b \in Branches}
              IN IF f \in expected
                 THEN /\ s2c' = Tail(s2c) /\ UNCHANGED c2s
                      /\ ClientAdvance(IF t.op = "recv" THEN t.next
                                       ELSE IF f = Text("L") THEN t.left ELSE t.right)
                 ELSE ClientEnds("surprised")
        \/ t.op \in {"recv", "offer"} /\ s2c = <<>> /\ ~alive["s"] /\ ClientEnds("closed")

(* A client that does not: any frame at any time, reading or not.          *)
RogueStep ==
  /\ ClientRuns /\ ~honest
  /\ \/ \E f \in Frames : ClientSends(f, cpos)
     \/ s2c # <<>> /\ s2c' = Tail(s2c) /\ UNCHANGED c2s /\ ClientAdvance(cpos)

(* A control frame, which belongs to no protocol.                          *)
ClientPing == ClientRuns /\ honest /\ ClientSends(Ping, cpos)

(* The client goes away, with or without a close frame.                    *)
ClientLeaves ==
  /\ phase # "refused" /\ alive["c"]
  /\ ClientEnds("closed")

WsServer == send \/ recv \/ offer \/ eof \/ select \/ unfold \/ close

Headers == [upgrade : BOOLEAN, websocket : BOOLEAN, key : BOOLEAN, hyper : BOOLEAN]

WsNext ==
  \/ \E h \in Headers : Upgrade(h)
  \/ Upgraded
  \/ WsServer
  \/ PeerStep \/ RogueStep \/ ClientPing \/ ClientLeaves

(* The executor runs the handler's task; an honest client gets on with the *)
(* protocol between its pings.                                             *)
WsFairness == WF_wsVars(WsServer) /\ SF_wsVars(PeerStep)
WsSpec == WsInit /\ [][WsNext]_wsVars

-----------------------------------------------------------------------------
HasText(c) == \E i \in 1..Len(c) : c[i].kind = "text"

(* rec and var are only names for what follows them: two nodes are one     *)
(* type if no set that keeps names together with what they name parts them.*)
NamesKept == {S \in SUBSET Nodes :
                \A n \in Nodes : Protocol[n].op \in {"rec", "var"} =>
                                   (n \in S <=> Protocol[n].next \in S)}
SameType(m, n) == m = n \/ \A S \in NamesKept : m \in S <=> n \in S

(* The server and a client that follows the dual type stay in step: with   *)
(* no message between them they are at the same type, whatever branches    *)
(* were chosen and however often the protocol went round, and neither ever *)
(* meets a message of another type (typed_ws.rs, session.rs).              *)
InStep ==
  honest =>
    /\ serr # "deserialize" /\ cerr # "surprised"
    /\ alive["s"] /\ alive["c"] /\ ~HasText(s2c) /\ ~HasText(c2s) => SameType(spos, cpos)

ServerWaits == \/ Protocol[spos].op \in {"recv", "offer"} /\ c2s = <<>>
               \/ Protocol[spos].op \in {"send", "select", "end"} /\ Len(s2c) = Window
PeerWaits == \/ Peer[cpos].op \in {"recv", "offer"} /\ s2c = <<>>
             \/ Peer[cpos].op \in {"send", "select"} /\ Len(c2s) = Window

(* The two never wait for each other: duality leaves one of them a step,   *)
(* with the smallest window, too.                                          *)
NeverBothWait ==
  honest /\ ServerRuns /\ alive["c"] => ~(ServerWaits /\ PeerWaits)

(* A server that talks to an honest client does not stay where it is: it   *)
(* comes to another type again and again, or the session ends.             *)
SessionMoves ==
  honest => []<>(~ServerRuns) \/ []<><<spos' # spos>>_wsVars
==============================================================================
