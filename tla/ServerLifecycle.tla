-------------------------- MODULE ServerLifecycle --------------------------
(***************************************************************************)
(* The accept loop and the connection tasks: Server::serve_with_shutdown   *)
(* (typeway-server/src/server.rs; LayeredServer, GrpcServer and            *)
(* LayeredGrpcServer repeat it with another service) and serve_tls_loop    *)
(* (typeway-server/src/tls.rs).                                            *)
(*                                                                         *)
(* The loop owns the listener.  Every accepted connection gets a detached  *)
(* task, which hyper drives: it takes requests until the client closes.    *)
(* The future that serves returns to `main`; when main returns, the tokio  *)
(* runtime is dropped and with it the tasks that are left.                 *)
(***************************************************************************)
EXTENDS Integers

CONSTANTS
  Conns,       (* connections                                              *)
  MaxStreams,  (* bound on the requests in flight on one connection: 1 for *)
               (* HTTP/1.1, more for HTTP/2                                *)
  Modes        (* subset of {"plain", "tls"}                               *)

ASSUME LifecycleAssumption ==
  /\ MaxStreams \in Nat \ {0}
  /\ Modes \subseteq {"plain", "tls"}

VARIABLES
  mode,       (* which of the two loops runs                               *)
  future,     (* "running", or what the serve future returned              *)
  shutdown,   (* the shutdown future has completed                         *)
  process,    (* "up" until main returns                                   *)
  conn,       (* the state of each connection                              *)
  active,     (* requests in flight on each connection                     *)
  cutoff      (* connections dropped by the runtime with a request in flight *)

vars == <<mode, future, shutdown, process, conn, active, cutoff>>

(* backlog: in the listener's queue; handshake: TLS handshake under way;   *)
(* open: hyper takes requests; closed: ended by the client or an error;    *)
(* refused: the listener went away first; dropped: with the runtime.       *)
ConnStates == {"absent", "backlog", "handshake", "open", "closed", "refused", "dropped"}

TypeOK ==
  /\ mode \in Modes
  /\ future \in {"running", "ok", "err"}
  /\ shutdown \in BOOLEAN
  /\ process \in {"up", "exited"}
  /\ conn \in [Conns -> ConnStates]
  /\ active \in [Conns -> 0..MaxStreams]
  /\ cutoff \in SUBSET Conns
  /\ \A c \in Conns : active[c] > 0 => conn[c] = "open"

Init ==
  /\ mode \in Modes
  /\ future = "running"
  /\ shutdown = FALSE
  /\ process = "up"
  /\ conn = [c \in Conns |-> "absent"]
  /\ active = [c \in Conns |-> 0]
  /\ cutoff = {}

-----------------------------------------------------------------------------
(* The accept loop.                                                        *)

(* A client connects: the kernel queues it while the listener is bound.    *)
Connect(c) ==
  /\ future = "running"
  /\ conn[c] \in {"absent", "closed"}
  /\ conn' = [conn EXCEPT ![c] = "backlog"]
  /\ UNCHANGED <<mode, future, shutdown, process, active, cutoff>>

(* Mutant: the TLS handshake is awaited in the accept loop.                *)
Accept_Inline(c) ==
  /\ future = "running"
  /\ conn[c] = "backlog"
  /\ \A d \in Conns : conn[d] # "handshake"
  /\ conn' = [conn EXCEPT ![c] = IF mode = "tls" THEN "handshake" ELSE "open"]
  /\ UNCHANGED <<mode, future, shutdown, process, active, cutoff>>

(* accept() returns a stream: a task is spawned for it.  `select!` picks   *)
(* at random among the branches that are ready, so this may still happen   *)
(* once the shutdown future is.                                            *)
Accept(c) ==
  /\ future = "running"
  /\ conn[c] = "backlog"
  /\ conn' = [conn EXCEPT ![c] = IF mode = "tls" THEN "handshake" ELSE "open"]
  /\ UNCHANGED <<mode, future, shutdown, process, active, cutoff>>

(* The serve future returns and drops the listener: the connections still  *)
(* in its queue are reset.  The tasks are not waited for.                  *)
Return(result) ==
  /\ future' = result
  /\ conn' = [c \in Conns |-> IF conn[c] = "backlog" THEN "refused" ELSE conn[c]]
  /\ UNCHANGED <<mode, shutdown, process, active, cutoff>>

(* accept() fails (for instance with no file descriptor left): `result?`.  *)
AcceptError ==
  /\ future = "running"
  /\ Return("err")

(* The shutdown future completes; serve_tls_loop has none.                 *)
Signal ==
  /\ mode = "plain"
  /\ ~shutdown
  /\ shutdown' = TRUE
  /\ UNCHANGED <<mode, future, process, conn, active, cutoff>>

(* Mutant: `biased;` with the accept branch first.                         *)
Shutdown_Biased ==
  /\ future = "running"
  /\ shutdown
  /\ \A c \in Conns : conn[c] # "backlog"
  /\ Return("ok")

(* The shutdown branch of the select!.                                     *)
Shutdown ==
  /\ future = "running"
  /\ shutdown
  /\ Return("ok")

(* main returns after the serve future did: the runtime is dropped.        *)
Exit ==
  /\ future # "running"
  /\ process = "up"
  /\ process' = "exited"
  /\ conn' = [c \in Conns |-> IF conn[c] \in {"handshake", "open"} THEN "dropped" ELSE conn[c]]
  /\ cutoff' = cutoff \cup {c \in Conns : active[c] > 0}
  /\ active' = [c \in Conns |-> 0]
  /\ UNCHANGED <<mode, future, shutdown>>

-----------------------------------------------------------------------------
(* The connection tasks.                                                   *)

(* acceptor.accept(stream) ends: hyper takes over, or the task does.       *)
Handshake(c) ==
  /\ conn[c] = "handshake"
  /\ \E s \in {"open", "closed"} : conn' = [conn EXCEPT ![c] = s]
  /\ UNCHANGED <<mode, future, shutdown, process, active, cutoff>>

(* A request arrives and its handler starts.                               *)
Request(c) ==
  /\ conn[c] = "open"
  /\ active[c] < MaxStreams
  /\ active' = [active EXCEPT ![c] = @ + 1]
  /\ UNCHANGED <<mode, future, shutdown, process, conn, cutoff>>

(* A handler ends and its response is written.                             *)
Respond(c) ==
  /\ active[c] > 0
  /\ active' = [active EXCEPT ![c] = @ - 1]
  /\ UNCHANGED <<mode, future, shutdown, process, conn, cutoff>>

(* Mutant: a panic reaches the accept loop.                                *)
Panic_Fatal(c) ==
  /\ active[c] > 0
  /\ active' = [active EXCEPT ![c] = 0]
  /\ conn' = [d \in Conns |-> IF conn[d] = "open" THEN "closed" ELSE conn[d]]
  /\ UNCHANGED <<mode, future, shutdown, process, cutoff>>

(* A handler panics.  RouterService answers 500 and the connection goes    *)
(* on.  A panic outside of it, in a layer or in the native gRPC dispatch,  *)
(* ends a task: over HTTP/2 that of the stream, over HTTP/1.1 that of the  *)
(* connection.  The TLS loop only serves a RouterService.                  *)
Panic(c) ==
  /\ active[c] > 0
  /\ \/ /\ mode = "plain"
        /\ conn' = [conn EXCEPT ![c] = "closed"]
        /\ active' = [active EXCEPT ![c] = 0]
     \/ /\ active' = [active EXCEPT ![c] = @ - 1]
        /\ UNCHANGED conn
  /\ UNCHANGED <<mode, future, shutdown, process, cutoff>>

(* Mutant: the handlers outlive the connection.                            *)
Close_Keep(c) ==
  /\ conn[c] = "open"
  /\ conn' = [conn EXCEPT ![c] = "closed"]
  /\ UNCHANGED <<mode, future, shutdown, process, active, cutoff>>

(* The client closes, or serve_connection returns an error, which is only  *)
(* logged.                                                                 *)
Close(c) ==
  /\ conn[c] = "open"
  /\ conn' = [conn EXCEPT ![c] = "closed"]
  /\ active' = [active EXCEPT ![c] = 0]
  /\ UNCHANGED <<mode, future, shutdown, process, cutoff>>

-----------------------------------------------------------------------------
Next ==
  \/ \E c \in Conns :
       \/ Connect(c) \/ Accept(c) \/ Handshake(c)
       \/ Request(c) \/ Respond(c) \/ Panic(c) \/ Close(c)
  \/ AcceptError
  \/ Signal
  \/ Shutdown
  \/ Exit

Spec == Init /\ [][Next]_vars

(* The loop is polled, the kernel hands connections out in order, and      *)
(* `select!` does not favour a branch.  Nothing is assumed of handshakes,  *)
(* handlers and clients.                                                   *)
Fairness == WF_vars(Shutdown) /\ \A c \in Conns : WF_vars(Accept(c))

FairSpec == Spec /\ Fairness

-----------------------------------------------------------------------------
(* A connection is its own fault domain: what one does (a panic, a failed  *)
(* handshake, a client that goes away) neither ends another connection or  *)
(* its requests nor stops the server.  Only the end of the process does.   *)
Isolated ==
  [][process' = process =>
       \A c, d \in Conns :
         conn[c] \in {"handshake", "open"} /\ conn'[c] # conn[c] /\ c # d =>
           conn'[d] = conn[d] /\ active'[d] = active[d] /\ future' = future]_vars

(* A completed shutdown future ends the loop, however many connections     *)
(* keep arriving and whatever the requests in flight do.                   *)
ShutdownReturns == shutdown ~> future # "running"

(* A connection in the queue is accepted or refused, also while the TLS    *)
(* handshake of another one never ends.                                    *)
BacklogServed == \A c \in Conns : conn[c] = "backlog" ~> conn[c] # "backlog"

-----------------------------------------------------------------------------
(* "Existing connections are allowed to finish." (server.rs:546) and       *)
(* "In-flight requests on existing connections are allowed to complete."   *)
(* (production.rs:68): no request is cut off by a shutdown.                *)
InFlightComplete == future = "ok" => cutoff = {}
=============================================================================
