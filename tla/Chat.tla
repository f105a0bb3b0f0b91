-------------------------------- MODULE Chat --------------------------------
(***************************************************************************)
(* examples/chat: the handler of the session-typed chat protocol           *)
(*   Recv<AuthRequest, Send<WelcomeMessage, Rec<Recv<.., Send<.., Var>>>>> *)
(* as one task per connection, over the state the tasks share: the roster  *)
(* behind a mutex, the broadcast channel and the message counter.  Each    *)
(* step ends at an await: a receive, a send, or the roster's lock.         *)
(***************************************************************************)
EXTENDS Naturals, FiniteSets

CONSTANTS
  Sockets,      (* connections that were upgraded                          *)
  Nicknames,
  MaxMessages   (* bound on the messages of all clients together           *)

VARIABLES
  task,           (* where the handler of each connection is               *)
  username,       (* the name it authenticated with                        *)
  users,          (* AppState::users                                       *)
  message_count,  (* AppState::message_count                               *)
  published,      (* sends into AppState::tx, all of which go nowhere: no  *)
                  (* handler subscribes                                    *)
  echoed          (* messages that came back to their senders              *)

chatVars == <<task, username, users, message_count, published, echoed>>

Nobody == "nobody"

ASSUME ChatAssumption ==
  /\ IsFiniteSet(Sockets)
  /\ Nobody \notin Nicknames
  /\ MaxMessages \in Nat

ChatTypeOK ==
  /\ task \in [Sockets -> {"auth", "register", "welcome", "receive", "reply",
                           "undo", "cleanup", "gone"}]
  /\ username \in [Sockets -> Nicknames \cup {Nobody}]
  /\ users \subseteq Nicknames
  /\ message_count \in 0..MaxMessages
  /\ published \in Nat
  /\ echoed \in Nat

ChatInit ==
  /\ task = [c \in Sockets |-> "auth"]
  /\ username = [c \in Sockets |-> Nobody]
  /\ users = {}
  /\ message_count = 0 /\ published = 0 /\ echoed = 0

Move(c, from, to) == task[c] = from /\ task' = [task EXCEPT ![c] = to]

(* Mutant: the name is not kept.                                           *)
Authenticate_Forgets(c, n) ==
  /\ Move(c, "auth", "register")
  /\ UNCHANGED <<username, users, message_count, published, echoed>>

(* The client authenticates, with a name that may be in use.               *)
Authenticate(c, n) ==
  /\ Move(c, "auth", "register")
  /\ username' = [username EXCEPT ![c] = n]
  /\ UNCHANGED <<users, message_count, published, echoed>>

(* It leaves, or sends something else, before it did.                      *)
NoAuth(c) ==
  /\ Move(c, "auth", "gone")
  /\ UNCHANGED <<username, users, message_count, published, echoed>>

(* The roster takes the name.                                              *)
Register(c) ==
  /\ Move(c, "register", "welcome")
  /\ users' = users \cup {username[c]}
  /\ UNCHANGED <<username, message_count, published, echoed>>

(* The welcome goes out, and the news that somebody joined.                *)
Welcome(c) ==
  /\ Move(c, "welcome", "receive")
  /\ published' = published + 1
  /\ UNCHANGED <<username, users, message_count, echoed>>

(* Mutant: a client that vanishes before its welcome stays on the roster.  *)
WelcomeFails_Return(c) ==
  /\ Move(c, "welcome", "gone")
  /\ UNCHANGED <<username, users, message_count, published, echoed>>

(* The client is gone before its welcome.                                  *)
WelcomeFails(c) ==
  /\ Move(c, "welcome", "undo")
  /\ UNCHANGED <<username, users, message_count, published, echoed>>

Undo(c) ==
  /\ Move(c, "undo", "gone")
  /\ users' = users \ {username[c]}
  /\ UNCHANGED <<username, message_count, published, echoed>>

(* Mutant: the message is published and not counted.                       *)
Receive_NoCount(c) ==
  /\ Move(c, "receive", "reply")
  /\ message_count < MaxMessages /\ published < 3 * MaxMessages
  /\ published' = published + 1
  /\ UNCHANGED <<username, users, message_count, echoed>>

(* A message arrives: it is counted and published.                         *)
Receive(c) ==
  /\ Move(c, "receive", "reply")
  /\ message_count < MaxMessages
  /\ message_count' = message_count + 1
  /\ published' = published + 1
  /\ UNCHANGED <<username, users, echoed>>

(* The protocol owes its sender an answer.                                 *)
Reply(c) ==
  /\ Move(c, "reply", "receive")
  /\ echoed' = echoed + 1
  /\ UNCHANGED <<username, users, message_count, published>>

(* Mutant: a failed reply ends the handler at once.                        *)
Disconnect_Return(c) ==
  /\ \/ Move(c, "receive", "cleanup")
     \/ Move(c, "reply", "gone")
  /\ UNCHANGED <<username, users, message_count, published, echoed>>

(* The client is gone, at a receive or at a reply.                         *)
Disconnect(c) ==
  /\ \/ Move(c, "receive", "cleanup")
     \/ Move(c, "reply", "cleanup")
  /\ UNCHANGED <<username, users, message_count, published, echoed>>

Cleanup(c) ==
  /\ Move(c, "cleanup", "gone")
  /\ users' = users \ {username[c]}
  /\ published' = published + 1
  /\ UNCHANGED <<username, message_count, echoed>>

ChatNext ==
  \E c \in Sockets :
    \/ \E n \in Nicknames : Authenticate(c, n)
    \/ NoAuth(c) \/ Register(c) \/ Welcome(c) \/ WelcomeFails(c) \/ Undo(c)
    \/ Receive(c) \/ Reply(c) \/ Disconnect(c) \/ Cleanup(c)

(* The executor runs tasks that wait for nothing but the roster's lock.    *)
ChatFairness == \A c \in Sockets : WF_chatVars(Register(c) \/ Undo(c) \/ Cleanup(c))

ChatSpec == ChatInit /\ [][ChatNext]_chatVars

Registered == {c \in Sockets : task[c] \in {"welcome", "receive", "reply", "undo", "cleanup"}}
Names(S) == {username[c] : c \in S}

(* No ghosts: a name on the roster belongs to a connection whose handler   *)
(* will take it off again.  And, as long as nobody shares a name, the      *)
(* roster is complete (handle_chat, examples/chat/src/main.rs).            *)
RosterExact ==
  /\ users \subseteq Names(Registered)
  /\ Cardinality(Names(Registered)) = Cardinality(Registered)
     /\ (\A c, d \in Sockets : username[c] = username[d] => c = d \/ username[c] = Nobody)
       => users = Names(Registered)

(* Every message is counted and answered at most once, and published with  *)
(* the joins and the departures.                                           *)
EchoesAreMessages ==
  /\ echoed + Cardinality({c \in Sockets : task[c] = "reply"}) <= message_count
  /\ message_count <= published

(* When everybody has left, the roster becomes empty.                      *)
RosterDrains ==
  []<>((\A c \in Sockets : task[c] \in {"cleanup", "undo", "gone"}) => users = {})
=============================================================================
