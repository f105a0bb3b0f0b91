-------------------------------- MODULE Sse --------------------------------
(***************************************************************************)
(* typeway-server/src/sse.rs: a handler's stream of events, written as     *)
(* text/event-stream, with or without the comments of keep_alive.          *)
(*                                                                         *)
(* A text is a sequence of characters, of which only the line ends LF and  *)
(* CR matter.  The wire is a sequence of lines [field, text]; the line     *)
(* that ends an event is Blank.  The connection polls the body as soon as  *)
(* something woke it, so time passes only while the body is pending.       *)
(***************************************************************************)
EXTENDS Integers, Sequences, SequencesExt, Folding

CONSTANTS
  Characters, (* what texts are made of, line ends among it                *)
  Events,     (* events a handler sends: [comment, id, event, data]        *)
  MaxEvents,  (* bound: events of one response                             *)
  Interval    (* the interval of keep_alive, in ticks                      *)

LF == "lf"
CR == "cr"
Strings == Seq(Characters)
Option(strings) == {value \in Seq(strings) : Len(value) <= 1}
SseEvents == [comment : Option(Strings), id : Option(Strings), event : Option(Strings), data : Strings]

(* A sleep lasts a tick at least: tokio rounds it up to its own.           *)
ASSUME SseAssumption ==
  Interval \in Nat \ {0} /\ MaxEvents \in Nat
  /\ {LF, CR} \subseteq Characters /\ Events \subseteq SseEvents

VARIABLES
  keeping,    (* keep_alive is wrapped around the stream                   *)
  produced,       (* events the handler's stream has produced                  *)
  finished,     (* the stream has ended                                      *)
  taken,      (* events taken out of it                                    *)
  sent_lines,       (* lines sent, those of the comments of keep_alive left out  *)
  turn,       (* the side select polls first: "events" or "pings"          *)
  timer,      (* ticks of the running sleep; -1 before its first poll      *)
  quiet,      (* ticks since the last frame                                *)
  body        (* "woken", "pending" or "ended"                             *)

sseVars == <<keeping, produced, finished, taken, sent_lines, turn, timer, quiet, body>>

SseTypeOK ==
  /\ keeping \in BOOLEAN /\ finished \in BOOLEAN
  /\ produced \in Seq(Events) /\ Len(produced) <= MaxEvents /\ taken \in 0..Len(produced)
  /\ turn \in {"events", "pings"} /\ timer \in -1..Interval /\ quiet \in 0..(Interval + 1)
  /\ body \in {"woken", "pending", "ended"}

SseInit ==
  /\ keeping \in BOOLEAN
  /\ produced = <<>> /\ finished = FALSE /\ taken = 0 /\ sent_lines = <<>>
  /\ turn = "events" /\ timer = -1 /\ quiet = 0 /\ body = "woken"

-----------------------------------------------------------------------------
(* SseEvent::to_wire                                                       *)

Without(text, ends) ==
  Fold([kept \in Strings |-> [c \in Characters |-> IF c \in ends THEN kept ELSE Append(kept, c)]], <<>>, text)

strip_cr_lf(text) == Without(text, {LF, CR})

(* split('\n'), and every part without its carriage returns.               *)
SplitState == [done : Seq(Strings), part : Strings]
SplitStep ==
  [split \in SplitState |-> [c \in Characters |->
     CASE c = LF -> [done |-> Append(split.done, split.part), part |-> <<>>]
       [] c = CR -> split
       [] OTHER -> [split EXCEPT !.part = Append(@, c)]]]
Split(text) == Fold(SplitStep, [done |-> <<>>, part |-> <<>>], text)
Lines(text) == Append(Split(text).done, Split(text).part)

WireLine(field, text) == [field |-> field, text |-> text]
BlankLine == WireLine("blank", <<>>)
Written(field, lines) == [i \in DOMAIN lines |-> WireLine(field, lines[i])]
Stripped(value) == [i \in DOMAIN value |-> strip_cr_lf(value[i])]

(* Mutant: the data is written as it is.                                   *)
to_wire_OneLine(ev) ==
  (IF ev.comment # <<>> THEN Written(":", Lines(ev.comment[1]))
   ELSE Written("id", Stripped(ev.id)) \o Written("event", Stripped(ev.event))
        \o <<WireLine("data", strip_cr_lf(ev.data))>>)
  \o <<BlankLine>>

to_wire(ev) ==
  (IF ev.comment # <<>> THEN Written(":", Lines(ev.comment[1]))
   ELSE Written("id", Stripped(ev.id)) \o Written("event", Stripped(ev.event))
        \o Written("data", Lines(ev.data)))
  \o <<BlankLine>>

-----------------------------------------------------------------------------
(* The handler's stream, time, and the body of the response.               *)

(* Mutant: the body is not woken.                                          *)
WakeBody_Lost == body' = body

WakeBody == body' = IF body = "pending" THEN "woken" ELSE body

Produce(ev) ==
  /\ ~finished /\ Len(produced) < MaxEvents
  /\ produced' = Append(produced, ev)
  /\ WakeBody
  /\ UNCHANGED <<keeping, finished, taken, sent_lines, turn, timer, quiet>>

EndEvents ==
  /\ ~finished
  /\ finished' = TRUE
  /\ WakeBody
  /\ UNCHANGED <<keeping, produced, taken, sent_lines, turn, timer, quiet>>

(* Mutant: the sleep that is over wakes nobody.                            *)
Tick_NoWake ==
  /\ body = "pending"
  /\ quiet' = IF quiet > Interval THEN quiet ELSE quiet + 1
  /\ timer' = IF timer >= 0 THEN timer + 1 ELSE timer
  /\ UNCHANGED <<keeping, produced, finished, taken, sent_lines, turn, body>>

Tick ==
  /\ body = "pending"
  /\ quiet' = IF quiet > Interval THEN quiet ELSE quiet + 1
  /\ timer' = IF timer >= 0 THEN timer + 1 ELSE timer
  /\ body' = IF timer + 1 = Interval THEN "woken" ELSE body
  /\ UNCHANGED <<keeping, produced, finished, taken, sent_lines, turn>>

(* What the next poll of the body meets.                                   *)
EventReady == taken < Len(produced)
PingReady == keeping /\ timer = Interval
Drained == finished /\ ~EventReady
(* select asks the side whose turn it is first; the events' side is not    *)
(* asked any more when it has ended.                                       *)
EventFirst == EventReady /\ ~(turn = "pings" /\ PingReady)
PingFirst == PingReady /\ ~EventFirst
Turned == turn' = IF keeping THEN (IF turn = "events" THEN "pings" ELSE "events") ELSE turn

(* A sleep starts when the pings are asked: not by a poll that the events, *)
(* asked first, have answered.                                             *)
Started(asked) == timer' = IF keeping /\ asked /\ timer = -1 THEN 0 ELSE timer

SendEvent ==
  /\ body = "woken" /\ EventFirst
  /\ sent_lines' = sent_lines \o to_wire(produced[taken + 1])
  /\ taken' = taken + 1 /\ quiet' = 0
  /\ Started(turn = "pings") /\ Turned
  /\ UNCHANGED <<keeping, produced, finished, body>>

(* The next sleep starts only when the pings are asked again.              *)
SendPing ==
  /\ body = "woken" /\ PingFirst
  /\ timer' = -1 /\ quiet' = 0 /\ Turned
  /\ UNCHANGED <<keeping, produced, finished, taken, sent_lines, body>>

(* Mutant: the pings are not asked before the events have ended.           *)
Wait_EventsFirst ==
  /\ body = "woken" /\ ~EventReady /\ ~PingReady
  /\ IF Drained /\ ~keeping THEN body' = "ended" /\ timer' = timer
     ELSE body' = "pending" /\ Started(Drained)
  /\ Turned
  /\ UNCHANGED <<keeping, produced, finished, taken, sent_lines, quiet>>

(* Neither side has anything: pending, or the end of a stream without      *)
(* pings.  With them the body never ends.                                  *)
Wait ==
  /\ body = "woken" /\ ~EventReady /\ ~PingReady
  /\ IF Drained /\ ~keeping THEN body' = "ended" /\ timer' = timer
     ELSE body' = "pending" /\ Started(TRUE)
  /\ Turned
  /\ UNCHANGED <<keeping, produced, finished, taken, sent_lines, quiet>>

Poll == SendEvent \/ SendPing \/ Wait
SseNext == (\E ev \in Events : Produce(ev)) \/ EndEvents \/ Tick \/ Poll

(* The connection polls, time passes.                                      *)
SseFairness == WF_sseVars(Poll) /\ WF_sseVars(Tick)
SseSpec == SseInit /\ [][SseNext]_sseVars

-----------------------------------------------------------------------------
(* Properties                                                              *)

(* The client (external): a browser's EventSource.  A line of data is kept *)
(* with its line end, a blank line dispatches what was kept without its    *)
(* last line end.                                                          *)
Received == [id : Seq(Strings), event : Seq(Strings), data : Strings]
WireLines == [field : {"id", "event", "data", ":", "blank"}, text : Strings]
Reader(id, event, data, events) == [id |-> id, event |-> event, data |-> data, events |-> events]
Readers == [id : Seq(Strings), event : Seq(Strings), data : Strings, events : Seq(Received)]
Dispatched(reader) ==
  Append(reader.events, [id |-> reader.id, event |-> reader.event, data |-> Front(reader.data)])
ReadLine ==
  [reader \in Readers |-> [line \in WireLines |->
     CASE line = BlankLine ->
            Reader(<<>>, <<>>, <<>>, IF reader.data = <<>> THEN reader.events ELSE Dispatched(reader))
       [] line.field = "id" -> [reader EXCEPT !.id = <<line.text>>]
       [] line.field = "event" -> [reader EXCEPT !.event = <<line.text>>]
       [] line.field = "data" -> [reader EXCEPT !.data = Append(@ \o line.text, LF)]
       [] OTHER -> reader]]
ReadAll(reader, lines) == Fold(ReadLine, reader, lines)
Seen == ReadAll(Reader(<<>>, <<>>, <<>>, <<>>), sent_lines).events

(* What the events that were sent are for the client.                      *)
Shown(ev) == [id |-> Stripped(ev.id), event |-> Stripped(ev.event), data |-> Without(ev.data, {CR})]
ShowStep ==
  [shown \in Seq(Received) |-> [ev \in SseEvents |->
     IF ev.comment # <<>> THEN shown ELSE Append(shown, Shown(ev))]]
AllShown(events) == Fold(ShowStep, <<>>, events)

(* The client sees the events the handler sent, in their order, each as    *)
(* one event with its data (but for carriage returns), whatever line ends  *)
(* the texts contain; comments are seen as nothing, and no comment or ping *)
(* between two events joins or splits them.                                *)
ClientSeesEvents == Seen = AllShown(SubSeq(produced, 1, taken))

(* With keep_alive a connection is never silent for longer than the        *)
(* interval, however events and pings fall together, before and after the  *)
(* events have ended.                                                      *)
NeverSilent == keeping => quiet <= Interval

(* Every event reaches the wire although pings go on for ever, and a       *)
(* response without keep_alive ends once its stream has.  (One with        *)
(* keep_alive never does.)                                                 *)
EventsGetOut ==
  /\ []<>(taken = Len(produced))
  /\ []<>(finished /\ ~keeping => body = "ended")
=============================================================================
