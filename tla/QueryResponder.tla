---------------------------- MODULE QueryResponder ----------------------------
(***************************************************************************)
(* The terminal's answers to a child that asks (src/backend/protocol.rs,   *)
(* the pump of src/backend/portable_pty.rs) and what becomes of them: the  *)
(* event clock, the events of the session, the conformance probe of the    *)
(* audit, and the persona that decides one of the answers.                 *)
(*                                                                         *)
(* A child writes a query in one chunk or in two; the parser holds the     *)
(* first half until the next byte.  A query is named by its class.         *)
(***************************************************************************)
EXTENDS Naturals, Sequences, SequencesExt

CONSTANTS
  Queries,     \* classes a child asks: "cpr", "da1", "color", "sync"
  MaxAsked,    \* bound: queries of one child
  MaxGen,      \* bound: generations
  MaxProbes    \* bound: conformance probes

VARIABLES
  child,   \* [gen, asked, told, half]: queries written, answers read, what it has half written
  pty,     \* chunks written and not drained
  parser,  \* the emulator: [half, seq, pending, answers, sync]
  clock,   \* EventClock: the last answered class and its number
  session, \* [seq, events (of this child), probes, persona, broken]
  reply    \* the answer of the last probe

responderVars == <<child, pty, parser, clock, session, reply>>

None == "none"
Classes == Queries \cup {None}

\* Every variable has its type.
TypeOK ==
  /\ child.gen \in 0 .. MaxGen /\ child.asked \in Seq(Queries) /\ child.half \in Classes
  /\ \A n \in DOMAIN child.told : child.told[n].class \in Queries /\ child.told[n].set \in BOOLEAN
  /\ \A n \in DOMAIN pty : pty[n] \in {"whole", "first", "rest"} \X Queries
  /\ parser.half \in Classes /\ parser.pending \in Classes
  /\ clock.class \in Classes /\ clock.seq \in Nat
  /\ session.events \in Seq(Queries) /\ session.probes \in 0 .. MaxProbes
  /\ reply \in Classes

Fresh == [half |-> None, seq |-> 0, pending |-> None, answers |-> <<>>, sync |-> FALSE]

Init ==
  /\ child = [gen |-> 0, asked |-> <<>>, told |-> <<>>, half |-> None]
  /\ pty = <<>> /\ parser = Fresh /\ clock = [class |-> None, seq |-> 0] /\ reply = None
  /\ session \in [seq : {0}, events : {<<>>}, probes : {0}, persona : BOOLEAN, broken : {FALSE}]

-----------------------------------------------------------------------------
(* The parser and its callbacks.                                           *)

\* The classes unhandled_csi and unhandled_osc recognise: of a color query
\* they read the third field, and the question mark is the second.
Answered == {"cpr", "da1", "sync"}

\* note_answer and queue_response.
Answer(p, q) ==
  IF q \notin Answered THEN p
  ELSE [p EXCEPT !.seq = @ + 1, !.pending = q,
                 !.answers = Append(@, [class |-> q, set |-> q = "sync" /\ p.sync])]

\* TerminalEmulator::feed: the rest of a query counts when the parser still
\* holds its first half; an ESC drops a half.
Feed(p, chunk) ==
  CASE chunk[1] = "whole" -> Answer([p EXCEPT !.half = None], chunk[2])
    [] chunk[1] = "first" -> [p EXCEPT !.half = chunk[2]]
    [] chunk[1] = "rest" -> IF p.half = chunk[2] THEN Answer([p EXCEPT !.half = None], chunk[2]) ELSE p

\* Mutant: the answers stay in the queue after they were written.
PumpedKeeps ==
  LET p == FoldLeft(Feed, parser, pty) IN
  [parser |-> [p EXCEPT !.pending = IF p.answers # <<>> THEN None ELSE @],
   told |-> child.told \o p.answers,
   clock |-> IF p.answers # <<>> /\ p.pending # None THEN [class |-> p.pending, seq |-> p.seq] ELSE clock]

\* pump: everything drained goes through the parser, the answers to the
\* child, and the last of their classes to the clock.
Pumped ==
  LET p == FoldLeft(Feed, parser, pty) IN
  [parser |-> [p EXCEPT !.answers = <<>>, !.pending = IF p.answers # <<>> THEN None ELSE @],
   told |-> child.told \o p.answers,
   clock |-> IF p.answers # <<>> /\ p.pending # None THEN [class |-> p.pending, seq |-> p.seq] ELSE clock]

-----------------------------------------------------------------------------
(* The child.                                                              *)

Ask ==
  /\ child.gen > 0 /\ child.half = None /\ Len(child.asked) < MaxAsked
  /\ \E q \in Queries :
       \/ /\ pty' = Append(pty, <<"whole", q>>)
          /\ child' = [child EXCEPT !.asked = Append(@, q)]
       \/ /\ pty' = Append(pty, <<"first", q>>)
          /\ child' = [child EXCEPT !.half = q]
  /\ UNCHANGED <<parser, clock, session, reply>>

AskRest ==
  /\ child.half # None
  /\ pty' = Append(pty, <<"rest", child.half>>)
  /\ child' = [child EXCEPT !.asked = Append(@, child.half), !.half = None]
  /\ UNCHANGED <<parser, clock, session, reply>>

-----------------------------------------------------------------------------
(* The session.                                                            *)

\* start_generation: the persona is installed, then start makes the emulator
\* anew and clears the clock; what was not drained is the old child's.
Start ==
  /\ child.gen < MaxGen
  /\ parser' = Fresh
  /\ child' = [gen |-> child.gen + 1, asked |-> <<>>, told |-> <<>>, half |-> None]
  /\ pty' = <<>> /\ clock' = [class |-> None, seq |-> 0]
  /\ session' = [session EXCEPT !.events = <<>>, !.broken = FALSE]
  /\ UNCHANGED reply

\* Every look at the backend pumps first.
Pump ==
  /\ child.gen > 0 /\ pty # <<>>
  /\ parser' = Pumped.parser /\ child' = [child EXCEPT !.told = Pumped.told]
  /\ clock' = Pumped.clock /\ pty' = <<>>
  /\ UNCHANGED <<session, reply>>

\* Mutant: whatever the clock holds becomes an event.
AbsorbQueryAnswersTwice(c) ==
  IF c.class # None
  THEN [session EXCEPT !.seq = c.seq, !.events = Append(@, c.class)] ELSE session

\* absorb_query_answers: an answer the counter has not passed becomes an
\* event.
AbsorbQueryAnswers(c) ==
  IF c.class # None /\ c.seq > session.seq
  THEN [session EXCEPT !.seq = c.seq, !.events = Append(@, c.class)] ELSE session

\* An observation, or a drain of the events: the pump of last_query_answer,
\* and the fold.
Observe ==
  /\ child.gen > 0
  /\ parser' = Pumped.parser /\ child' = [child EXCEPT !.told = Pumped.told]
  /\ clock' = Pumped.clock /\ pty' = <<>>
  /\ session' = AbsorbQueryAnswers(clock')
  /\ UNCHANGED reply

\* probe_query_response: a query through the same parser, whose answer is
\* taken and not written; nothing is pumped before.
Probe ==
  /\ child.gen > 0 /\ session.probes < MaxProbes
  /\ LET p == Feed(parser, <<"whole", "cpr">>) IN
     /\ reply' = p.pending
     /\ parser' = [p EXCEPT !.answers = <<>>, !.pending = None]
  /\ session' = [session EXCEPT !.probes = @ + 1, !.broken = @ \/ parser.half # None]
  /\ UNCHANGED <<child, pty, clock>>

Next == Ask \/ AskRest \/ Start \/ Pump \/ Observe \/ Probe

Spec == Init /\ [][Next]_responderVars

-----------------------------------------------------------------------------
(* Properties.                                                             *)

Told == [n \in DOMAIN child.told |-> child.told[n].class]
Understood == SelectSeq(child.asked, LAMBDA q : q \in Answered)

\* portable_pty.rs, pump and probe: a child reads the answers to its own
\* queries in the order it asked them, each once, and when everything it
\* wrote was drained none that is understood is missing, unless a probe went
\* through the parser in the middle of one.
AnswersMatch ==
  ~session.broken =>
    /\ IsPrefix(Told, Understood)
    /\ pty = <<>> => Told = Understood

\* session/state.rs, absorb_query_answers: repeated looks between two pumps
\* are idempotent: there are never more events than answers.
EventsMeasured == Len(session.events) <= Len(child.told)

\* portable_pty.rs, pump: an application that asked and never got an answer
\* would hang waiting.
AskedIsAnswered == (child.gen > 0 /\ pty = <<>>) => Len(child.told) = Len(child.asked)

\* process_impl.rs:71, the terminal behavior contract is installed before any
\* child traffic: a persona that declares synchronized updates answers so.
PersonaAnswers == \A n \in DOMAIN child.told : child.told[n].class = "sync" => child.told[n].set = session.persona

\* session/state.rs, absorb_query_answers: a look that delivers an answer
\* leaves an event.
AnswersAreEvents ==
  [][Observe => (child'.told # child.told => session'.events # session.events)]_responderVars
=============================================================================
