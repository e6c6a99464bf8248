------------------------------- MODULE MCJudges -------------------------------
(***************************************************************************)
(* TLC instance of the components that judge what a terminal shows: the    *)
(* conformance check of a contract, the reader of its oracles, the decoder *)
(* of the protocol trace, the responder of the child's queries, a row of   *)
(* the screen, the diff of two screens, the regions, controls and trees    *)
(* made of a screen and the widgets an application declares on it, and the *)
(* contracts: how they are drafted, written, loaded, and compared.         *)
(* A behaviour is of one of them; the variables of the others hold Idle    *)
(* throughout.                                                             *)
(***************************************************************************)
EXTENDS Naturals, Sequences

CONSTANTS
  Ring, Sweep, MaxFaults,
  Letters, MaxTail,
  Queries, MaxAsked, MaxGen, MaxProbes,
  MaxFrames,
  MaxText,
  MaxRow,
  Cols, Rows, CacheCap, MaxPaints,
  MaxHops, MaxStates, CutAt, MaxMishaps,
  Calls, Docs, Looks, Primary, MaxCalls, MaxRuns,
  Drafts, Readable,
  Idle

ASSUME RingAssumption == Ring \in Nat \ {0} /\ Sweep \in Nat

VARIABLES
  part,  \* the component this behaviour is of
  contract, host, check, results, heard,
  given,
  stream, left, lost, one, cut, window,
  child, pty, parser, clock, session, reply,
  frames, screen, transition, reader,
  view, cache, native, frame, report, paints,
  app, gathered, step, log, mishaps,
  now, norms, calls, made, checks,
  names, texts, writes, shared, loaded

conformVars == <<contract, host, check, results, heard>>
protocolVars == <<stream, left, lost, one, cut, window>>
responderVars == <<child, pty, parser, clock, session, reply>>
diffVars == <<frames, screen, transition, reader>>
fusionVars == <<view, cache, native, frame, report, paints>>
scaffoldVars == <<app, gathered, step, log, mishaps>>
contractVars == <<now, norms, calls, made, checks>>
fileVars == <<names, texts, writes, shared, loaded>>

-----------------------------------------------------------------------------
(* The inputs.                                                             *)

\* Contracts: the keys and the sweep under each policy, and components that
\* are there, missing, optional or weakly identified in each mode.
Ask(name, args) == [name |-> name, args |-> args]
Claims(policy, mode, component, interaction) ==
  [policy |-> policy, mode |-> mode, component |-> component, interaction |-> interaction,
   viewport |-> FALSE, escape |-> FALSE, reverse |-> FALSE, oracles |-> {}]
Spoken == {Ask("reverse_tab_is_inverse", <<>>), Ask("escape_closes_modal", <<>>)}
Contracts ==
  {[c EXCEPT !.viewport = TRUE, !.escape = TRUE, !.reverse = r, !.oracles = os] :
     c \in {Claims(p, "validation", "there", i) :
              p \in {"passive", "driving"}, i \in {"none", "opens", "silent"}},
     r \in BOOLEAN, os \in {{}, Spoken}}
  \cup
  {[c EXCEPT !.oracles = os] :
     c \in {Claims(p, mode, comp, "silent") :
              p \in {"passive", "driving"}, mode \in {"advisory", "validation", "strict"},
              comp \in {"none", "missing", "optional", "weak"}},
     os \in {{Ask("modal_open", <<"false">>)}, {Ask("typo", <<>>)}}}

\* A stream begins in the ground state, in a private mode, in a string, or
\* after a mode was set.
Heads ==
  {<<>>, <<"esc", "[", "?">>, <<"esc", "]">>, <<"esc", "P">>, <<"esc", "[", "?", "1", "h">>}

\* Screens of two cells or so: sizes, words that come and go, one or two
\* controls that move and pass the focus on.
Cell(c) == [text |-> c, style |-> "plain"]
Blank ==
  [size |-> <<2, 1>>, cells |-> <<Cell("-"), Cell("-")>>, rows |-> <<<<>>>>, cursor |-> <<0, 0>>,
   title |-> "", process |-> "running", controls |-> <<>>, regions |-> [main |-> "panel"],
   focus |-> "none"]
Button(at, f) ==
  [kind |-> "button", label |-> "save", focused |-> f, bounds |-> [at |-> at, width |-> 1]]
Screens ==
  {Blank, [Blank EXCEPT !.size = <<1, 2>>],
   [Blank EXCEPT !.size = <<3, 1>>, !.cells = <<Cell("-"), Cell("-"), Cell("x")>>],
   [Blank EXCEPT !.rows = <<<< <<"a", "b">> >>>>, !.cells[1].style = "bold", !.process = "exited"],
   [Blank EXCEPT !.rows = <<<< <<"a", "b", "a">>, <<"c">> >>>>, !.cells[2].text = "a",
                 !.regions = [side |-> "panel"]]}
  \cup {[Blank EXCEPT !.controls = [s |-> Button(at, f)], !.focus = IF f THEN "s" ELSE "none"] :
          at \in 0 .. 1, f \in BOOLEAN}
  \cup {[Blank EXCEPT !.controls = [s |-> Button(0, f), c |-> Button(1, ~f)],
                      !.focus = IF f THEN "s" ELSE "c"] : f \in BOOLEAN}

\* Layouts: boxes in one another and a footer; boxes that share their title;
\* a list.  Two buttons have one label, and so have a control and a widget.
Box(x, y, w, h, t) == [x |-> x, y |-> y, w |-> w, h |-> h, title |-> t]
Mk(x, y, w, k, l, hot) == [x |-> x, y |-> y, w |-> w, h |-> 1, kind |-> k, label |-> l, hot |-> hot]
Layouts ==
  [nested |-> [boxes |-> <<Box(1, 1, 14, 8, <<"main">>), Box(2, 2, 8, 5, <<"ask">>),
                          Box(3, 3, 4, 3, <<>>), Box(0, 9, 18, 3, <<>>)>>,
               marks |-> <<Mk(4, 4, 2, "button", "save", TRUE), Mk(8, 4, 1, "status", "go", FALSE),
                          Mk(11, 4, 2, "button", "save", FALSE)>>,
               list |-> <<>>, title |-> <<>>, hints |-> {"quit"}],
   twins |-> [boxes |-> <<Box(0, 0, 6, 4, <<"main">>), Box(7, 1, 6, 4, <<"main">>),
                         Box(13, 1, 6, 4, <<"main">>)>>,
              marks |-> <<Mk(8, 2, 2, "button", "ok", FALSE), Mk(10, 2, 2, "button", "ok", FALSE),
                         Mk(1, 6, 3, "field", "name", FALSE)>>,
              list |-> <<>>, title |-> <<"app">>, hints |-> {}],
   rows |-> [boxes |-> <<Box(0, 1, 6, 8, <<>>)>>,
             marks |-> <<Mk(8, 2, 2, "button", "ok", FALSE), Mk(8, 4, 3, "field", "name", FALSE)>>,
             list |-> <<Box(1, 2, 4, 2, <<>>)>>, title |-> <<>>, hints |-> {}]]
Scr(layout, shift, lit, row, dim, cursor) ==
  [layout |-> layout, shift |-> shift, lit |-> lit, row |-> row, dim |-> dim, cursor |-> cursor]

\* Each layout where it was drawn and one column further, with other cells
\* lit or dim, and another row selected.
Views ==
  {Scr("nested", p[1], p[2], 0, p[3], <<0, 0>>) :
     p \in {<<0, 1, 1>>, <<1, 1, 0>>, <<0, 3, 0>>, <<0, 0, 1>>}}
  \cup {Scr("twins", 0, p[1], 0, 0, p[2]) :
           p \in {<<1, <<0, 0>>>>, <<0, <<1, 6>>>>}}
  \cup {Scr("rows", 0, p[1], p[2], 0, p[3]) :
           p \in {<<0, 1, <<0, 0>>>>, <<0, 2, <<8, 4>>>>, <<1, 0, <<0, 0>>>>}}
Widget(id, want, label, focused, enabled, role, acts, box) ==
  [id |-> id, want |-> want, label |-> label, focused |-> focused, enabled |-> enabled,
   role |-> role, acts |-> acts, box |-> box]
At(x, y) == <<[x |-> x, y |-> y, w |-> 1, h |-> 1]>>

\* Widgets found by their key, by their label, by neither, and by both.
Nats ==
  {Widget(<<"#save">>, "save", <<>>, <<TRUE>>, <<>>, "", {"export"}, At(4, 4)),
   Widget(<<"#save">>, "save", <<>>, <<FALSE>>, <<>>, "", {}, <<>>),
   Widget(<<"#ok">>, "ok", <<"go">>, <<TRUE>>, <<FALSE>>, "field", {"activate"}, At(2, 3)),
   Widget(<<"#x">>, "x", <<"ok">>, <<FALSE>>, <<>>, "graph", {"export"}, At(4, 2)),
   Widget(<<"#y">>, "y", <<"new">>, <<TRUE>>, <<>>, "button", {}, At(8, 2)),
   Widget(<<"name">>, "name", <<"new">>, <<>>, <<TRUE>>, "", {"activate", "export"}, At(8, 2))}
Frames ==
  {<<a>> : a \in Nats}
    \cup {<<p[1], p[2]>> : p \in {q \in Nats \X Nats : q[1].id # q[2].id}}

\* Focus rings that close, close in the middle, and leave the controls.
Shows == [form |-> <<"no", "ok">>, list |-> <<"ok", "row", "top">>]
Rings ==
  {[no |-> "ok", ok |-> "no"], [no |-> "ok", ok |-> "row", row |-> "top", top |-> "row"],
   [none |-> "ok", ok |-> "none"]}
Launches == {<<80, 24>>, <<80, 20>>, <<60, 20>>}

\* A contract of panels and one of a modal, which is checked by driving.
Res(k, v, r) == [key |-> k, verdict |-> v, required |-> r]
Results ==
  [q \in Docs \X Looks \X {"passive", "driving"} |->
     LET good == q[2] = "good" IN
     IF q[1] = "panel"
     THEN <<Res("component/list", IF good THEN "pass" ELSE "fail", TRUE),
            Res("component/hint", IF good THEN "pass" ELSE "warn", FALSE)>>
     ELSE IF q[3] = "passive" THEN <<Res("behavior/escape", "unverified", FALSE)>>
     ELSE <<Res("behavior/escape", "pass", TRUE),
            Res("behavior/escape", IF good THEN "pass" ELSE "fail", TRUE)>>]
RootOf == [s1 |-> "/app", s2 |-> "/other"]

\* Two drafts for one path, one that differs in its extension, and one whose
\* extension is refused.
PathOf == [d1 |-> "a.yaml", d2 |-> "a.json", d3 |-> "a.yaml", d4 |-> "a.toml"]
SideOf == [p \in {"a.yaml", "a.json", "a.toml"} |-> "a.yaml.tmp"]

F == INSTANCE Conformance
O == INSTANCE Oracle
P == INSTANCE ProtocolDecoder
Q == INSTANCE QueryResponder
R == INSTANCE CellString
D == INSTANCE ScreenDiff
S == INSTANCE SemanticFusion
B == INSTANCE Scaffold
K == INSTANCE Contracts
W == INSTANCE ContractFile

Texts == UNION {[1 .. n -> O!Chars] : n \in 1 .. MaxText}
RowTexts == UNION {[1 .. n -> R!Glyphs] : n \in 0 .. MaxRow}

-----------------------------------------------------------------------------

ConformIdle ==
  contract = Idle /\ host = Idle /\ check = Idle /\ results = Idle /\ heard = Idle
ProtocolIdle ==
  stream = Idle /\ left = Idle /\ lost = Idle /\ one = Idle /\ cut = Idle /\ window = Idle
ResponderIdle ==
  child = Idle /\ pty = Idle /\ parser = Idle /\ clock = Idle /\ session = Idle /\ reply = Idle
DiffIdle == frames = Idle /\ screen = Idle /\ transition = Idle /\ reader = Idle
FusionIdle ==
  view = Idle /\ cache = Idle /\ native = Idle /\ frame = Idle /\ report = Idle /\ paints = Idle
ScaffoldIdle ==
  app = Idle /\ gathered = Idle /\ step = Idle /\ log = Idle /\ mishaps = Idle
ContractsIdle ==
  now = Idle /\ norms = Idle /\ calls = Idle /\ made = Idle /\ checks = Idle
FileIdle ==
  names = Idle /\ texts = Idle /\ writes = Idle /\ shared = Idle /\ loaded = Idle

\* The other components: idle at first, and left alone.
OthersIdle ==
  /\ part = "conform" \/ ConformIdle
  /\ part \in {"oracle", "row"} \/ given = Idle
  /\ part = "protocol" \/ ProtocolIdle
  /\ part = "responder" \/ ResponderIdle
  /\ part = "diff" \/ DiffIdle
  /\ part = "fusion" \/ FusionIdle
  /\ part = "scaffold" \/ ScaffoldIdle
  /\ part = "contracts" \/ ContractsIdle
  /\ part = "file" \/ FileIdle

OthersKeep ==
  /\ UNCHANGED <<part, given>>
  /\ IF part = "conform" THEN TRUE ELSE UNCHANGED conformVars
  /\ IF part = "protocol" THEN TRUE ELSE UNCHANGED protocolVars
  /\ IF part = "responder" THEN TRUE ELSE UNCHANGED responderVars
  /\ IF part = "diff" THEN TRUE ELSE UNCHANGED diffVars
  /\ IF part = "fusion" THEN TRUE ELSE UNCHANGED fusionVars
  /\ IF part = "scaffold" THEN TRUE ELSE UNCHANGED scaffoldVars
  /\ IF part = "contracts" THEN TRUE ELSE UNCHANGED contractVars
  /\ IF part = "file" THEN TRUE ELSE UNCHANGED fileVars

Init ==
  /\ \/ part = "conform" /\ F!Init
     \/ part = "oracle" /\ given \in Texts \X Texts
     \/ part = "row" /\ given \in RowTexts
     \/ part = "protocol" /\ P!Init
     \/ part = "responder" /\ Q!Init
     \/ part = "diff" /\ D!Init
     \/ part = "fusion" /\ S!Init
     \/ part = "scaffold" /\ B!Init
     \/ part = "contracts" /\ K!Init
     \/ part = "file" /\ W!Init
  /\ OthersIdle

Next ==
  \/ part = "conform" /\ F!Next /\ OthersKeep
  \/ part = "protocol" /\ P!Next /\ OthersKeep
  \/ part = "responder" /\ Q!Next /\ OthersKeep
  \/ part = "diff" /\ D!Next /\ OthersKeep
  \/ part = "fusion" /\ S!Next /\ OthersKeep
  \/ part = "scaffold" /\ B!Next /\ OthersKeep
  \/ part = "contracts" /\ K!Next /\ OthersKeep
  \/ part = "file" /\ W!Next /\ OthersKeep

vars ==
  <<part, given, conformVars, protocolVars, responderVars, diffVars, fusionVars,
    scaffoldVars, contractVars, fileVars>>

Spec == Init /\ [][Next]_vars

-----------------------------------------------------------------------------

\* A text that parse_args can be asked to keep: no quote, no blank at an
\* end, no number with leading zeros.
Keepable(s) ==
  /\ s[1] # "blank" /\ s[Len(s)] # "blank"
  /\ \A n \in DOMAIN s : s[n] # "quote"
  /\ O!IsNumber(s) => s[1] # "0"
Literal(s) ==
  LET esc[n \in 0 .. Len(s)] ==
        IF n = 0 THEN <<>>
        ELSE esc[n - 1] \o (IF s[n] = "slash" THEN <<"slash", "slash">> ELSE <<s[n]>>) IN
  <<"quote">> \o esc[Len(s)] \o <<"quote">>

\* Oracle (src/design/oracle.rs, parse_args): two quoted arguments are read as
\* the two texts that were quoted, whatever commas and backslashes they hold.
LiteralsKept ==
  (part = "oracle" /\ Keepable(given[1]) /\ Keepable(given[2])) =>
    LET read == O!ParseArgs(Literal(given[1]) \o <<"comma">> \o Literal(given[2])) IN
    read.ok /\ [n \in DOMAIN read.args |-> O!AsStr(read.args[n])] = given

\* Conformance: a proof of reverse traversal is fair, a withheld side effect
\* is named, and a verdict is earned.  Oracle: what was quoted is what is judged.
\* Scaffold: a draft declares what was seen.  Contracts: a regression is one
\* against another report, and an application that did not change has none.
\* ContractFile: a contract is whole and where it was answered to be.
VerdictsHonest ==
  /\ part = "conform" => F!TypeOK /\ F!ReverseFair /\ F!ResidueNamed /\ F!VerdictEarned
  /\ LiteralsKept
  /\ part = "scaffold" =>
       B!TypeOK /\ B!OnlySeen /\ B!StatesDistinct /\ B!OrderAsWalked /\ B!SizeReturned
  /\ part = "contracts" =>
       /\ K!TypeOK /\ K!ComparedWithAnother /\ K!UnchangedIsClean
       /\ K!PolicyOfItsProject /\ K!BaselinesAreChecks
  /\ part = "file" => W!TypeOK /\ W!WholeUnlessShared /\ W!AnsweredIsThere

\* ProtocolDecoder: chunks do not change the trace, and a state that is
\* called known is so.  QueryResponder: each answer is to the query it
\* follows, and an event is recorded for no more than was answered.
TraceHonest ==
  /\ part = "protocol" => P!TypeOK /\ P!ChunksUnseen /\ P!KnownIsTrue
  /\ part = "responder" => Q!TypeOK /\ Q!AnswersMatch /\ Q!EventsMeasured

\* CellString: a row is addressed by column, whatever characters it is of.
\* ScreenDiff: whoever follows the transitions knows the screen.  ScreenTree
\* and SemanticFusion: the trees keep the geometry of the screen, a cached
\* screen has the focus of the screen at hand, and what an application
\* declares lands on the one widget it can mean, in both shapes.
ScreensHonest ==
  /\ part = "row" => R!RowsAddressed(given) /\ R!RenderIsColumns(given)
  /\ part = "diff" => D!TypeOK /\ D!ReaderFollows
  /\ part = "fusion" =>
       /\ S!TypeOK /\ S!StructureSound /\ S!InteractionFresh
       /\ S!OneFocus /\ S!LandsOnOne /\ S!OnlyDeclaredVerbs

\* ScreenDiff: what is added is new.
AddedIsNew == part = "diff" => D!AddedIsNew

\* QueryResponder: a child meets the persona that its session is set to.
PersonaAnswers == part = "responder" => Q!PersonaAnswers
=============================================================================
