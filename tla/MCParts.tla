-------------------------------- MODULE MCParts --------------------------------
(***************************************************************************)
(* TLC instance of the components around the session: the scenario runner,  *)
(* the audit orchestrator, the audit drivers, the explorer, the event      *)
(* stream on its way into the run, the engines without a terminal grid, and *)
(* the way of an input into each engine.                                   *)
(* A behaviour is of one of them; the variables of the others hold Idle    *)
(* throughout.                                                             *)
(***************************************************************************)
EXTENDS Naturals, Sequences

CONSTANTS
  Repeats, Target, Other, MaxRev,
  Contract, Asked,
  Controls, MaxTabs, MaxOps, RingOps,
  Keys, Mutating, Unread, Quits, MaxActions, MaxRelaunches, MaxStates,
  Ring, MaxEvents, MaxResumes, Readers, Persistence, Coverage,
  Rows, MaxLines, SnapCap, MaxBytes, MaxGen,
  Titles, NoTitle, Signals, NoSignal, MaxPaints,
  Kinds, MaxUnread,
  Idle

VARIABLES
  part,  \* the component this behaviour is of
  job, app, pc, report, guard, tally, sent,
  audit, todo, target, before, found, ran,
  drv, tui, seen, graph, said,
  quest, kid, walk, known, mini, saved,
  queue, at, run, disk, closing, resumes, answer,
  drained, folded, appended, reported, faulty,
  proc, wire, chan, eng, snaps, ask, got,
  pane, tm, poll, told,
  engine, child, dev, size, call, last

scenarioVars == <<job, app, pc, report, guard, tally, sent>>
auditVars == <<audit, todo, target, before, found, ran>>
driverVars == <<drv, tui, seen, graph, said>>
exploreVars == <<quest, kid, walk, known, mini, saved>>
eventVars == <<queue, at, run, disk, closing, resumes, answer,
               drained, folded, appended, reported, faulty>>
lineVars == <<proc, wire, chan, eng, snaps, ask, got>>
tmuxVars == <<pane, tm, poll, told>>
inputVars == <<engine, child, dev, size, call, last>>

\* Scenarios of two steps: an act or an intent with its preconditions, then
\* any step.
Act(expect) == [kind |-> "act", expect |-> expect, bound |-> TRUE]
Intent(expect) == [Act(expect) EXCEPT !.kind = "intent"]
Check == [Act("none") EXCEPT !.kind = "assert"]
Wait == [Act("none") EXCEPT !.kind = "wait"]
Unbound == [Act("none") EXCEPT !.bound = FALSE]
Scripts ==
  {<<a, b>> : a \in {Act("screen"), Intent("none"), Unbound},
              b \in {Act("generation"), Intent("screen"), Check, Wait}}

\* One profile of each kind of the table.
Profile(id, risk, inFull, tx, group) ==
  [id |-> id, risk |-> risk, inFull |-> inFull, tx |-> tx, group |-> group]
Table ==
  <<Profile("keyboard", "reversible", TRUE, TRUE, 1),
    Profile("resize", "reversible", TRUE, TRUE, 2),
    Profile("mouse", "mutating", TRUE, TRUE, 4),
    Profile("states", "mutating", TRUE, TRUE, 5),
    Profile("performance", "reversible", TRUE, TRUE, 7),
    Profile("color", "observational", TRUE, FALSE, 0),
    Profile("contract", "reversible", FALSE, TRUE, 0),
    Profile("lifecycle_exit", "restart", FALSE, FALSE, 0)>>

Sizes == <<2, 3, 4>>

\* One key alone, two keys, a key the trace cannot hold.
Faults == {{"a"}, {"a", "b"}, {"a", "c"}, {"b", "s"}}

\* Inputs: keys alone and after a character, texts, the mouse at the edges of
\* what the encodings reach, a signal.
Input(what, keys, text, act, button, place) ==
  [what |-> what, keys |-> keys, text |-> text,
   event |-> [act |-> act, button |-> button, at |-> place]]
KeysIn(keys) == Input("keys", keys, <<>>, "none", 0, 0)
Press(code, mods) == [code |-> code, mods |-> mods]
MouseIn(what, act, button, place) == Input(what, <<>>, <<>>, act, button, place)
TextIn(what, text) == Input(what, <<>>, text, "none", 0, 0)
Inputs ==
  {KeysIn(<<Press(code, mods)>>) :
     code \in {"a", "[", "Enter", "Tab", "Up", "PageUp", "F13"},
     mods \in {{}, {"ctrl"}, {"shift"}, {"ctrl", "alt"}}}
  \cup {KeysIn(<<Press("F5", {}), Press("Escape", {})>>), KeysIn(<<Press("F21", {})>>)}
  \cup {KeysIn(<<Press("a", {}), k>>) :
          k \in {Press("Enter", {}), Press("Up", {}), Press("i", {"alt"}), Press(" ", {"super"})}}
  \cup {TextIn("text", <<"a", "b">>), TextIn("paste", <<"a", "b">>), TextIn("raw", <<"bin">>)}
  \cup {MouseIn("mouse", act, button, place) :
          act \in {"press", "release"}, button \in {0, 2}, place \in {94, 222, 223}}
  \cup {MouseIn("mouse", "move", 0, 7), MouseIn("mouse", "drag", 1, 7),
        MouseIn("mouse", "scroll", 1, 7), MouseIn("click", "press", 0, 7)}
FewInputs == {TextIn("text", <<"a", "b">>), TextIn("signal", <<>>)}

Modes(cursor, paste, mouse, enc, kitty) ==
  [cursor |-> cursor, paste |-> paste, mouse |-> mouse, enc |-> enc, kitty |-> kitty]
ModeSets ==
  {Modes(FALSE, FALSE, "none", "x10", FALSE), Modes(TRUE, TRUE, "any", "sgr", FALSE),
   Modes(FALSE, TRUE, "button", "utf8", TRUE), Modes(TRUE, FALSE, "release", "x10", FALSE)}

S == INSTANCE ScenarioRunner
\* SessionEvents and, as V!L, V!D, V!A and V!X, LineEngines, AuditDrivers,
\* AuditOrchestrator and Exploration, with what is proved of them.
V == INSTANCE ComponentProofs
T == INSTANCE TmuxEngine
I == INSTANCE EngineInput WITH Widths <- {80}
R == INSTANCE EngineInput WITH Widths <- {80, 100}, Inputs <- FewInputs

\* What the proofs ask of the constants.
ASSUME EventsAssumption == V!EventBounds
ASSUME LineAssumption == V!LineBounds
ASSUME TmuxAssumption == MaxPaints \in Nat \ {0}
ASSUME AuditAssumption == \A id \in Asked : id = "full" \/ id \in V!A!Ids
ASSUME DriversAssumption == Controls \in Nat \ {0} /\ MaxTabs \in Nat /\ RingOps \in Nat \ {0}
ASSUME ExploreAssumption == V!ExploreBounds
ASSUME ReplayAssumption == Repeats \subseteq Nat /\ MaxRev \in Nat

ScenarioIdle ==
  /\ job = Idle /\ app = Idle /\ pc = Idle /\ report = Idle
  /\ guard = Idle /\ tally = Idle /\ sent = Idle
AuditIdle ==
  /\ audit = Idle /\ todo = Idle /\ target = Idle
  /\ before = Idle /\ found = Idle /\ ran = Idle
DriversIdle == drv = Idle /\ tui = Idle /\ seen = Idle /\ graph = Idle /\ said = Idle
ExploreIdle ==
  /\ quest = Idle /\ kid = Idle /\ walk = Idle
  /\ known = Idle /\ mini = Idle /\ saved = Idle
EventsIdle ==
  /\ queue = Idle /\ at = Idle /\ run = Idle /\ disk = Idle /\ closing = Idle
  /\ resumes = Idle /\ answer = Idle /\ drained = Idle /\ folded = Idle
  /\ appended = Idle /\ reported = Idle /\ faulty = Idle
LineIdle ==
  /\ proc = Idle /\ wire = Idle /\ chan = Idle /\ eng = Idle
  /\ snaps = Idle /\ ask = Idle /\ got = Idle
InputIdle ==
  /\ engine = Idle /\ child = Idle /\ dev = Idle
  /\ size = Idle /\ call = Idle /\ last = Idle
TmuxIdle == pane = Idle /\ tm = Idle /\ poll = Idle /\ told = Idle

\* The other components: idle at first, and left alone.
OthersIdle ==
  /\ part = "scenario" \/ ScenarioIdle
  /\ part = "audit" \/ AuditIdle
  /\ part = "drivers" \/ DriversIdle
  /\ part = "explore" \/ ExploreIdle
  /\ part = "events" \/ EventsIdle
  /\ part = "line" \/ LineIdle
  /\ part = "tmux" \/ TmuxIdle
  /\ part \in {"input", "resize"} \/ InputIdle

OthersKeep ==
  /\ UNCHANGED part
  /\ IF part = "scenario" THEN TRUE ELSE UNCHANGED scenarioVars
  /\ IF part = "audit" THEN TRUE ELSE UNCHANGED auditVars
  /\ IF part = "drivers" THEN TRUE ELSE UNCHANGED driverVars
  /\ IF part = "explore" THEN TRUE ELSE UNCHANGED exploreVars
  /\ IF part = "events" THEN TRUE ELSE UNCHANGED eventVars
  /\ IF part = "line" THEN TRUE ELSE UNCHANGED lineVars
  /\ IF part = "tmux" THEN TRUE ELSE UNCHANGED tmuxVars
  /\ IF part \in {"input", "resize"} THEN TRUE ELSE UNCHANGED inputVars

Init ==
  /\ \/ part = "scenario" /\ S!Init
     \/ part = "audit" /\ V!A!Init
     \/ part = "drivers" /\ V!D!Init
     \/ part = "explore" /\ V!X!Init
     \/ part = "events" /\ V!Init
     \/ part = "line" /\ V!L!Init
     \/ part = "tmux" /\ T!Init
     \/ part = "input" /\ I!Init
     \/ part = "resize" /\ R!Init
  /\ OthersIdle

Next ==
  \/ part = "scenario" /\ S!Next /\ OthersKeep
  \/ part = "audit" /\ V!A!Next /\ OthersKeep
  \/ part = "drivers" /\ V!D!Next /\ OthersKeep
  \/ part = "explore" /\ V!X!Next /\ OthersKeep
  \/ part = "events" /\ V!Next /\ OthersKeep
  \/ part = "line" /\ V!L!Next /\ OthersKeep
  \/ part = "tmux" /\ T!Next /\ OthersKeep
  \/ part = "input" /\ I!Next /\ OthersKeep
  \/ part = "resize" /\ R!Next /\ OthersKeep

vars == <<part, scenarioVars, auditVars, driverVars, exploreVars, eventVars, lineVars, tmuxVars,
          inputVars>>

Spec == Init /\ [][Next]_vars

\* ScenarioRunner: the payload of an intent reaches its target, nothing is
\* sent after a stop, and a verdict is earned.
ReplayIsHonest ==
  part = "scenario" => S!TypeOK /\ S!PayloadOnTarget /\ S!NothingAfterStop /\ S!PassIsEarned

\* AuditOrchestrator: mutating drivers do not meet each other's residue, and
\* residue is reported, or that nobody could look.
\* AuditDrivers: an application that behaves is not accused and is put back.
AuditHonest ==
  /\ part = "audit" => V!A!TypeOK /\ V!A!IsolationKept /\ V!A!ResidueIsReported
  /\ part = "drivers" => V!D!TypeOK /\ V!D!HonestTabs /\ V!D!SizeRestored /\ V!D!TeardownJudged

\* Exploration: a saved reproduction is real and minimal.
ReproductionMinimal == part = "explore" => V!X!TypeOK /\ V!X!ReproductionMinimal

\* SessionEvents: coverage counts once, and an appended log stays.
EventsAccounted == part = "events" => V!TypeOK /\ V!CoverOnce /\ V!AppendedKept

\* SessionEvents: no reader skips an event without being told.
\* LineEngines: what changes the view moves the sequence waits look at.
NothingSilent ==
  [][/\ part = "events" => V!NothingSkipped
     /\ part = "line" => V!L!EdgeMoves]_<<eventVars, lineVars>>

\* LineEngines: a collector finds a snapshot of each edge.
\* TmuxEngine: a death by signal is reported as one.
EnginesHonest ==
  /\ part = "line" => V!L!TypeOK /\ V!L!EdgesWalkable
  /\ part = "tmux" => T!TypeOK /\ T!DeathKeepsItsSignal

\* EngineInput: a receipt is true, and what arrives is read as it was meant.
InputHonest ==
  /\ part = "input" => I!TypeOK /\ I!ReceiptsHonest /\ I!UnderstoodAsMeant
  /\ part = "resize" => R!TypeOK /\ R!ReceiptsHonest /\ R!SizesAgree

\* LineEngines: an answer shows the child that is running.
AnswerIsOfTheChild == part = "line" => V!L!AnswerIsOfTheChild

\* LineEngines: the cuts of a stream are not seen in its store.
CutsUnseen == part = "line" => V!L!CutsUnseen

\* TmuxEngine: a dead pane freezes with its final content.
FinalFrameKept == part = "tmux" => T!FinalFrameKept

\* SessionEvents: what a persist covered is in the log.
PromotedKept == part = "events" => V!PromotedKept

\* Exploration: every step of a walk is in the trace of its crash.
TraceInverts == part = "explore" => V!X!TraceInverts

\* AuditOrchestrator: full runs all its members when it may act.
FullRunsItsMembers == part = "audit" => V!A!FullRunsItsMembers

\* AuditOrchestrator: nothing invasive runs under the safe policy.
SafeOnlyLooks == part = "audit" => V!A!SafeOnlyLooks

\* AuditDrivers: what is said of the teardown is so.
TeardownTrue == part = "drivers" => V!D!TeardownTrue
=============================================================================
