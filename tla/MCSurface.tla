------------------------------- MODULE MCSurface -------------------------------
(***************************************************************************)
(* TLC instance of what a run keeps and tells of its sessions: the         *)
(* recordings, the findings, the probes, the intents, the drivers of the   *)
(* audit, the graphs and the checkpoints.  A behaviour is of one of the    *)
(* components; the variables of the others hold Idle throughout.           *)
(***************************************************************************)
EXTENDS Naturals, Sequences, TLC

CONSTANTS
  Tapes, Names, MaxSteps, MaxRecs, MaxRuns, MaxTroubles,
  Defects, Invasive, MaxCalls, MaxChanges,
  Room, Limits, MaxWrites, MaxNatives, MaxProbes, MaxLooks,
  Controls, KindOf, Focusable, Homes, Labels, Holds, Destructive, External, Targets, Verbs,
  Sessions, PlanCap, MaxHops, MaxPlans, MaxDrifts, MaxTabs, Nowhere,
  Places, Fenced, Disabled, StepsPer, Clicks, BurstKeys, WindowOps, MaxOps, MaxMoves,
  States, Elements, Hints, Declared, Typed, Order, MaxActs, MaxCrashes,
  Given, FileOf, Hashes, MaxSeq, MaxTrouble,
  Parts,  \* the components of this run
  Idle

VARIABLES
  part,  \* the component this behaviour is of
  tapes, done, recs, store, files, pending, told,
  app, cover, book, disk, proof, answer,
  child, wire, engine, log, last, probe, probed, pager, looks,
  screen, frame, graph, plans, shown, spent, call, sent, lease, bounds,
  aud, tui, edges, ops, said, spare,
  state, maps, filed, walk, offers, facts,
  hash, memory, onDisk, durable, nextSeq, unwritten, compared, trouble

recordVars == <<tapes, done, recs, store, files, pending, told>>
findVars == <<app, cover, book, disk, proof, answer>>
probeVars == <<child, wire, engine, log, last, probe, probed, pager, looks>>
intentVars == <<screen, frame, graph, plans, shown, spent, call, sent, lease, bounds>>
driverVars == <<aud, tui, edges, ops, said, spare>>
graphVars == <<state, maps, filed, walk, offers, facts>>
checkpointVars == <<hash, memory, onDisk, durable, nextSeq, unwritten, compared, trouble>>

-----------------------------------------------------------------------------
(* The inputs.                                                             *)

\* Two controls with one defect of the keyboard, and a crash on a way that
\* goes through both.
Defect(rule, profile, at) == [rule |-> rule, profile |-> profile, at |-> at, kind |-> "defect"]
FewDefects ==
  {Defect("KB", "keyboard", <<"save">>), Defect("KB", "keyboard", <<"quit">>),
   Defect("CRASH", "none", <<"save", "quit">>)}

\* A screen of three controls, of which two have labels with "save".
FewControls == <<"ok", "log", "name">>
FewKinds == [c \in {"ok", "log", "name"} |-> CASE c = "ok" -> "button" [] c = "log" -> "checkbox" [] c = "name" -> "field"]
FewHomes == [c \in {"ok", "log", "name"} |-> CASE c = "ok" -> "save" [] c = "log" -> "save as" [] c = "name" -> "name"]
FewHolds == {<<"save", "save">>, <<"save as", "save">>, <<"quit", "quit">>, <<"name", "name">>}
FewTargets == {[by |-> "text", text |-> "save"], [by |-> "id", id |-> "name", text |-> ""]}

\* Two states of an application, one of which labels the escape key.
FewStates == {[content |-> "form", focus |-> "ok"], [content |-> "list", focus |-> "no"]}
FewHints == [form |-> {"esc"}, list |-> {"down"}]
FewOrder ==
  <<<<"click", "no">>, <<"click", "ok">>, <<"key", "down">>, <<"key", "enter">>, <<"key", "esc">>,
    <<"key", "escape">>, <<"key", "q">>, <<"key", "shift+tab">>, <<"key", "space">>,
    <<"key", "tab">>, <<"key", "up">>>>

\* Two of the names read the same once they are made a file name.
FewFiles == [n \in {"a b", "a_b"} |-> "a_b"]

\* A ring that halves, pages of some size, bounds.
ASSUME ProbesAssumption ==
  Room \in Nat /\ Room >= 2 /\ Limits \subseteq Nat /\ MaxWrites \in Nat /\ MaxLooks \in Nat

\* Bounds, and a name.
ASSUME RecordingsAssumption ==
  /\ MaxSteps \in Nat /\ MaxRecs \in Nat /\ MaxRuns \in Nat \ {0} /\ MaxTroubles \in Nat
  /\ Names # {}

\* A ring of two places at least, of which the driver of keys sees some
\* presses, and bounds.
ASSUME AuditProbesAssumption ==
  /\ Places \in Nat /\ Places >= 2 /\ StepsPer \in Nat \ {0}
  /\ Clicks \in Nat /\ BurstKeys \in Nat /\ WindowOps \in Nat /\ MaxOps \in Nat

R == INSTANCE Recordings
F == INSTANCE Findings
P == INSTANCE Probes WITH answer <- probed
I == INSTANCE Intents WITH app <- screen, last <- frame
A == INSTANCE AuditProbes
G == INSTANCE RunGraphs
       WITH tui <- state, book <- maps, disk <- filed, Screens <- States, Controls <- Elements
C == INSTANCE Checkpoints WITH files <- onDisk, answer <- compared

\* A defect is not the report of a profile that was withheld, and what has
\* the fingerprint of a defect is one.
ASSUME FindingsAssumption ==
  /\ \A d \in Defects : d.rule # "ORCH-GATED"
  /\ \A f, g \in F!Reports : F!Fingerprint(f) = F!Fingerprint(g) => f.kind = g.kind
  /\ MaxCalls \in Nat /\ MaxChanges \in Nat

\* Controls of which some take the focus, a store with room, and targets of
\* the ways a request has to name a control.
ASSUME IntentsAssumption ==
  /\ Controls \in Seq(I!Ids) /\ Controls # <<>>
  /\ Focusable \subseteq I!Ids /\ Focusable # {}
  /\ Homes \in [I!Ids -> I!Range1(Homes)]
  /\ \A t \in Targets : t.by \in {"id", "text", "role", "focused"}
  /\ PlanCap \in Nat \ {0} /\ MaxPlans \in Nat

\* The focus is on a control or nowhere, and every action that may be sent or
\* suggested has its place in the order.
ASSUME GraphsAssumption ==
  /\ \A s \in States : s.focus \in Elements \cup {G!None}
  /\ Order \in Seq(G!Actions)
  /\ \A c \in Elements : G!Click(c) \in G!Actions
  /\ \A k \in G!DefaultKeys \cup G!Pool \cup Declared \cup Typed : G!Key(k) \in G!Actions
  /\ \A s \in States : \A h \in Hints[s.content] : G!Key(h) \in G!Actions

\* Bounds.
ASSUME CheckpointsAssumption == MaxSeq \in Nat /\ MaxTrouble \in Nat

TapeSymmetry == Permutations(Tapes)

-----------------------------------------------------------------------------

RecordIdle ==
  tapes = Idle /\ done = Idle /\ recs = Idle /\ store = Idle /\ files = Idle /\ pending = Idle /\ told = Idle
FindIdle ==
  app = Idle /\ cover = Idle /\ book = Idle /\ disk = Idle /\ proof = Idle /\ answer = Idle
ProbeIdle ==
  /\ child = Idle /\ wire = Idle /\ engine = Idle /\ log = Idle /\ last = Idle
  /\ probe = Idle /\ probed = Idle /\ pager = Idle /\ looks = Idle
IntentIdle ==
  /\ screen = Idle /\ frame = Idle /\ graph = Idle /\ plans = Idle /\ shown = Idle
  /\ spent = Idle /\ call = Idle /\ sent = Idle /\ lease = Idle /\ bounds = Idle
DriverIdle ==
  aud = Idle /\ tui = Idle /\ edges = Idle /\ ops = Idle /\ said = Idle /\ spare = Idle
GraphIdle ==
  state = Idle /\ maps = Idle /\ filed = Idle /\ walk = Idle /\ offers = Idle /\ facts = Idle
CheckpointIdle ==
  /\ hash = Idle /\ memory = Idle /\ onDisk = Idle /\ durable = Idle /\ nextSeq = Idle
  /\ unwritten = Idle /\ compared = Idle /\ trouble = Idle

\* The other components: idle at first, and left alone.
OthersIdle ==
  /\ part = "recordings" \/ RecordIdle
  /\ part = "findings" \/ FindIdle
  /\ part = "probes" \/ ProbeIdle
  /\ part = "intents" \/ IntentIdle
  /\ part = "drivers" \/ DriverIdle
  /\ part = "graphs" \/ GraphIdle
  /\ part = "checkpoints" \/ CheckpointIdle

OthersKeep ==
  /\ UNCHANGED part
  /\ IF part = "recordings" THEN TRUE ELSE UNCHANGED recordVars
  /\ IF part = "findings" THEN TRUE ELSE UNCHANGED findVars
  /\ IF part = "probes" THEN TRUE ELSE UNCHANGED probeVars
  /\ IF part = "intents" THEN TRUE ELSE UNCHANGED intentVars
  /\ IF part = "drivers" THEN TRUE ELSE UNCHANGED driverVars
  /\ IF part = "graphs" THEN TRUE ELSE UNCHANGED graphVars
  /\ IF part = "checkpoints" THEN TRUE ELSE UNCHANGED checkpointVars

Init ==
  /\ part \in Parts
  /\ \/ part = "recordings" /\ R!Init
     \/ part = "findings" /\ F!Init
     \/ part = "probes" /\ P!Init
     \/ part = "intents" /\ I!Init
     \/ part = "drivers" /\ A!Init
     \/ part = "graphs" /\ G!Init
     \/ part = "checkpoints" /\ C!Init
  /\ OthersIdle

Next ==
  \/ part = "recordings" /\ R!Next /\ OthersKeep
  \/ part = "findings" /\ F!Next /\ OthersKeep
  \/ part = "probes" /\ P!Next /\ OthersKeep
  \/ part = "intents" /\ I!Next /\ OthersKeep
  \/ part = "drivers" /\ A!Next /\ OthersKeep
  \/ part = "graphs" /\ G!Next /\ OthersKeep
  \/ part = "checkpoints" /\ C!Next /\ OthersKeep

vars == <<part, recordVars, findVars, probeVars, intentVars, driverVars,
          graphVars, checkpointVars>>

Spec == Init /\ [][Next]_vars

-----------------------------------------------------------------------------

\* Recordings: a recording has the traffic of its own session and generation,
\* and what a caller was told is kept is where it was said to be.
RecordsHonest ==
  part = "recordings" => R!TypeOK /\ R!OwnTraffic /\ R!SavedStays /\ R!CastsKept

\* Findings: verdicts compare with what was there before, a bundle is of the
\* latest pass, loci are earned, and what is told to be gone was looked for.
FindingsHonest ==
  part = "findings" => F!TypeOK /\ F!ComparedWithBefore /\ F!BundleIsCurrent /\ F!LociEarned /\ F!GoneWasLookedFor

\* Probes: a window has all that happened in it and nothing from before it,
\* and a client that pages through the history misses nothing untold.
WindowsHonest ==
  part = "probes" => P!TypeOK /\ P!WindowWhole /\ P!NoEarlierChange /\ P!PagesWhole

\* Intents: only what was shown is executed, once; keys go to the control of
\* the plan; and the moves of a plan were seen before.
IntentsHonest ==
  part = "intents" => I!TypeOK /\ I!OnlyShown /\ I!KeysOnTarget /\ I!RouteProven

\* Drivers of the audit: a ring is found reversible, and what is told as
\* proved of the output holds of all of it.
DriversHonest ==
  part = "drivers" => A!TypeOK /\ A!HonestIsReversible /\ A!ProvedOfAll

\* RunGraphs: no way is counted more often than it was gone, and a walk that
\* may only do what is safe presses nothing else.  Checkpoints: a checkpoint is
\* itself and the newest of its name, through deletes, promotion and resumes.
KeptHonest ==
  /\ part = "graphs" => G!TypeOK /\ G!CountsHonest /\ G!FenceHolds
  /\ part = "checkpoints" =>
       C!TypeOK /\ C!SequenceIsIdentity /\ C!DurableIsOnDisk /\ C!NewestOfItsName

\* Findings (workflow.rs:608): what is told to reproduce still was seen again.
StillMeansSeen == part = "findings" => F!StillMeansSeen

\* Probes: a change was not there before the call, and asked frames are kept.
ChangedIsNew == part = "probes" => P!ChangedIsNew
FramesAreRecorded == part = "probes" => P!FramesAreRecorded

\* RunGraphs: what is written can be restored.
WrittenIsRestorable == [][part = "graphs" => G!WrittenIsRestorable]_graphVars

\* Intents (plan.rs:73-75): text that is typed into a control goes to it.
TypedReachesTarget == part = "intents" => I!TypedReachesTarget
=============================================================================
