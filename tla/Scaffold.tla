------------------------------ MODULE Scaffold ------------------------------
(* A contract drafted from several states of an application                *)
(* (src/design/scaffold.rs): the focus is walked with Tab, two viewports   *)
(* are tried and the launch size is restored, and what was seen on the way *)
(* is declared.  The pass has the session for itself; a step of it may     *)
(* fail, before or after it took effect.                                   *)
EXTENDS Naturals, Sequences, FiniteSets, Functions, SequencesExt, FiniteSetsExt

CONSTANTS
  Shows,       \* what each face of the application shows: a sequence of controls
  Rings,       \* the orders in which Tab may move the focus
  Launches,    \* the sizes a session may have at first
  MaxHops,     \* max_focus_hops
  MaxStates,   \* max_states
  CutAt,       \* the controls a state and the oracles are cut to (24)
  MaxMishaps   \* bound of the model: steps that fail

VARIABLES
  app,       \* the session: its size, and the face and the focus it shows
  gathered,  \* GatheredStates, and the identities seen
  step,      \* where the pass is
  log,       \* every screen that was observed
  mishaps    \* the steps that failed

vars == <<app, gathered, step, log, mishaps>>

Faces == DOMAIN Shows
Probes == <<<<120, 40>>, <<60, 20>>>>
Narrow == Probes[2]

\* The application clips a panel when it has fewer than 80 columns.
Clipped(s) == s.size[1] < 80

\* StateIdentity::with_semantic: the rows, each trimmed, and the focus.
Identity(s) == <<s.face, s.focus, s.size[2]>>

-----------------------------------------------------------------------------

First(seq, n) == SubSeq(seq, 1, IF Len(seq) < n THEN Len(seq) ELSE n)

\* note_state: a state is recorded once, with the viewport that led to it, and no
\* more than MaxStates are.
Note(g, s, index, via) ==
  IF Identity(s) \in g.seen \/ Cardinality(g.seen) >= MaxStates THEN g
  ELSE [g EXCEPT !.seen = @ \cup {Identity(s)},
                 !.states = Append(@, [index |-> index, via |-> via,
                                       controls |-> First(Shows[s.face], CutAt),
                                       clipped |-> Clipped(s)])]

\* observe_now.
Observe(g, s, index, via) ==
  Note([g EXCEPT !.controls = @ \cup Range(Shows[s.face]), !.faces = @ \cup {s.face}],
       s, index, via)

Init ==
  /\ \E f \in Faces, size \in Launches, ring \in Rings :
       \E at \in Range(Shows[f]) \cup {"none"} :
         app = [face |-> f, focus |-> at, size |-> size, ring |-> ring]
  /\ gathered = Observe([states |-> <<>>, seen |-> {}, viewports |-> <<app.size>>, order |-> <<>>,
                         controls |-> {}, faces |-> {}], app, 0, <<>>)
  /\ step = [at |-> "tab", launch |-> app.size, hop |-> 1, probe |-> 1, probed |-> 0, stale |-> 0,
             last |-> Identity(app), closed |-> FALSE,
             order |-> IF app.focus = "none" THEN <<>> ELSE <<app.focus>>]
  /\ log = <<app>>
  /\ mishaps = <<>>

\* What becomes of a call: it is done, refused, or done and answered as an
\* error.
Fates == {"done", "refused", "late"}
Fate(fate, call) ==
  /\ fate # "done" => Len(mishaps) < MaxMishaps
  /\ mishaps' = IF fate = "done" THEN mishaps ELSE Append(mishaps, <<call, fate>>)

\* Tab moves the focus along the ring, or off the controls; it may turn the
\* face, which takes the focus to what the other face has.
AfterTab(s) ==
  LET next == IF s.focus \in DOMAIN s.ring THEN s.ring[s.focus] ELSE s.focus
      on(f) == IF next \in Range(Shows[f]) THEN next ELSE "none" IN
  {[s EXCEPT !.focus = on(s.face)]} \cup {[s EXCEPT !.face = f, !.focus = on(f)] : f \in Faces}
AfterResize(s, size) ==
  {[s EXCEPT !.size = size]}
    \cup {[s EXCEPT !.size = size, !.face = f, !.focus = "none"] : f \in Faces}

\* gather_states, one hop: a repeat of a stop closes the walk, and two hops that
\* did nothing end it.
Walked(fate, seen) ==
  LET focus == app'.focus
      repeat == focus # "none" /\ focus \in Range(step.order)
      order == IF focus = "none" \/ repeat THEN step.order ELSE Append(step.order, focus)
      before == IF step.order = <<>> THEN "none" ELSE Last(step.order)
      stale == IF Identity(app') = step.last /\ focus = before THEN step.stale + 1 ELSE 0
      ends == fate # "done" \/ ~seen \/ repeat \/ stale >= 2 \/ step.hop = MaxHops IN
  IF fate # "done" \/ ~seen THEN [step EXCEPT !.at = "probe"]
  ELSE [step EXCEPT !.at = IF ends THEN "probe" ELSE "tab", !.hop = @ + 1, !.order = order,
                    !.stale = stale, !.last = Identity(app'),
                    !.closed = repeat /\ focus = step.order[1]]

Tab ==
  \E fate \in Fates, seen \in BOOLEAN :
    /\ step.at = "tab"
    /\ IF fate = "done" /\ ~seen
       THEN Fate("late", "observe") ELSE (seen <=> fate = "done") /\ Fate(fate, "tab")
    /\ IF fate = "refused" THEN app' = app ELSE app' \in AfterTab(app)
    /\ step' = Walked(fate, seen)
    /\ IF fate = "done" /\ seen
       THEN /\ gathered' = [Observe(gathered, app', step.hop, <<>>) EXCEPT !.order = step'.order]
            /\ log' = Append(log, app')
       ELSE /\ gathered' = [gathered EXCEPT !.order = step.order]
            /\ UNCHANGED log

\* A viewport that was set is declared, whether or not it was then observed.
Resize ==
  \E fate \in Fates, seen \in BOOLEAN :
    LET size == Probes[step.probe]
        after == [gathered EXCEPT !.viewports = IF size \in Range(@) THEN @ ELSE Append(@, size)] IN
    /\ step.at = "probe" /\ step.probe <= Len(Probes) /\ size # step.launch
    /\ IF fate = "done" /\ ~seen
       THEN Fate("late", "observe") ELSE (seen <=> fate = "done") /\ Fate(fate, "resize")
    /\ IF fate = "refused" THEN app' = app ELSE app' \in AfterResize(app, size)
    /\ step' = [step EXCEPT !.probe = @ + 1, !.probed = IF fate = "done" THEN @ + 1 ELSE @]
    /\ gathered' = IF fate # "done" THEN gathered
                   ELSE IF seen THEN Observe(after, app', Len(gathered.states), size) ELSE after
    /\ log' = IF seen THEN Append(log, app') ELSE log

Skip ==
  /\ step.at = "probe" /\ step.probe <= Len(Probes) /\ Probes[step.probe] = step.launch
  /\ step' = [step EXCEPT !.probe = @ + 1]
  /\ UNCHANGED <<app, gathered, log, mishaps>>

\* The launch size is restored after a probe that was done; whether that goes
\* well is not asked.
Restore ==
  \E fate \in Fates :
    /\ step.at = "probe" /\ step.probe > Len(Probes) /\ step.probed > 0
    /\ Fate(fate, "restore")
    /\ IF fate = "refused" THEN app' = app ELSE app' \in AfterResize(app, step.launch)
    /\ step' = [step EXCEPT !.at = "end"]
    /\ UNCHANGED <<gathered, log>>

Leave ==
  /\ step.at = "probe" /\ step.probe > Len(Probes) /\ step.probed = 0
  /\ step' = [step EXCEPT !.at = "end"]
  /\ UNCHANGED <<app, gathered, log, mishaps>>

Next == Tab \/ Resize \/ Skip \/ Restore \/ Leave

Spec == Init /\ [][Next]_vars

-----------------------------------------------------------------------------
(* scaffold_multi_state: what is declared, nothing of it as required.      *)

\* A component for each role of region, an oracle for each of the controls.
Components == gathered.faces
Oracles ==
  LET before(c) == {d \in gathered.controls : \E f \in Faces :
                      \E m, n \in DOMAIN Shows[f] : Shows[f][m] = d /\ Shows[f][n] = c /\ m < n} IN
  {c \in gathered.controls : Cardinality(before(c)) < CutAt}

\* How many of the recorded states show a control.
StateCount(c) ==
  Cardinality({n \in DOMAIN gathered.states : c \in Range(gathered.states[n].controls)})

FocusCycle == IF Len(gathered.order) >= 2 THEN <<gathered.order>> ELSE <<>>

\* That nothing is clipped is asked for where it was seen to be.
NoClipping ==
  \E n \in DOMAIN gathered.states : gathered.states[n].via = Narrow /\ gathered.states[n].clipped

-----------------------------------------------------------------------------
(* Properties.                                                             *)

TypeOK ==
  /\ app.face \in Faces /\ app.focus \in Range(Shows[app.face]) \cup {"none"}
  /\ step.at \in {"tab", "probe", "end"} /\ step.hop \in 1 .. MaxHops + 1
  /\ step.stale \in 0 .. 2 /\ Len(mishaps) <= MaxMishaps

Observed == Range(log)

\* Whatever a draft declares was on a screen that the pass observed, and the
\* viewports it lists are ones the session was told to take (scaffold.rs:
\* "everything declared was SEEN").
OnlySeen ==
  /\ \A c \in Oracles : \E s \in Observed : c \in Range(Shows[s.face])
  /\ \A f \in Components : \E s \in Observed : s.face = f
  /\ Range(gathered.viewports) \subseteq {step.launch} \cup Range(Probes)
  /\ NoClipping => \E s \in Observed : s.size = Narrow /\ Clipped(s)

\* The states of a draft are different from one another, no more than the cap,
\* and while there is room none that was observed is missing.
StatesDistinct ==
  /\ Cardinality(gathered.seen) = Len(gathered.states) /\ Len(gathered.states) <= MaxStates
  /\ gathered.seen \subseteq {Identity(s) : s \in Observed}
  /\ Len(gathered.states) < MaxStates => \A s \in Observed : Identity(s) \in gathered.seen

\* The focus order is the order in which the walk met the stops: no stop twice,
\* none left out before the repeat that ended it.
OrderAsWalked ==
  LET foci == SelectSeq([n \in DOMAIN log |-> IF log[n].size = step.launch THEN log[n].focus
                                              ELSE "none"], LAMBDA f : f # "none")
      walked == step.order IN
  /\ Cardinality(Range(walked)) = Len(walked)
  /\ \/ foci = walked
     \/ Len(foci) = Len(walked) + 1 /\ Front(foci) = walked /\ Last(foci) \in Range(walked)

\* A pass whose resizes did what they answered leaves the size it found.
SizeReturned ==
  (step.at = "end" /\ ~ \E n \in DOMAIN mishaps : mishaps[n][1] \in {"resize", "restore"}) =>
    app.size = step.launch

-----------------------------------------------------------------------------
(* Statements of the repository that the code does not keep; no run checks *)
(* them.                                                                   *)

\* "Viewport resizes ARE restored."  A resize that is answered as an error
\* after it took effect counts as not done: with no other one the pass leaves
\* without a restore.
LeavesTheSize ==
  (step.at = "end" /\ ~ \E n \in DOMAIN mishaps : mishaps[n][1] = "restore") =>
    app.size = step.launch

\* ScaffoldState says that the index is the order of discovery.  A hop has its
\* number and a probe the count of states: two states may have one index.
IndexIsOrder ==
  \A m, n \in DOMAIN gathered.states :
    m < n => gathered.states[m].index < gathered.states[n].index

\* The draft speaks of a "focus cycle".  A walk that ended at its bound, at an
\* error or at a repeat in the middle of the order is declared all the same.
CycleClosed == (step.at = "end" /\ FocusCycle # <<>>) => step.closed

\* The draft asks for no clipping where it was observed.  When the narrow screen
\* has the rows of one seen before, it is no state of its own and is forgotten.
ClippingKept ==
  (step.at = "end" /\ \E s \in Observed : s.size = Narrow /\ step.launch # Narrow) => NoClipping

\* Each control that an oracle is drafted for is in one of the states that the
\* draft counts.
CountsTrue == \A c \in Oracles : StateCount(c) > 0
=============================================================================
