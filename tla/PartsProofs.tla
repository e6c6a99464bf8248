------------------------------ MODULE PartsProofs ------------------------------
(***************************************************************************)
(* What the run of the parts checks, for every value of the constants: the *)
(* event stream accounts for every event, the engines are honest, no       *)
(* change passes a reader or a wait in silence, the replay of a scenario   *)
(* is honest, and so are the audit and its drivers.  ComponentProofs has   *)
(* the arguments about the events, the line engines and the audit; those   *)
(* about the tmux engine and the scenario runner, and the composition's,   *)
(* are here.                                                               *)
(***************************************************************************)
EXTENDS MCParts, SequenceTheorems, TLAPS

-----------------------------------------------------------------------------
(* The tmux engine.                                                        *)

Poll ==
  [pc : {"rest", "query", "capture", "render"}, call : T!Calls, cond : T!Conds \cup {"none"},
   screen : Nat, bell : Nat, any : Nat, round : 0 .. 1]

\* The engine believes a pane dead only when it is, with the signal that
\* killed it, and the signal is taken before the watermark moves.
DeathInv ==
  /\ tm.dead => pane.dead /\ tm.signal = pane.signal
  /\ tm.wasDead => tm.dead

\* A ring that has been counted is not in the flag any more.
BellInv ==
  /\ tm.bell <= pane.rung
  /\ pane.flag /\ ~tm.flag => tm.bell < pane.rung

ToldInv == told.full /\ told.dead => pane.dead /\ told.signal = pane.signal

TmuxInv == T!TypeOK /\ poll \in Poll /\ DeathInv /\ BellInv /\ ToldInv

\* A refresh that is not under way.
LEMMA RestIsPoll == T!Rest \in Poll
BY DEF T!Rest, Poll, T!Calls

\* At first.
LEMMA TmuxInit ==
  ASSUME T!Init
  PROVE  TmuxInv
<1>1. MaxPaints \in Nat /\ MaxPaints >= 1 /\ 1 \in 1 .. MaxPaints /\ 0 \in 0 .. MaxPaints
  BY TmuxAssumption
<1>2. poll \in Poll /\ poll.pc = "query" /\ poll.call = "state"
  BY RestIsPoll DEF T!Init, Poll, T!Calls
<1>3. T!TypeOK
  BY <1>1, <1>2 DEF T!Init, T!TypeOK, T!Calls
<1>4. DeathInv /\ BellInv /\ ToldInv
  BY DEF T!Init, DeathInv, BellInv, ToldInv, T!NotTold
<1> QED
  BY <1>2, <1>3, <1>4 DEF TmuxInv

PaneType ==
  [rev : 1 .. MaxPaints, title : Titles \cup {NoTitle}, flag : BOOLEAN, dead : BOOLEAN,
   signal : Signals \cup {NoSignal}, rung : 0 .. MaxPaints]
TmType ==
  [rev : 0 .. MaxPaints, shown : 0 .. MaxPaints, title : Titles \cup {NoTitle}, flag : BOOLEAN,
   dead : BOOLEAN, wasDead : BOOLEAN, signal : Signals \cup {NoSignal},
   screen : Nat, bell : Nat, titleSeq : Nat, any : Nat]

\* What the engine knows of the pane.
Knows(e) ==
  /\ e \in TmType
  /\ (e.dead => pane.dead /\ e.signal = pane.signal) /\ (e.wasDead => e.dead)
  /\ e.bell <= pane.rung /\ (pane.flag /\ ~e.flag => e.bell < pane.rung)

\* The invariant, said with that.
LEMMA TmuxParts ==
  ASSUME TRUE
  PROVE  TmuxInv <=> pane \in PaneType /\ poll \in Poll /\ Knows(tm) /\ ToldInv
BY DEF TmuxInv, T!TypeOK, PaneType, TmType, Knows, DeathInv, BellInv, Poll

\* A question to the pane (query_pane), and a capture.
LEMMA QueriedKnows ==
  ASSUME pane \in PaneType, NEW e, Knows(e)
  PROVE  Knows(T!Queried(e)) /\ T!Queried(e).wasDead = e.wasDead
<1> DEFINE rings == pane.flag /\ ~e.flag
           retitled == pane.title # e.title
           signal == IF pane.dead /\ ~e.wasDead THEN pane.signal ELSE e.signal
           bell == IF rings THEN e.bell + 1 ELSE e.bell
           titleSeq == IF retitled THEN e.titleSeq + 1 ELSE e.titleSeq
           any == e.any + ((IF rings THEN 1 ELSE 0) + (IF retitled THEN 1 ELSE 0))
           r == T!Queried(e)
<1>1. /\ e \in TmType /\ e.bell \in Nat /\ e.titleSeq \in Nat /\ e.any \in Nat
      /\ pane.rung \in Nat /\ pane.dead \in BOOLEAN /\ pane.flag \in BOOLEAN
      /\ e.flag \in BOOLEAN /\ e.dead \in BOOLEAN /\ e.wasDead \in BOOLEAN
  BY DEF Knows, TmType, PaneType
<1>2. /\ signal \in Signals \cup {NoSignal} /\ bell \in Nat /\ titleSeq \in Nat /\ any \in Nat
      /\ pane.title \in Titles \cup {NoTitle}
  BY <1>1 DEF TmType, PaneType
<1>3. e.any + (IF rings THEN 1 ELSE 0) + (IF retitled THEN 1 ELSE 0) = any
  BY <1>1
<1>4. r = [e EXCEPT !.dead = pane.dead, !.signal = signal, !.flag = pane.flag,
                    !.title = pane.title, !.bell = bell, !.titleSeq = titleSeq, !.any = any]
  BY <1>1, <1>3 DEF T!Queried, T!SignalOf, TmType
<1>5. /\ pane.dead => signal = pane.signal
      /\ bell <= pane.rung
  BY <1>1 DEF Knows
<1> HIDE DEF signal, bell, titleSeq, any, r
<1>6. /\ r \in TmType /\ r.dead = pane.dead /\ r.signal = signal /\ r.flag = pane.flag
      /\ r.bell = bell /\ r.wasDead = e.wasDead
  BY <1>1, <1>2, <1>4 DEF TmType
<1> QED
  BY <1>1, <1>5, <1>6 DEF Knows, r

\* A capture, and the building of a screen.
LEMMA CapturedKnows ==
  ASSUME pane \in PaneType, NEW e, Knows(e), NEW rev \in 0 .. MaxPaints
  PROVE  Knows(T!Captured(e, rev))
<1> DEFINE r == [e EXCEPT !.rev = rev, !.screen = e.screen + 1, !.any = e.any + 1]
<1>1. e \in TmType /\ e.screen + 1 \in Nat /\ e.any + 1 \in Nat
  BY DEF Knows, TmType
<1>2. T!Captured(e, rev) = IF rev = e.rev THEN e ELSE r
  BY DEF T!Captured
<1>3. /\ r \in TmType /\ r.dead = e.dead /\ r.signal = e.signal /\ r.flag = e.flag
      /\ r.bell = e.bell /\ r.wasDead = e.wasDead
  BY <1>1 DEF TmType
<1> HIDE DEF r
<1>4. Knows(r)
  BY <1>3 DEF Knows
<1> QED
  BY <1>2, <1>4

\* The screen that is built.
LEMMA RenderedKnows ==
  ASSUME pane \in PaneType, Knows(tm), NEW asked \in BOOLEAN
  PROVE  Knows(T!Rendered(asked))
<1> DEFINE marked == [tm EXCEPT !.wasDead = tm.dead]
           e == IF asked THEN T!Queried(marked) ELSE marked
           any == IF e.rev # e.shown THEN e.any + 2 ELSE e.any
           r == [e EXCEPT !.any = any, !.shown = e.rev]
<1>1. T!Rendered(asked) = r
  BY DEF T!Rendered
<1>2. Knows(marked)
  BY DEF Knows, TmType
<1> HIDE DEF marked
<1>3. Knows(e)
  BY <1>2, QueriedKnows
<1> HIDE DEF e
<1>4. e \in TmType /\ any \in Nat /\ e.rev \in 0 .. MaxPaints
  BY <1>3 DEF Knows, TmType
<1> HIDE DEF any
<1>5. /\ r \in TmType /\ r.dead = e.dead /\ r.signal = e.signal /\ r.flag = e.flag
      /\ r.bell = e.bell /\ r.wasDead = e.wasDead
  BY <1>4 DEF TmType
<1> HIDE DEF r
<1>6. Knows(r)
  BY <1>3, <1>5 DEF Knows
<1> QED
  BY <1>1, <1>6

\* What a step has answered of a pane whose state the engine knows.
LEMMA ScreenTold ==
  ASSUME pane \in PaneType, NEW e, Knows(e), UNCHANGED pane,
         NEW stable, told' = T!Screen(e, stable)
  PROVE  ToldInv'
BY DEF T!Screen, ToldInv, Knows

\* A step that tells nothing.
LEMMA NothingTold ==
  ASSUME told' = T!NotTold
  PROVE  ToldInv'
BY DEF T!NotTold, ToldInv

\* Every step of the pane and of its engine.
LEMMA TmuxNext ==
  ASSUME TmuxInv, [T!Next]_tmuxVars
  PROVE  TmuxInv'
<1>1. pane \in PaneType /\ poll \in Poll /\ Knows(tm) /\ ToldInv
  BY TmuxParts
<1>2. SUFFICES pane' \in PaneType /\ poll' \in Poll /\ Knows(tm)' /\ ToldInv'
  BY DEF TmuxInv, T!TypeOK, PaneType, TmType, Knows, DeathInv, BellInv, Poll
<1>3. CASE T!PaneChanges
  <2>1. /\ ~pane.dead /\ UNCHANGED <<tm, poll>> /\ told' = T!NotTold
        /\ \/ pane.rev < MaxPaints /\ pane' = [pane EXCEPT !.rev = @ + 1]
           \/ \E t \in Titles \ {pane.title} : pane' = [pane EXCEPT !.title = t]
           \/ pane.rung < MaxPaints /\ pane' = [pane EXCEPT !.flag = TRUE, !.rung = @ + 1]
           \/ \E s \in Signals \cup {NoSignal} : pane' = [pane EXCEPT !.dead = TRUE, !.signal = s]
    BY <1>3 DEF T!PaneChanges
  <2>2. /\ pane.rung \in 0 .. MaxPaints /\ pane.rev \in 1 .. MaxPaints /\ tm.bell \in Nat
        /\ MaxPaints \in Nat /\ ~tm.dead /\ ~tm.wasDead /\ tm \in TmType
        /\ tm.bell <= pane.rung /\ (pane.flag /\ ~tm.flag => tm.bell < pane.rung)
    BY <1>1, <2>1, TmuxAssumption DEF PaneType, Knows, TmType
  <2>3. /\ pane' \in PaneType /\ pane'.rung >= pane.rung /\ pane'.rung \in Nat
        /\ pane'.flag => pane.flag \/ pane'.rung > pane.rung
    <3>1. CASE pane.rev < MaxPaints /\ pane' = [pane EXCEPT !.rev = pane.rev + 1]
      <4>1. pane.rev + 1 \in 1 .. MaxPaints
        BY <2>2, <3>1
      <4> QED
        BY <1>1, <2>2, <3>1, <4>1 DEF PaneType
    <3>2. CASE \E t \in Titles \ {pane.title} : pane' = [pane EXCEPT !.title = t]
      BY <1>1, <2>2, <3>2 DEF PaneType
    <3>3. CASE pane.rung < MaxPaints /\ pane' = [pane EXCEPT !.flag = TRUE, !.rung = pane.rung + 1]
      <4> DEFINE rung == pane.rung + 1
      <4>1. rung \in 0 .. MaxPaints /\ rung > pane.rung /\ rung \in Nat
        BY <2>2, <3>3
      <4>2. pane' = [pane EXCEPT !.flag = TRUE, !.rung = rung]
        BY <3>3
      <4> HIDE DEF rung
      <4>3. pane' \in PaneType /\ pane'.rung = rung
        BY <1>1, <4>1, <4>2 DEF PaneType
      <4> QED
        BY <2>2, <4>1, <4>3
    <3>4. CASE \E s \in Signals \cup {NoSignal} : pane' = [pane EXCEPT !.dead = TRUE, !.signal = s]
      <4>1. PICK s \in Signals \cup {NoSignal} : pane' = [pane EXCEPT !.dead = TRUE, !.signal = s]
        BY <3>4
      <4>2. /\ pane' \in PaneType /\ pane'.rung = pane.rung /\ pane'.flag = pane.flag
        BY <1>1, <4>1 DEF PaneType
      <4> QED
        BY <2>2, <4>2
    <3> QED
      BY <2>1, <3>1, <3>2, <3>3, <3>4
  <2>4. tm'.bell <= pane'.rung /\ (pane'.flag /\ ~tm'.flag => tm'.bell < pane'.rung)
    <3>1. tm' = tm
      BY <2>1
    <3>2. tm.bell <= pane'.rung
      BY <2>2, <2>3
    <3>3. ASSUME pane'.flag, ~tm.flag PROVE tm.bell < pane'.rung
      <4>1. CASE pane.flag
        <5>1. tm.bell < pane.rung
          BY <2>2, <3>3, <4>1
        <5> QED
          BY <2>2, <2>3, <5>1
      <4>2. CASE pane'.rung > pane.rung
        BY <2>2, <2>3, <4>2
      <4> QED
        BY <2>3, <3>3, <4>1, <4>2
    <3> QED
      BY <3>1, <3>2, <3>3
  <2>5. Knows(tm)'
    BY <2>1, <2>2, <2>4 DEF Knows
  <2> QED
    BY <1>1, <2>1, <2>3, <2>5, NothingTold
<1>4. CASE T!Visit
  <2>1. pane' = [pane EXCEPT !.flag = FALSE] /\ UNCHANGED <<tm, poll>> /\ told' = T!NotTold
    BY <1>4 DEF T!Visit
  <2>2. /\ pane' \in PaneType /\ pane'.dead = pane.dead /\ pane'.signal = pane.signal
        /\ pane'.rung = pane.rung /\ pane'.flag = FALSE
    BY <1>1, <2>1 DEF PaneType
  <2>3. Knows(tm)'
    BY <1>1, <2>1, <2>2 DEF Knows
  <2> QED
    BY <1>1, <2>1, <2>2, <2>3, NothingTold
<1>5. CASE T!Query
  <2>1. tm' = T!Queried(tm) /\ T!Goes("capture") /\ UNCHANGED pane /\ told' = T!NotTold
    BY <1>5 DEF T!Query
  <2>2. Knows(T!Queried(tm))
    BY <1>1, QueriedKnows
  <2>3. Knows(tm)'
    BY <2>1, <2>2 DEF Knows
  <2>4. poll' \in Poll
    BY <1>1, <2>1 DEF T!Goes, Poll
  <2> QED
    BY <1>1, <2>1, <2>3, <2>4, NothingTold
<1>6. CASE T!Capture
  <2> DEFINE rev == IF tm.dead THEN tm.rev ELSE pane.rev
  <2>1. tm' = T!Captured(tm, rev) /\ T!Goes("render") /\ UNCHANGED pane /\ told' = T!NotTold
    BY <1>6 DEF T!Capture
  <2>2. rev \in 0 .. MaxPaints
    <3>1. pane.rev \in 1 .. MaxPaints /\ tm.rev \in 0 .. MaxPaints /\ MaxPaints \in Nat
      BY <1>1, TmuxAssumption DEF PaneType, Knows, TmType
    <3> QED
      BY <3>1
  <2> HIDE DEF rev
  <2>3. Knows(T!Captured(tm, rev))
    BY <1>1, <2>2, CapturedKnows
  <2>4. Knows(tm)'
    BY <2>1, <2>3 DEF Knows
  <2>5. poll' \in Poll
    BY <1>1, <2>1 DEF T!Goes, Poll
  <2> QED
    BY <1>1, <2>1, <2>4, <2>5, NothingTold
<1>7. CASE T!Render
  <2>1. PICK asked \in BOOLEAN :
          LET e == T!Rendered(asked) IN
          /\ tm' = e
          /\ \/ /\ poll.call = "state" /\ poll' = T!Rest /\ told' = T!Screen(e, FALSE)
             \/ /\ poll.call = "observe" /\ poll.round = 0
                /\ poll' = [poll EXCEPT !.pc = "query", !.round = 1, !.screen = e.screen]
                /\ told' = T!NotTold
             \/ /\ poll.call = "observe" /\ poll.round = 1
                /\ poll' = T!Rest /\ told' = T!Screen(e, e.screen = poll.screen)
             \/ /\ poll.call = "wait" /\ poll' = T!Rest /\ told' = T!Screen(e, FALSE)
             \/ /\ poll.call = "wait" /\ ~T!Met(e) /\ T!Goes("query") /\ told' = T!NotTold
    BY <1>7 DEF T!Render
  <2> DEFINE e == T!Rendered(asked)
  <2>2. Knows(e) /\ UNCHANGED pane
    BY <1>1, <1>7, RenderedKnows DEF T!Render
  <2>3. tm' = e
    BY <2>1
  <2>4. /\ poll' = T!Rest \/ poll' = [poll EXCEPT !.pc = "query"]
           \/ poll' = [poll EXCEPT !.pc = "query", !.round = 1, !.screen = e.screen]
        /\ told' = T!NotTold \/ \E stable \in BOOLEAN : told' = T!Screen(e, stable)
    BY <2>1 DEF T!Goes
  <2> HIDE DEF e
  <2>5. e.screen \in Nat
    BY <2>2 DEF Knows, TmType
  <2>6. poll' \in Poll
    <3>1. CASE poll' = T!Rest
      BY <3>1, RestIsPoll
    <3>2. CASE poll' = [poll EXCEPT !.pc = "query"]
      BY <1>1, <3>2 DEF Poll
    <3>3. CASE poll' = [poll EXCEPT !.pc = "query", !.round = 1, !.screen = e.screen]
      <4>1. "query" \in {"rest", "query", "capture", "render"} /\ 1 \in 0 .. 1
        OBVIOUS
      <4> QED
        BY <1>1, <2>5, <3>3, <4>1 DEF Poll
    <3> QED
      BY <2>4, <3>1, <3>2, <3>3
  <2>7. ToldInv'
    BY <1>1, <2>2, <2>4, ScreenTold, NothingTold
  <2>8. Knows(tm)'
    BY <2>2, <2>3 DEF Knows
  <2> QED
    BY <1>1, <2>2, <2>6, <2>7, <2>8
<1>8. CASE T!CommandFails
  <2>1. poll' = T!Rest /\ UNCHANGED <<pane, tm>> /\ told' = T!NotTold
    BY <1>8 DEF T!CommandFails
  <2>2. Knows(tm)'
    BY <1>1, <2>1 DEF Knows
  <2> QED
    BY <1>1, <2>1, <2>2, RestIsPoll, NothingTold
<1>9. CASE T!Call
  <2>1. UNCHANGED <<pane, tm>> /\ told' = T!NotTold
    BY <1>9 DEF T!Call
  <2>2. Knows(tm)'
    BY <1>1, <2>1 DEF Knows
  <2>3. tm.screen \in Nat /\ tm.bell \in Nat /\ tm.any \in Nat
    BY <1>1 DEF Knows, TmType
  <2>4. poll' \in Poll
    <3>1. CASE \E asked \in {"state", "observe"} : poll' = [T!Rest EXCEPT !.pc = "query", !.call = asked]
      <4>1. PICK asked \in {"state", "observe"} : poll' = [T!Rest EXCEPT !.pc = "query", !.call = asked]
        BY <3>1
      <4> QED
        BY <4>1, RestIsPoll DEF Poll, T!Calls
    <3>2. CASE \E cond \in T!Conds :
                 poll' = [pc |-> "query", call |-> "wait", cond |-> cond, round |-> 0,
                          screen |-> tm.screen, bell |-> tm.bell, any |-> tm.any]
      BY <2>3, <3>2 DEF Poll, T!Calls
    <3> QED
      BY <1>9, <3>1, <3>2 DEF T!Call
  <2> QED
    BY <1>1, <2>1, <2>2, <2>4, NothingTold
<1>10. CASE UNCHANGED tmuxVars
  BY <1>1, <1>10 DEF tmuxVars, Knows, ToldInv
<1> QED
  BY <1>3, <1>4, <1>5, <1>6, <1>7, <1>8, <1>9, <1>10 DEF T!Next

-----------------------------------------------------------------------------
(* The composition.                                                        *)

\* Of the component a behaviour is of, its invariant.
PartInv ==
  /\ part = "events" => V!EventInv
  /\ part = "line" => V!LineInv
  /\ part = "tmux" => TmuxInv

\* At first.
LEMMA PartInit == Init => PartInv
<1> SUFFICES ASSUME Init PROVE PartInv
  OBVIOUS
<1>1. ASSUME part = "events" PROVE V!EventInv
  <2>1. V!Init
    BY <1>1 DEF Init
  <2> QED
    BY <2>1, EventsAssumption, V!EventInit
<1>2. ASSUME part = "line" PROVE V!LineInv
  <2>1. V!L!Init
    BY <1>2 DEF Init
  <2> QED
    BY <2>1, LineAssumption, V!LineInit
<1>3. ASSUME part = "tmux" PROVE TmuxInv
  <2>1. T!Init
    BY <1>3 DEF Init
  <2> QED
    BY <2>1, TmuxInit
<1> QED
  BY <1>1, <1>2, <1>3 DEF PartInv

\* A step is one of the component, or leaves it alone.
LEMMA PartSteps ==
  ASSUME [Next]_vars
  PROVE  /\ part' = part
         /\ part = "events" => [V!Next]_eventVars /\ UNCHANGED lineVars
         /\ part = "line" => [V!L!Next]_lineVars
         /\ part = "tmux" => [T!Next]_tmuxVars
BY DEF Next, vars, OthersKeep, eventVars, lineVars, tmuxVars

\* What a step of the composition may not do.
StepSafe ==
  /\ part = "events" => V!NothingSkipped
  /\ part = "line" => V!L!EdgeMoves

\* Every step keeps the invariant, and passes nothing in silence.
LEMMA PartNext ==
  ASSUME PartInv, [Next]_vars
  PROVE  PartInv' /\ [StepSafe]_<<eventVars, lineVars>>
<1>1. /\ part' = part
      /\ part = "events" => [V!Next]_eventVars /\ UNCHANGED lineVars
      /\ part = "line" => [V!L!Next]_lineVars
      /\ part = "tmux" => [T!Next]_tmuxVars
  BY PartSteps
<1>2. ASSUME part = "events"
      PROVE  V!EventInv' /\ (V!NothingSkipped \/ UNCHANGED eventVars)
  <2>1. V!EventInv /\ [V!Next]_eventVars
    BY <1>1, <1>2 DEF PartInv
  <2>2. [V!Next]_V!vars
    BY <2>1 DEF eventVars, V!vars, V!hist
  <2>3. V!EventInv'
    BY <2>1, <2>2, EventsAssumption, V!EventNext
  <2>4. ASSUME V!Next PROVE V!NothingSkipped
    BY <2>1, <2>4, EventsAssumption, V!EventsTold
  <2> QED
    BY <2>1, <2>3, <2>4
<1>3. ASSUME part = "line"
      PROVE  V!LineInv' /\ V!L!EdgeMoves
  <2>1. V!LineInv /\ [V!L!Next]_lineVars
    BY <1>1, <1>3 DEF PartInv
  <2>2. [V!L!Next]_V!L!lineVars
    BY <2>1 DEF lineVars, V!L!lineVars
  <2> QED
    BY <2>1, <2>2, LineAssumption, V!LineSteps
<1>4. ASSUME part = "tmux" PROVE TmuxInv'
  BY <1>1, <1>4, TmuxNext DEF PartInv
<1>5. PartInv'
  BY <1>1, <1>2, <1>3, <1>4 DEF PartInv
<1>6. [StepSafe]_<<eventVars, lineVars>>
  <2>1. CASE part = "events"
    <3>1. part # "line"
      BY <2>1
    <3>2. UNCHANGED eventVars => UNCHANGED <<eventVars, lineVars>>
      BY <1>1, <2>1
    <3> QED
      BY <1>2, <2>1, <3>1, <3>2 DEF StepSafe
  <2>2. CASE part # "events"
    BY <1>3, <2>2 DEF StepSafe
  <2> QED
    BY <2>1, <2>2
<1> QED
  BY <1>5, <1>6

\* Coverage counts an event at most once and an appended log stays: for every
\* ring, number of readers, of events and of resumes.
THEOREM PartsEventsAccounted == Spec => []EventsAccounted
<1>1. PartInv => EventsAccounted
  <2> SUFFICES ASSUME PartInv, part = "events" PROVE V!TypeOK /\ V!CoverOnce /\ V!AppendedKept
    BY DEF EventsAccounted
  <2>1. V!EventInv
    BY DEF PartInv
  <2> QED
    BY <2>1, EventsAssumption, V!EventSafe
<1> QED
  BY <1>1, PartInit, PartNext, PTL DEF Spec

\* A collector finds a snapshot of each edge it may still ask for, and a death
\* by signal is reported as one: for every viewport, ring of snapshots, child,
\* cut of its output, title and signal.
THEOREM PartsEnginesHonest == Spec => []EnginesHonest
<1>1. PartInv => EnginesHonest
  <2> SUFFICES ASSUME PartInv PROVE EnginesHonest
    OBVIOUS
  <2>1. ASSUME part = "line" PROVE V!L!TypeOK /\ V!L!EdgesWalkable
    <3>1. V!LineInv
      BY <2>1 DEF PartInv
    <3> QED
      BY <3>1, LineAssumption, V!RingWalkable DEF V!LineInv
  <2>2. ASSUME part = "tmux" PROVE T!TypeOK /\ T!DeathKeepsItsSignal
    BY <2>2 DEF PartInv, TmuxInv, ToldInv, BellInv, T!DeathKeepsItsSignal
  <2> QED
    BY <2>1, <2>2 DEF EnginesHonest
<1> QED
  BY <1>1, PartInit, PartNext, PTL DEF Spec

\* No reader passes an event without being told, and no viewport changes
\* without the sequence its waits look at.
THEOREM PartsNothingSilent == Spec => NothingSilent
<1>1. StepSafe <=> /\ part = "events" => V!NothingSkipped
                   /\ part = "line" => V!L!EdgeMoves
  BY DEF StepSafe
<1> QED
  BY <1>1, PartInit, PartNext, PTL DEF Spec, NothingSilent

-----------------------------------------------------------------------------
(* The scenario runner.                                                    *)

\* Under the policy Stop an iteration that has not stopped has no failed step,
\* what was skipped is skipped throughout, and nothing is sent while skipping.
StopInv ==
  /\ job.policy = "Stop" /\ ~report.stopped =>
       \A n \in DOMAIN report.results : report.results[n] # "failed"
  /\ \A n \in DOMAIN report.results : report.results[n] = "skipped" => S!Skips
  /\ pc \in {"move", "assert", "guarded"} => ~S!Skips

\* Only an intent asserts the focus; the revision that guards its payload is
\* one the application has left, or the one that showed the focus.
FocusInv ==
  /\ pc \in {"move", "assert"} => S!Step.kind = "intent"
  /\ pc = "guarded" /\ S!Step.kind = "intent" =>
       guard <= app.rev /\ (guard = app.rev => app.focus = Target)
  /\ S!PayloadOnTarget

\* A verdict ends the job; as long as no iteration failed, each had a restart.
CountInv ==
  /\ tally.verdict # "none" => pc = "done"
  /\ job.repeat > 1 /\ tally.failed = 0 =>
       app.gen = tally.passed + (IF pc \in {"next", "done"} THEN 1 ELSE 2)
  /\ S!PassIsEarned

Report == [results : Seq(S!Results), stopped : BOOLEAN]
Tally == [passed : Nat, failed : Nat, verdict : S!Verdicts \cup {"none"}]

ReplayInv ==
  /\ S!TypeOK /\ report \in Report /\ tally \in Tally
  /\ StopInv /\ FocusInv /\ CountInv

\* The types of what the steps read.
LEMMA ReplayFacts ==
  ASSUME ReplayInv
  PROVE  /\ MaxRev \in Nat /\ job.repeat \in Nat
         /\ report = [results |-> report.results, stopped |-> report.stopped]
         /\ report.results \in Seq(S!Results) /\ report.stopped \in BOOLEAN
         /\ tally = [passed |-> tally.passed, failed |-> tally.failed, verdict |-> tally.verdict]
         /\ tally.passed \in Nat /\ tally.failed \in Nat
         /\ tally.verdict \in S!Verdicts \cup {"none"}
         /\ app = [gen |-> app.gen, alive |-> app.alive, focus |-> app.focus, rev |-> app.rev]
         /\ app.gen \in Nat /\ app.alive \in BOOLEAN /\ app.focus \in {Target, Other}
         /\ app.rev \in 0 .. MaxRev /\ app.rev \in Nat /\ guard \in 0 .. MaxRev + 1
         /\ pc \in S!Places /\ sent \subseteq S!Send
<1>1. /\ job \in [script : Scripts, policy : {"Stop", "Continue"}, repeat : Repeats,
                  restart : BOOLEAN, owned : BOOLEAN]
      /\ app \in [gen : Nat, alive : BOOLEAN, focus : {Target, Other}, rev : 0 .. MaxRev]
      /\ pc \in S!Places /\ guard \in 0 .. S!NoGuard /\ sent \subseteq S!Send
  BY DEF ReplayInv, S!TypeOK
<1>2. report \in Report /\ tally \in Tally
  BY DEF ReplayInv
<1>3. MaxRev \in Nat /\ job.repeat \in Nat
  BY <1>1, ReplayAssumption
<1>4. /\ report = [results |-> report.results, stopped |-> report.stopped]
      /\ report.results \in Seq(S!Results) /\ report.stopped \in BOOLEAN
  BY <1>2 DEF Report
<1>5. /\ tally = [passed |-> tally.passed, failed |-> tally.failed, verdict |-> tally.verdict]
      /\ tally.passed \in Nat /\ tally.failed \in Nat
      /\ tally.verdict \in S!Verdicts \cup {"none"}
  BY <1>2 DEF Tally
<1>6. /\ app = [gen |-> app.gen, alive |-> app.alive, focus |-> app.focus, rev |-> app.rev]
      /\ app.gen \in Nat /\ app.alive \in BOOLEAN /\ app.focus \in {Target, Other}
      /\ app.rev \in 0 .. MaxRev /\ app.rev \in Nat
  BY <1>1, <1>3
<1>7. guard \in 0 .. MaxRev + 1
  BY <1>1 DEF S!NoGuard
<1> QED
  BY <1>1, <1>3, <1>4, <1>5, <1>6, <1>7

\* A step keeps the types when it keeps those of what it changes.
LEMMA ReplayTyped ==
  ASSUME ReplayInv, job' = job,
         app' \in [gen : Nat, alive : BOOLEAN, focus : {Target, Other}, rev : 0 .. MaxRev],
         pc' \in S!Places, report' \in Report, tally' \in Tally,
         guard' \in 0 .. MaxRev + 1, sent' \subseteq S!Send
  PROVE  S!TypeOK' /\ report' \in Report /\ tally' \in Tally
<1>1. /\ report'.results \in Seq(S!Results) /\ report'.stopped \in BOOLEAN
  BY DEF Report
<1>2. tally'.passed \in Nat /\ tally'.failed \in Nat /\ tally'.verdict \in S!Verdicts \cup {"none"}
  BY DEF Tally
<1>3. job' \in [script : Scripts, policy : {"Stop", "Continue"}, repeat : Repeats,
                restart : BOOLEAN, owned : BOOLEAN]
  BY DEF ReplayInv, S!TypeOK
<1>4. guard' \in 0 .. S!NoGuard
  BY DEF S!NoGuard
<1>5. S!TypeOK'
  BY <1>1, <1>2, <1>3, <1>4 DEF S!TypeOK, S!Places, S!Results, S!Verdicts, S!Send, S!NoGuard
<1> QED
  BY <1>5

\* What an input says of itself.
LEMMA SendsKeeps ==
  ASSUME ReplayInv, NEW payload \in BOOLEAN, S!Sends(payload), payload => app.focus = Target
  PROVE  sent' \subseteq S!Send /\ S!PayloadOnTarget'
<1> DEFINE one == [gen |-> app.gen, step |-> S!At, payload |-> payload,
                   focus |-> app.focus, rev |-> app.rev, guard |-> guard]
<1>1. sent' = sent \cup {one}
  BY DEF S!Sends
<1>2. S!At \in Nat
  <2>1. report.results \in Seq(S!Results)
    BY ReplayFacts
  <2> QED
    BY <2>1 DEF S!At
<1>3. one \in S!Send
  <2>1. /\ app.gen \in Nat /\ app.focus \in {Target, Other} /\ app.rev \in 0 .. MaxRev
        /\ guard \in 0 .. MaxRev + 1
    BY ReplayFacts
  <2> QED
    BY <1>2, <2>1 DEF S!Send, S!NoGuard
<1>4. one.payload = payload /\ one.focus = app.focus
  OBVIOUS
<1> HIDE DEF one
<1>5. sent \subseteq S!Send
  BY ReplayFacts
<1>6. S!PayloadOnTarget
  BY DEF ReplayInv, FocusInv
<1> QED
  BY <1>1, <1>3, <1>4, <1>5, <1>6 DEF S!PayloadOnTarget

\* A step of the scenario ends: a failed one stops the iteration under Stop,
\* and a skipped one is skipped for a reason that stays.
LEMMA EndsKeeps ==
  ASSUME ReplayInv, NEW result \in S!Results, S!Ends(result), pc \notin {"next", "done"},
         result = "skipped" => S!Skips, UNCHANGED <<job, tally>>,
         app' \in [gen : Nat, alive : BOOLEAN, focus : {Target, Other}, rev : 0 .. MaxRev],
         app'.gen = app.gen, sent' \subseteq S!Send, S!PayloadOnTarget'
  PROVE  ReplayInv'
<1> DEFINE results == Append(report.results, result)
           stopped == report.stopped \/ (result = "failed" /\ job.policy = "Stop")
           k == Len(report.results)
<1>1. /\ MaxRev \in Nat /\ report.results \in Seq(S!Results) /\ report.stopped \in BOOLEAN
      /\ tally \in Tally /\ k \in Nat
  BY ReplayFacts DEF ReplayInv
<1>2. report' = [results |-> results, stopped |-> stopped] /\ pc' = "step" /\ guard' = MaxRev + 1
  BY DEF S!Ends, S!NoGuard
<1>3. /\ results \in Seq(S!Results) /\ Len(results) = k + 1 /\ results[k + 1] = result
      /\ \A n \in 1 .. k : results[n] = report.results[n]
  BY <1>1, AppendProperties
<1>4. stopped \in BOOLEAN
  BY <1>1
<1> HIDE DEF results, stopped, k
<1>5. report' \in Report /\ report'.results = results /\ report'.stopped = stopped
  BY <1>2, <1>3, <1>4 DEF Report
<1>6. S!TypeOK' /\ report' \in Report /\ tally' \in Tally
  <2>1. pc' \in S!Places
    BY <1>2 DEF S!Places
  <2>2. guard' \in 0 .. MaxRev + 1
    BY <1>1, <1>2
  <2> QED
    BY <1>1, <1>5, <2>1, <2>2, ReplayTyped
<1>7. ASSUME NEW n \in DOMAIN results
      PROVE  \/ results[n] = result
             \/ n \in DOMAIN report.results /\ results[n] = report.results[n]
  <2>1. n \in 1 .. k + 1
    BY <1>3
  <2>2. n = k + 1 \/ n \in 1 .. k
    BY <1>1, <2>1
  <2>3. DOMAIN report.results = 1 .. k
    BY <1>1 DEF k
  <2> QED
    BY <1>3, <2>2, <2>3
<1>8. S!Skips => S!Skips'
  BY <1>5 DEF S!Skips, stopped
<1>9. StopInv'
  <2>1. ASSUME job.policy = "Stop", ~stopped, NEW n \in DOMAIN results PROVE results[n] # "failed"
    <3>1. ~report.stopped /\ result # "failed"
      BY <2>1 DEF stopped
    <3> QED
      BY <1>7, <2>1, <3>1 DEF ReplayInv, StopInv
  <2>2. ASSUME NEW n \in DOMAIN results, results[n] = "skipped" PROVE S!Skips'
    BY <1>7, <1>8, <2>2 DEF ReplayInv, StopInv
  <2> QED
    BY <1>2, <1>5, <2>1, <2>2 DEF StopInv
<1>10. FocusInv'
  BY <1>2 DEF FocusInv
<1>11. CountInv'
  <2>1. CountInv
    BY DEF ReplayInv
  <2>2. UNCHANGED <<job, tally>> /\ tally.verdict = "none"
    BY <2>1 DEF CountInv
  <2>3. S!PassIsEarned'
    BY <2>2 DEF S!PassIsEarned
  <2> QED
    BY <1>2, <2>1, <2>2, <2>3 DEF CountInv
<1> QED
  BY <1>6, <1>9, <1>10, <1>11 DEF ReplayInv

\* A step that ends none of the scenario's and is not one of its repeats.
LEMMA WithinKeeps ==
  ASSUME ReplayInv, UNCHANGED <<job, report, tally>>,
         app' \in [gen : Nat, alive : BOOLEAN, focus : {Target, Other}, rev : 0 .. MaxRev],
         app'.gen = app.gen, sent' \subseteq S!Send, guard' \in 0 .. MaxRev + 1,
         pc' = pc \/ (pc \notin {"next", "done"} /\ pc' \in {"move", "assert", "guarded"} /\ ~S!Skips),
         FocusInv'
  PROVE  ReplayInv'
<1>1. report \in Report /\ tally \in Tally /\ pc \in S!Places
  BY ReplayFacts DEF ReplayInv
<1>2. pc' \in S!Places
  BY <1>1 DEF S!Places
<1>3. S!TypeOK' /\ report' \in Report /\ tally' \in Tally
  BY <1>1, <1>2, ReplayTyped
<1>4. S!Skips' = S!Skips
  BY DEF S!Skips
<1>5. StopInv'
  BY <1>4 DEF ReplayInv, StopInv
<1>6. CountInv'
  <2>1. CountInv
    BY DEF ReplayInv
  <2>2. pc' \in {"next", "done"} <=> pc \in {"next", "done"}
    OBVIOUS
  <2>3. pc = "done" => pc' = "done"
    OBVIOUS
  <2>4. S!PassIsEarned'
    BY <2>1 DEF CountInv, S!PassIsEarned, S!Iterations
  <2> QED
    BY <2>1, <2>2, <2>3, <2>4 DEF CountInv
<1> QED
  BY <1>3, <1>5, <1>6 DEF ReplayInv

\* The application moves its focus, repaints or exits by itself: its revision
\* grows past the one a payload is guarded by.
LEMMA ChangeStep ==
  ASSUME ReplayInv, S!Change
  PROVE  ReplayInv'
<1>1. /\ MaxRev \in Nat /\ app.gen \in Nat /\ app.alive \in BOOLEAN /\ app.focus \in {Target, Other}
      /\ app.rev \in 0 .. MaxRev /\ app.rev \in Nat /\ guard \in 0 .. MaxRev + 1 /\ sent \subseteq S!Send
      /\ app = [gen |-> app.gen, alive |-> app.alive, focus |-> app.focus, rev |-> app.rev]
  BY ReplayFacts
<1>2. UNCHANGED <<job, pc, report, guard, tally, sent>>
  BY DEF S!Change
<1>3. S!Step' = S!Step /\ S!PayloadOnTarget'
  BY <1>2 DEF S!Step, S!At, ReplayInv, FocusInv, S!PayloadOnTarget
<1>4. /\ pc \in {"move", "assert"} => S!Step.kind = "intent"
      /\ pc = "guarded" /\ S!Step.kind = "intent" =>
           guard <= app.rev /\ (guard = app.rev => app.focus = Target)
  BY DEF ReplayInv, FocusInv
<1>5. CASE app.rev < MaxRev /\ \E f \in {Target, Other} : app' = [app EXCEPT !.focus = f, !.rev = @ + 1]
  <2>1. PICK f \in {Target, Other} : app' = [app EXCEPT !.focus = f, !.rev = @ + 1]
    BY <1>5
  <2> DEFINE rev == app.rev + 1
  <2>2. app' = [gen |-> app.gen, alive |-> app.alive, focus |-> f, rev |-> rev]
    BY <1>1, <2>1
  <2>3. rev \in 0 .. MaxRev /\ rev \in Nat /\ app.rev < rev
    BY <1>1, <1>5
  <2> HIDE DEF rev
  <2>4. app' \in [gen : Nat, alive : BOOLEAN, focus : {Target, Other}, rev : 0 .. MaxRev]
        /\ app'.gen = app.gen /\ app'.rev = rev
    BY <1>1, <2>2, <2>3
  <2>5. FocusInv'
    <3>1. guard <= app.rev => guard < rev /\ guard # rev /\ guard <= rev
      BY <1>1, <2>3
    <3> QED
      BY <1>2, <1>3, <1>4, <2>4, <3>1 DEF FocusInv
  <2> QED
    BY <1>1, <1>2, <2>4, <2>5, WithinKeeps
<1>6. CASE app' = [app EXCEPT !.alive = FALSE]
  <2>1. app' = [gen |-> app.gen, alive |-> FALSE, focus |-> app.focus, rev |-> app.rev]
    BY <1>1, <1>6
  <2>2. /\ app' \in [gen : Nat, alive : BOOLEAN, focus : {Target, Other}, rev : 0 .. MaxRev]
        /\ app'.gen = app.gen /\ app'.rev = app.rev /\ app'.focus = app.focus
    BY <1>1, <2>1
  <2>3. FocusInv'
    BY <1>2, <1>3, <1>4, <2>2 DEF FocusInv
  <2> QED
    BY <1>1, <1>2, <2>2, <2>3, WithinKeeps
<1> QED
  BY <1>5, <1>6 DEF S!Change

\* What no step of the scenario changes.
LEMMA ReplayApp ==
  ASSUME ReplayInv, UNCHANGED <<app, sent>>
  PROVE  /\ app' \in [gen : Nat, alive : BOOLEAN, focus : {Target, Other}, rev : 0 .. MaxRev]
         /\ app'.gen = app.gen /\ sent' \subseteq S!Send /\ S!PayloadOnTarget'
<1>1. app' \in [gen : Nat, alive : BOOLEAN, focus : {Target, Other}, rev : 0 .. MaxRev]
  BY DEF ReplayInv, S!TypeOK
<1>2. sent' \subseteq S!Send
  BY ReplayFacts
<1>3. S!PayloadOnTarget'
  BY DEF ReplayInv, FocusInv, S!PayloadOnTarget
<1> QED
  BY <1>1, <1>2, <1>3

\* The steps that only end a step of the scenario.
LEMMA EndingSteps ==
  ASSUME ReplayInv, S!Skip \/ S!Refused \/ S!WaitOrAssert
  PROVE  ReplayInv'
<1>1. PICK result \in S!Results : S!Ends(result) /\ (result = "skipped" => S!Skips)
  BY DEF S!Skip, S!Refused, S!WaitOrAssert, S!Results
<1>2. pc = "step" /\ UNCHANGED <<job, app, tally, sent>>
  BY DEF S!Skip, S!Refused, S!WaitOrAssert, S!Begins, S!AtStep
<1> QED
  BY <1>1, <1>2, ReplayApp, EndsKeeps

\* The act keeps its precondition as a guard; the intent is planned, and its
\* focus asserted on a fresh frame, or the step ends.
LEMMA PlanningSteps ==
  ASSUME ReplayInv, S!Act \/ S!Plan \/ S!AssertFocus
  PROVE  ReplayInv'
<1>1. UNCHANGED <<job, app, tally, sent>> /\ pc \in {"step", "assert"}
  BY DEF S!Act, S!Plan, S!AssertFocus, S!Begins, S!AtStep
<1>2. /\ MaxRev \in Nat /\ app.rev \in 0 .. MaxRev /\ app.rev \in Nat /\ guard \in 0 .. MaxRev + 1
  BY ReplayFacts
<1>3. S!Step' = S!Step \/ report' # report
  BY <1>1 DEF S!Step, S!At
<1>4. CASE S!Ends("failed")
  <2>1. "failed" \in S!Results /\ pc \notin {"next", "done"}
    BY <1>1 DEF S!Results
  <2> QED
    BY <1>1, <1>4, <2>1, ReplayApp, EndsKeeps
<1>5. CASE ~S!Ends("failed")
  <2>1. /\ report' = report /\ ~S!Skips /\ pc' \in {"move", "assert", "guarded"}
        /\ guard' \in 0 .. MaxRev + 1
        /\ pc' \in {"move", "assert"} => S!Step.kind = "intent"
        /\ pc' = "guarded" /\ S!Step.kind = "intent" => guard' = app.rev /\ app.focus = Target
    <3>1. CASE S!Act
      <4>1. /\ report' = report /\ ~S!Skips /\ pc' = "guarded" /\ S!Step.kind = "act"
            /\ guard' = 0 \/ guard' = MaxRev + 1
        BY <3>1 DEF S!Act, S!Begins, S!NoGuard
      <4> QED
        BY <1>2, <4>1
    <3>2. CASE S!Plan
      BY <1>2, <1>5, <3>2 DEF S!Plan, S!Begins
    <3>3. CASE S!AssertFocus
      <4>1. pc = "assert"
        BY <3>3 DEF S!AssertFocus
      <4>2. ~S!Skips /\ S!Step.kind = "intent"
        BY <4>1 DEF ReplayInv, StopInv, FocusInv
      <4>3. report' = report /\ pc' = "guarded" /\ guard' = app.rev /\ app.focus = Target
        BY <1>5, <3>3 DEF S!AssertFocus, S!FocusGuard
      <4>4. guard' \in 0 .. MaxRev + 1
        BY <1>2, <4>3
      <4> QED
        BY <4>2, <4>3, <4>4
    <3> QED
      BY <3>1, <3>2, <3>3
  <2>2. S!Step' = S!Step
    BY <1>3, <2>1
  <2>3. S!PayloadOnTarget'
    BY <1>1, ReplayApp
  <2>4. FocusInv'
    BY <1>1, <1>2, <2>1, <2>2, <2>3 DEF FocusInv
  <2>5. pc \notin {"next", "done"}
    BY <1>1
  <2> QED
    BY <1>1, <2>1, <2>4, <2>5, ReplayApp, WithinKeeps
<1> QED
  BY <1>4, <1>5

\* The key that moves the focus is written, or the step fails.
LEMMA MoveStep ==
  ASSUME ReplayInv, S!MoveFocus
  PROVE  ReplayInv'
<1>1. /\ MaxRev \in Nat /\ app.gen \in Nat /\ app.alive \in BOOLEAN /\ app.rev \in 0 .. MaxRev
      /\ guard \in 0 .. MaxRev + 1
      /\ app = [gen |-> app.gen, alive |-> app.alive, focus |-> app.focus, rev |-> app.rev]
  BY ReplayFacts
<1>2. pc = "move" /\ UNCHANGED <<job, tally>>
  BY DEF S!MoveFocus
<1>3. ~S!Skips /\ S!Step.kind = "intent"
  BY <1>2 DEF ReplayInv, StopInv, FocusInv
<1>4. CASE S!Ends("failed") /\ UNCHANGED <<app, sent>>
  <2>1. "failed" \in S!Results
    BY DEF S!Results
  <2> QED
    BY <1>2, <1>4, <2>1, ReplayApp, EndsKeeps
<1>5. CASE /\ app.rev < MaxRev /\ S!Sends(FALSE)
           /\ \E f \in {Target, Other} : app' = [app EXCEPT !.focus = f, !.rev = @ + 1]
           /\ pc' = "assert" /\ UNCHANGED <<report, guard>>
  <2>1. PICK f \in {Target, Other} : app' = [app EXCEPT !.focus = f, !.rev = @ + 1]
    BY <1>5
  <2> DEFINE rev == app.rev + 1
  <2>2. app' = [gen |-> app.gen, alive |-> app.alive, focus |-> f, rev |-> rev]
    BY <1>1, <2>1
  <2>3. rev \in 0 .. MaxRev
    BY <1>1, <1>5
  <2> HIDE DEF rev
  <2>4. app' \in [gen : Nat, alive : BOOLEAN, focus : {Target, Other}, rev : 0 .. MaxRev]
        /\ app'.gen = app.gen
    BY <1>1, <2>2, <2>3
  <2>5. sent' \subseteq S!Send /\ S!PayloadOnTarget'
    BY <1>5, SendsKeeps
  <2>6. S!Step' = S!Step
    BY <1>2, <1>5 DEF S!Step, S!At
  <2>7. FocusInv'
    BY <1>3, <1>5, <2>5, <2>6 DEF FocusInv
  <2> QED
    BY <1>1, <1>2, <1>3, <1>5, <2>4, <2>5, <2>7, WithinKeeps
<1> QED
  BY <1>4, <1>5 DEF S!MoveFocus

\* The executor writes the payload on the revision of its guard, or fails.
LEMMA ExecuteStep ==
  ASSUME ReplayInv, S!Execute
  PROVE  ReplayInv'
<1>1. /\ MaxRev \in Nat /\ app.gen \in Nat /\ app.alive \in BOOLEAN /\ app.focus \in {Target, Other}
      /\ app.rev \in 0 .. MaxRev /\ app.rev \in Nat
      /\ app = [gen |-> app.gen, alive |-> app.alive, focus |-> app.focus, rev |-> app.rev]
  BY ReplayFacts
<1>2. pc = "guarded" /\ UNCHANGED <<job, tally>>
  BY DEF S!Execute
<1>3. CASE app.alive /\ guard \in {S!NoGuard, app.rev}
  <2>1. /\ S!Sends(S!Step.kind = "intent")
        /\ \E settled \in BOOLEAN, fails \in BOOLEAN :
             S!Ends(IF ~fails /\ (settled \/ S!Step.kind = "intent") THEN "passed" ELSE "failed")
        /\ \E rev \in {app.rev, app.rev + 1} \cap (0 .. MaxRev) : app' = [app EXCEPT !.rev = rev]
    BY <1>3 DEF S!Execute
  <2>2. PICK result \in {"passed", "failed"} : S!Ends(result)
    BY <2>1
  <2>3. PICK rev \in 0 .. MaxRev : app' = [app EXCEPT !.rev = rev]
    BY <2>1
  <2>4. app' = [gen |-> app.gen, alive |-> app.alive, focus |-> app.focus, rev |-> rev]
    BY <1>1, <2>3
  <2>5. app' \in [gen : Nat, alive : BOOLEAN, focus : {Target, Other}, rev : 0 .. MaxRev]
        /\ app'.gen = app.gen
    BY <1>1, <2>4
  <2>6. S!Step.kind = "intent" => app.focus = Target
    <3>1. S!Step.kind = "intent" => guard <= app.rev /\ (guard = app.rev => app.focus = Target)
      BY <1>2 DEF ReplayInv, FocusInv
    <3>2. guard <= app.rev => guard # MaxRev + 1
      BY <1>1
    <3> QED
      BY <1>3, <3>1, <3>2 DEF S!NoGuard
  <2> DEFINE payload == (S!Step.kind = "intent")
  <2>7. payload \in BOOLEAN /\ S!Sends(payload) /\ (payload => app.focus = Target)
    BY <2>1, <2>6
  <2> HIDE DEF payload
  <2>8. sent' \subseteq S!Send /\ S!PayloadOnTarget'
    BY <2>7, SendsKeeps
  <2>9. result \in S!Results /\ result # "skipped"
    BY <2>2 DEF S!Results
  <2> QED
    BY <1>2, <2>2, <2>5, <2>8, <2>9, EndsKeeps
<1>4. CASE ~(app.alive /\ guard \in {S!NoGuard, app.rev})
  <2>1. S!Ends("failed") /\ UNCHANGED <<app, sent>>
    BY <1>4 DEF S!Execute
  <2>2. "failed" \in S!Results
    BY DEF S!Results
  <2> QED
    BY <1>2, <2>1, <2>2, ReplayApp, EndsKeeps
<1> QED
  BY <1>3, <1>4

\* What the repeats leave alone.
LEMMA RepeatsKeep ==
  ASSUME ReplayInv, UNCHANGED <<job, guard, sent>>, pc' \in {"next", "step", "done"},
         report' = report \/ report' = S!NoReport,
         app' \in [gen : Nat, alive : BOOLEAN, focus : {Target, Other}, rev : 0 .. MaxRev],
         tally' \in Tally, CountInv'
  PROVE  ReplayInv'
<1>1. report \in Report /\ guard \in 0 .. MaxRev + 1 /\ sent \subseteq S!Send
  BY ReplayFacts DEF ReplayInv
<1>2. <<>> \in Seq(S!Results) /\ DOMAIN <<>> = {}
  OBVIOUS
<1>3. report' \in Report
  <2>1. S!NoReport \in Report
    BY <1>2 DEF Report, S!NoReport
  <2> QED
    BY <1>1, <2>1, Zenon
<1>4. S!TypeOK' /\ report' \in Report /\ tally' \in Tally
  <2>1. pc' \in S!Places
    BY DEF S!Places
  <2> QED
    BY <1>1, <1>3, <2>1, ReplayTyped
<1>5. StopInv'
  <2>1. CASE report' = report
    BY <2>1 DEF ReplayInv, StopInv, S!Skips
  <2>2. CASE report' = S!NoReport
    <3>1. DOMAIN report'.results = {}
      BY <1>2, <2>2 DEF S!NoReport
    <3> QED
      BY <3>1 DEF StopInv
  <2> QED
    BY <2>1, <2>2
<1>6. FocusInv'
  BY DEF ReplayInv, FocusInv, S!PayloadOnTarget
<1> QED
  BY <1>4, <1>5, <1>6 DEF ReplayInv

\* The repeats: refused, begun anew, failed, counted and judged.
LEMMA RepeatSteps ==
  ASSUME ReplayInv, S!Refuse \/ S!Begin \/ S!RestartFails \/ S!EndIteration \/ S!Judge
  PROVE  ReplayInv'
<1>1. /\ job.repeat \in Nat /\ app.gen \in Nat /\ tally.passed \in Nat /\ tally.failed \in Nat
      /\ tally = [passed |-> tally.passed, failed |-> tally.failed, verdict |-> tally.verdict]
      /\ tally.verdict \in S!Verdicts \cup {"none"} /\ MaxRev \in Nat
      /\ app = [gen |-> app.gen, alive |-> app.alive, focus |-> app.focus, rev |-> app.rev]
      /\ app \in [gen : Nat, alive : BOOLEAN, focus : {Target, Other}, rev : 0 .. MaxRev]
  BY ReplayFacts DEF ReplayInv, S!TypeOK
<1>2. /\ tally.verdict # "none" => pc = "done"
      /\ job.repeat > 1 /\ tally.failed = 0 =>
           app.gen = tally.passed + (IF pc \in {"next", "done"} THEN 1 ELSE 2)
  BY DEF ReplayInv, CountInv
<1>3. UNCHANGED <<job, guard, sent>>
  BY DEF S!Refuse, S!Begin, S!RestartFails, S!EndIteration, S!Judge
<1>4. CASE S!Refuse
  <2>1. /\ tally' = [passed |-> 0, failed |-> 1, verdict |-> "StableFailure"]
        /\ pc' = "done" /\ UNCHANGED <<app, report>>
    BY <1>4 DEF S!Refuse
  <2>2. tally' \in Tally
    BY <2>1 DEF Tally, S!Verdicts
  <2>3. CountInv'
    BY <2>1 DEF CountInv, S!PassIsEarned
  <2> QED
    BY <1>1, <1>3, <2>1, <2>2, <2>3, RepeatsKeep
<1>5. CASE S!Begin
  <2>1. /\ pc = "next" /\ tally.verdict = "none"
        /\ app' = IF job.repeat > 1 THEN S!Fresh(app.gen + 1) ELSE app
        /\ report' = S!NoReport /\ pc' = "step" /\ tally' = tally
    BY <1>5 DEF S!Begin, S!Ready
  <2>2. /\ app' \in [gen : Nat, alive : BOOLEAN, focus : {Target, Other}, rev : 0 .. MaxRev]
        /\ job.repeat > 1 => app'.gen = app.gen + 1
    <3>1. app.gen + 1 \in Nat /\ 0 \in 0 .. MaxRev
      BY <1>1
    <3> QED
      BY <1>1, <2>1, <3>1 DEF S!Fresh
  <2>3. CountInv'
    <3>1. job'.repeat > 1 /\ tally'.failed = 0 => app'.gen = tally'.passed + 2
      <4>1. SUFFICES ASSUME job.repeat > 1, tally.failed = 0 PROVE app'.gen = tally.passed + 2
        BY <1>3, <2>1
      <4>2. app.gen = tally.passed + 1
        BY <1>2, <2>1, <4>1
      <4> QED
        BY <1>1, <2>2, <4>1, <4>2
    <3> QED
      BY <2>1, <3>1 DEF CountInv, S!PassIsEarned
  <2>4. tally' \in Tally
    BY <2>1 DEF ReplayInv
  <2> QED
    BY <1>3, <2>1, <2>2, <2>3, <2>4, RepeatsKeep
<1>6. CASE S!RestartFails
  <2>1. /\ pc = "next" /\ tally.verdict = "none" /\ UNCHANGED <<pc, report>>
        /\ tally' = [passed |-> tally.passed, failed |-> tally.failed + 1, verdict |-> "none"]
        /\ app' = [gen |-> app.gen, alive |-> FALSE, focus |-> app.focus, rev |-> app.rev]
    BY <1>1, <1>6 DEF S!RestartFails, S!Ready
  <2>2. app' \in [gen : Nat, alive : BOOLEAN, focus : {Target, Other}, rev : 0 .. MaxRev]
    BY <1>1, <2>1
  <2>3. tally.failed + 1 \in Nat /\ tally.failed + 1 # 0
    BY <1>1
  <2>4. tally' \in Tally
    BY <1>1, <2>1, <2>3 DEF Tally
  <2>5. CountInv'
    BY <2>1, <2>3 DEF CountInv, S!PassIsEarned
  <2> QED
    BY <1>3, <2>1, <2>2, <2>4, <2>5, RepeatsKeep
<1>7. CASE S!EndIteration
  <2>1. /\ pc = "step" /\ pc' = "next" /\ UNCHANGED <<app, report>>
        /\ \/ tally' = [tally EXCEPT !.passed = @ + 1]
           \/ tally' = [tally EXCEPT !.failed = @ + 1]
    BY <1>7 DEF S!EndIteration
  <2>2. tally.verdict = "none"
    BY <1>2, <2>1
  <2>3. CASE tally' = [tally EXCEPT !.passed = @ + 1]
    <3>1. tally' = [passed |-> tally.passed + 1, failed |-> tally.failed, verdict |-> "none"]
      BY <1>1, <2>2, <2>3
    <3>2. tally' \in Tally
      BY <1>1, <3>1 DEF Tally
    <3>3. job.repeat > 1 /\ tally.failed = 0 => app.gen = (tally.passed + 1) + 1
      BY <1>1, <1>2, <2>1
    <3>4. CountInv'
      BY <1>3, <2>1, <3>1, <3>3 DEF CountInv, S!PassIsEarned
    <3> QED
      BY <1>1, <1>3, <2>1, <3>2, <3>4, RepeatsKeep
  <2>4. CASE tally' = [tally EXCEPT !.failed = @ + 1]
    <3>1. tally' = [passed |-> tally.passed, failed |-> tally.failed + 1, verdict |-> "none"]
      BY <1>1, <2>2, <2>4
    <3>2. tally' \in Tally /\ tally.failed + 1 # 0
      BY <1>1, <3>1 DEF Tally
    <3>4. CountInv'
      BY <2>1, <3>1, <3>2 DEF CountInv, S!PassIsEarned
    <3> QED
      BY <1>1, <1>3, <2>1, <3>2, <3>4, RepeatsKeep
  <2> QED
    BY <2>1, <2>3, <2>4
<1>8. CASE S!Judge
  <2> DEFINE verdict == CASE tally.failed = 0 -> "StablePass"
                          [] tally.passed = 0 -> "StableFailure"
                          [] OTHER -> "Flaky"
  <2>1. /\ pc = "next" /\ pc' = "done" /\ UNCHANGED <<app, report>>
        /\ tally.passed + tally.failed = job.repeat
        /\ tally' = [tally EXCEPT !.verdict = verdict]
    BY <1>8 DEF S!Judge, S!Iterations
  <2>2. verdict \in S!Verdicts /\ (verdict = "StablePass" => tally.failed = 0)
    BY DEF S!Verdicts
  <2> HIDE DEF verdict
  <2>3. tally' = [passed |-> tally.passed, failed |-> tally.failed, verdict |-> verdict]
    BY <1>1, <2>1
  <2>4. tally' \in Tally
    BY <1>1, <2>2, <2>3 DEF Tally
  <2>5. tally'.passed = tally.passed /\ tally'.failed = tally.failed /\ tally'.verdict = verdict
    BY <2>3
  <2>6. S!PassIsEarned'
    <3>1. verdict = "StablePass" => /\ tally.passed = job.repeat
                                    /\ job.repeat > 1 => app.gen = job.repeat + 1
      BY <1>1, <1>2, <2>1, <2>2
    <3> QED
      BY <1>3, <2>1, <2>5, <3>1 DEF S!PassIsEarned, S!Iterations
  <2>7. CountInv'
    BY <1>2, <1>3, <2>1, <2>5, <2>6 DEF CountInv
  <2> QED
    BY <1>1, <1>3, <2>1, <2>4, <2>7, RepeatsKeep
<1> QED
  BY <1>4, <1>5, <1>6, <1>7, <1>8

\* Before anything is replayed.
LEMMA ReplayInit ==
  ASSUME S!Init
  PROVE  ReplayInv
<1>1. MaxRev \in Nat
  BY ReplayAssumption
<1>2. <<>> \in Seq(S!Results) /\ DOMAIN <<>> = {}
  OBVIOUS
<1>3. /\ job \in [script : Scripts, policy : {"Stop", "Continue"}, repeat : Repeats,
                  restart : BOOLEAN, owned : BOOLEAN]
      /\ app = [gen |-> 1, alive |-> TRUE, focus |-> Other, rev |-> 0]
      /\ pc = "next" /\ report = S!NoReport /\ guard = MaxRev + 1
      /\ tally = [passed |-> 0, failed |-> 0, verdict |-> "none"] /\ sent = {}
  BY DEF S!Init, S!Fresh, S!NoGuard
<1>4. S!NoReport \in Report /\ S!NoReport.results = <<>> /\ S!NoReport.stopped = FALSE
  BY <1>2 DEF Report, S!NoReport
<1>5. tally \in Tally
  BY <1>3 DEF Tally
<1>6. S!TypeOK
  <2>1. app \in [gen : Nat, alive : BOOLEAN, focus : {Target, Other}, rev : 0 .. MaxRev]
    BY <1>1, <1>3
  <2>2. report.results \in Seq(S!Results) /\ report.stopped \in BOOLEAN
    BY <1>2, <1>3, <1>4
  <2>3. tally.passed \in Nat /\ tally.failed \in Nat /\ tally.verdict \in S!Verdicts \cup {"none"}
    BY <1>3
  <2>4. pc \in S!Places /\ guard \in 0 .. S!NoGuard /\ sent \subseteq S!Send
    BY <1>1, <1>3 DEF S!Places, S!NoGuard
  <2> QED
    BY <1>3, <2>1, <2>2, <2>3, <2>4 DEF S!TypeOK
<1>7. StopInv
  <2>1. DOMAIN report.results = {}
    BY <1>2, <1>3, <1>4
  <2> QED
    BY <1>3, <2>1 DEF StopInv
<1>8. FocusInv
  BY <1>3 DEF FocusInv, S!PayloadOnTarget
<1>9. CountInv
  BY <1>3 DEF CountInv, S!PassIsEarned
<1>10. report \in Report
  BY <1>3, <1>4, Zenon
<1> QED
  BY <1>5, <1>6, <1>7, <1>8, <1>9, <1>10 DEF ReplayInv

\* Every step of the runner and of the application.
LEMMA ReplayNext ==
  ASSUME ReplayInv, [S!Next]_scenarioVars
  PROVE  ReplayInv'
<1>1. CASE S!Next
  BY <1>1, ChangeStep, EndingSteps, PlanningSteps, MoveStep, ExecuteStep, RepeatSteps
     DEF S!Next, S!Runner
<1>2. CASE UNCHANGED scenarioVars
  <2>1. UNCHANGED <<job, app, pc, report, guard, tally, sent>>
    BY <1>2 DEF scenarioVars
  <2>2. guard \in 0 .. MaxRev + 1
    BY ReplayFacts
  <2>3. FocusInv'
    BY <2>1 DEF ReplayInv, FocusInv, S!PayloadOnTarget, S!Step, S!At
  <2> QED
    BY <2>1, <2>2, <2>3, ReplayApp, WithinKeeps
<1> QED
  BY <1>1, <1>2

\* What the run checks of the runner.
LEMMA ReplaySafe ==
  ASSUME ReplayInv
  PROVE  S!TypeOK /\ S!PayloadOnTarget /\ S!NothingAfterStop /\ S!PassIsEarned
<1>1. S!TypeOK /\ S!PayloadOnTarget /\ S!PassIsEarned
  BY DEF ReplayInv, FocusInv, CountInv
<1>2. ASSUME job.policy = "Stop", pc \in {"move", "assert", "guarded"}, NEW n \in DOMAIN report.results
      PROVE  report.results[n] = "passed"
  <2>1. ~S!Skips
    BY <1>2 DEF ReplayInv, StopInv
  <2>2. report.results[n] # "failed" /\ report.results[n] # "skipped"
    BY <1>2, <2>1 DEF ReplayInv, StopInv, S!Skips
  <2>3. report.results \in Seq(S!Results)
    BY ReplayFacts
  <2>4. report.results[n] \in S!Results
    BY <1>2, <2>3
  <2> QED
    BY <2>2, <2>4 DEF S!Results
<1> QED
  BY <1>1, <1>2 DEF S!NothingAfterStop

\* The payload of an intent is written on the revision that showed its target
\* focused, nothing is sent after a stop and a verdict is earned, whatever the
\* application does by itself (scenario/runner.rs).
THEOREM PartsReplayHonest == Spec => []ReplayIsHonest
<1> DEFINE Inv == part = "scenario" => ReplayInv
<1>1. Init => Inv
  BY ReplayInit DEF Init
<1>2. Inv /\ [Next]_vars => Inv'
  <2> SUFFICES ASSUME Inv, [Next]_vars, part' = "scenario" PROVE ReplayInv'
    OBVIOUS
  <2>1. part = "scenario" /\ [S!Next]_scenarioVars
    BY DEF Next, OthersKeep, vars
  <2> QED
    BY <2>1, ReplayNext
<1>3. Inv => ReplayIsHonest
  BY ReplaySafe DEF ReplayIsHonest
<1> QED
  BY <1>1, <1>2, <1>3, PTL DEF Spec

-----------------------------------------------------------------------------
(* The audit.                                                              *)

\* The table of the instance is such a table.
LEMMA TableBounds == V!AuditBounds
<1>1. Len(Table) = 8 /\ DOMAIN Table = 1 .. 8
  BY DEF Table
<1>2. \A n \in DOMAIN Table : Table[n].group \in Nat
  BY <1>1 DEF Table, Profile
<1>3. \A m, n \in DOMAIN Table : Table[m].id = Table[n].id => m = n
  BY <1>1 DEF Table, Profile
<1>4. \A m, n \in DOMAIN Table :
        m < n /\ Table[m].inFull /\ Table[m].group > 0 /\ Table[n].inFull /\ Table[n].group > 0
          => Table[m].group < Table[n].group
  BY <1>1 DEF Table, Profile
<1> QED
  BY <1>1, <1>2, <1>3, <1>4, AuditAssumption DEF V!AuditBounds

\* The sizes of the instance are sizes.
LEMMA SizesBounds == V!DriverBounds
<1>1. Sizes \in Seq(Nat)
  BY DEF Sizes
<1> QED
  BY <1>1, DriversAssumption DEF V!DriverBounds

\* An audit under isolation runs no mutating driver on what another left, and
\* no residue passes unreported; an honest application is not accused of a
\* trap, of a missing reverse edge or of a mode left on, and it gets its focus
\* and its size back.
THEOREM PartsAuditHonest == Spec => []AuditHonest
<1> DEFINE Inv == /\ part = "audit" => V!AudInv
                  /\ part = "drivers" => V!DrvInv
<1>1. Init => Inv
  BY V!AudInit, V!DrvInit, TableBounds, SizesBounds DEF Init
<1>2. Inv /\ [Next]_vars => Inv'
  <2> SUFFICES ASSUME Inv, [Next]_vars PROVE Inv'
    OBVIOUS
  <2>1. ASSUME part' = "audit" PROVE V!AudInv'
    <3>1. part = "audit" /\ [V!A!Next]_auditVars
      BY <2>1 DEF Next, OthersKeep, vars
    <3> QED
      BY <3>1, V!AudNext, TableBounds DEF auditVars, V!A!auditVars
  <2>2. ASSUME part' = "drivers" PROVE V!DrvInv'
    <3>1. part = "drivers" /\ [V!D!Next]_driverVars
      BY <2>2 DEF Next, OthersKeep, vars
    <3> QED
      BY <3>1, V!DrvNext, SizesBounds DEF driverVars, V!D!driverVars
  <2> QED
    BY <2>1, <2>2
<1>3. Inv => AuditHonest
  BY V!AudSafe, V!DrvSafe, SizesBounds DEF AuditHonest
<1> QED
  BY <1>1, <1>2, <1>3, PTL DEF Spec

\* A reproduction that is saved crashes a fresh child, has only keys of the
\* walk, and, unless a restart failed on the way, none that can be left out.
THEOREM PartsReproductionMinimal == Spec => []ReproductionMinimal
<1> DEFINE Inv == part = "explore" => V!ExpInv
<1>1. Init => Inv
  BY V!ExpInit, ExploreAssumption DEF Init
<1>2. Inv /\ [Next]_vars => Inv'
  <2> SUFFICES ASSUME Inv, [Next]_vars, part' = "explore" PROVE V!ExpInv'
    OBVIOUS
  <2>1. part = "explore" /\ [V!X!Next]_exploreVars
    BY DEF Next, OthersKeep, vars
  <2> QED
    BY <2>1, V!ExpNext, ExploreAssumption DEF exploreVars, V!X!exploreVars
<1>3. Inv => ReproductionMinimal
  BY V!ExpSafe, ExploreAssumption DEF ReproductionMinimal
<1> QED
  BY <1>1, <1>2, <1>3, PTL DEF Spec
=============================================================================
