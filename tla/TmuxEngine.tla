------------------------------ MODULE TmuxEngine ------------------------------
(***************************************************************************)
(* The engine that attaches to a pane of a running tmux                    *)
(* (src/backend/tmux.rs).  It learns everything by asking: every question  *)
(* is a tmux command of its own, and the pane changes between two of them. *)
(* A refresh asks for the facts of the pane, then for its content, and for *)
(* the facts once more while it builds the screen.                         *)
(*                                                                         *)
(* The content of the pane is a revision number; nobody respawns the pane. *)
(***************************************************************************)
EXTENDS Naturals

CONSTANTS
  Titles,    \* titles of the pane
  NoTitle,
  Signals,   \* what may have killed it
  NoSignal,  \* it exited, or is alive
  MaxPaints  \* bound: paints, rings and polls

VARIABLES
  pane,  \* the pane: content, title, window bell flag, dead, signal
  tm,    \* the engine: last capture, last title, flags and counters
  poll,  \* where a refresh is, and the call it serves
  told   \* the screen the last step answered

tmuxVars == <<pane, tm, poll, told>>

Calls == {"none", "state", "observe", "wait"}
Conds == {"ScreenChange", "Title", "Bell", "ProcessExit", "AnyActivity"}
NotTold == [rev |-> 0, title |-> NoTitle, dead |-> FALSE, signal |-> NoSignal,
            screen |-> 0, titleSeq |-> 0, stable |-> FALSE, full |-> FALSE]
Rest == [pc |-> "rest", call |-> "none", cond |-> "none", screen |-> 0, bell |-> 0, any |-> 0, round |-> 0]

\* Every variable has its type.
TypeOK ==
  /\ pane \in [rev : 1 .. MaxPaints, title : Titles \cup {NoTitle}, flag : BOOLEAN, dead : BOOLEAN,
               signal : Signals \cup {NoSignal}, rung : 0 .. MaxPaints]
  /\ tm \in [rev : 0 .. MaxPaints, shown : 0 .. MaxPaints, title : Titles \cup {NoTitle}, flag : BOOLEAN,
             dead : BOOLEAN, wasDead : BOOLEAN, signal : Signals \cup {NoSignal},
             screen : Nat, bell : Nat, titleSeq : Nat, any : Nat]
  /\ poll.pc \in {"rest", "query", "capture", "render"} /\ poll.call \in Calls

Init ==
  /\ pane = [rev |-> 1, title |-> NoTitle, flag |-> FALSE, dead |-> FALSE,
             signal |-> NoSignal, rung |-> 0]
  /\ tm = [rev |-> 0, shown |-> 0, title |-> NoTitle, flag |-> FALSE, dead |-> FALSE,
           wasDead |-> FALSE, signal |-> NoSignal, screen |-> 0, bell |-> 0,
           titleSeq |-> 0, any |-> 0]
  /\ poll = [Rest EXCEPT !.pc = "query", !.call = "state"]
  /\ told = NotTold

-----------------------------------------------------------------------------
(* The pane.                                                               *)

PaneChanges ==
  /\ ~pane.dead
  /\ \/ pane.rev < MaxPaints /\ pane' = [pane EXCEPT !.rev = @ + 1]
     \/ \E t \in Titles \ {pane.title} : pane' = [pane EXCEPT !.title = t]
     \/ pane.rung < MaxPaints /\ pane' = [pane EXCEPT !.flag = TRUE, !.rung = @ + 1]
     \/ \E s \in Signals \cup {NoSignal} : pane' = [pane EXCEPT !.dead = TRUE, !.signal = s]
  /\ UNCHANGED <<tm, poll>> /\ told' = NotTold

\* The window becomes the active one, which clears its bell flag.
Visit ==
  /\ pane.flag
  /\ pane' = [pane EXCEPT !.flag = FALSE]
  /\ UNCHANGED <<tm, poll>> /\ told' = NotTold

-----------------------------------------------------------------------------
(* query_pane and refresh.                                                 *)

\* Mutant: the signal is taken whenever the watermark says dead.
SignalOfLate(e) == IF pane.dead /\ e.wasDead THEN pane.signal ELSE e.signal

\* The signal is taken on the transition to dead.
SignalOf(e) == IF pane.dead /\ ~e.wasDead THEN pane.signal ELSE e.signal

\* query_pane: liveness, and the edges of bell flag and title.
Queried(e) ==
  LET rings == pane.flag /\ ~e.flag
      retitled == pane.title # e.title IN
  [e EXCEPT !.dead = pane.dead, !.signal = SignalOf(e), !.flag = pane.flag, !.title = pane.title,
            !.bell = IF rings THEN @ + 1 ELSE @,
            !.titleSeq = IF retitled THEN @ + 1 ELSE @,
            !.any = @ + (IF rings THEN 1 ELSE 0) + (IF retitled THEN 1 ELSE 0)]

Goes(pc) == poll' = [poll EXCEPT !.pc = pc]

Query ==
  /\ poll.pc = "query"
  /\ tm' = Queried(tm)
  /\ Goes("capture")
  /\ UNCHANGED pane /\ told' = NotTold

\* A capture that differs from the last one is one edge of screen and output.
Captured(e, rev) ==
  IF rev = e.rev THEN e
  ELSE [e EXCEPT !.rev = rev, !.screen = @ + 1, !.any = @ + 1]

\* A pane that was dead is not captured again: its last capture is its frame.
Capture ==
  /\ poll.pc = "capture"
  /\ tm' = Captured(tm, IF tm.dead THEN tm.rev ELSE pane.rev)
  /\ Goes("render")
  /\ UNCHANGED pane /\ told' = NotTold

Screen(e, stable) ==
  [rev |-> e.rev, title |-> e.title, dead |-> e.dead, signal |-> e.signal,
   screen |-> e.screen, titleSeq |-> e.titleSeq, stable |-> stable, full |-> TRUE]

\* The screen is built: the watermark moves, process() asks once more (and does
\* without an answer), and a frame that differs from the one before counts twice.
Rendered(asked) ==
  LET marked == [tm EXCEPT !.wasDead = tm.dead]
      e == IF asked THEN Queried(marked) ELSE marked IN
  [e EXCEPT !.any = IF e.rev # e.shown THEN @ + 2 ELSE @, !.shown = e.rev]

Met(e) ==
  CASE poll.cond = "ScreenChange" -> e.screen > poll.screen
    [] poll.cond = "Title" -> e.title # NoTitle
    [] poll.cond = "Bell" -> e.bell > poll.bell
    [] poll.cond = "ProcessExit" -> e.dead
    [] poll.cond = "AnyActivity" -> e.any > poll.any

\* What a refresh is for: a state, the two looks of an observation, or a round
\* of a wait, which answers when it is met or out of budget.
Render ==
  /\ poll.pc = "render"
  /\ \E asked \in BOOLEAN :
       LET e == Rendered(asked) IN
       /\ tm' = e
       /\ \/ /\ poll.call = "state" /\ poll' = Rest /\ told' = Screen(e, FALSE)
          \/ /\ poll.call = "observe" /\ poll.round = 0
             /\ poll' = [poll EXCEPT !.pc = "query", !.round = 1, !.screen = e.screen]
             /\ told' = NotTold
          \/ /\ poll.call = "observe" /\ poll.round = 1
             /\ poll' = Rest /\ told' = Screen(e, e.screen = poll.screen)
          \/ /\ poll.call = "wait" /\ poll' = Rest /\ told' = Screen(e, FALSE)
          \/ /\ poll.call = "wait" /\ ~Met(e) /\ Goes("query") /\ told' = NotTold
  /\ UNCHANGED pane

\* A tmux command that fails ends the call.
CommandFails ==
  /\ poll.pc \in {"query", "capture"}
  /\ poll' = Rest
  /\ UNCHANGED <<pane, tm>> /\ told' = NotTold

\* state, observe and wait of the engine.
Call ==
  /\ poll = Rest
  /\ \/ \E call \in {"state", "observe"} : poll' = [Rest EXCEPT !.pc = "query", !.call = call]
     \/ \E cond \in Conds :
          poll' = [pc |-> "query", call |-> "wait", cond |-> cond, round |-> 0,
                 screen |-> tm.screen, bell |-> tm.bell, any |-> tm.any]
  /\ UNCHANGED <<pane, tm>> /\ told' = NotTold

Next == PaneChanges \/ Visit \/ Query \/ Capture \/ Render \/ CommandFails \/ Call

Spec == Init /\ [][Next]_tmuxVars

-----------------------------------------------------------------------------
(* Properties.                                                             *)

\* tmux.rs, finding 38: a pane that died by a signal is never reported as one
\* that exited cleanly, whichever of the questions saw the death first; and no
\* more bells are counted than were rung.
DeathKeepsItsSignal ==
  /\ told.full /\ told.dead => told.signal = pane.signal
  /\ tm.bell <= pane.rung

\* tmux.rs, refresh: a dead pane freezes with its final content.
FinalFrameKept == told.full /\ told.dead => told.rev = pane.rev
=============================================================================
