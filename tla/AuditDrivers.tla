----------------------------- MODULE AuditDrivers -----------------------------
(***************************************************************************)
(* Drivers of the audit that change the application they look at, and how  *)
(* they put it back: the Tab traversal of the keyboard driver with the     *)
(* focus graph it fills (src/audit/driver/keyboard.rs,                     *)
(* src/semantic/focus_graph.rs), the size matrix and the shrink and grow   *)
(* of the resize drivers (resize.rs), and the exit driver that judges the  *)
(* teardown of terminal modes from the byte stream (lifecycle.rs).         *)
(*                                                                         *)
(* The stream is the sequence of sets (TRUE) and resets (FALSE) of one     *)
(* terminal mode; the ring in front of it drops its oldest part.           *)
(***************************************************************************)
EXTENDS Naturals, Sequences

CONSTANTS
  Controls,  \* number of focusable controls, 0 .. Controls - 1 in tab order
  MaxTabs,   \* Tab presses of one traversal (20)
  Sizes,     \* RESIZE_MATRIX, a sequence
  MaxOps,    \* bound: sets and resets the application emits before it quits
  RingOps    \* sets and resets the raw ring holds

VARIABLES
  drv,    \* the driver: kind, where it is, steps done, what it took at its start
  tui,    \* the application: honest, focus, size, mode stream, bytes dropped
  seen,   \* states the traversal visited: labels, as a screen shows them
  graph,  \* FocusGraph: edges from, to, via
  said    \* ids of the findings

driverVars == <<drv, tui, seen, graph, said>>

DriverKinds == {"keyboard", "resize", "reflow", "exit"}
Focus == 0 .. Controls - 1
Original == 0
Half == 1
AllSizes == {Original, Half} \cup {Sizes[n] : n \in DOMAIN Sizes}

\* Every variable has its type.
TypeOK ==
  /\ drv \in [kind : DriverKinds, pc : {"start", "tab", "back", "judge", "walk", "restore", "shrunk",
                                   "exited", "done"},
              n : Nat, clean : BOOLEAN, engaged : BOOLEAN]
  /\ tui.focus \in Focus /\ tui.start \in Focus /\ tui.size \in AllSizes
  /\ tui.honest \in BOOLEAN /\ tui.twins \in BOOLEAN /\ tui.ops \in Seq(BOOLEAN) /\ tui.dropped \in BOOLEAN
  /\ Len(tui.ops) <= RingOps
  /\ seen \subseteq Focus
  /\ graph \subseteq Focus \X Focus \X {"tab", "shift+tab"}

Init ==
  /\ drv \in [kind : DriverKinds, pc : {"start"}, n : {0}, clean : {TRUE}, engaged : {FALSE}]
  /\ \E honest \in BOOLEAN, twins \in BOOLEAN, f \in Focus :
       tui = [honest |-> honest, twins |-> twins, focus |-> f, start |-> f, size |-> Original,
              ops |-> <<>>, dropped |-> FALSE, on |-> FALSE]
  /\ seen = {} /\ graph = {} /\ said = {}

Goes(pc) == drv' = [drv EXCEPT !.pc = pc]
Says(id) == said' = said \cup {id}
Stops(id) == Goes("done") /\ Says(id)

-----------------------------------------------------------------------------
(* keyboard_audit.                                                         *)

Turn(via, f) == IF via = "tab" THEN (f + 1) % Controls ELSE (f + Controls - 1) % Controls

\* A traversal key moves an honest focus along the ring, any other anywhere.
Lands(via) == IF tui.honest THEN {Turn(via, tui.focus)} ELSE Focus

StartTabs ==
  /\ drv.kind = "keyboard" /\ drv.pc = "start"
  /\ \/ Goes("tab") /\ UNCHANGED said
     \/ Stops("KB-ERR")
  /\ UNCHANGED <<tui, seen, graph>>

\* Focus by its label; the first two controls of an application with twins
\* have the same one.  The graph goes by control id.
Label(f) == IF tui.twins /\ f = 1 THEN 0 ELSE f

\* One Tab: its edge is recorded, a label that stays is a trap when there is
\* somewhere else to go, and a state seen before ends the traversal.
Tab ==
  /\ drv.pc = "tab" /\ drv.n < MaxTabs
  /\ \E f \in Lands("tab") :
       /\ tui' = [tui EXCEPT !.focus = f]
       /\ graph' = graph \cup {<<tui.focus, f, "tab">>}
       /\ seen' = seen \cup {Label(f)}
       /\ said' = said \cup
            (IF Label(f) # Label(tui.focus) THEN {} ELSE IF Controls > 1 THEN {"KB-TRAP"} ELSE {"KB-SINGLE-FOCUSABLE"})
            \cup (IF Label(f) \in seen THEN {"KB-CYCLE"} ELSE {})
       /\ drv' = [drv EXCEPT !.n = @ + 1, !.pc = IF Label(f) \in seen THEN "back" ELSE "tab"]

\* The observation before a Tab fails in silence, the Tab itself with a finding.
TabFails ==
  /\ drv.pc = "tab" /\ drv.n < MaxTabs
  /\ drv' = [drv EXCEPT !.pc = "back"]
  /\ said' \in {said, said \cup {"KB-ERR"}}
  /\ UNCHANGED <<tui, seen, graph>>

TabsDone ==
  /\ drv.pc = "tab" /\ drv.n = MaxTabs
  /\ Goes("back")
  /\ UNCHANGED <<tui, seen, graph, said>>

\* Mutant: one Shift+Tab less than Tabs.
BackCountShort == drv.n > 1

\* As many Shift+Tabs as Tabs that were sent.
BackCount == drv.n > 0

Back ==
  /\ drv.pc = "back" /\ BackCount
  /\ \/ \E f \in Lands("shift+tab") :
          /\ tui' = [tui EXCEPT !.focus = f]
          /\ graph' = graph \cup {<<tui.focus, f, "shift+tab">>}
          /\ drv' = [drv EXCEPT !.n = @ - 1]
     \/ /\ drv' = [drv EXCEPT !.clean = FALSE, !.pc = "done"]
        /\ UNCHANGED <<tui, graph>>
  /\ UNCHANGED <<seen, said>>

Opposite(via) == IF via = "tab" THEN "shift+tab" ELSE "tab"
ReverseTabGaps == {e \in graph : <<e[2], e[1], Opposite(e[3])>> \notin graph}

\* Only a reverse traversal that ran to its end is judged.
JudgeTabs ==
  /\ drv.pc = "back" /\ ~BackCount
  /\ said' = said \cup (IF ReverseTabGaps # {} THEN {"KB-REVERSE-GAP"} ELSE {})
                    \cup (IF graph # {} THEN {"KB-OK"} ELSE {})
  /\ Goes("done")
  /\ UNCHANGED <<tui, seen, graph>>

-----------------------------------------------------------------------------
(* resize_audit and resize_reflow_audit.                                   *)

ResizeTo(size) == tui' = [tui EXCEPT !.size = size]

\* One size of the matrix: the resize fails, or it is made and observed or
\* not; the walk goes on either way.
Resize ==
  /\ drv.kind = "resize" /\ drv.pc \in {"start", "walk"} /\ drv.n < Len(Sizes)
  /\ \/ ResizeTo(Sizes[drv.n + 1]) /\ \E id \in {"RESZ-OK", "RESZ-CLIP", "RESZ-ERR"} : Says(id)
     \/ Says("RESZ-ERR") /\ UNCHANGED tui
  /\ drv' = [drv EXCEPT !.n = @ + 1, !.pc = "walk"]
  /\ UNCHANGED <<seen, graph>>

\* The last resize goes back; its result is dropped.
Restore ==
  /\ drv.pc = "restore" \/ (drv.pc = "walk" /\ drv.n = Len(Sizes))
  /\ \/ ResizeTo(Original) /\ Goes("done")
     \/ drv' = [drv EXCEPT !.pc = "done", !.clean = FALSE] /\ UNCHANGED tui
  /\ UNCHANGED <<seen, graph, said>>

\* A session too small to halve, or a baseline that cannot be observed, is
\* left alone; a shrink that fails goes back at once.
Shrink ==
  /\ drv.kind = "reflow" /\ drv.pc = "start"
  /\ \/ \E id \in {"RFLW-TOO-SMALL", "RFLW-ERR"} : Stops(id) /\ UNCHANGED tui
     \/ ResizeTo(Half) /\ Goes("shrunk") /\ UNCHANGED said
     \/ Says("RFLW-ERR") /\ Goes("restore") /\ UNCHANGED tui
  /\ UNCHANGED <<seen, graph>>

ShrunkUnseen == Goes("restore") /\ Says("RFLW-ERR")

Shrunk ==
  /\ drv.pc = "shrunk"
  /\ \/ ShrunkUnseen
     \/ /\ Goes("restore")
        /\ \/ Says("RFLW-SHRINK-CLIP")
           \/ UNCHANGED said
  /\ UNCHANGED <<tui, seen, graph>>

-----------------------------------------------------------------------------
(* lifecycle_exit_audit.                                                   *)

\* The stream through the ring.
Ringed(ops) == IF Len(ops) > RingOps THEN Tail(ops) ELSE ops

\* The application sets and resets the mode while it runs.
Emit ==
  /\ drv.kind = "exit" /\ drv.pc = "start" /\ drv.n < MaxOps
  /\ \E set \in BOOLEAN :
       tui' = [tui EXCEPT !.ops = Ringed(Append(@, set)), !.on = set,
                 !.dropped = @ \/ Len(tui.ops) = RingOps]
  /\ drv' = [drv EXCEPT !.n = @ + 1]
  /\ UNCHANGED <<seen, graph, said>>

Has(ops, set) == \E n \in DOMAIN ops : ops[n] = set

\* The baseline is decoded, "quit" is typed, and the application resets the
\* mode and exits, exits with the mode on, or stays.
Quit ==
  /\ drv.kind = "exit" /\ drv.pc = "start"
  /\ \/ Stops("LCX-NOSRC") /\ UNCHANGED tui
     \/ Stops("LCX-NOEXIT") /\ UNCHANGED tui
     \/ /\ drv' = [drv EXCEPT !.pc = "exited", !.engaged = Has(tui.ops, TRUE)]
        /\ \/ /\ tui' = [tui EXCEPT !.ops = Ringed(Append(@, FALSE)), !.on = FALSE,
                           !.dropped = @ \/ Len(tui.ops) = RingOps]
           \/ UNCHANGED tui
        /\ UNCHANGED said
  /\ UNCHANGED <<seen, graph>>

\* A mode that was engaged is restored when the final stream has a reset.
Restored == Has(tui.ops, FALSE)

Judge ==
  /\ drv.pc = "exited"
  /\ \/ Says(IF ~drv.engaged THEN "LCX-NOTHING-ENGAGED"
             ELSE IF Restored THEN "LCX-TEARDOWN-OK" ELSE "LCX-TEARDOWN-MISSING")
     \/ said' = said \cup {"TEARDOWN-WINDOW-UNREADABLE",
                            IF drv.engaged THEN "LCX-TEARDOWN-MISSING" ELSE "LCX-NOTHING-ENGAGED"}
  /\ Goes("done")
  /\ UNCHANGED <<tui, seen, graph>>

Next == \/ StartTabs \/ Tab \/ TabFails \/ TabsDone \/ Back \/ JudgeTabs
        \/ Resize \/ Restore \/ Shrink \/ Shrunk
        \/ Emit \/ Quit \/ Judge

Spec == Init /\ [][Next]_driverVars

-----------------------------------------------------------------------------
(* Properties.                                                             *)

Done == drv.pc = "done"

\* An application whose Shift+Tab undoes Tab is never accused of a missing
\* reverse edge, nor of a trap unless neighbours share a label, and it gets its
\* focus back however many Tabs were sent, when no Shift+Tab failed.
HonestTabs ==
  (Done /\ drv.kind = "keyboard" /\ tui.honest) =>
    /\ "KB-REVERSE-GAP" \notin said
    /\ "KB-TRAP" \in said => tui.twins
    /\ drv.clean => tui.focus = tui.start

\* The resize drivers give the terminal its size back on every path, unless
\* the very resize that does so fails.
SizeRestored ==
  (Done /\ drv.kind \in {"resize", "reflow"} /\ drv.clean) => tui.size = Original

\* An application that reset its mode, however often it set it before, is not
\* accused when the stream could be read, whatever the ring has dropped.
TeardownJudged ==
  (Done /\ drv.kind = "exit" /\ "TEARDOWN-WINDOW-UNREADABLE" \notin said) =>
    ("LCX-TEARDOWN-MISSING" \in said => tui.on)

\* lifecycle.rs: a stream that could not be read leaves restoration unknown,
\* and a mode reported as restored is off.
TeardownTrue ==
  (Done /\ drv.kind = "exit") =>
    /\ "LCX-TEARDOWN-MISSING" \in said => tui.on
    /\ "LCX-TEARDOWN-OK" \in said => ~tui.on
=============================================================================
