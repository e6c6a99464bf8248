------------------------------ MODULE AuditProbes ------------------------------
(***************************************************************************)
(* Drivers of the audit that judge an application by what it answers or    *)
(* has written (src/audit/driver): navigation by arrows and the like       *)
(* (layout.rs), the mouse and the harness latency (interaction.rs), the    *)
(* disabled controls and the burst of safe keys (states.rs), the rendering *)
(* style (visual.rs), and the device queries (protocol.rs).                *)
(*                                                                         *)
(* Each driver is a behaviour of its own.  The application is one of a few *)
(* manners; it may also leave, draw, or move its controls while a driver   *)
(* is between two steps.                                                   *)
(***************************************************************************)
EXTENDS Naturals, Sequences, FiniteSets

CONSTANTS
  Places,     \* places of controls, 0 .. Places - 1; a place is where a click goes
  Fenced,     \* the control whose label is fenced
  Disabled,   \* the control that is disabled
  StepsPer,   \* presses of one class of keys (6)
  Clicks,     \* clicks of the mouse driver (6)
  BurstKeys,  \* keys of the burst (30)
  WindowOps,  \* operations that the raw window holds
  MaxOps,     \* bound: operations the application writes
  MaxMoves    \* bound: what the application does by itself

VARIABLES
  aud,    \* the driver, where it is, and what it counted
  tui,    \* the application
  edges,  \* the graph of the driver of keys
  ops,    \* what the raw window holds, and all that was written
  said,   \* ids of the findings, with their severity if it varies
  spare   \* what is left of the application's own moves

probeAuditVars == <<aud, tui, edges, ops, said, spare>>

Drivers == {"keys", "mouse", "states", "errors", "rendering", "query", "latency"}
Manners == {"ring", "wall", "deaf", "wild"}
Where == 0 .. Places - 1
Writes == {"erase", "move", "sync on", "sync off", "hide", "show"}

Init ==
  /\ aud \in [kind : Drivers, pc : {"start"}, n : {0}, moved : {0}, trapped : {FALSE}, whole : {TRUE}, todo : {<<>>}, tested : {{}}]
  /\ \E manner \in Manners :
       tui = [manner |-> manner, alive |-> TRUE, focus |-> 0, at |-> [p \in Where |-> p], cursor |-> 0]
  /\ edges = {} /\ ops = [window |-> <<>>, all |-> <<>>] /\ said = {} /\ spare = MaxMoves

TypeOK ==
  /\ aud.kind \in Drivers /\ aud.n \in 0 .. StepsPer + BurstKeys + Clicks
  /\ tui.focus \in Where /\ edges \subseteq Where \X Where \X {"on", "back"}
  /\ Len(ops.window) <= WindowOps /\ Len(ops.all) <= MaxOps

Goes(pc) == aud' = [aud EXCEPT !.pc = pc]
Says(id) == said' = said \cup {id}
Stops(id) == Goes("done") /\ Says(id)
Keeps == UNCHANGED <<edges, ops, spare>>

-----------------------------------------------------------------------------
(* The application.                                                        *)

\* Where a key takes the focus.
Lands(dir) ==
  LET f == tui.focus IN
  CASE tui.manner = "ring" -> {IF dir = "on" THEN (f + 1) % Places ELSE (f + Places - 1) % Places}
    [] tui.manner = "wall" -> {IF dir = "on" THEN IF f = Places - 1 THEN f ELSE f + 1 ELSE IF f = 0 THEN 0 ELSE f - 1}
    [] tui.manner = "deaf" -> {f}
    [] tui.manner = "wild" -> Where

\* By itself it leaves, draws elsewhere, or swaps two controls.
Itself ==
  /\ spare > 0 /\ aud.pc # "done" /\ spare' = spare - 1
  /\ \/ tui' = [tui EXCEPT !.alive = FALSE]
     \/ tui' = [tui EXCEPT !.cursor = @ + 1]
     \/ \E p, q \in Where : p < q /\ tui' = [tui EXCEPT !.at = [tui.at EXCEPT ![p] = tui.at[q], ![q] = tui.at[p]]]
  /\ UNCHANGED <<aud, edges, ops, said>>

\* It writes, before the rendering driver reads the window.
Emits ==
  /\ aud.kind = "rendering" /\ aud.pc = "start" /\ Len(ops.all) < MaxOps
  /\ \E op \in Writes :
       ops' = [window |-> LET w == Append(ops.window, op) IN IF Len(w) > WindowOps THEN Tail(w) ELSE w,
               all |-> Append(ops.all, op)]
  /\ UNCHANGED <<aud, tui, edges, said, spare>>

-----------------------------------------------------------------------------
(* navigation_keys_audit, one class of keys.                               *)

\* A press: every press is an edge, also one that moves nothing, and the
\* first one that moves nothing is a trap.
Press ==
  /\ aud.kind = "keys" /\ aud.pc \in {"start", "on"} /\ aud.n < StepsPer /\ tui.alive
  /\ \E f \in Lands("on") :
       /\ tui' = [tui EXCEPT !.focus = f]
       /\ edges' = edges \cup {<<tui.focus, f, "on">>}
       /\ aud' = [aud EXCEPT !.pc = "on", !.n = @ + 1, !.moved = IF f # tui.focus THEN @ + 1 ELSE @,
                             !.trapped = @ \/ (f = tui.focus /\ Places > 1)]
  /\ UNCHANGED <<ops, said, spare>>

\* An observation or a press fails, which ends the presses in silence.
PressFails ==
  /\ aud.kind = "keys" /\ aud.pc \in {"start", "on", "back"}
  /\ aud' = [aud EXCEPT !.pc = IF aud.pc = "back" THEN "judge" ELSE "turn", !.whole = FALSE]
  /\ UNCHANGED <<tui, said>> /\ Keeps

PressesDone ==
  /\ aud.kind = "keys" /\ aud.pc = "on" /\ aud.n = StepsPer
  /\ Goes("turn") /\ UNCHANGED <<tui, said>> /\ Keeps

\* Mutant: one press of the inverse key less.
BackPressesShort(moved) == IF moved > 1 THEN moved - 1 ELSE 1

\* As many presses of the inverse key as moved the focus, one at least.
BackPresses(moved) == IF moved > 0 THEN moved ELSE 1

Turn ==
  /\ aud.pc = "turn"
  /\ aud' = [aud EXCEPT !.pc = "back", !.n = BackPresses(aud.moved)]
  /\ UNCHANGED <<tui, said>> /\ Keeps

PressBack ==
  /\ aud.kind = "keys" /\ aud.pc = "back" /\ aud.n > 0 /\ tui.alive
  /\ \E f \in Lands("back") :
       /\ tui' = [tui EXCEPT !.focus = f]
       /\ edges' = edges \cup {<<tui.focus, f, "back">>}
  /\ aud' = [aud EXCEPT !.n = @ - 1]
  /\ UNCHANGED <<ops, said, spare>>

Gaps == {e \in edges : e[3] = "on" /\ <<e[2], e[1], "back">> \notin edges}
Stranded == Where \ {e[k] : e \in edges, k \in {1, 2}}

JudgeKeys ==
  /\ aud.kind = "keys" /\ (aud.pc = "judge" \/ (aud.pc = "back" /\ aud.n = 0))
  /\ said' = IF aud.moved = 0 THEN said \cup {"NAV-UNUSED"}
             ELSE said \cup (IF aud.trapped THEN {"NAV-TRAP"} ELSE {})
                       \cup {IF Gaps = {} THEN "NAV-REVERSE-OK" ELSE "NAV-REVERSE-GAP"}
                       \cup (IF Stranded # {} THEN {"NAV-UNREACHABLE"} ELSE {})
  /\ Goes("done") /\ UNCHANGED tui /\ Keeps

-----------------------------------------------------------------------------
(* mouse_audit.                                                            *)

\* The targets: the places of the controls whose labels are not fenced, as
\* the first frame shows them, in their order.
Aims ==
  LET aims[n \in 0 .. Places] ==
        IF n = 0 THEN <<>> ELSE IF tui.at[n - 1] # Fenced THEN Append(aims[n - 1], n - 1) ELSE aims[n - 1]
  IN  aims[Places]

MouseStart ==
  /\ aud.kind = "mouse" /\ aud.pc = "start"
  /\ \/ Stops("MOUSE-ERR")
     \/ Stops("MOUSE-NO-CAPS")
     \/ /\ said' = said \cup {"MOUSE-COMMIT-FENCED"} \cup (IF Aims = <<>> THEN {"MOUSE-NO-TARGETS"} ELSE {})
        /\ aud' = [aud EXCEPT !.pc = IF Aims = <<>> THEN "done" ELSE "click",
                              !.todo = [n \in 1 .. (IF Len(Aims) < Clicks THEN Len(Aims) ELSE Clicks) |->
                                          [place |-> Aims[n], aim |-> tui.at[Aims[n]]]]]
  /\ UNCHANGED tui /\ Keeps

\* Evidence of the control aimed at: the focus is on it, or left it.  It is
\* there for a control that had the focus and that the click did not change.
Causal(t) == t.aim \in {tui.focus, tui'.focus}

\* A click at the place the control had on the first frame; what else may
\* tell of an answer is another region of the screen.
Click ==
  /\ aud.kind = "mouse" /\ aud.pc = "click" /\ aud.todo # <<>> /\ tui.alive
  /\ LET t == aud.todo[1] IN
     \E region \in IF tui.manner = "wild" THEN BOOLEAN ELSE {FALSE} :
       /\ \/ tui.manner # "deaf" /\ tui' = [tui EXCEPT !.focus = tui.at[t.place]]
          \/ tui.manner # "ring" /\ UNCHANGED tui
       /\ aud' = [aud EXCEPT !.todo = Tail(@), !.n = @ + 1,
                             !.tested = IF region \/ Causal(t) THEN @ \cup {t.aim} ELSE @]
  /\ UNCHANGED <<edges, ops, said, spare>>

\* The observation fails in silence, the click with a finding.
ClickFails ==
  /\ aud.kind = "mouse" /\ aud.pc = "click" /\ aud.todo # <<>>
  /\ aud' = [aud EXCEPT !.todo = <<>>]
  /\ said' \in {said, said \cup {"MOUSE-SEND-ERR"}}
  /\ UNCHANGED tui /\ Keeps

JudgeMouse ==
  /\ aud.kind = "mouse" /\ aud.pc = "click" /\ aud.todo = <<>>
  /\ said' = IF aud.n = 0 THEN said
             ELSE said \cup {IF Cardinality(aud.tested) = aud.n THEN "MOUSE-OK" ELSE "MOUSE-UNRESPONSIVE"}
  /\ Goes("done") /\ UNCHANGED tui /\ Keeps

-----------------------------------------------------------------------------
(* states_audit.                                                           *)

\* The disabled controls of the first frame; Tab is pressed if there are any.
StatesStart ==
  /\ aud.kind = "states" /\ aud.pc = "start"
  /\ \/ Stops("STATES-ERR")
     \/ Disabled \notin Where /\ (Stops("STATES-OK") \/ Stops("STATES-EMPTY-CONTROLS"))
     \/ /\ Disabled \in Where /\ Goes("tabs")
        /\ \E empty \in BOOLEAN :
             said' = said \cup {"STATES-DISABLED"} \cup (IF empty THEN {"STATES-EMPTY-CONTROLS"} ELSE {})
  /\ UNCHANGED tui /\ Keeps

StatesTab ==
  /\ aud.kind = "states" /\ aud.pc = "tabs" /\ aud.n < StepsPer
  /\ \/ \E f \in (IF tui.manner = "wild" THEN Where ELSE {p \in Where : p # Disabled}) :
          /\ tui' = [tui EXCEPT !.focus = f]
          /\ aud' = [aud EXCEPT !.n = @ + 1, !.tested = @ \cup {f}]
     \/ aud' = [aud EXCEPT !.n = StepsPer] /\ UNCHANGED tui
  /\ UNCHANGED <<edges, ops, said, spare>>

JudgeStates ==
  /\ aud.kind = "states" /\ aud.pc = "tabs" /\ aud.n = StepsPer
  /\ said' = IF Disabled \in aud.tested THEN said \cup {"STATES-DISABLED-FOCUSABLE"} ELSE said
  /\ Goes("done") /\ UNCHANGED tui /\ Keeps

-----------------------------------------------------------------------------
(* errors_audit.                                                           *)

ErrorsStart ==
  /\ aud.kind = "errors" /\ aud.pc = "start"
  /\ \/ Stops("ERR-AUDIT-ERR")
     \/ aud' = [aud EXCEPT !.pc = "burst", !.whole = tui.alive] /\ UNCHANGED said
  /\ UNCHANGED tui /\ Keeps

\* A key of the burst, or one that cannot be sent, which ends the burst.
Burst ==
  /\ aud.kind = "errors" /\ aud.pc = "burst" /\ aud.n < BurstKeys
  /\ \/ tui.alive /\ aud' = [aud EXCEPT !.n = @ + 1]
     \/ aud' = [aud EXCEPT !.n = BurstKeys]
  /\ UNCHANGED <<tui, said>> /\ Keeps

\* An application that ran and does not run now has crashed, however it
\* left; an observation that fails counts as one that does not run.  Else the
\* text on the screen is looked through for what a failure writes.
JudgeErrors ==
  /\ aud.kind = "errors" /\ aud.pc = "burst" /\ aud.n = BurstKeys
  /\ \E seen \in BOOLEAN, text \in {"ERR-ON-SCREEN", "ERR-TEXT-HINT", "ERR-OK"} :
       said' = said \cup (IF aud.whole /\ ~(seen /\ tui.alive) THEN {"ERR-CRASH"} ELSE IF seen THEN {text} ELSE {})
  /\ Goes("done") /\ UNCHANGED tui /\ Keeps

-----------------------------------------------------------------------------
(* rendering_audit.                                                        *)

Count(s, op) == Len(SelectSeq(s, LAMBDA x : x = op))

\* Mutant: the window is taken for all that was written.
IncompleteNever(s) == FALSE

\* Some of what was written is gone from the window.
Incomplete(s) == Len(s.window) < Len(s.all)

Style(w) ==
  CASE Count(w, "erase") = 0 /\ Count(w, "move") > 0 -> "diff"
    [] Count(w, "erase") > 0 /\ Count(w, "erase") * 8 > Count(w, "move") -> "full"
    [] OTHER -> "mixed"

RenderingReads ==
  /\ aud.kind = "rendering" /\ aud.pc = "start"
  /\ LET w == ops.window
         weight == IF Incomplete(ops) THEN "unverified" ELSE "proved" IN
     \/ said' = {<<"REND-NOSRC", "info">>}
     \/ said' = {<<"REND-STYLE", Style(w)>>}
       \cup (IF Count(w, "erase") >= 2 /\ Count(w, "sync on") = 0 THEN {<<"REND-FLICKER", "warn">>} ELSE {})
       \cup (IF Count(w, "sync on") > 0 /\ Count(w, "sync on") # Count(w, "sync off")
             THEN {<<"REND-SYNC-UNBALANCED", weight>>} ELSE {})
       \cup (IF Count(w, "hide") > Count(w, "show") THEN {<<"REND-CURSOR-LEAK", weight>>} ELSE {})
  /\ Goes("done") /\ UNCHANGED tui /\ Keeps

-----------------------------------------------------------------------------
(* query_response_audit and performance_audit.                             *)

\* The probe goes through the parser and is answered with the cursor it has.
Query ==
  /\ aud.kind = "query" /\ aud.pc = "start"
  /\ \/ aud' = [aud EXCEPT !.pc = "compare", !.n = 0, !.todo = <<tui.cursor>>] /\ UNCHANGED said
     \/ Stops("QR-NOSRC")
     \/ Stops("QR-CPR-UNANSWERED")
  /\ UNCHANGED tui /\ Keeps

\* The cursor is compared with a later observation.
Compare ==
  /\ aud.kind = "query" /\ aud.pc = "compare"
  /\ \E seen \in BOOLEAN :
       Stops(IF seen /\ aud.todo[1] = tui.cursor THEN "QR-CPR-PROBE" ELSE "QR-CPR-MISMATCH")
  /\ UNCHANGED tui /\ Keeps

\* The value at a percentile of a sorted sample.
Percentile(sorted, p) ==
  LET at == (p * Len(sorted)) \div 100 IN
  sorted[(IF at < Len(sorted) THEN at ELSE Len(sorted) - 1) + 1]

\* Observations (TRUE: at least half a second) and waits for quiet (TRUE: to
\* the end of the budget), by how many of them are TRUE.
Latency ==
  /\ aud.kind = "latency" /\ aud.pc = "start"
  /\ \/ Stops("PERF-ERR")
     \/ \E slow, loud \in 0 .. StepsPer :
          /\ said' = {IF Percentile([n \in 1 .. StepsPer |-> n > StepsPer - slow], 95) THEN "PERF-OBSERVE-SLOW" ELSE "PERF-OK"}
                     \cup (IF loud * 2 >= StepsPer THEN {"PERF-NEVER-QUIET"} ELSE {})
          /\ Goes("done")
  /\ UNCHANGED tui /\ Keeps

Next ==
  \/ Itself \/ Emits
  \/ Press \/ PressFails \/ PressesDone \/ Turn \/ PressBack \/ JudgeKeys
  \/ MouseStart \/ Click \/ ClickFails \/ JudgeMouse
  \/ StatesStart \/ StatesTab \/ JudgeStates
  \/ ErrorsStart \/ Burst \/ JudgeErrors
  \/ RenderingReads \/ Query \/ Compare \/ Latency

-----------------------------------------------------------------------------

\* layout.rs:297-299, "the class's inverse key must retrace the forward walk":
\* an application that goes round in both directions is found reversible, and
\* is left with the focus where it was.
HonestIsReversible ==
  (aud.kind = "keys" /\ aud.pc = "done" /\ aud.whole /\ tui.manner = "ring") =>
    "NAV-REVERSE-OK" \in said /\ said \cap {"NAV-TRAP", "NAV-REVERSE-GAP"} = {} /\ tui.focus = 0

\* visual.rs:236-240: what is told as proved of the stream is true of all
\* that was written, not only of what the window still holds.
ProvedOfAll ==
  aud.kind = "rendering" =>
    /\ <<"REND-SYNC-UNBALANCED", "proved">> \in said => Count(ops.all, "sync on") # Count(ops.all, "sync off")
    /\ <<"REND-CURSOR-LEAK", "proved">> \in said => Count(ops.all, "hide") > Count(ops.all, "show")
=============================================================================
