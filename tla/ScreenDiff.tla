------------------------------ MODULE ScreenDiff ------------------------------
(***************************************************************************)
(* The transition between two screens (src/screen/diff.rs), and a reader   *)
(* who knows the screen only from the first frame and the transitions      *)
(* since.                                                                  *)
(*                                                                         *)
(* A screen has a size, cells [text, style] row by row, rows of words (a   *)
(* word is a sequence of letters), a cursor, a title, the state of its     *)
(* process, and what the analysis finds in it: controls by their id with   *)
(* bounds and properties, and regions.                                     *)
(***************************************************************************)
EXTENDS Naturals, Sequences, FiniteSets

CONSTANTS
  Screens,   \* the screens of the instance
  MaxFrames  \* bound: screens painted after the first

VARIABLES
  frames,     \* how many were painted
  screen,     \* the last one
  transition, \* from the one before it
  reader      \* [ids, regions, gone, words] as followed through the transitions

diffVars == <<frames, screen, transition, reader>>

NoTransition == "none"

-----------------------------------------------------------------------------
(* compute_screen_diff.                                                    *)

\* Cells are compared by their place in the row-major list; what one list
\* has more is changed.
Shared(a, b) == {n \in DOMAIN a.cells : n \in DOMAIN b.cells}
Apart(a, b) == IF Len(a.cells) >= Len(b.cells) THEN Len(a.cells) - Len(b.cells)
               ELSE Len(b.cells) - Len(a.cells)
ChangedCells(a, b) ==
  Cardinality({n \in Shared(a, b) : a.cells[n].text # b.cells[n].text}) + Apart(a, b)
StyleChanges(a, b) ==
  Cardinality({n \in Shared(a, b) : /\ a.cells[n].text = b.cells[n].text
                                    /\ a.cells[n].style # b.cells[n].style})

Change(a, b) == IF a = b THEN {} ELSE {<<a, b>>}

WordIn(word, rows) ==
  \E r \in DOMAIN rows : \E k \in DOMAIN rows[r] : \E n \in 0 .. Len(rows[r][k]) - Len(word) :
    SubSeq(rows[r][k], n + 1, n + Len(word)) = word

\* collect_text_diffs: the words of one screen, of two letters or more, that
\* the other does not contain.
CollectTextDiffs(from, to) ==
  {w \in UNION {{to[r][k] : k \in DOMAIN to[r]} : r \in DOMAIN to} :
     Len(w) >= 2 /\ ~WordIn(w, from)}

ScreenDelta(a, b) ==
  [dimensions |-> Change(a.size, b.size),
   cells |-> ChangedCells(a, b), styles |-> StyleChanges(a, b),
   cursor |-> Change(a.cursor, b.cursor),
   title |-> Change(a.title, b.title),
   process |-> Change(a.process, b.process),
   added |-> CollectTextDiffs(b.rows, a.rows),
   removed |-> CollectTextDiffs(a.rows, b.rows)]

-----------------------------------------------------------------------------
(* compute_semantic_diff.                                                  *)

Ids(s) == DOMAIN s.controls
Regions(s) == DOMAIN s.regions

\* control_properties_differ: everything but the bounds.
ControlPropertiesDiffer(a, b) ==
  a.kind # b.kind \/ a.label # b.label \/ a.focused # b.focused

\* bounds_motion_phrase
Motion(a, b) ==
  (IF a.bounds.at # b.bounds.at THEN {"moved"} ELSE {})
  \cup (IF a.bounds.width # b.bounds.width THEN {"resized"} ELSE {})

\* control_render_delta: what is drawn differently; no delta when nothing is.
ControlRenderDelta(id, a, b) ==
  LET what == Motion(a, b) \cup (IF a.label # b.label THEN {"label"} ELSE {})
              \cup (IF a.focused # b.focused THEN {"focused"} ELSE {}) IN
  IF what = {} THEN {} ELSE {[id |-> id, what |-> what, focused |-> b.focused]}

RegionPropertiesDiffer(a, b) == a # b

SemanticDelta(a, b) ==
  LET both == Ids(a) \cap Ids(b)
      changed == {id \in both : ControlPropertiesDiffer(a.controls[id], b.controls[id])}
      shared == Regions(a) \cap Regions(b) IN
  [controlsAdded |-> Ids(b) \ Ids(a), controlsRemoved |-> Ids(a) \ Ids(b),
   controlsChanged |-> changed,
   deltas |-> UNION {ControlRenderDelta(id, a.controls[id], b.controls[id]) : id \in changed},
   regionsAdded |-> Regions(b) \ Regions(a), regionsRemoved |-> Regions(a) \ Regions(b),
   regionsChanged |-> {id \in shared : RegionPropertiesDiffer(a.regions[id], b.regions[id])},
   focus |-> <<a.focus, b.focus>>]

\* diff
Transition(a, b) == [screen |-> ScreenDelta(a, b), semantic |-> SemanticDelta(a, b)]

-----------------------------------------------------------------------------

Init ==
  /\ frames = 0 /\ screen \in Screens /\ transition = NoTransition
  /\ reader = [ids |-> Ids(screen), regions |-> Regions(screen), focused |->
                 {id \in Ids(screen) : screen.controls[id].focused}]

\* The application paints, the reader takes in the transition.
Paint ==
  /\ frames < MaxFrames /\ frames' = frames + 1
  /\ screen' \in Screens
  /\ transition' = Transition(screen, screen')
  /\ LET d == transition'.semantic
         told == {c \in d.deltas : "focused" \in c.what} IN
     reader' = [ids |-> (reader.ids \ d.controlsRemoved) \cup d.controlsAdded,
                regions |-> (reader.regions \ d.regionsRemoved) \cup d.regionsAdded,
                focused |-> (reader.focused \ (d.controlsRemoved \cup {c.id : c \in told}))
                            \cup {c.id : c \in {k \in told : k.focused}}
                            \cup {id \in d.controlsAdded : id = d.focus[2]}]

Next == Paint

Spec == Init /\ [][Next]_diffVars

-----------------------------------------------------------------------------
(* Properties.                                                             *)

\* The reader's picture has its type.
TypeOK ==
  /\ frames \in 0 .. MaxFrames /\ screen \in Screens
  /\ \A s \in {reader.ids, reader.regions, reader.focused} : IsFiniteSet(s)

\* screen/diff.rs, SemanticDiff: whoever follows the transitions knows which
\* controls and regions there are, and which control has the focus.
ReaderFollows ==
  /\ reader.ids = Ids(screen) /\ reader.regions = Regions(screen)
  /\ reader.focused = {id \in Ids(screen) : screen.controls[id].focused}

\* screen/diff.rs:66, the added spans are present after, the removed ones
\* are gone.
AddedIsNew ==
  frames > 0 =>
    /\ \A w \in transition.screen.added : WordIn(w, screen.rows)
    /\ \A w \in transition.screen.removed : ~WordIn(w, screen.rows)

\* screen/diff.rs, finding 40: a control that moved reads so, and not only as
\* a number of changed cells.
MovesAreTold ==
  [][\A id \in Ids(screen) \cap Ids(screen') :
       screen.controls[id].bounds # screen'.controls[id].bounds =>
         \E c \in transition'.semantic.deltas : c.id = id]_diffVars
=============================================================================
