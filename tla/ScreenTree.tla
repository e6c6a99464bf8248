---------------------------- MODULE ScreenTree ----------------------------
(* What the structural detectors make of a screen (src/semantic/regions.rs,*)
(* controls.rs, focus.rs, relationships.rs, tree_builder.rs and            *)
(* state_tree.rs): bordered boxes become regions with parents, kinds and   *)
(* ids, controls are bound to regions, and two trees are built of both,    *)
(* the semantic tree of the nodes mode and the state tree of the tree mode.*)
(* All of it is a function of the screen.                                  *)
(*                                                                         *)
(* A screen is a layout (its boxes, the texts that read as controls and a  *)
(* list of rows), moved "shift" columns to the right, with one control and *)
(* one row in reverse video, one control dimmed, and a cursor.  That the   *)
(* border tracer finds the boxes and the recognizers find the controls is  *)
(* taken from the layout.  An id is the sequence of its path segments.     *)
EXTENDS Naturals, Sequences, FiniteSets, SequencesExt

CONSTANTS
  Layouts,  \* the layouts: [boxes, marks, list, title, hints]
  Cols, Rows

Root == <<"screen">>
ListId == <<"list", "items">>
Item(n) == <<"list", "items", "item", <<"1", "2", "3">>[n]>>
Nth == <<"", "#2", "#3">>
Flat(path) == IF path = <<>> THEN <<>> ELSE path[1]
Numbered(path, n) == IF n = 1 THEN path ELSE Append(path, Nth[n])

\* The first of the members of S that f makes smallest, d when S is empty.
Least(S, f, d) ==
  IF S = {} THEN d
  ELSE CHOOSE i \in S : \A j \in S : f[i] < f[j] \/ (f[i] = f[j] /\ i <= j)
First(S, d) == Least(S, [i \in S |-> i], d)

-----------------------------------------------------------------------------
(* Regions.                                                                *)

Area(b) == b.w * b.h
Moved(b, shift) == [b EXCEPT !.x = @ + shift]

\* contains_bounds: containment, but not of the same rectangle.
Holds(outer, inner) ==
  /\ inner.x >= outer.x /\ inner.y >= outer.y
  /\ inner.x + inner.w <= outer.x + outer.w /\ inner.y + inner.h <= outer.y + outer.h
  /\ <<inner.x, inner.y, inner.w, inner.h>> # <<outer.x, outer.y, outer.w, outer.h>>

\* The boxes in the order the regions have: the largest first, then in the
\* order of the scan.
Boxes(scr) ==
  LET before(a, b) == \/ Area(a) > Area(b)
                      \/ Area(a) = Area(b) /\ (a.y < b.y \/ (a.y = b.y /\ a.x < b.x)) IN
  SortSeq([n \in DOMAIN Layouts[scr.layout].boxes |->
             Moved(Layouts[scr.layout].boxes[n], scr.shift)], before)

\* assign_hierarchy: the smallest box around a box, 0 when there is none.
ParentOf(boxes, n) ==
  LET around == {m \in DOMAIN boxes : m # n /\ Holds(boxes[m], boxes[n])} IN
  Least(around, [m \in around |-> Area(boxes[m])], 0)

\* infer_role_with_parent.  The rule for the topmost of several siblings asks
\* all of them to be the first, and never applies.
Kind(b, parent) ==
  LET bar == parent = 0 /\ b.h <= 4 /\ b.w > b.h
      below == b.y + b.h >= Rows - 2 IN
  CASE bar /\ b.y = 0 -> "toolbar"
    [] bar /\ b.y # 0 /\ below -> "footer"
    [] ~(bar /\ (b.y = 0 \/ below)) ->
         IF b.title # <<>> /\ 2 * Area(b) < Cols * Rows /\ parent # 0 THEN "dialog"
         ELSE IF b.h >= 6 /\ b.w <= 40 /\ b.h > b.w THEN "list"
         ELSE IF b.title # <<>> THEN "panel" ELSE "unknown"

\* assign_stable_ids: kind and title, and a number for those that share both.
RegionIds(boxes, kinds) ==
  LET base == [n \in DOMAIN boxes |-> <<kinds[n]>> \o boxes[n].title] IN
  [n \in DOMAIN boxes |->
     Numbered(base[n], Cardinality({m \in 1 .. n : base[m] = base[n]}))]

DetectRegions(scr) ==
  LET boxes == Boxes(scr)
      up == [n \in DOMAIN boxes |-> ParentOf(boxes, n)]
      kinds == [n \in DOMAIN boxes |-> Kind(boxes[n], up[n])]
      ids == RegionIds(boxes, kinds) IN
  [n \in DOMAIN boxes |->
    [id |-> ids[n], kind |-> kinds[n], title |-> boxes[n].title,
     box |-> [x |-> boxes[n].x, y |-> boxes[n].y, w |-> boxes[n].w, h |-> boxes[n].h],
     parent |-> IF up[n] = 0 THEN <<>> ELSE <<ids[up[n]]>>]]

-----------------------------------------------------------------------------
(* Controls and focus.                                                     *)

Around(box, x, y) == box.x <= x /\ x < box.x + box.w /\ box.y <= y /\ y < box.y + box.h

\* The smallest region around a point.
Smallest(regions, x, y) ==
  LET around == {n \in DOMAIN regions : Around(regions[n].box, x, y)} IN
  Least(around, [n \in around |-> Area(regions[n].box)], 0)

Mark(scr, n) == Moved(Layouts[scr.layout].marks[n], scr.shift)
Marks(scr) == DOMAIN Layouts[scr.layout].marks

\* detect_controls: each control is bound to the region around its first
\* cell, and its id is the path of that region, its kind and its label, with
\* a number for those that share them.
DetectControls(scr, regions) ==
  LET inside == [n \in Marks(scr) |-> Smallest(regions, Mark(scr, n).x, Mark(scr, n).y)]
      region == [n \in Marks(scr) |-> IF inside[n] = 0 THEN <<>> ELSE <<regions[inside[n]].id>>]
      base == [n \in Marks(scr) |-> Flat(region[n]) \o <<Mark(scr, n).kind, Mark(scr, n).label>>] IN
  [n \in Marks(scr) |->
    [id |-> Numbered(base[n], Cardinality({m \in 1 .. n : base[m] = base[n]})),
     kind |-> Mark(scr, n).kind, label |-> Mark(scr, n).label, region |-> region[n],
     box |-> [x |-> Mark(scr, n).x, y |-> Mark(scr, n).y, w |-> Mark(scr, n).w, h |-> 1],
     focused |-> FALSE, enabled |-> TRUE, source |-> "inferred"]]

CellsOf(box) == (box.x .. box.x + box.w - 1) \X (box.y .. box.y + box.h - 1)
MarkCells(scr, n) == IF n = 0 THEN {} ELSE CellsOf(Mark(scr, n))
\* A row of the list in reverse video is lit over the width of the list.
RowCells(scr, n) ==
  IF n = 0 THEN {}
  ELSE LET l == Moved(Layouts[scr.layout].list[1], scr.shift) IN
       (l.x .. l.x + l.w - 1) \X {l.y + n - 1}
Lit(scr) == MarkCells(scr, scr.lit) \cup RowCells(scr, scr.row)
Dim(scr) == MarkCells(scr, scr.dim)

Focusable(kind) == kind \in {"button", "field"}

\* infer_focus: the first lit cell, in the order of the rows, that lies on a
\* control that can have the focus, else the control under the cursor.
InferFocus(scr, controls) ==
  LET at(cell) == First({n \in DOMAIN controls : cell \in CellsOf(controls[n].box)}, 0)
      found == {cell \in Lit(scr) : at(cell) # 0 /\ Focusable(controls[at(cell)].kind)}
      first == First({at(c) : c \in {c \in found : \A d \in found :
                        c[2] < d[2] \/ (c[2] = d[2] /\ c[1] <= d[1])}}, 0)
      n == IF first # 0 THEN first ELSE at(scr.cursor) IN
  IF n = 0 THEN <<>> ELSE <<controls[n].id>>

\* infer_enabled: a control is disabled when all its cells are dim.
Enabled(scr, control) == ~ CellsOf(control.box) \subseteq Dim(scr)

\* field_cursor.
CursorIn(scr, control) == control.kind = "field" /\ scr.cursor \in CellsOf(control.box)

\* infer_affordances: a button can be activated, a control with a shortcut has
\* its key, and the keys of the hint line belong to no control.
InferActs(scr, controls) ==
  {[on |-> controls[n].id, verb |-> "activate", source |-> "inferred"] :
     n \in {m \in DOMAIN controls : controls[m].kind = "button"}}
    \cup {[on |-> controls[n].id, verb |-> "key", source |-> "inferred"] :
             n \in {m \in DOMAIN controls : Mark(scr, m).hot}}
    \cup {[on |-> <<>>, verb |-> key, source |-> "inferred"] : key \in Layouts[scr.layout].hints}

-----------------------------------------------------------------------------
(* The semantic tree: a node for each id; "under" is the node it hangs on, *)
(* "parent" the parent it names.                                           *)

Node(under, parent, role, box, label) ==
  [under |-> under, parent |-> parent, role |-> role, box |-> box, label |-> label,
   focused |-> FALSE, enabled |-> TRUE, cursor |-> FALSE, selected |-> FALSE,
   acts |-> {}, native |-> {}]

\* nest_regions: the regions are taken in their order, and each is put under
\* its parent when the parent is still waiting, else under the root.  One pass
\* places all of them.
NestRegions(regions) ==
  FoldLeft(LAMBDA s, r :
             [waiting |-> s.waiting \ {r.id},
              under |-> (r.id :> IF r.parent # <<>> /\ r.parent[1] \in s.waiting THEN r.parent
                                 ELSE <<>>) @@ s.under],
           [waiting |-> {regions[n].id : n \in DOMAIN regions}, under |-> <<>>],
           regions).under

UnderOr(parent) == IF parent = <<>> THEN Root ELSE parent[1]

RegionNodes(regions) ==
  LET up == NestRegions(regions) IN
  [id \in {regions[n].id : n \in DOMAIN regions} |->
     LET r == regions[CHOOSE n \in DOMAIN regions : regions[n].id = id] IN
     Node(UnderOr(up[id]), up[id], r.kind, r.box, r.title)]

ControlNodes(scr, controls, focus) ==
  [id \in {controls[n].id : n \in DOMAIN controls} |->
     LET c == controls[CHOOSE n \in DOMAIN controls : controls[n].id = id] IN
     [Node(UnderOr(c.region), c.region, c.kind, c.box, <<c.label>>) EXCEPT
        !.focused = (focus = <<id>>), !.enabled = Enabled(scr, c), !.cursor = CursorIn(scr, c),
        !.acts = {a \in InferActs(scr, controls) : a.on = id}]]

\* The list widget hangs on the smallest region around its middle; a row is
\* selected when it holds reverse video.
WidgetNodes(scr, regions) ==
  IF Layouts[scr.layout].list = <<>> THEN <<>>
  ELSE LET l == Moved(Layouts[scr.layout].list[1], scr.shift)
           n == Smallest(regions, l.x + l.w \div 2, l.y + l.h \div 2)
           up == IF n = 0 THEN <<>> ELSE <<regions[n].id>> IN
       (ListId :> Node(UnderOr(up), up, "list", l, <<>>))
         @@ [id \in {Item(k) : k \in 1 .. l.h} |->
               LET k == CHOOSE k \in 1 .. l.h : Item(k) = id IN
               [Node(ListId, <<ListId>>, "item", [l EXCEPT !.y = @ + k - 1, !.h = 1], <<>>) EXCEPT
                  !.selected = \E cell \in Lit(scr) : cell[2] = l.y + k - 1]]

BuildTree(scr, regions, controls, focus) ==
  (Root :> Node(<<>>, <<>>, "screen", [x |-> 0, y |-> 0, w |-> Cols, h |-> Rows],
                Layouts[scr.layout].title))
    @@ RegionNodes(regions) @@ ControlNodes(scr, controls, focus) @@ WidgetNodes(scr, regions)

\* assign_layers: for what hangs on the root.
Layer(tree, id) ==
  LET n == tree[id]
      box == n.role \in {"panel", "unknown"} /\ n.label # <<>>
             /\ ~(n.box.w >= Cols - 1 /\ n.box.h >= Rows - 1)
             /\ 2 * n.box.w * n.box.h < Cols * Rows IN
  IF n.role = "dialog" \/ box THEN "modal"
  ELSE IF n.role \in {"toolbar", "footer"} THEN "status" ELSE "background"

\* layer_nodes of the modal layer.
Modals(tree) == {id \in DOMAIN tree : tree[id].under = Root /\ Layer(tree, id) = "modal"}

\* detect_frame: the flat screen and the tree, of one detection.
DetectFrame(scr) ==
  LET regions == DetectRegions(scr)
      controls == DetectControls(scr, regions)
      focus == InferFocus(scr, controls) IN
  [sem |-> [regions |-> regions, controls |-> controls, focus |-> focus,
            acts |-> InferActs(scr, controls)],
   tree |-> BuildTree(scr, regions, controls, focus)]

-----------------------------------------------------------------------------
(* The state tree and the relations.                                       *)

\* build_state_tree: a parent that was placed is found from the root; the
\* regions come largest first, so no orphan is left over.
StateNest(regions) ==
  FoldLeft(LAMBDA s, r :
             [waiting |-> s.waiting \ {r.id}, placed |-> s.placed \cup {r.id},
              under |-> (r.id :> IF r.parent # <<>> /\ r.parent[1] \in s.waiting \cup s.placed
                                 THEN r.parent ELSE <<>>) @@ s.under],
           [waiting |-> {regions[n].id : n \in DOMAIN regions}, placed |-> {}, under |-> <<>>],
           regions).under

\* all_relationships of two boxes: the edges are left and top inclusive,
\* right and bottom exclusive.
Relations(a, b) ==
  LET ar == a.x + a.w  ab == a.y + a.h  br == b.x + b.w  bb == b.y + b.h
      inside == Holds(b, a)
      crossing == a.x < br /\ b.x < ar
      level == a.y < bb /\ b.y < ab IN
  {k \in {"inside"} : inside}
    \cup {k \in {"above"} : ab <= b.y} \cup {k \in {"below"} : a.y >= bb}
    \cup {k \in {"left_of"} : ar <= b.x} \cup {k \in {"right_of"} : a.x >= br}
    \cup {k \in {"aligned_row"} : a.y <= bb /\ b.y <= ab}
    \cup {k \in {"aligned_column"} : a.x <= br /\ b.x <= ar}
    \cup {k \in {"overlapping"} : a # b /\ crossing /\ level /\ ~inside /\ ~Holds(a, b)}
    \cup {k \in {"adjacent"} : \/ (ab = b.y \/ bb = a.y) /\ crossing
                               \/ (ar = b.x \/ br = a.x) /\ level}

\* find_region_relationships.
RegionRelations(controls, regions) ==
  [pair \in (DOMAIN controls) \X (DOMAIN regions) |->
     Relations(controls[pair[1]].box, regions[pair[2]].box)]
=============================================================================
