-------------------------- MODULE SemanticFusion --------------------------
(* The fused frame (src/semantic/mod.rs: fuse, reapply_interaction;        *)
(* cache.rs; native.rs: overlay_fused).  Detection is served from a cache  *)
(* whose key is the structure hash, the interaction state is derived again *)
(* from the frame at hand, and what the application declares about its     *)
(* widgets is written over the result, node by node, into both shapes: the *)
(* tree of the nodes mode and the flat screen of the other modes.          *)
(*                                                                         *)
(* The application paints screens and declares a frame of native nodes;    *)
(* the harness fuses.  The loop over the native nodes is one step each.    *)
EXTENDS ScreenTree

CONSTANTS
  Views,      \* the screens that are painted
  Frames,     \* the frames that are declared: sequences of native nodes
  CacheCap,   \* MAX_ENTRIES
  MaxPaints   \* bound of the model: screens that are painted

VARIABLES
  view,    \* the last screen
  cache,   \* the entries: [key, sem, tree], the oldest first
  native,  \* the latest snapshot, flattened
  frame,   \* the fused frame in the making: [pc, n, sem, tree, hit]
  report,  \* the overlay report: [landed, only, ambiguous]
  paints

vars == <<view, cache, native, frame, report, paints>>

NoReport == [landed |-> <<>>, only |-> <<>>, ambiguous |-> <<>>]
NoFrame == [pc |-> "idle", n |-> 1, sem |-> <<>>, tree |-> <<>>, hit |-> FALSE]

Init ==
  /\ view \in Views /\ cache = <<>> /\ native = <<>>
  /\ frame = NoFrame /\ report = NoReport /\ paints = 1

\* structure_hash: the text of each row without the blanks around it.  Colours,
\* reverse video, the cursor and how far the rows are indented are not in it.
Key(scr) == scr.layout

-----------------------------------------------------------------------------
(* The cache.                                                              *)

\* enforce_retention: over the cap only the last two entries stay, the newest
\* first.
Retained(entries) ==
  IF Len(entries) <= CacheCap THEN entries
  ELSE <<entries[Len(entries)], entries[Len(entries) - 1]>>

\* cached_detect and insert.
HitAt(key) == First({n \in DOMAIN cache : cache[n].key = key}, 0)

\* Mutant: the interaction state is served with the skeleton.
InteractionServed(scr, found) == found

\* reapply_interaction and refresh_tree_state: focus and enabled are derived
\* from the frame over the controls that were served, in the flat screen and
\* on their nodes; a cursor is set where it is and never taken away.
Interaction(scr, found) ==
  LET focus == InferFocus(scr, found.sem.controls)
      control(id) == {c \in Range(found.sem.controls) : c.id = id}
      again(c) == [c EXCEPT !.focused = (focus = <<c.id>>), !.enabled = Enabled(scr, c)] IN
  [sem |-> [found.sem EXCEPT
      !.focus = focus, !.controls = [n \in DOMAIN @ |-> again(@[n])]],
   tree |-> [id \in DOMAIN found.tree |->
      IF control(id) = {} THEN found.tree[id]
      ELSE LET c == CHOOSE c \in control(id) : TRUE IN
           [found.tree[id] EXCEPT !.focused = (focus = <<id>>), !.enabled = Enabled(scr, c),
                                  !.cursor = @ \/ CursorIn(scr, c)]]]

\* fuse, up to the overlay.
Detect ==
  LET n == HitAt(Key(view))
      found == IF n = 0 THEN DetectFrame(view)
               ELSE [sem |-> cache[n].sem, tree |-> cache[n].tree]
      fresh == Interaction(view, found) IN
  /\ frame.pc = "idle"
  /\ frame' = [pc |-> IF native = <<>> THEN "done" ELSE "overlay", n |-> 1,
               sem |-> fresh.sem, tree |-> fresh.tree, hit |-> n # 0]
  /\ cache' = IF n # 0 THEN cache
              ELSE Retained(Append(cache, [key |-> Key(view), sem |-> found.sem,
                                           tree |-> found.tree]))
  /\ report' = NoReport
  /\ UNCHANGED <<view, native, paints>>

-----------------------------------------------------------------------------
(* The overlay of one native node.                                         *)

SuffixHits(tree, nat) == {id \in DOMAIN tree : Last(id) = nat.want}
LabelHits(tree, nat) ==
  IF nat.label = <<>> THEN {} ELSE {id \in DOMAIN tree : tree[id].label = nat.label}

\* resolve_node: the same id, else the one node with that last segment, else
\* the one node with that label.
Resolve(tree, nat) ==
  IF nat.id \in DOMAIN tree THEN {nat.id}
  ELSE IF Cardinality(SuffixHits(tree, nat)) = 1 THEN SuffixHits(tree, nat)
  ELSE IF Cardinality(LabelHits(tree, nat)) = 1 THEN LabelHits(tree, nat) ELSE {}

\* collect_ambiguous_ids.
Competing(tree, nat) ==
  IF nat.id \in DOMAIN tree THEN {}
  ELSE IF Cardinality(SuffixHits(tree, nat)) > 1 THEN SuffixHits(tree, nat)
  ELSE IF Cardinality(LabelHits(tree, nat)) > 1 THEN LabelHits(tree, nat) ELSE {}

Sure(flag) == flag = <<TRUE>>
Said(flag, old) == IF flag = <<>> THEN old ELSE flag[1]
DeclaredOn(nat, id) == {[on |-> id, verb |-> v, source |-> "native"] : v \in nat.acts}

\* A declared focus is set on the node and taken from all the others
\* (clear_tree_focus_except).
Focused(tree, nat, hit) ==
  IF ~Sure(nat.focused) THEN tree
  ELSE [id \in DOMAIN tree |-> [tree[id] EXCEPT !.focused = id \in hit]]

\* apply_native_actions: native verbs of before go, and an inferred activation
\* that is not among the verbs.
ActsOf(node, nat, id) ==
  {a \in node.acts : /\ a.source # "native"
                     /\ a.verb = "activate" => nat.acts = {} \/ "activate" \in nat.acts}
    \cup DeclaredOn(nat, id)

\* apply_native_facts.
Facts(node, nat, id) ==
  [node EXCEPT !.role = IF nat.role \in {"", "graph"} THEN @ ELSE nat.role,
               !.enabled = Said(nat.enabled, @),
               !.label = IF @ = <<>> THEN nat.label ELSE @,
               !.native = {nat.id}, !.acts = ActsOf(node, nat, id)]

\* The control with the id of the node gets the same.
ControlFacts(c, nat) ==
  [c EXCEPT !.focused = Said(nat.focused, @), !.enabled = Said(nat.enabled, @),
            !.kind = IF nat.role \in {"", "graph"} THEN @ ELSE nat.role,
            !.source = IF nat.role \notin {"", "graph"} \/ nat.enabled # <<>> THEN "native" ELSE @]

\* smallest_containing_id: the deepest node around the bounds, of those that
\* name a parent; the first in the order of the tree, here any.
Deepest(tree, box) ==
  LET around == {id \in DOMAIN tree :
        tree[id].parent # <<>> /\ (Holds(tree[id].box, box) \/ tree[id].box = box)}
      deepest == {id \in around : \A o \in around : tree[o].under # id} IN
  IF deepest = {} THEN Root ELSE CHOOSE id \in deepest : TRUE

\* native_to_semantic_node and native_node_to_control: a role outside the
\* vocabulary stays unknown.
RoleOf(nat) == IF nat.role \in {"", "graph"} THEN "unknown" ELSE nat.role
NativeNode(tree, nat) ==
  [Node(Deepest(tree, nat.box[1]), <<Deepest(tree, nat.box[1])>>, RoleOf(nat), nat.box[1],
        nat.label) EXCEPT
     !.focused = Sure(nat.focused), !.enabled = Said(nat.enabled, TRUE), !.native = {nat.id}]
NativeControl(nat) ==
  [id |-> nat.id, kind |-> RoleOf(nat),
   label |-> IF nat.label = <<>> THEN Last(nat.id) ELSE nat.label[1],
   region |-> <<>>, box |-> nat.box[1], focused |-> Sure(nat.focused),
   enabled |-> Said(nat.enabled, TRUE), source |-> "native"]

\* One round of the loop of overlay_fused.
Overlay ==
  LET nat == native[frame.n]
      hit == Resolve(frame.tree, nat)
      tree == Focused(frame.tree, nat, hit)
      focus == IF ~Sure(nat.focused) THEN frame.sem.focus
               ELSE IF hit = {} THEN <<nat.id>> ELSE <<CHOOSE id \in hit : TRUE>>
      sem == [frame.sem EXCEPT !.focus = focus]
      next(s, t) == [frame EXCEPT !.n = @ + 1, !.sem = s, !.tree = t] IN
  /\ frame.pc = "overlay" /\ frame.n <= Len(native)
  /\ IF hit # {} THEN
       LET id == CHOOSE id \in hit : TRUE IN
       /\ frame' = next([sem EXCEPT
            !.controls = [n \in DOMAIN @ |-> IF @[n].id = id THEN ControlFacts(@[n], nat) ELSE @[n]],
            !.acts = IF nat.acts = {} THEN @ ELSE {a \in @ : a.on # id} \cup DeclaredOn(nat, id)],
            [tree EXCEPT ![id] = Facts(@, nat, id)])
       /\ report' = [report EXCEPT !.landed = Append(@, [nat |-> nat, on |-> id])]
     ELSE
       /\ report' = [report EXCEPT
            !.only = Append(@, nat.id),
            !.ambiguous = IF Competing(frame.tree, nat) = {} THEN @ ELSE Append(@, nat.id)]
       /\ frame' = IF nat.box = <<>> THEN next(sem, tree)
                   ELSE next([sem EXCEPT !.controls = Append(@, NativeControl(nat)),
                                         !.acts = @ \cup DeclaredOn(nat, nat.id)],
                             (nat.id :> NativeNode(tree, nat)) @@ tree)
  /\ UNCHANGED <<view, cache, native, paints>>

Unfocused(control) == [control EXCEPT !.focused = FALSE]

\* After the loop every control but the one in focus loses its focus, when
\* some node declared one.
Exclusive ==
  LET some == \E n \in DOMAIN native : Sure(native[n].focused) IN
  /\ frame.pc = "overlay" /\ frame.n > Len(native)
  /\ frame' = [frame EXCEPT
       !.pc = "done",
       !.sem.controls = [n \in DOMAIN @ |->
         IF some /\ frame.sem.focus # <<@[n].id>> THEN Unfocused(@[n]) ELSE @[n]]]
  /\ UNCHANGED <<view, cache, native, report, paints>>

-----------------------------------------------------------------------------
(* The application.                                                        *)

Paint ==
  /\ frame.pc \in {"idle", "done"} /\ paints < MaxPaints /\ native = <<>>
  /\ view' \in Views \ {view} /\ paints' = paints + 1
  /\ frame' = NoFrame /\ UNCHANGED <<cache, native, report>>

Declare ==
  /\ frame.pc \in {"idle", "done"} /\ native = <<>>
  /\ native' \in Frames
  /\ frame' = NoFrame /\ UNCHANGED <<view, cache, report, paints>>

Next == Detect \/ Overlay \/ Exclusive \/ Paint \/ Declare

Spec == Init /\ [][Next]_vars

-----------------------------------------------------------------------------
(* Properties.                                                             *)

TypeOK ==
  /\ view \in Views /\ native \in Frames \cup {<<>>} /\ paints \in 1 .. MaxPaints
  /\ Len(cache) <= CacheCap /\ frame.pc \in {"idle", "overlay", "done"}
  /\ Len(report.landed) + Len(report.only) <= Len(native)

\* What the detectors make of a layout: in the state tree a region lies under
\* exactly the regions whose boxes hold its box, a control is bound to the
\* innermost region around it, a dialog is a modal of the semantic tree however
\* deep it was drawn, and ids do not depend on where the screen was drawn
\* (regions.rs, assign_stable_ids: "stable, geometry-free"; controls.rs,
\* stable_id; conformance.rs, modal_open).
StructureSound ==
  frame.pc = "idle" /\ native = <<>> =>
  LET regions == DetectRegions(view)
      controls == DetectControls(view, regions)
      there == DetectRegions([view EXCEPT !.shift = 1 - @])
      related == RegionRelations(controls, regions)
      up == StateNest(regions)
      above[n \in 0 .. Len(regions)] ==
        IF n = 0 THEN [id \in DOMAIN up |-> Range(up[id])]
        ELSE [id \in DOMAIN up |-> above[n - 1][id] \cup UNION {Range(up[a]) : a \in above[n - 1][id]}] IN
  /\ \A n, m \in DOMAIN regions :
       regions[m].id \in above[Len(regions)][regions[n].id] <=> Holds(regions[m].box, regions[n].box)
  /\ \A n \in DOMAIN controls, m \in DOMAIN regions :
       "inside" \in related[n, m] =>
         /\ controls[n].region # <<>>
         /\ \A k \in DOMAIN regions : controls[n].region = <<regions[k].id>> =>
              m = k \/ Holds(regions[m].box, regions[k].box)
  /\ \A n \in DOMAIN regions :
       regions[n].kind = "dialog" => regions[n].id \in Modals(DetectFrame(view).tree)
  /\ \A n \in DOMAIN regions : regions[n].id = there[n].id
  /\ LET moved == DetectControls([view EXCEPT !.shift = 1 - @], there) IN
     \A n \in DOMAIN controls : controls[n].id = moved[n].id

\* A frame that was served from the cache has the focus and the enabled state
\* of the screen at hand, in both shapes, as long as its controls are where
\* they were (semantic/mod.rs, fuse: "a cached serve therefore re-applies the
\* interaction pass fresh").
InteractionFresh ==
  frame.pc = "done" /\ native = <<>> =>
    LET now == Interaction(view, DetectFrame(view)) IN
    (\A n \in DOMAIN now.sem.controls : frame.sem.controls[n].box = now.sem.controls[n].box) =>
      /\ frame.sem.focus = now.sem.focus /\ frame.sem.controls = now.sem.controls
      /\ \A c \in Range(now.sem.controls) :
           frame.tree[c.id].focused = c.focused /\ frame.tree[c.id].enabled = c.enabled

\* When the application declares the focus, nothing else has it in either
\* shape, whatever was inferred and whichever nodes it also declared
\* (native.rs, overlay_fused: focus is exclusive).
OneFocus ==
  (frame.pc = "done" /\ \E n \in DOMAIN native : Sure(native[n].focused)) =>
    /\ {id \in DOMAIN frame.tree : frame.tree[id].focused} \subseteq Range(frame.sem.focus)
    /\ {c.id : c \in {d \in Range(frame.sem.controls) : d.focused}} \subseteq Range(frame.sem.focus)

\* A declaration that lands on a node of the screen lands on the only one that
\* it can mean: no other node of the screen has the same key, or, when none
\* has its key, the same label (native.rs, resolve_node: "every relaxed key is
\* uniqueness-checked").
LandsOnOne ==
  frame.pc = "done" /\ report.landed # <<>> =>
    LET tree == DetectFrame(view).tree IN
    \A l \in Range(report.landed) : l.on \in DOMAIN tree =>
      IF Last(l.on) = l.nat.want
      THEN \A id \in DOMAIN tree : Last(id) = l.nat.want => id = l.on
      ELSE /\ frame.tree[l.on].label = l.nat.label
           /\ \A id \in DOMAIN tree : tree[id].label = l.nat.label => id = l.on

\* An activation that the application does not list among the verbs of a
\* widget is offered for it in neither shape (native.rs, apply_native_actions).
OnlyDeclaredVerbs ==
  frame.pc = "done" =>
    \A l \in Range(report.landed) :
      LET ours == {m \in Range(report.landed) : m.on = l.on /\ m.nat.acts # {}}
          offered == frame.tree[l.on].acts \cup frame.sem.acts IN
      (\A m \in ours : "activate" \notin m.nat.acts) /\ ours # {} =>
        \A a \in offered : a.on = l.on => a.verb # "activate"

-----------------------------------------------------------------------------
(* Statements of the repository that the code does not keep; no run checks *)
(* them.                                                                   *)

\* cache.rs says that an unchanged structure hash means the same structure, so
\* that what is served is never stale.  The selected row of a list is drawn in
\* reverse video and an indented screen has the same trimmed rows: both are
\* served as they were.
FusedIsFresh ==
  frame.pc = "done" /\ native = <<>> =>
    [sem |-> frame.sem, tree |-> frame.tree] = Interaction(view, DetectFrame(view))

\* tree_builder.rs says that regions are nested under their parents.  The
\* regions come largest first, so a parent has always left the waiting ones
\* before its children are taken, and every region hangs on the root.
RegionsNested ==
  frame.pc = "done" =>
    \A n \in DOMAIN frame.sem.regions :
      frame.tree[frame.sem.regions[n].id].parent = frame.sem.regions[n].parent

\* native.rs says that every observe mode reports the same truth.  A widget
\* that is declared not to be in focus loses the focus in the flat screen only.
ShapesAgree ==
  frame.pc = "done" =>
    \A c \in Range(frame.sem.controls) : frame.tree[c.id].focused = c.focused

\* native.rs says that a label is trusted when exactly one inferred node has
\* it.  A native node that was inserted a step before is found by its label
\* too, and two widgets become one.
EachItsOwn ==
  \A l, m \in Range(report.landed) : l.on = m.on => l.nat.id = m.nat.id
=============================================================================
