------------------------------ MODULE RunGraphs ------------------------------
(***************************************************************************)
(* What a run knows of the states of an application and of the ways        *)
(* between them: the state graph and the focus graph of RunGraphs          *)
(* (src/run/graph_state.rs), fed by tui_act and by the explorers of        *)
(* tui_explore, read back as suggestions (src/exploration/candidates.rs),  *)
(* persisted with the run and restored from its directory.                 *)
(*                                                                         *)
(* A state is what its identity is made of, the content of the screen and  *)
(* the control that has the focus; two digests of it are equal when it is. *)
(* An action is <<"key", name>> or <<"click", control>>; an edge is        *)
(* <<from, to, action>>, and a graph is the bag of its edges.              *)
(***************************************************************************)
EXTENDS Naturals, Sequences, Bags

CONSTANTS
  Screens,   \* the states of the application: [content, focus]
  Controls,  \* its focusable controls
  Hints,     \* by content, the keys that the screen labels
  Declared,  \* the keys that the contract binds
  Typed,     \* the keys that an agent sends
  Order,     \* the actions in the order of their JSON text
  MaxActs,   \* bound: actions that are sent
  MaxCrashes \* bound: crashes of the server

VARIABLES
  tui,    \* the state of the application
  book,   \* the graphs of the run: [edges, moves]
  disk,   \* its directory: [form, edges] of state_graph.json, and the moves
  walk,   \* the exploration under way
  offers, \* the last guided candidates
  facts   \* what was really done: [edges, moves, acts, crashes]

graphVars == <<tui, book, disk, walk, offers, facts>>

None == "none"
Key(name) == <<"key", name>>
Click(id) == <<"click", id>>
Actions == {Order[n] : n \in DOMAIN Order}

\* The copies of an edge in a bag.
Count(edge, bag) == IF BagIn(edge, bag) THEN bag[edge] ELSE 0

-----------------------------------------------------------------------------
(* Names and risks.                                                        *)

\* Spellings that parse_key accepts and signature writes otherwise.
Spellings ==
  [esc |-> "escape", space |-> " ", pgup |-> "pageup", pgdn |-> "pagedown",
   del |-> "delete", ins |-> "insert"]
Signature(action) ==
  IF action[1] = "key" /\ action[2] \in DOMAIN Spellings THEN Key(Spellings[action[2]])
  ELSE action

DefaultKeys == {"tab", "shift+tab", "down", "up", "enter", "escape"}

Pool == {"tab", "down", "enter", "escape", "space"}

\* classify_key_with: escape is unknown unless it is declared.
Risks == [safe |-> 0, mutating |-> 1, unknown |-> 4]
ClassifyKey(name, declared) ==
  CASE name \in {"enter", "space"} -> "mutating"
    [] name = "escape" -> IF declared THEN "mutating" ELSE "unknown"
    [] OTHER -> "safe"

-----------------------------------------------------------------------------
(* suggest.                                                                *)

\* action_taken_from, by the name as it is spelt.
Taken(edges, state, action) == \E s \in Screens : BagIn(<<state, s, action>>, edges)

Candidate(action, source, risk) == [action |-> action, source |-> source, risk |-> risk]

\* Candidates of the four sources.
Evidence(state, edges, history, coverage) ==
  LET New(k) == ~Taken(edges, state, Key(k)) IN
  {Candidate(Key(k), "graph", ClassifyKey(k, k \in Declared)) : k \in {d \in DefaultKeys : New(d)}}
  \cup {Candidate(Key(k), "contract", "mutating") :
          k \in {d \in Declared : New(d) /\ d \notin history}}
  \cup {Candidate(Key(k), "affordance", "mutating") :
          k \in {h \in Hints[state.content] : New(h)}}
  \cup {Candidate(Click(c), "coverage", "mutating") : c \in Controls \ coverage}

\* Mutant: the first source of an action decides its risk.
DedupFirst(cs) ==
  {[action |-> c.action, sources |-> {d.source : d \in {e \in cs : e.action = c.action}},
    risk |-> IF \E d \in cs : d.action = c.action /\ d.source = "graph"
             THEN (CHOOSE d \in cs : d.action = c.action /\ d.source = "graph").risk
             ELSE c.risk] : c \in cs}

\* The sources of one action are merged, and its highest risk stands.
Dedup(cs) ==
  {[action |-> c.action, sources |-> {d.source : d \in {e \in cs : e.action = c.action}},
    risk |-> (CHOOSE d \in cs : /\ d.action = c.action
                                /\ \A e \in cs : e.action = c.action =>
                                     Risks[e.risk] <= Risks[d.risk]).risk] : c \in cs}

Suggest(state, edges, history, coverage, allowed) ==
  {c \in Dedup(Evidence(state, edges, history, coverage)) : Risks[c.risk] <= Risks[allowed]}

\* The order of the list: by risk, then by the text of the action.
At(action) == CHOOSE n \in DOMAIN Order : Order[n] = action
Before(c, d) ==
  \/ Risks[c.risk] < Risks[d.risk]
  \/ Risks[c.risk] = Risks[d.risk] /\ At(c.action) <= At(d.action)
First(cs) == CHOOSE c \in cs : \A d \in cs : Before(c, d)

-----------------------------------------------------------------------------
(* The graphs.                                                             *)

\* FocusGraph::transition: a move needs two ends, and they differ.
Move(from, to, via) ==
  IF from.focus = None \/ to.focus = None \/ from.focus = to.focus THEN EmptyBag
  ELSE SetToBag({<<from.focus, to.focus, via>>})

\* The controls that are nodes of a focus graph.
Nodes(moves) == UNION {{e[1], e[2]} : e \in BagToSet(moves)}

\* Mutant: an edge that is new is cloned with its count, and counted again.
MergeAgain(mine, theirs) ==
  LET new == {e \in BagToSet(theirs) : ~BagIn(e, mine)} IN
  mine (+) theirs (+) [e \in new |-> theirs[e]]

\* merge: counts of equal edges add up.
Merge(mine, theirs) == mine (+) theirs

\* export, and the document that the random explorer writes.
Export(edges) == [form |-> "export", edges |-> edges]
Bare == [form |-> "bare", edges |-> EmptyBag]

\* from_export: a document with no list of transitions gives an empty graph.
FromExport(doc) == IF doc.form = "export" THEN doc.edges ELSE EmptyBag

NoWalk ==
  [mode |-> None, allowed |-> "safe", edges |-> EmptyBag, moves |-> EmptyBag,
   history |-> {}, last |-> <<>>]

Init ==
  /\ tui \in Screens
  /\ book = [edges |-> EmptyBag, moves |-> EmptyBag]
  /\ disk = [states |-> [form |-> None, edges |-> EmptyBag], moves |-> EmptyBag]
  /\ walk = NoWalk /\ offers = {}
  /\ facts = [edges |-> EmptyBag, moves |-> EmptyBag, acts |-> 0, crashes |-> 0]

-----------------------------------------------------------------------------

\* An action is sent and its transaction is committed to the ledger, which
\* takes the move of the focus from it.
Send(action, after) ==
  LET via == Signature(action) IN
  /\ facts.acts < MaxActs
  /\ tui' = after
  /\ book' = [book EXCEPT !.moves = @ (+) Move(tui, after, via)]
  /\ facts' = [facts EXCEPT !.edges = @ (+) SetToBag({<<tui, after, via>>}),
                            !.moves = @ (+) Move(tui, after, via),
                            !.acts = @ + 1]

\* tui_act
Act ==
  /\ walk.mode = None
  /\ \E k \in Typed, after \in Screens : Send(Key(k), after)
  /\ UNCHANGED <<disk, walk, offers>>

\* tui_explore: an exploration starts.
Explore ==
  /\ walk.mode = None
  /\ \E mode \in {"random", "semantic"}, allowed \in {"safe", "mutating"} :
       walk' = [NoWalk EXCEPT !.mode = mode, !.allowed = allowed]
  /\ UNCHANGED <<tui, book, disk, offers, facts>>

\* One action of a walk; the semantic one keeps focus moves of its own.
Walked(action, after) ==
  /\ Send(action, after)
  /\ walk' = [walk EXCEPT
       !.edges = @ (+) SetToBag({<<tui, after, Signature(action)>>}),
       !.moves = IF walk.mode = "semantic" THEN @ (+) Move(tui, after, Signature(action)) ELSE @,
       !.history = @ \cup {Signature(action)[2]},
       !.last = <<tui, action>>]
  /\ UNCHANGED <<disk, offers>>

\* The random explorer presses a key of its pool.
RandomStep ==
  /\ walk.mode = "random"
  /\ \E k \in Pool, after \in Screens :
       Risks[ClassifyKey(k, FALSE)] <= Risks[walk.allowed] /\ Walked(Key(k), after)

\* What the semantic explorer may do next: it knows only its own walk.
Choices == Suggest(tui, walk.edges, walk.history, Nodes(walk.moves), walk.allowed)

SemanticStep ==
  /\ walk.mode = "semantic" /\ Choices # {}
  /\ \E after \in Screens : Walked(First(Choices).action, after)

\* The random walk ends: its steps are recorded, and the graph is written.
FinishRandom ==
  /\ walk.mode = "random" /\ walk' = NoWalk
  /\ book' = [book EXCEPT !.edges = @ (+) walk.edges]
  /\ disk' = [disk EXCEPT !.states = Bare]
  /\ UNCHANGED <<tui, offers, facts>>

\* The semantic walk ends: its graphs are merged into those of the run.
FinishSemantic ==
  /\ walk.mode = "semantic" /\ walk' = NoWalk
  /\ book' = [edges |-> Merge(book.edges, walk.edges), moves |-> Merge(book.moves, walk.moves)]
  /\ UNCHANGED <<tui, disk, offers, facts>>

\* An observation or a key fails: the call ends, its graphs go with it.
Fail ==
  /\ walk.mode # None /\ walk' = NoWalk
  /\ UNCHANGED <<tui, book, disk, offers, facts>>

\* guided_candidates: the history is the kind of each transaction.
Guide ==
  /\ walk.mode = None
  /\ \E allowed \in {"safe", "mutating"} :
       offers' = Suggest(tui, book.edges, {e[3][1] : e \in BagToSet(facts.edges)},
                         Nodes(book.moves), allowed)
  /\ UNCHANGED <<tui, book, disk, walk, facts>>

\* tui_run persist: it needs the run, not the session.
Persist ==
  /\ disk' = [states |-> Export(book.edges), moves |-> book.moves]
  /\ UNCHANGED <<tui, book, walk, offers, facts>>

\* The server dies and the run is resumed; the application is started anew.
Resume ==
  /\ facts.crashes < MaxCrashes
  /\ book' = [edges |-> FromExport(disk.states), moves |-> disk.moves]
  /\ tui' \in Screens
  /\ walk' = NoWalk /\ offers' = {}
  /\ facts' = [facts EXCEPT !.crashes = @ + 1]
  /\ UNCHANGED disk

Next ==
  \/ Act \/ Explore \/ RandomStep \/ SemanticStep \/ FinishRandom \/ FinishSemantic
  \/ Fail \/ Guide \/ Persist \/ Resume

Spec == Init /\ [][Next]_graphVars

-----------------------------------------------------------------------------
(* Properties.                                                             *)

\* The graphs have their types.
TypeOK ==
  /\ tui \in Screens
  /\ \A g \in {book.edges, walk.edges, disk.states.edges} : IsABag(g)
  /\ BagToSet(book.edges) \subseteq Screens \X Screens \X {Signature(a) : a \in Actions}
  /\ Nodes(book.moves) \subseteq Controls
  /\ walk.mode \in {None, "random", "semantic"}

\* state_graph.rs, from_export: "the restore never invents counts".  However
\* walks were merged, persisted, lost and restored, the run counts a way
\* between two states at most as often as it was really gone.
CountsHonest ==
  \A e \in BagToSet(book.edges) : Count(e, book.edges) <= Count(e, facts.edges)

\* candidates.rs, the risk gate: a walk that may only do what is safe presses
\* no key that the screen it is on, or the contract, gives a meaning.
FenceHolds ==
  (walk.mode = "semantic" /\ walk.allowed = "safe" /\ walk.last # <<>>) =>
    LET state == walk.last[1]
        action == walk.last[2] IN
    /\ action[1] = "key" /\ action[2] \notin {"enter", "escape"}
    /\ action[2] \notin Declared \cup Hints[state.content]

\* explore.rs:202, "Persist the graph when the run is persistent": what is
\* written of the graph is what a resume will find.
WrittenIsRestorable ==
  disk'.states # disk.states =>
    BagToSet(FromExport(disk'.states)) = BagToSet(book'.edges)

\* focus_graph.rs, FocusEdge: an edge counts the transitions that were seen.
MovesCountedOnce ==
  \A e \in BagToSet(book.moves) : Count(e, book.moves) <= Count(e, facts.moves)

\* candidates.rs:207, a declared key is offered as never exercised in this
\* run when it was not.
DeclaredIsNew ==
  \A c \in offers :
    "contract" \in c.sources => ~\E e \in BagToSet(facts.edges) : e[3] = Signature(c.action)
=============================================================================
