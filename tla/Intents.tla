-------------------------------- MODULE Intents --------------------------------
(***************************************************************************)
(* tui_intent (handlers/interact.rs, intent/, mcp/ownership.rs): a control *)
(* and a verb are resolved on a frame into a plan, the plan is shown under *)
(* an id, and a second call executes the plan of that id, if the same      *)
(* request still resolves to it.  The payloads of most verbs go to the     *)
(* control with the focus, so that their plans move the focus along edges  *)
(* of the run's focus graph and check it before the payload.               *)
(*                                                                         *)
(* The application is the environment: it answers keys, and by itself      *)
(* moves its focus, its controls and their labels at any time.             *)
(***************************************************************************)
EXTENDS Naturals, Sequences, FiniteSets

CONSTANTS
  Sessions,
  Controls,     \* ids of the controls, in the order of Tab
  KindOf,       \* the kind of each control
  Focusable,    \* the controls that Tab reaches
  Homes,        \* the labels at first
  Labels,       \* the labels a control may take
  Holds,        \* pairs of a label and a text it contains
  Destructive,  \* labels with a word like "delete"
  External,     \* labels with a word like "send"
  Targets,      \* how a request names a control
  Verbs,        \* the verbs asked for
  PlanCap,      \* plans the store keeps (64)
  MaxHops,      \* moves of one plan (32)
  MaxPlans, MaxCalls, MaxDrifts, MaxTabs, \* bounds
  Nowhere       \* no control

VARIABLES
  app,    \* of each session: the control with the focus, rows and labels
  last,   \* of each session: the frame observed last, if any
  graph,  \* the edges of the focus graph in the order they were first seen
  plans,  \* the stored plans, oldest first
  shown,  \* every plan that was shown, by its number
  spent,  \* how often each was executed
  call,   \* the execution under way
  sent,   \* the payload of the last execution, if it was sent
  lease,  \* a human holds the input of the sessions
  bounds  \* what is left of the bounds

intentVars == <<app, last, graph, plans, shown, spent, call, sent, lease, bounds>>

Range1(s) == {s[n] : n \in DOMAIN s}

\* The elements of a sequence that are in a set, in their order.
Kept(s, S) ==
  LET kept[n \in 0 .. Len(s)] ==
        IF n = 0 THEN <<>> ELSE IF s[n] \in S THEN Append(kept[n - 1], s[n]) ELSE kept[n - 1]
  IN  kept[Len(s)]

Ids == Range1(Controls)
None == <<>>  \* else a sequence of one
NoCall == [pc |-> "no"]
Risks == {"safe", "mutating", "destructive", "external", "unknown"}

Init ==
  /\ app = [s \in Sessions |-> [focus |-> Controls[1], row |-> [c \in Ids |-> c], label |-> Homes]]
  /\ last = [s \in Sessions |-> None] /\ graph = <<>> /\ plans = <<>> /\ shown = <<>> /\ spent = <<>>
  /\ call = NoCall /\ sent = None /\ lease = FALSE
  /\ bounds = [calls |-> MaxCalls, drifts |-> MaxDrifts, tabs |-> MaxTabs]

TypeOK ==
  /\ \A s \in Sessions : app[s].focus \in Ids \cup {Nowhere} /\ app[s].row \in [Ids -> Ids]
  /\ Len(plans) <= PlanCap /\ Len(shown) <= MaxPlans /\ DOMAIN spent = DOMAIN shown
  /\ call.pc \in {"no", "fresh", "check", "send", "settle"}
  /\ \A n \in DOMAIN graph : graph[n].via \in {"tab", "shift+tab"}

-----------------------------------------------------------------------------
(* Resolution, risk and plan.                                              *)

\* The controls that a target names on a frame: an exact label goes before
\* the labels that contain the text.
Named(frame, target) ==
  LET Exact == {c \in Ids : frame.label[c] = target.text}
      Part == {c \in Ids : <<frame.label[c], target.text>> \in Holds} IN
  CASE target.by = "id" -> {target.id} \cap Ids
    [] target.by = "text" -> IF Exact # {} THEN Exact ELSE Part
    [] target.by = "role" -> {c \in Part : KindOf[c] = target.role}
    [] target.by = "focused" -> {frame.focus} \cap Ids

Rank(risk) ==
  CASE risk = "safe" -> 1 [] risk = "mutating" -> 2 [] risk = "destructive" -> 3
    [] risk = "external" -> 4 [] risk = "unknown" -> 5

ClassifyRisk(verb, label) ==
  CASE verb = "focus" -> "safe"
    [] verb # "focus" /\ label \in Destructive -> "destructive"
    [] verb # "focus" /\ label \in External \ Destructive -> "external"
    [] OTHER -> "mutating"

NeedsConfirmation(risk) == risk \in {"destructive", "external", "unknown"}

\* plan_action: the kinds a verb applies to, and the one input it sends.
Applies(verb, kind) ==
  CASE verb \in {"click", "activate"} -> TRUE
    [] verb = "toggle" -> kind \in {"checkbox", "radio"}
    [] verb = "select" -> kind \in {"list", "menu_item", "tab"}
    [] verb = "open" -> kind = "menu_item"
    [] verb = "type" -> kind = "field"
    [] OTHER -> FALSE

Payload(frame, verb, c) ==
  CASE verb = "click" -> [key |-> "click", row |-> frame.row[c]]
    [] verb = "toggle" -> [key |-> "space"]
    [] verb = "type" -> [key |-> "text"]
    [] OTHER -> [key |-> "enter"]

KeyVerbs == {"activate", "select", "open", "toggle"}

\* The ways through the graph, as places of edges in it; the search visits
\* the nodes in the order of the edges, so it finds the least shortest way.
Ways(from, to, hops) ==
  {way \in [1 .. hops -> DOMAIN graph] :
     /\ hops > 0 => graph[way[1]].from = from /\ graph[way[hops]].to = to
     /\ \A n \in 1 .. hops - 1 : graph[way[n]].to = graph[way[n + 1]].from}

Least(ways) ==
  CHOOSE w \in ways : \A v \in ways \ {w} :
    \E n \in DOMAIN w : w[n] < v[n] /\ \A k \in 1 .. n - 1 : w[k] = v[k]

\* Mutant: a step back is taken for a step on.
RouteBlind(from, to) ==
  LET hops == {h \in 1 .. Cardinality(Ids) - 1 : Ways(from, to, h) # {}} IN
  IF hops = {} THEN None
  ELSE <<[n \in 1 .. (CHOOSE h \in hops : \A k \in hops : h <= k) |-> "tab"]>>

\* route_hops: a shortest sequence of moves that were seen before, if any.
Route(from, to) ==
  LET hops == {h \in 1 .. Cardinality(Ids) - 1 : Ways(from, to, h) # {}} IN
  IF hops = {} THEN None
  ELSE LET way == Least(Ways(from, to, CHOOSE h \in hops : \A k \in hops : h <= k)) IN
       <<[n \in DOMAIN way |-> graph[way[n]].via]>>

MoveFocus(key) == [step |-> "move", key |-> key]
AssertFocus == [step |-> "assert"]
Send(payload) == [step |-> "act", act |-> payload]

\* focus_route: none if nothing has the focus, or no way is known or it is
\* too long.
FocusRoute(frame, c) ==
  LET route == Route(frame.focus, c) IN
  CASE frame.focus = c -> <<<<AssertFocus>>>>
    [] frame.focus # c /\ (frame.focus = Nowhere \/ route = None) -> None
    [] OTHER -> IF Len(route[1]) > MaxHops THEN None
                ELSE <<[n \in DOMAIN route[1] |-> MoveFocus(route[1][n])] \o <<AssertFocus>>>>

\* plan_intent_with_graph: the plan, or none.
Plan(frame, target, verb) ==
  LET named == Named(frame, target)
      c == CHOOSE x \in named : TRUE
      act == <<Send(Payload(frame, verb, c))>>
      route == FocusRoute(frame, c)
      With(steps) == <<[control |-> c, verb |-> verb, risk |-> ClassifyRisk(verb, frame.label[c]), steps |-> steps]>> IN
  IF Cardinality(named) # 1 THEN None
  ELSE IF verb \in KeyVerbs \cup {"focus"}
  THEN IF c \notin Focusable \/ route = None \/ (verb # "focus" /\ ~Applies(verb, KindOf[c])) THEN None
       ELSE With(IF verb = "focus" THEN route[1] ELSE route[1] \o act)
  ELSE IF Applies(verb, KindOf[c]) THEN With(act) ELSE None

-----------------------------------------------------------------------------
(* The application.                                                        *)

Turn(focus, by) ==
  LET order == Kept(Controls, Focusable)
      at == CHOOSE n \in DOMAIN order : order[n] = focus IN
  IF focus \notin Focusable THEN order[1]
  ELSE order[((at - 1 + by) % Len(order)) + 1]

\* What a key does, and the control it reaches.
Answered(a, act) ==
  CASE act.key = "tab" -> [a EXCEPT !.focus = Turn(@, 1)]
    [] act.key = "shift+tab" -> [a EXCEPT !.focus = Turn(@, Cardinality(Focusable) - 1)]
    [] act.key = "click" -> [a EXCEPT !.focus = CHOOSE c \in Ids : a.row[c] = act.row]
    [] OTHER -> a

Drift(s) ==
  /\ bounds.drifts > 0
  /\ \/ \E c \in Focusable \cup {Nowhere} : c # app[s].focus /\ app' = [app EXCEPT ![s].focus = c]
     \/ \E c, d \in Ids : c # d /\ app' = [app EXCEPT ![s].row[c] = app[s].row[d], ![s].row[d] = app[s].row[c]]
     \/ \E c \in Ids, l \in Labels : l # app[s].label[c] /\ app' = [app EXCEPT ![s].label[c] = l]
  /\ bounds' = [bounds EXCEPT !.drifts = @ - 1]
  /\ UNCHANGED <<last, graph, plans, shown, spent, call, sent, lease>>

-----------------------------------------------------------------------------
(* The focus graph.                                                        *)

\* FocusGraph::transition: moves between two controls are edges.
Seen(from, to, via) ==
  LET edge == [from |-> from, to |-> to, via |-> via] IN
  IF from = to \/ Nowhere \in {from, to} \/ edge \in Range1(graph) THEN graph ELSE Append(graph, edge)

\* A move by another tool; its frames are no observation of the session.
Tab(s) ==
  /\ call.pc = "no" /\ bounds.tabs > 0 /\ ~lease
  /\ \E via \in {"tab", "shift+tab"} :
       /\ app' = [app EXCEPT ![s] = Answered(@, [key |-> via])]
       /\ graph' = Seen(app[s].focus, app'[s].focus, via)
  /\ bounds' = [bounds EXCEPT !.tabs = @ - 1]
  /\ UNCHANGED <<last, plans, shown, spent, call, sent, lease>>

Observe(s) ==
  /\ call.pc = "no" /\ last[s] # <<app[s]>>
  /\ last' = [last EXCEPT ![s] = <<app[s]>>]
  /\ UNCHANGED <<app, graph, plans, shown, spent, call, sent, lease, bounds>>

-----------------------------------------------------------------------------
(* The plan store.                                                         *)

\* IntentPlanStore::store: at the cap the oldest plan makes room.
Stored(ticket) == Append(IF Len(plans) >= PlanCap THEN Tail(plans) ELSE plans, ticket)

\* A preview: planned on the last frame, whatever its age.
Preview(s, target, verb) ==
  /\ call.pc = "no" /\ Len(shown) < MaxPlans
  /\ last[s] # None
  /\ LET plan == Plan(last[s][1], target, verb) IN
     /\ plan # None
     /\ shown' = Append(shown, [session |-> s, plan |-> plan[1]])
     /\ plans' = Stored([id |-> Len(shown) + 1, session |-> s, plan |-> plan[1], old |-> FALSE])
  /\ spent' = Append(spent, 0)
  /\ UNCHANGED <<app, last, graph, call, sent, lease, bounds>>

\* Five minutes pass.
Expire ==
  /\ \E n \in DOMAIN plans : ~plans[n].old
  /\ plans' = [n \in DOMAIN plans |-> [plans[n] EXCEPT !.old = TRUE]]
  /\ UNCHANGED <<app, last, graph, shown, spent, call, sent, lease, bounds>>

\* Mutant: the plan stays in the store when it is executed.
WithoutKept(id) == plans

\* IntentPlanStore::consume: a plan is gone whatever comes of the call.
Without(id) == Kept(plans, {t \in Range1(plans) : t.id # id})

-----------------------------------------------------------------------------
(* Execution.                                                              *)

Lease ==
  /\ lease' = ~lease
  /\ UNCHANGED <<app, last, graph, plans, shown, spent, call, sent, bounds>>

Execute(s, target, verb, fence, id) ==
  /\ call.pc = "no" /\ bounds.calls > 0
  /\ call' = [pc |-> "fresh", session |-> s, target |-> target, verb |-> verb, fence |-> fence, id |-> id]
  /\ sent' = None
  /\ bounds' = [bounds EXCEPT !.calls = @ - 1]
  /\ UNCHANGED <<app, last, graph, plans, shown, spent, lease>>

\* Mutant: only the control and the verb are compared.
SamePlanLoose(ticket, plan) == ticket.plan.control = plan.control /\ ticket.plan.verb = plan.verb

\* IntentPlanTicket::fingerprint.
SamePlan(ticket, plan) == ticket.plan = plan

MayRun(risk, fence) ==
  \/ fence = None /\ ~NeedsConfirmation(risk)
  \/ fence # None /\ Rank(risk) <= Rank(fence[1])

Ended == /\ call' = NoCall /\ UNCHANGED spent

\* A new observation, the plan on it, the fence, and the plan of the id.
Fresh ==
  /\ call.pc = "fresh"
  /\ LET s == call.session
         frame == app[s]
         plan == Plan(frame, call.target, call.verb)
         found == {t \in Range1(plans) : t.id = call.id} IN
     /\ last' = [last EXCEPT ![s] = <<frame>>]
     /\ IF plan = None THEN Ended /\ UNCHANGED plans
        ELSE IF ~MayRun(plan[1].risk, call.fence) THEN Ended /\ UNCHANGED plans
        ELSE /\ plans' = Without(call.id)
             /\ IF \/ ~\E t \in found : ~t.old /\ t.session = s /\ SamePlan(t, plan[1])
                   \/ lease
                THEN Ended
                ELSE /\ spent' = [spent EXCEPT ![call.id] = @ + 1]
                     /\ call' = [pc |-> "check", session |-> s, plan |-> plan[1], id |-> call.id, fence |-> call.fence,
                                 todo |-> plan[1].steps, guarded |-> FALSE]
  /\ UNCHANGED <<app, graph, shown, sent, lease, bounds>>

\* The steps: an assertion only arms the guard of the next payload.
Arm ==
  /\ call.pc = "check" /\ call.todo # <<>> /\ call.todo[1].step = "assert"
  /\ call' = [call EXCEPT !.todo = Tail(@), !.guarded = TRUE]
  /\ UNCHANGED <<app, last, graph, plans, shown, spent, sent, lease, bounds>>

InputOf(step) == IF step.step = "move" THEN [key |-> step.key] ELSE step.act

\* Mutant: the guard is checked against the last observation.
GuardFrameLast(s) == last[s][1]

\* The guard is checked against the frame that is taken before the send.
GuardFrame(s) == app[s]

\* drive, before the send: the lease, the frame before, and the guard.
Check ==
  /\ call.pc = "check" /\ call.todo # <<>> /\ call.todo[1].step # "assert"
  /\ LET s == call.session
         step == call.todo[1] IN
     call' = IF \/ lease
                \/ step.step = "act" /\ call.guarded /\ GuardFrame(s).focus # call.plan.control
             THEN NoCall
             ELSE [pc |-> "send", session |-> s, plan |-> call.plan, id |-> call.id, fence |-> call.fence,
                   todo |-> call.todo, guarded |-> call.guarded, before |-> app[s].focus]
  /\ UNCHANGED <<app, last, graph, plans, shown, spent, sent, lease, bounds>>

Dispatch ==
  /\ call.pc = "send"
  /\ LET s == call.session
         step == call.todo[1] IN
     /\ app' = [app EXCEPT ![s] = Answered(@, InputOf(step))]
     /\ sent' = IF step.step = "move" THEN sent
                ELSE <<[plan |-> call.plan, before |-> call.before]>>
  /\ call' = [call EXCEPT !.pc = "settle"]
  /\ UNCHANGED <<last, graph, plans, shown, spent, lease, bounds>>

\* The frame after it, the move of the focus, and after a move an observation.
Settle ==
  /\ call.pc = "settle"
  /\ LET s == call.session
         step == call.todo[1] IN
     /\ graph' = IF step.step = "move" THEN Seen(call.before, app[s].focus, step.key) ELSE graph
     /\ last' = IF step.step = "move" THEN [last EXCEPT ![s] = <<app[s]>>] ELSE last
     /\ call' = [pc |-> "check", session |-> s, plan |-> call.plan, id |-> call.id, fence |-> call.fence,
                 todo |-> Tail(call.todo), guarded |-> IF step.step = "act" THEN FALSE ELSE call.guarded]
  /\ UNCHANGED <<app, plans, shown, spent, sent, lease, bounds>>

Finish ==
  /\ call.pc = "check" /\ call.todo = <<>>
  /\ call' = NoCall
  /\ UNCHANGED <<app, last, graph, plans, shown, spent, sent, lease, bounds>>

Next ==
  \/ \E s \in Sessions : Drift(s) \/ Tab(s) \/ Observe(s)
  \/ \E s \in Sessions, t \in Targets, v \in Verbs : Preview(s, t, v)
  \/ \E s \in Sessions, t \in Targets, v \in Verbs, f \in {None, <<"mutating">>, <<"destructive">>}, id \in DOMAIN shown :
       Execute(s, t, v, f, id)
  \/ Expire \/ Lease \/ Fresh \/ Arm \/ Check \/ Dispatch \/ Settle \/ Finish

-----------------------------------------------------------------------------

Under == call.pc \in {"check", "send", "settle"}

\* interact.rs:478-486: what is executed is what was shown under the id, in
\* full and on its session, once, and no risk that was not fenced; however
\* the application, the graph and the store changed since.
OnlyShown ==
  /\ \A n \in DOMAIN spent : spent[n] <= 1
  /\ Under =>
       /\ shown[call.id] = [session |-> call.session, plan |-> call.plan]
       /\ NeedsConfirmation(call.plan.risk) => call.fence # None

\* plan.rs:33-34, "an executor cannot send the key without the guard in
\* between": a key goes out only if the frame taken right before it showed
\* the focus on the control of the plan.
KeysOnTarget ==
  \A n \in DOMAIN sent : sent[n].plan.verb \in KeyVerbs => sent[n].before = sent[n].plan.control

\* The controls that the moves among some steps lead to from one, if each
\* does again what it was seen to do.
Reached(from, steps) ==
  LET at[n \in 0 .. Len(steps)] ==
        IF n = 0 THEN {from} ELSE IF steps[n].step # "move" THEN at[n - 1]
        ELSE {graph[e].to : e \in {e \in DOMAIN graph : graph[e].from \in at[n - 1] /\ graph[e].via = steps[n].key}} IN
  at[Len(steps)]

\* plan.rs:70-73, "directed and carry their own via-key, so the walk never
\* guesses": the moves lead from the focus of the frame to the control.
RouteProven ==
  (call.pc = "check" /\ call.todo = call.plan.steps /\ call.todo[1].step = "move") =>
    call.plan.control \in
      Reached(last[call.session][1].focus, call.todo)

\* plan.rs:73-75, "Direct verbs (Click, Type-into) plan as a single `Act` step
\* because their action already names its own target": text that was typed
\* into a control goes to it.
TypedReachesTarget ==
  \A n \in DOMAIN sent : sent[n].plan.verb = "type" => sent[n].before = sent[n].plan.control
=============================================================================
