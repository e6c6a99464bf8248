---------------------------- MODULE ScenarioRunner ----------------------------
(***************************************************************************)
(* The replay of a scenario (src/scenario/runner.rs): the steps of one     *)
(* iteration with their preconditions and failure policy, the intent step  *)
(* that secures focus before its payload, and the repeats with their       *)
(* restarts and verdict.                                                   *)
(*                                                                         *)
(* The runner owns the session while it runs.  What changes under it is    *)
(* the application: its focus moves and its screen changes on its own.     *)
(***************************************************************************)
EXTENDS Naturals, Sequences, FiniteSets

CONSTANTS
  Scripts,    \* scenarios: sequences of steps [kind, expect, bound]
  Repeats,    \* numbers of iterations asked for
  Target,     \* the control an intent step is about
  Other,      \* every other control
  MaxRev      \* bound: changes the application makes between two restarts

VARIABLES
  job,     \* what was asked: script, policy, repeat, reset mode, ownership
  app,     \* the application: generation, alive, focus, revision of its screen
  pc,      \* where the runner is
  report,  \* results of the iteration, and whether it stopped
  guard,   \* revision the next write is guarded by, NoGuard when unguarded
  tally,   \* iterations passed and failed, and the verdict
  sent     \* history: every input the application got

scenarioVars == <<job, app, pc, report, guard, tally, sent>>

NoGuard == MaxRev + 1
Results == {"passed", "failed", "skipped"}
Verdicts == {"StablePass", "StableFailure", "Flaky"}
Places == {"next", "step", "move", "assert", "guarded", "done"}
Send == [gen : Nat, step : Nat, payload : BOOLEAN, focus : {Target, Other},
         rev : 0 .. MaxRev, guard : 0 .. NoGuard]

\* Every variable has its type.
TypeOK ==
  /\ job \in [script : Scripts, policy : {"Stop", "Continue"}, repeat : Repeats,
              restart : BOOLEAN, owned : BOOLEAN]
  /\ app \in [gen : Nat, alive : BOOLEAN, focus : {Target, Other}, rev : 0 .. MaxRev]
  /\ pc \in Places
  /\ report.results \in Seq(Results) /\ report.stopped \in BOOLEAN
  /\ guard \in 0 .. NoGuard
  /\ tally.passed \in Nat /\ tally.failed \in Nat
  /\ tally.verdict \in Verdicts \cup {"none"}
  /\ sent \subseteq Send

Fresh(g) == [gen |-> g, alive |-> TRUE, focus |-> Other, rev |-> 0]
NoReport == [results |-> <<>>, stopped |-> FALSE]

Init ==
  /\ job \in [script : Scripts, policy : {"Stop", "Continue"}, repeat : Repeats,
              restart : BOOLEAN, owned : BOOLEAN]
  /\ app = Fresh(1)
  /\ pc = "next"
  /\ report = NoReport
  /\ guard = NoGuard
  /\ tally = [passed |-> 0, failed |-> 0, verdict |-> "none"]
  /\ sent = {}

\* The application moves its focus or repaints by itself, or exits.
Change ==
  /\ app.alive /\ pc # "done"
  /\ \/ /\ app.rev < MaxRev
        /\ \E f \in {Target, Other} :
             app' = [app EXCEPT !.focus = f, !.rev = @ + 1]
     \/ app' = [app EXCEPT !.alive = FALSE]
  /\ UNCHANGED <<job, pc, report, guard, tally, sent>>

-----------------------------------------------------------------------------
(* Repeats.                                                                *)

\* run_repeat_with_reset refuses repeats without a restart, and restarts of
\* an application the scenario does not own: a failure, nothing attempted.
Refuse ==
  /\ pc = "next" /\ tally.passed + tally.failed = 0 /\ job.repeat > 1
  /\ ~job.restart \/ ~job.owned
  /\ tally' = [passed |-> 0, failed |-> 1, verdict |-> "StableFailure"]
  /\ pc' = "done"
  /\ UNCHANGED <<job, app, report, guard, sent>>

Allowed == job.repeat > 1 => job.restart /\ job.owned
Iterations == tally.passed + tally.failed
Ready == pc = "next" /\ Allowed /\ tally.verdict = "none" /\ Iterations < job.repeat

\* Before every iteration of several the child is started anew.
Begin ==
  /\ Ready
  /\ app' = IF job.repeat > 1 THEN Fresh(app.gen + 1) ELSE app
  /\ report' = NoReport
  /\ pc' = "step"
  /\ UNCHANGED <<job, guard, tally, sent>>

\* An iteration whose restart failed is failed and not attempted.
RestartFails ==
  /\ Ready /\ job.repeat > 1
  /\ tally' = [tally EXCEPT !.failed = @ + 1]
  /\ app' = [app EXCEPT !.alive = FALSE]
  /\ UNCHANGED <<job, pc, report, guard, sent>>

\* The iteration passed when no step failed and none was skipped.
EndIteration ==
  /\ pc = "step" /\ Len(report.results) = Len(job.script)
  /\ LET all == \A n \in DOMAIN report.results : report.results[n] = "passed" IN
     tally' = IF all THEN [tally EXCEPT !.passed = @ + 1] ELSE [tally EXCEPT !.failed = @ + 1]
  /\ pc' = "next"
  /\ UNCHANGED <<job, app, report, guard, sent>>

Judge ==
  /\ pc = "next" /\ tally.verdict = "none" /\ Iterations = job.repeat
  /\ tally' = [tally EXCEPT !.verdict =
                 CASE tally.failed = 0 -> "StablePass"
                   [] tally.passed = 0 -> "StableFailure"
                   [] OTHER -> "Flaky"]
  /\ pc' = "done"
  /\ UNCHANGED <<job, app, report, guard, sent>>

-----------------------------------------------------------------------------
(* One step.                                                               *)

At == Len(report.results) + 1
Step == job.script[At]
AtStep == pc = "step" /\ At <= Len(job.script)

\* A step ends: under the policy Stop a failed one stops the iteration.
Ends(result) ==
  /\ report' = [results |-> Append(report.results, result),
                stopped |-> report.stopped \/ (result = "failed" /\ job.policy = "Stop")]
  /\ pc' = "step"
  /\ guard' = NoGuard

\* Mutant: a stopped iteration goes on.
SkipsNever == FALSE

\* Ownership: a scenario that owns its target does not run on another.  After
\* a stop, nothing is attempted.
Skips == (job.repeat = 1 /\ ~job.owned) \/ report.stopped

Skip ==
  /\ AtStep /\ Skips
  /\ Ends("skipped")
  /\ UNCHANGED <<job, app, tally, sent>>

\* check_expect and compile_expect_guard on a fresh snapshot.
Expected == CASE Step.expect = "none" -> TRUE
              [] Step.expect = "screen" -> app.alive /\ app.rev = 0
              [] Step.expect = "generation" -> app.gen = 1

\* A parameter without a value, or a precondition that does not hold, fails
\* the step before anything is sent.
Refused ==
  /\ AtStep /\ ~Skips
  /\ ~Step.bound \/ ~Expected
  /\ Ends("failed")
  /\ UNCHANGED <<job, app, tally, sent>>

Begins(kind) == AtStep /\ ~Skips /\ Step.kind = kind /\ Step.bound /\ Expected

\* The act of a step keeps its precondition as the guard of the executor.
Act ==
  /\ Begins("act")
  /\ guard' = IF Step.expect = "screen" THEN 0 ELSE NoGuard
  /\ pc' = "guarded"
  /\ UNCHANGED <<job, app, report, tally, sent>>

\* A wait is met or times out; an assertion holds, does not hold or cannot
\* be evaluated; the engine may fail under both.
WaitOrAssert ==
  /\ Begins("wait") \/ Begins("assert")
  /\ \E result \in {"passed", "failed"} : Ends(result)
  /\ UNCHANGED <<job, app, tally, sent>>

\* The intent is planned on a fresh frame: the plan moves the focus first
\* unless the target has it, or there is no plan.
Plan ==
  /\ Begins("intent")
  /\ \/ /\ app.alive
        /\ pc' = IF app.focus = Target THEN "assert" ELSE "move"
        /\ UNCHANGED <<report, guard>>
     \/ Ends("failed")
  /\ UNCHANGED <<job, app, tally, sent>>

Sends(payload) ==
  sent' = sent \cup {[gen |-> app.gen, step |-> At, payload |-> payload,
                      focus |-> app.focus, rev |-> app.rev, guard |-> guard]}

\* The key that moves the focus is an unguarded act; where it lands is up to
\* the application.
MoveFocus ==
  /\ pc = "move"
  /\ \/ /\ app.alive /\ app.rev < MaxRev
        /\ Sends(FALSE)
        /\ \E f \in {Target, Other} : app' = [app EXCEPT !.focus = f, !.rev = @ + 1]
        /\ pc' = "assert"
        /\ UNCHANGED <<report, guard>>
     \/ /\ Ends("failed")
        /\ UNCHANGED <<app, sent>>
  /\ UNCHANGED <<job, tally>>

\* Mutant: the snapshot of the focus assertion is not kept as a guard.
FocusGuardForgotten(rev) == NoGuard

\* The frame that proved the focus guards the payload.
FocusGuard(rev) == rev

AssertFocus ==
  /\ pc = "assert"
  /\ IF app.alive /\ app.focus = Target
     THEN /\ guard' = FocusGuard(app.rev)
          /\ pc' = "guarded"
          /\ UNCHANGED report
     ELSE Ends("failed")
  /\ UNCHANGED <<job, app, tally, sent>>

\* The executor: a stale guard, a dead child or a failed wait end the step as
\* failed; otherwise the input is written and the wait decides.  An intent
\* step passes whether or not its payload settled.
Execute ==
  /\ pc = "guarded"
  /\ IF app.alive /\ guard \in {NoGuard, app.rev}
     THEN /\ Sends(Step.kind = "intent")
          /\ \E settled \in BOOLEAN, fails \in BOOLEAN :
               Ends(IF ~fails /\ (settled \/ Step.kind = "intent") THEN "passed" ELSE "failed")
          /\ \E rev \in {app.rev, app.rev + 1} \cap (0 .. MaxRev) : app' = [app EXCEPT !.rev = rev]
     ELSE Ends("failed") /\ UNCHANGED <<app, sent>>
  /\ UNCHANGED <<job, tally>>

Runner == \/ Refuse \/ Begin \/ RestartFails \/ EndIteration \/ Judge \/ Skip \/ Refused
          \/ Act \/ WaitOrAssert \/ Plan \/ MoveFocus \/ AssertFocus \/ Execute

Next == Change \/ Runner
Spec == Init /\ [][Next]_scenarioVars

-----------------------------------------------------------------------------
(* Properties.                                                             *)

\* model.rs, FailurePolicy::Stop: the first step that fails is the last one
\* that sends anything in its iteration.
NothingAfterStop ==
  (job.policy = "Stop" /\ pc \in {"move", "assert", "guarded"}) =>
    \A n \in DOMAIN report.results : report.results[n] = "passed"

\* The payload of an intent is written on the very screen revision whose
\* snapshot showed the focus on its target, whatever moves in between.
PayloadOnTarget == \A s \in sent : s.payload => s.focus = Target

\* StablePass is earned: every iteration asked for ran to its end, each on a
\* child of its own when there are several, and none of its steps failed.
PassIsEarned ==
  /\ tally.verdict = "StablePass" =>
       /\ tally.passed = job.repeat
       /\ job.repeat > 1 => app.gen = job.repeat + 1
  /\ tally.verdict = "Flaky" => Iterations = job.repeat
=============================================================================
