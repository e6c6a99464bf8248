------------------------------ MODULE Exploration ------------------------------
(***************************************************************************)
(* Autonomous exploration of one application and what becomes of a crash   *)
(* it finds: the random and the semantic walk with their budgets           *)
(* (src/exploration/random.rs, semantic.rs, candidates.rs), and the        *)
(* pipeline that replays the walk on fresh children, minimises it by delta *)
(* debugging and saves it as a scenario (repro.rs, repro_minimizer.rs,     *)
(* mcp/tools/handlers/explore/crash_finding.rs).                           *)
(*                                                                         *)
(* The application is deterministic: its state is the set of keys pressed  *)
(* since its start, it crashes once that set contains its fault, and a key *)
(* in Quits ends it cleanly.                                               *)
(***************************************************************************)
EXTENDS Naturals, Sequences, FiniteSets

CONSTANTS
  Keys,           \* ACTION_POOL
  Mutating,       \* keys classed above safe (risk.rs)
  Unread,         \* keys whose recorded signature replayable_action cannot read
  Quits,          \* keys that end the application with exit code 0
  Faults,         \* sets of keys that may crash it
  MaxActions, MaxRelaunches, MaxStates

VARIABLES
  quest,  \* what was asked: mode, allowance, and the fault of the application
  kid,    \* the child: alive or how it ended, keys it got since its start
  walk,   \* the walk: where it is, its steps, budgets, reason, first crash
  known,  \* state graph of the walk: <<state, key>> executed
  mini,   \* the minimiser: where it is, trace, best so far, granularity, index
  saved   \* the scenario saved: a sequence of keys, empty when there is none

exploreVars == <<quest, kid, walk, known, mini, saved>>

Ends == {"none", "exit", "crash"}
Reasons == {"CleanExit", "ActionBudget", "TimeBudget", "RelaunchBudget",
            "UniqueStateBudget", "Failure"}

\* Every variable has its type.
TypeOK ==
  /\ quest \in [mode : {"random", "semantic"}, mutate : BOOLEAN, fault : Faults]
  /\ kid \in [end : Ends, got : SUBSET Keys]
  /\ walk.pc \in {"walk", "dead", "over", "repro", "done"} /\ walk.reason \in Reasons
  /\ walk.steps \in Seq([key : Keys, end : Ends])
  /\ walk.seen \subseteq SUBSET Keys
  /\ walk.relaunches \in 0 .. MaxRelaunches
  /\ known \subseteq (SUBSET Keys) \X Keys
  /\ mini.pc \in {"off", "full", "chunks", "singles", "confirm"}
  /\ mini.trace \in Seq(Keys) /\ mini.best \in Seq(Keys)
  /\ mini.flaked \in BOOLEAN
  /\ saved \in Seq(Keys)

FreshKid == [end |-> "none", got |-> {}]
NoMini == [pc |-> "off", trace |-> <<>>, best |-> <<>>, n |-> 2, i |-> 0, flaked |-> FALSE]

Init ==
  /\ quest \in [mode : {"random", "semantic"}, mutate : BOOLEAN, fault : Faults]
  /\ kid = FreshKid
  /\ walk = [pc |-> "walk", steps |-> <<>>, seen |-> {}, relaunches |-> 0,
             reason |-> "CleanExit", crash |-> 0]
  /\ known = {}
  /\ mini = NoMini
  /\ saved = <<>>

\* The child after one key.
Pressed(child, key) ==
  LET got == child.got \cup {key} IN
  [got |-> got, end |-> IF key \in Quits THEN "exit"
                        ELSE IF quest.fault \subseteq got THEN "crash" ELSE "none"]

-----------------------------------------------------------------------------
(* The walk.                                                               *)

Admitted == {k \in Keys : quest.mutate \/ k \notin Mutating}

\* suggest: keys never executed from this state, the least risky first.
Candidates ==
  LET fresh == {k \in Admitted : <<kid.got, k>> \notin known} IN
  IF fresh \subseteq Mutating THEN fresh ELSE fresh \ Mutating

\* The budgets of an iteration in their order; time can run out at any.
Exceeded ==
  {"TimeBudget"}
    \cup (IF quest.mode = "random" /\ walk.relaunches >= MaxRelaunches THEN {"RelaunchBudget"} ELSE {})
    \cup (IF Cardinality(walk.seen) >= MaxStates THEN {"UniqueStateBudget"} ELSE {})

OverBudget ==
  /\ walk.pc = "walk" /\ Len(walk.steps) < MaxActions
  /\ \E r \in Exceeded : walk' = [walk EXCEPT !.pc = "over", !.reason = r]
  /\ UNCHANGED <<quest, kid, known, mini, saved>>

\* One action through the executor, recorded as a step and as an edge.  The
\* semantic walk counts the states it leaves, the random one those it enters.
Press ==
  /\ walk.pc = "walk" /\ Len(walk.steps) < MaxActions /\ Exceeded = {"TimeBudget"}
  /\ \E k \in IF quest.mode = "random" THEN Admitted ELSE Candidates :
       LET after == Pressed(kid, k)
           n == Len(walk.steps) + 1 IN
       /\ kid' = after
       /\ known' = known \cup {<<kid.got, k>>}
       /\ walk' = [walk EXCEPT
            !.steps = Append(@, [key |-> k, end |-> after.end]),
            !.seen = @ \cup {IF quest.mode = "random" THEN after.got ELSE kid.got},
            !.pc = IF after.end = "none" THEN "walk"
                   ELSE IF quest.mode = "random" THEN "dead" ELSE "over",
            !.crash = IF @ = 0 /\ after.end = "crash" THEN n ELSE @]
  /\ UNCHANGED <<quest, mini, saved>>

\* The executor fails under an action: the walk is over.
PressFails ==
  /\ walk.pc = "walk" /\ Len(walk.steps) < MaxActions /\ Exceeded = {"TimeBudget"}
  /\ walk' = [walk EXCEPT !.pc = "over", !.reason = "Failure"]
  /\ UNCHANGED <<quest, kid, known, mini, saved>>

\* The random walk restarts a child that died, in the same session.
Relaunch ==
  /\ walk.pc = "dead"
  /\ \/ /\ kid' = FreshKid
        /\ walk' = [walk EXCEPT !.pc = "walk", !.relaunches = @ + 1]
     \/ /\ walk' = [walk EXCEPT !.pc = "over", !.reason = "Failure"]
        /\ UNCHANGED kid
  /\ UNCHANGED <<quest, known, mini, saved>>

\* The semantic walk has nothing left to try here, or the actions are used up.
WalkEnds ==
  /\ walk.pc = "walk"
  /\ Len(walk.steps) = MaxActions \/ (quest.mode = "semantic" /\ Candidates = {})
  /\ walk' = [walk EXCEPT !.pc = "over"]
  /\ UNCHANGED <<quest, kid, known, mini, saved>>

-----------------------------------------------------------------------------
(* From the first crash to a trace.                                        *)

\* The keys of the steps up to the first crash, those left out that
\* replayable_action cannot read.
Trace ==
  LET keys[n \in 0 .. walk.crash] ==
        IF n = 0 THEN <<>>
        ELSE IF walk.steps[n].key \in Unread THEN keys[n - 1]
        ELSE Append(keys[n - 1], walk.steps[n].key) IN
  keys[walk.crash]

\* The report: all actions used and nothing else to say is the action budget.
\* A random walk that met a crash hands the steps up to it to the minimiser.
Report ==
  /\ walk.pc = "over"
  /\ LET used == Len(walk.steps) = MaxActions /\ walk.reason = "CleanExit" IN
     IF quest.mode = "random" /\ walk.crash > 0 /\ Trace # <<>>
     THEN /\ walk' = [walk EXCEPT !.pc = "repro", !.reason = IF used THEN "ActionBudget" ELSE @]
          /\ mini' = [NoMini EXCEPT !.pc = "full", !.trace = Trace, !.best = Trace]
     ELSE /\ walk' = [walk EXCEPT !.pc = "done", !.reason = IF used THEN "ActionBudget" ELSE @]
          /\ UNCHANGED mini
  /\ UNCHANGED <<quest, kid, known, saved>>

-----------------------------------------------------------------------------
(* test_candidate and minimize.                                            *)

\* The child after the keys of a candidate on a fresh start: the replay ends
\* with the first death.
Replayed(candidate) ==
  LET after[n \in 0 .. Len(candidate)] ==
        IF n = 0 THEN FreshKid
        ELSE IF after[n - 1].end = "none" THEN Pressed(after[n - 1], candidate[n])
        ELSE after[n - 1] IN
  after[Len(candidate)]

\* The failure is the one expected: crashes are told from clean exits.
SameFailure(end) == end = "crash"

\* One attempt: the child is restarted and gets the candidate.  One restart
\* may fail, which reproduces nothing.
Attempt(candidate, next) ==
  \/ /\ kid' = Replayed(candidate)
     /\ mini' = next[SameFailure(Replayed(candidate).end)]
  \/ /\ ~mini.flaked
     /\ kid' = [FreshKid EXCEPT !.end = "exit"]
     /\ mini' = [next[FALSE] EXCEPT !.flaked = TRUE]

StillMini == walk.pc = "repro" /\ UNCHANGED <<quest, walk, known, saved>>

\* minimize first tests the whole trace, and gives it back when it does not
\* reproduce.
FullTest ==
  /\ StillMini /\ mini.pc = "full"
  /\ Attempt(mini.trace, [ok \in BOOLEAN |-> [mini EXCEPT !.pc = IF ok THEN "chunks" ELSE "confirm"]])

SmallerOf(a, b) == IF a < b THEN a ELSE b
LargerOf(a, b) == IF a < b THEN b ELSE a
Chunk == (Len(mini.best) + mini.n - 1) \div mini.n
Without(s, first, last) == SubSeq(s, 1, first - 1) \o SubSeq(s, last + 1, Len(s))

\* One complement of one chunk: a reproduction is the new best.
TryChunk ==
  LET len == Len(mini.best)
      candidate == Without(mini.best, mini.i * Chunk + 1, SmallerOf((mini.i + 1) * Chunk, len)) IN
  /\ StillMini /\ mini.pc = "chunks" /\ mini.n < len
  /\ mini.i < mini.n /\ mini.i * Chunk < len
  /\ Attempt(candidate, [ok \in BOOLEAN |->
       IF ok THEN [mini EXCEPT !.best = candidate, !.n = LargerOf(@ - 1, 2), !.i = 0]
       ELSE [mini EXCEPT !.i = @ + 1]])

\* No chunk could go: finer chunks, until they are single actions.
Refine ==
  LET len == Len(mini.best)
      finer == SmallerOf(2 * mini.n, len) IN
  /\ StillMini /\ mini.pc = "chunks"
  /\ mini.n >= len \/ mini.i >= mini.n \/ mini.i * Chunk >= len
  /\ mini' = IF mini.n < len /\ finer < len THEN [mini EXCEPT !.n = finer, !.i = 0]
             ELSE [mini EXCEPT !.pc = "singles", !.i = 1]
  /\ UNCHANGED kid

\* Mutant: the action that took the place of a removed one is passed over.
NextSingleSkips(i, removed) == i + 1

\* After a removal the same position holds the next action.
NextSingle(i, removed) == IF removed THEN i ELSE i + 1

TrySingle ==
  LET candidate == Without(mini.best, mini.i, mini.i) IN
  /\ StillMini /\ mini.pc = "singles" /\ mini.i <= Len(mini.best) /\ candidate # <<>>
  /\ Attempt(candidate, [ok \in BOOLEAN |->
       [mini EXCEPT !.best = IF ok THEN candidate ELSE @, !.i = NextSingle(@, ok)]])

SinglesDone ==
  /\ StillMini /\ mini.pc = "singles"
  /\ mini.i > Len(mini.best) \/ Len(mini.best) = 1
  /\ mini' = [mini EXCEPT !.pc = "confirm"]
  /\ UNCHANGED kid

\* The result is tested once more, and saved with its finding when it still
\* reproduces.
Confirm ==
  /\ walk.pc = "repro" /\ mini.pc = "confirm"
  /\ Attempt(mini.best, [ok \in BOOLEAN |-> [mini EXCEPT !.pc = "off"]])
  /\ saved' = IF mini'.flaked = mini.flaked /\ SameFailure(kid'.end) THEN mini.best ELSE <<>>
  /\ walk' = [walk EXCEPT !.pc = "done"]
  /\ UNCHANGED <<quest, known>>

Next == \/ OverBudget \/ Press \/ PressFails \/ Relaunch \/ WalkEnds \/ Report
        \/ FullTest \/ TryChunk \/ Refine \/ TrySingle \/ SinglesDone \/ Confirm

Spec == Init /\ [][Next]_exploreVars

-----------------------------------------------------------------------------
(* Properties.                                                             *)

\* A saved reproduction crashes a fresh child, holds only keys of the walk
\* within the allowance, and, unless a restart failed on the way, none of its
\* keys can be left out.
ReproductionMinimal ==
  saved # <<>> =>
    /\ Replayed(saved).end = "crash"
    /\ \A n \in DOMAIN saved : \E m \in DOMAIN walk.steps : saved[n] = walk.steps[m].key
    /\ ~mini.flaked =>
         \A n \in DOMAIN saved : Replayed(Without(saved, n, n)).end # "crash"

\* repro.rs: the pool is a fixed vocabulary of key presses, and the trace
\* inverts it: every step of the walk up to the crash is in the trace.
TraceInverts ==
  mini.pc # "off" => Len(mini.trace) = walk.crash
=============================================================================
