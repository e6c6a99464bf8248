------------------------------ MODULE Recordings ------------------------------
(***************************************************************************)
(* What a run records of its sessions and keeps of it: scenarios in        *)
(* progress, each bound to one generation of one session (run/             *)
(* scenario_store.rs), the saved ones in memory and as files, the casts of *)
(* tui_record (recording/recorder.rs) held in memory or written, and the   *)
(* regression assets built from the ledger (scenario/regression_asset.rs). *)
(* The stops give the run lock back between two steps, so persist, new and *)
(* a crash come between them.                                              *)
(***************************************************************************)
EXTENDS Naturals, FiniteSets, SequencesExt

CONSTANTS
  Tapes,      \* the sessions that are recorded
  Names,      \* names of scenarios, which may be used twice
  MaxSteps,   \* bound: calls that are recordable
  MaxRecs,    \* bound: recordings of scenarios and of casts
  MaxRuns,    \* bound: runs one after the other
  MaxTroubles \* bound: restarts, leases, writes that fail, and crashes

VARIABLES
  tapes,      \* each session: its generation, its lease, the cast it records
  done,       \* what was called: session, generation, kind, number of the run
  recs,       \* scenarios in progress, by id
  store,      \* the run: number, root, saved scenarios, held casts, ids used
  files,      \* the roots: scenarios and casts, with the run they are under
  pending,    \* the stops and assets between their two steps
  told        \* what callers were told is kept

NoCast == 0

TypeOK ==
  /\ \A s \in Tapes : tapes[s].cast \in 0 .. MaxRecs /\ tapes[s].leased \in BOOLEAN
  /\ Len(done) <= MaxSteps /\ store.run \in 1 .. MaxRuns /\ store.troubles \in 0 .. MaxTroubles
  /\ \A r \in recs \cup store.saved : r.id \in 1 .. MaxRecs /\ r.name \in Names
  /\ store.held \subseteq 1 .. MaxRecs /\ store.root \in BOOLEAN

CanRecord == store.rec + store.cast < MaxRecs

\* Bound: one call is between its two steps.
CanCall == pending = {}

Fresh(n, rec, cast, troubles) ==
  [run |-> n, root |-> FALSE, saved |-> {}, held |-> {}, rec |-> rec, cast |-> cast, troubles |-> troubles]

Init ==
  /\ tapes = [s \in Tapes |-> [gen |-> 1, leased |-> FALSE, cast |-> NoCast]]
  /\ done = <<>> /\ recs = {} /\ store = Fresh(1, 0, 0, 0)
  /\ files = [scenarios |-> {}, casts |-> {}] /\ pending = {} /\ told = [scenarios |-> {}, casts |-> {}]

\* Restarts, leases, failing writes and crashes are counted together.
CanTrouble == store.troubles < MaxTroubles
Troubled == store' = [store EXCEPT !.troubles = @ + 1]

-----------------------------------------------------------------------------
(* Sessions.                                                               *)

\* Mutant: recordings of the session, whatever its generation.
MatchesSession(r, s) == r.tape = s

\* ScenarioRecording::matches: the same generation of the same session.
Matches(r, s) == r.tape = s /\ r.gen = tapes[s].gen

\* ScenarioRecorder: a step is appended.
Stepped(r, n) == [r EXCEPT !.steps = Append(@, n)]

\* record_scenario_*: every recording that matches gets the step.
Recorded(s) == {IF Matches(r, s) THEN Stepped(r, Len(done) + 1) ELSE r : r \in recs}

Called(s, kind) ==
  /\ Len(done) < MaxSteps
  /\ done' = Append(done, [tape |-> s, gen |-> tapes[s].gen, kind |-> kind, run |-> store.run])
  /\ recs' = Recorded(s)
  /\ UNCHANGED <<tapes, store, files, pending, told>>

\* drive: an act is refused under a lease.
Act(s) == ~tapes[s].leased /\ Called(s, "act")

\* tui_assert and tui_wait: a step whatever they found.
Look(s) == Called(s, "look")

\* A restart moves the generation; the cast goes on.
Restart(s) ==
  /\ CanTrouble /\ Troubled /\ tapes' = [tapes EXCEPT ![s].gen = @ + 1]
  /\ UNCHANGED <<done, recs, files, pending, told>>

\* A human takes the lease, and keeps it.
Lease(s) ==
  /\ CanTrouble /\ Troubled /\ ~tapes[s].leased /\ tapes' = [tapes EXCEPT ![s].leased = TRUE]
  /\ UNCHANGED <<done, recs, files, pending, told>>

-----------------------------------------------------------------------------
(* Scenarios.                                                              *)

\* record_start: bound to the generation of now; a name is no identity.
RecordStart(s) ==
  /\ CanRecord
  /\ \E name \in Names :
       recs' = recs \cup {[id |-> store.rec + 1, name |-> name, tape |-> s, gen |-> tapes[s].gen,
                           from |-> Len(done), till |-> MaxSteps, steps |-> <<>>]}
  /\ store' = [store EXCEPT !.rec = @ + 1]
  /\ UNCHANGED <<tapes, done, files, pending, told>>

\* find_recording_by_name: an ambiguous name is refused.
ByName(name) ==
  LET ids == {r \in recs : r.name = name} IN IF Cardinality(ids) = 1 THEN ids ELSE {}

\* record_stop, first lock: an empty recording is refused and goes on; else
\* it is finished and saved in memory.
RecordStop ==
  /\ \E r \in recs \cup UNION {ByName(n) : n \in Names} :
       LET sc == [r EXCEPT !.till = Len(done)] IN
       /\ r.steps # <<>> /\ CanCall
       /\ recs' = recs \ {r}
       /\ store' = [store EXCEPT !.saved = @ \cup {sc}]
       /\ pending' = pending \cup {[kind |-> "scenario", what |-> sc]}
  /\ UNCHANGED <<tapes, done, files, told>>

\* Mutant: the file is the one of the name alone.
WrittenByName(run, sc) ==
  {f \in files.scenarios : f.run # run \/ f.what.name # sc.name} \cup {[run |-> run, what |-> sc]}

\* save_scenario_file: the file of its name and id is replaced.
Written(run, sc) ==
  {f \in files.scenarios : f.run # run \/ f.what.id # sc.id \/ f.what.name # sc.name}
  \cup {[run |-> run, what |-> sc]}

\* record_stop, second lock: the root of the run of now decides.
RecordStopFile ==
  /\ \E w \in pending :
       /\ w.kind = "scenario" /\ pending' = pending \ {w}
       /\ \/ ~store.root /\ UNCHANGED <<store, files, told>>
          \/ /\ store.root /\ files' = [files EXCEPT !.scenarios = Written(store.run, w.what)]
             /\ told' = [told EXCEPT !.scenarios = @ \cup {[run |-> store.run, what |-> w.what]}]
             /\ UNCHANGED store
          \/ store.root /\ CanTrouble /\ Troubled /\ UNCHANGED <<files, told>>
  /\ UNCHANGED <<tapes, done, recs>>

\* load_scenario: by id, or by a name that one saved scenario has; what no
\* saved one answers to is looked for in the root, in any order.
Resolve(key) ==
  LET answers(sc) == key \in {<<"id", sc.id>>, <<"name", sc.name>>}
      held == {sc \in store.saved : answers(sc)}
      there == {f.what : f \in {g \in files.scenarios : g.run = store.run /\ answers(g.what)}} IN
  CASE Cardinality(held) = 1 -> held
    [] Cardinality(held) > 1 -> {}
    [] OTHER -> IF store.root THEN there ELSE {}

Keys == ({"id"} \X (1 .. MaxRecs)) \cup ({"name"} \X Names)

-----------------------------------------------------------------------------
(* Regression assets.                                                      *)

\* build_scenario: acts of the run that touch the target, here a session.
Touching(s) ==
  SelectSeq([n \in DOMAIN done |-> n],
            LAMBDA n : done[n].tape = s /\ done[n].kind = "act" /\ done[n].run = store.run)

\* tui_scenario regression_asset: the ledger is read under one lock and the
\* scenario saved under another; the ledger runs from old to new, and is
\* turned round all the same.
Asset(s) ==
  /\ CanRecord /\ CanCall /\ Touching(s) # <<>>
  /\ pending' = pending \cup {[kind |-> "asset", what |->
       [id |-> store.rec + 1, name |-> CHOOSE n \in Names : TRUE, tape |-> s, gen |-> 0,
        from |-> 0, till |-> Len(done), steps |-> Reverse(Touching(s))]]}
  /\ store' = [store EXCEPT !.rec = @ + 1]
  /\ UNCHANGED <<tapes, done, recs, files, told>>

\* A finding with a reproduction: the scenario it names, as it is, under
\* its own id.
AssetOfReproduction ==
  /\ CanCall
  /\ \E key \in Keys : \E sc \in Resolve(key) :
       pending' = pending \cup {[kind |-> "asset", what |-> sc]}
  /\ UNCHANGED <<tapes, done, recs, store, files, told>>

\* save_scenario: memory first, then the file, under one lock.
SaveAsset ==
  /\ \E w \in pending :
       LET run == [store EXCEPT !.saved = {sc \in @ : sc.id # w.what.id} \cup {w.what}] IN
       /\ w.kind = "asset" /\ pending' = pending \ {w}
       /\ \/ ~store.root /\ store' = run /\ UNCHANGED <<files, told>>
          \/ /\ store.root /\ store' = run
             /\ files' = [files EXCEPT !.scenarios = Written(store.run, w.what)]
             /\ told' = [told EXCEPT !.scenarios = @ \cup {[run |-> store.run, what |-> w.what]}]
          \/ store.root /\ CanTrouble /\ store' = [run EXCEPT !.troubles = @ + 1] /\ UNCHANGED <<files, told>>
  /\ UNCHANGED <<tapes, done, recs>>

-----------------------------------------------------------------------------
(* Casts.                                                                  *)

\* enable_recording: a cast in progress is replaced and is gone.
Attached(s, c) == [tapes EXCEPT ![s].cast = c]

\* tui_record start: refused under a lease.
CastStart(s) ==
  /\ ~tapes[s].leased /\ CanRecord
  /\ store' = [store EXCEPT !.cast = @ + 1]
  /\ tapes' = Attached(s, store.cast + 1)
  /\ UNCHANGED <<done, recs, files, pending, told>>

\* First lock of a stop or a shot: a run with a root gets the file now, and
\* a failed write is an error that loses it.
Keeps(c) ==
  \/ /\ store.root /\ files' = [files EXCEPT !.casts = @ \cup {c}]
     /\ told' = [told EXCEPT !.casts = @ \cup {c}] /\ UNCHANGED <<store, pending>>
  \/ ~store.root /\ pending' = pending \cup {[kind |-> "cast", what |-> c]}
     /\ UNCHANGED <<store, files, told>>
  \/ store.root /\ CanTrouble /\ Troubled /\ UNCHANGED <<files, told, pending>>

\* tui_record stop: refused under a lease; the sink is taken.
CastStop(s) ==
  /\ ~tapes[s].leased /\ tapes[s].cast # NoCast /\ CanCall
  /\ tapes' = Attached(s, NoCast)
  /\ Keeps(tapes[s].cast)
  /\ UNCHANGED <<done, recs>>

\* Second lock: held in the run.
CastHold ==
  /\ \E w \in pending :
       /\ w.kind = "cast" /\ pending' = pending \ {w}
       /\ store' = [store EXCEPT !.held = @ \cup {w.what}]
       /\ told' = [told EXCEPT !.casts = @ \cup {w.what}]
  /\ UNCHANGED <<tapes, done, recs, files>>

-----------------------------------------------------------------------------
(* The run.                                                                *)

\* Mutant: what could not be written is not held any more.
FlushedForgets(failed) ==
  [held |-> {}, casts |-> files.casts \cup (store.held \ failed)]

\* RunContext::flush: a cast that cannot be written stays held.
Flushed(failed) ==
  [held |-> failed, casts |-> files.casts \cup (store.held \ failed)]

FlushedScenarios ==
  files.scenarios
  \cup {[run |-> store.run, what |-> sc] : sc \in
          {m \in store.saved : ~\E f \in files.scenarios :
             f.run = store.run /\ f.what.id = m.id /\ f.what.name = m.name}}

\* persist: promote and flush, with no lease.
Persist ==
  /\ \E failed \in SUBSET store.held :
       /\ failed # {} => CanTrouble
       /\ files' = [scenarios |-> FlushedScenarios, casts |-> Flushed(failed).casts]
       /\ store' = [store EXCEPT !.root = TRUE, !.held = Flushed(failed).held,
                                 !.troubles = IF failed = {} THEN @ ELSE @ + 1]
  /\ UNCHANGED <<tapes, done, recs, pending, told>>

\* new waits for the calls that hold a lease: the second step of a cast is
\* in one, the steps of a stop and of an asset are not.  A run with a root
\* is flushed; what an ephemeral one holds goes with it.
NewRun ==
  /\ store.run < MaxRuns /\ \A w \in pending : w.kind # "cast"
  /\ recs' = {}
  /\ IF store.root
     THEN /\ files' = [scenarios |-> FlushedScenarios, casts |-> Flushed({}).casts] /\ UNCHANGED told
     ELSE told' = [told EXCEPT !.casts = @ \ store.held] /\ UNCHANGED files
  /\ store' = Fresh(store.run + 1, store.rec, store.cast, store.troubles)
  /\ UNCHANGED <<tapes, done, pending>>

\* A crash and a resume: the saved scenarios are those of the files.
Crash ==
  /\ CanTrouble /\ store.root
  /\ recs' = {} /\ pending' = {}
  /\ store' = [store EXCEPT !.saved = {f.what : f \in {g \in files.scenarios : g.run = store.run}},
                            !.held = {}, !.troubles = @ + 1]
  /\ told' = [told EXCEPT !.casts = @ \ store.held]
  /\ tapes' = [s \in Tapes |-> [gen |-> tapes[s].gen + 1, leased |-> FALSE, cast |-> NoCast]]
  /\ UNCHANGED <<done, files>>

Next ==
  \/ \E s \in Tapes :
       \/ Act(s) \/ Look(s) \/ Restart(s) \/ Lease(s) \/ RecordStart(s) \/ Asset(s) \/ CastStart(s) \/ CastStop(s)
  \/ RecordStop \/ RecordStopFile \/ AssetOfReproduction \/ SaveAsset \/ CastHold
  \/ Persist \/ NewRun \/ Crash

-----------------------------------------------------------------------------

\* recording_scope.rs, ScenarioRecording: "A recorder for session A must
\* never capture activity sent to session B", nor that of another
\* generation: the steps are the calls of its own one while it ran, in order.
OwnTraffic ==
  \A r \in recs \cup {sc \in store.saved : sc.gen # 0} :
    /\ \A j, k \in DOMAIN r.steps : j < k => r.steps[j] < r.steps[k]
    /\ {r.steps[k] : k \in DOMAIN r.steps} =
         {n \in DOMAIN done : n \in r.from + 1 .. r.till /\ done[n].tape = r.tape /\ done[n].gen = r.gen}

\* scenario_impl.rs, save_scenario: what a caller was told is in a file is
\* there, with the steps it was told of, under crashes, other scenarios of
\* its name, and later saves of itself as an asset.
SavedStays ==
  \A t \in told.scenarios :
    \E f \in files.scenarios : f.run = t.run /\ f.what.id = t.what.id /\ f.what.steps = t.what.steps

\* handlers/scenario.rs, tui_record: a cast whose stop was answered is in a
\* file, or in the memory of its run until one is written.
CastsKept == \A c \in told.casts : c \in files.casts \/ c \in store.held

\* regression_asset.rs:143: "the acts that actually reached it, in run
\* order".
AssetInOrder ==
  \A sc \in store.saved : sc.gen = 0 => \A m, n \in DOMAIN sc.steps : m < n => sc.steps[m] < sc.steps[n]
=============================================================================
