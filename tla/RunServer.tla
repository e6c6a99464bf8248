----------------------------- MODULE RunServer -----------------------------
(***************************************************************************)
(* The server of src/mcp/tools.rs and its handlers: concurrent tool calls  *)
(* over one current run, the sessions bound to runs, the human control     *)
(* lease, and the admission gate (LifecycleGate) between them.             *)
(*                                                                         *)
(* A client is one in-flight tool call.  Every access to the run mutex, to *)
(* the owner map, to the pool or to an actor is a step of its own; a       *)
(* handler segment between two of them is atomic.  Calls that bypass the   *)
(* gate (stop, restart, persist, and verify's final record) do so here.    *)
(*                                                                         *)
(* Abstracted: an evidence record is named after the call that produced it *)
(* and the run that authorised it (so a call drives at most once); the     *)
(* session pool is SessionPool with stop as one step; terminal events and  *)
(* the stages of a flush are in the persistence modules.                   *)
(***************************************************************************)
EXTENDS LifecycleGate

CONSTANTS
  Runs,      \* run ids, allocated once each
  Sessions,  \* session ids, allocated once each
  Ops,       \* which tools the instance exercises
  Faults,    \* which of "flush", "reopen" may fail
  None       \* no run / no session

ASSUME ServerAssumption ==
  /\ None \notin Runs \cup Sessions
  /\ Runs # {}

VARIABLES
  run,        \* the current RunContext
  used,       \* run ids allocated so far
  disk,       \* each run's artifact directory
  live,       \* sessions the pool lists
  born,       \* session ids allocated so far
  owners,     \* SessionOwnership
  leased,     \* sessions under a live human lease
  pc, op, sess,
  ticket,     \* the run id a call was authorised under
  saved,      \* the RunContext a transition holds in a local
  todo,       \* sessions a transition still has to look at
  approved,   \* sessions a resume may stop
  made,       \* calls that produced their evidence
  committed,  \* history: evidence some run accepted
  discarded,  \* history: evidence given up with discard=true
  dropped,    \* history: evidence a resume lost
  harmed      \* history: tools that killed a leased session's process

runVars  == <<run, used, disk>>
poolVars == <<live, born, owners, leased>>
callVars == <<op, sess, ticket, saved, todo, approved>>
histVars == <<made, committed, discarded, dropped, harmed>>
vars == <<gateVars, runVars, poolVars, pc, callVars, histVars>>

AllOps == {"act", "start", "lease", "stop", "restart", "scenario", "verify",
           "persist", "new", "discard", "close", "kill",
           "resume", "detach", "resumeLive"}
Transitions == {"new", "discard", "close", "kill", "resume", "detach", "resumeLive"}

Evidence == [by : Clients, run : Runs]
Context  == [id : Runs, dir : BOOLEAN, closed : BOOLEAN,
             mem : SUBSET Evidence]

ASSUME ContextAssumption == None \notin Context

\* RunContext::ephemeral.
Fresh(r) == [id |-> r, dir |-> FALSE, closed |-> FALSE, mem |-> {}]

\* The run, its directories, the sessions and what was recorded of them.
RunTypeOK ==
  /\ run \in Context
  /\ run.id \in used /\ used \subseteq Runs
  /\ disk \in [Runs -> [there : BOOLEAN, closed : BOOLEAN, ev : SUBSET Evidence]]
  /\ live \subseteq born /\ born \subseteq Sessions
  /\ owners \in [Sessions -> Runs \cup {None}]
  /\ leased \subseteq Sessions
  /\ made \subseteq Clients
  /\ committed \subseteq Evidence
  /\ discarded \subseteq Evidence
  /\ dropped \subseteq Evidence
  /\ harmed \subseteq AllOps

\* Where a handler can be between two of its steps.
Steps == {"idle", "queue", "job", "commit", "return", "record", "bind", "nested", "unnest",
          "leaseCheck", "ownerCheck", "kill", "swap", "flush", "seal", "preflight",
          "reopen", "detach", "leave"}

\* The locals of each call.
CallTypeOK ==
  /\ pc \in [Clients -> Steps]
  /\ op \in [Clients -> AllOps \cup {"none"}]
  /\ sess \in [Clients -> Sessions \cup {None}]
  /\ ticket \in [Clients -> Runs \cup {None}]
  /\ saved \in [Clients -> Context \cup {None}]
  /\ todo \in [Clients -> SUBSET Sessions]
  /\ approved \in [Clients -> SUBSET Sessions]

\* Every field has its type; sessions are allocated before they are live, and
\* the current run is one that was allocated (TuiLabServer).
TypeOK == GateTypeOK /\ RunTypeOK /\ CallTypeOK

Init ==
  /\ GateInit
  /\ \E r \in Runs : run = Fresh(r) /\ used = {r}
  /\ disk = [r \in Runs |-> [there |-> FALSE, closed |-> FALSE, ev |-> {}]]
  /\ live = {} /\ born = {}
  /\ owners = [s \in Sessions |-> None]
  /\ leased = {}
  /\ pc = [c \in Clients |-> "idle"]
  /\ op = [c \in Clients |-> "none"]
  /\ sess = [c \in Clients |-> None]
  /\ ticket = [c \in Clients |-> None]
  /\ saved = [c \in Clients |-> None]
  /\ todo = [c \in Clients |-> {}]
  /\ approved = [c \in Clients |-> {}]
  /\ made = {} /\ committed = {} /\ discarded = {} /\ dropped = {} /\ harmed = {}

-----------------------------------------------------------------------------
(* Bookkeeping of a call.                                                  *)

Goto(c, step) == pc' = [pc EXCEPT ![c] = step]
At(c, step, ops) == pc[c] = step /\ op[c] \in ops

Begin(c, o, s) ==
  /\ pc[c] = "idle"
  /\ o \in Ops
  /\ op' = [op EXCEPT ![c] = o]
  /\ sess' = [sess EXCEPT ![c] = s]
  /\ UNCHANGED <<ticket, saved, todo, approved>>

Done(c) ==
  /\ pc' = [pc EXCEPT ![c] = "idle"]
  /\ op' = [op EXCEPT ![c] = "none"]
  /\ sess' = [sess EXCEPT ![c] = None]
  /\ ticket' = [ticket EXCEPT ![c] = None]
  /\ saved' = [saved EXCEPT ![c] = None]
  /\ todo' = [todo EXCEPT ![c] = {}]
  /\ approved' = [approved EXCEPT ![c] = {}]

\* The call returns and its lease is dropped.
ReturnShared(c) == LeaveShared(c) /\ Done(c)
ReturnExclusive(c) == LeaveExclusive(c) /\ Done(c)

\* The actor of s is inside another call's job.
Busy(s) == \E c \in Clients : pc[c] = "commit" /\ sess[c] = s

\* admit_under_lease: the run is open and the session is not another run's.
Admits(s) == ~run.closed /\ owners[s] \in {None, run.id}

\* Evidence of call c lands in the current run.
Accept(c) ==
  LET e == [by |-> c, run |-> ticket[c]] IN
  /\ run' = [run EXCEPT !.mem = @ \cup {e}]
  /\ committed' = committed \cup {e}

\* RunContext::flush of x (a failed one may have written part of it).
Flushed(x, ok) ==
  /\ ok \/ "flush" \in Faults
  /\ IF ~x.dir THEN ok /\ UNCHANGED disk
     ELSE \E part \in (IF ok THEN {x.mem} ELSE {{}, x.mem}) :
            disk' = [disk EXCEPT ![x.id].ev = @ \cup part]

\* SessionPool::stop as one step: the mail waits for the job in progress, and
\* an id that is gone already is success.  A dead actor is an error, which
\* leaves the binding.
Kill(c, s) ==
  /\ ~Busy(s)
  /\ live' = live \ {s}
  /\ leased' = leased \ {s}
  /\ harmed' = IF s \in live \cap leased THEN harmed \cup {op[c]} ELSE harmed
  /\ \/ owners' = [owners EXCEPT ![s] = None]
     \/ s \in live /\ owners' = owners
  /\ UNCHANGED <<born, made, committed, discarded, dropped>>

-----------------------------------------------------------------------------
(* Driving calls: with_sess_authorized / with_sess_evidenced, and with_sess *)
(* for lease and release.                                                  *)

\* Ask for the shared lease.
DriveBegin(c, s) ==
  /\ \/ Begin(c, "act", s) /\ c \notin made
     \/ Begin(c, "lease", s)
  /\ s \in born
  /\ AskShared(c)
  /\ Goto(c, "queue")
  /\ UNCHANGED <<runVars, poolVars, histVars>>

\* Mutant: the call is admitted on the closed flag alone.
AdmitAnyOwner(c) ==
  /\ At(c, "queue", {"act", "lease", "verify"})
  /\ ~run.closed
  /\ EnterShared(c)
  /\ Goto(c, "job")
  /\ ticket' = [ticket EXCEPT ![c] = IF @ = None THEN run.id ELSE @]
  /\ UNCHANGED <<runVars, poolVars, op, sess, saved, todo, approved, histVars>>

\* The lease is held: authorise and capture the ticket.
Admit(c) ==
  /\ At(c, "queue", {"act", "lease", "verify"})
  /\ Admits(sess[c])
  /\ EnterShared(c)
  /\ Goto(c, "job")
  /\ ticket' = [ticket EXCEPT ![c] = IF @ = None THEN run.id ELSE @]
  /\ UNCHANGED <<runVars, poolVars, op, sess, saved, todo, approved, histVars>>

\* RunClosed or NoSession: the call returns the refusal.
AdmitRefused(c) ==
  /\ At(c, "queue", {"act", "lease", "verify"})
  /\ ~Admits(sess[c])
  /\ EnterShared(c)
  /\ Goto(c, "return")
  /\ UNCHANGED <<runVars, poolVars, callVars, histVars>>

\* The last thing a shared call does: answer and drop its lease.
Return(c) ==
  /\ pc[c] = "return"
  /\ ReturnShared(c)
  /\ UNCHANGED <<runVars, poolVars, histVars>>

\* The job runs on the actor; lease_refused inside the job refuses a drive.
JobDrive(c) ==
  /\ At(c, "job", {"act"})
  /\ ~Busy(sess[c])
  /\ \/ /\ sess[c] \in live \ leased
        /\ Goto(c, "commit")
        /\ UNCHANGED <<gateVars, callVars>>
     \/ /\ sess[c] \notin live \ leased
        /\ ReturnShared(c)
  /\ UNCHANGED <<runVars, poolVars, histVars>>

\* RunEvidenceSink::commit: the ticket is verified under the run lock, and
\* record_interaction refuses a closed run; otherwise the evidence is dropped.
Commit(c) ==
  /\ At(c, "commit", {"act"})
  /\ \/ run.id = ticket[c] /\ ~run.closed /\ Accept(c)
     \/ (run.id # ticket[c] \/ run.closed) /\ UNCHANGED <<run, committed>>
  /\ made' = made \cup {c}
  /\ ReturnShared(c)
  /\ UNCHANGED <<used, disk, poolVars, discarded, dropped, harmed>>

\* acquire_lease (refused while one is live) or a release with its token.
JobLease(c) ==
  /\ At(c, "job", {"lease"})
  /\ ~Busy(sess[c])
  /\ leased' \in {leased, leased \cup ({sess[c]} \cap live), leased \ {sess[c]}}
  /\ ReturnShared(c)
  /\ UNCHANGED <<runVars, live, born, owners, histVars>>

\* The TTL of a human lease runs out.
LeaseExpires(s) ==
  /\ s \in leased
  /\ leased' = leased \ {s}
  /\ UNCHANGED <<gateVars, runVars, live, born, owners, pc, callVars, histVars>>

-----------------------------------------------------------------------------
(* tui_session start / attach.                                             *)

StartBegin(c, s) ==
  /\ Begin(c, "start", s)
  /\ s \notin born
  /\ born' = born \cup {s}
  /\ AskShared(c)
  /\ Goto(c, "queue")
  /\ UNCHANGED <<runVars, live, owners, leased, histVars>>

\* The launch does not ask whether the run is open; it may fail.
StartLaunch(c) ==
  /\ At(c, "queue", {"start"})
  /\ EnterShared(c)
  /\ \/ live' = live \cup {sess[c]} /\ Goto(c, "bind")
     \/ live' = live /\ Goto(c, "return")
  /\ UNCHANGED <<runVars, born, owners, leased, callVars, histVars>>

\* Mutant: the binding is forgotten.
StartUnbound(c) ==
  /\ At(c, "bind", {"start"})
  /\ Goto(c, "return")
  /\ UNCHANGED <<gateVars, runVars, poolVars, callVars, histVars>>

\* bind_session_owner: the run that is current now owns the session.  The
\* readback that follows may be refused (closed run); the session stays.
StartBind(c) ==
  /\ At(c, "bind", {"start"})
  /\ owners' = [owners EXCEPT ![sess[c]] = run.id]
  /\ Goto(c, "return")
  /\ UNCHANGED <<gateVars, runVars, live, born, leased, callVars, histVars>>

-----------------------------------------------------------------------------
(* tui_session stop / restart: no lifecycle lease.                         *)

\* restart refuses a closed run first; then authorize_lifecycle's list check.
StopBegin(c, s) ==
  /\ Begin(c, "stop", s) \/ (Begin(c, "restart", s) /\ ~run.closed)
  /\ s \in born
  /\ Goto(c, IF s \in live THEN "leaseCheck" ELSE "kill")
  /\ UNCHANGED <<gateVars, runVars, poolVars, histVars>>

\* The lease is read by a job on the actor; an actor gone by now is no lease.
StopLeaseCheck(c) ==
  /\ At(c, "leaseCheck", {"stop", "restart"})
  /\ ~Busy(sess[c])
  /\ IF sess[c] \in live \cap leased
     THEN Done(c)
     ELSE Goto(c, "ownerCheck") /\ UNCHANGED callVars
  /\ UNCHANGED <<gateVars, runVars, poolVars, histVars>>

StopOwnerCheck(c) ==
  /\ At(c, "ownerCheck", {"stop", "restart"})
  /\ IF owners[sess[c]] \in {None, run.id}
     THEN Goto(c, "kill") /\ UNCHANGED callVars
     ELSE Done(c)
  /\ UNCHANGED <<gateVars, runVars, poolVars, histVars>>

StopKill(c) ==
  /\ At(c, "kill", {"stop"})
  /\ Kill(c, sess[c])
  /\ Done(c)
  /\ UNCHANGED <<gateVars, runVars>>

\* Session::restart kills the child and launches the next generation of the
\* same session; the capability readback that follows is an ordinary with_sess.
RestartKill(c) ==
  /\ At(c, "kill", {"restart"})
  /\ ~Busy(sess[c])
  /\ harmed' = IF sess[c] \in live \cap leased THEN harmed \cup {"restart"} ELSE harmed
  /\ IF sess[c] \in live
     THEN Goto(c, "queue") /\ AskShared(c) /\ UNCHANGED callVars
     ELSE Done(c) /\ UNCHANGED gateVars
  /\ UNCHANGED <<runVars, poolVars, made, committed, discarded, dropped>>

RestartReadback(c) ==
  /\ At(c, "queue", {"restart"})
  /\ EnterShared(c)
  /\ Goto(c, "return")
  /\ UNCHANGED <<runVars, poolVars, callVars, histVars>>

-----------------------------------------------------------------------------
(* run_scenario_owned: launch, replay and cleanup under one shared lease,   *)
(* with a second shared lease (with_sess) around the replay.               *)

ScenarioBegin(c, s) ==
  /\ Begin(c, "scenario", s)
  /\ s \notin born /\ c \notin made
  /\ born' = born \cup {s}
  /\ AskShared(c)
  /\ Goto(c, "queue")
  /\ UNCHANGED <<runVars, live, owners, leased, histVars>>

\* A closed run or a failed launch ends it here.
ScenarioLaunch(c) ==
  /\ At(c, "queue", {"scenario"})
  /\ EnterShared(c)
  /\ \/ ~run.closed /\ live' = live \cup {sess[c]} /\ Goto(c, "bind")
     \/ live' = live /\ Goto(c, "return")
  /\ UNCHANGED <<runVars, born, owners, leased, callVars, histVars>>

ScenarioBind(c) ==
  /\ At(c, "bind", {"scenario"})
  /\ owners' = [owners EXCEPT ![sess[c]] = run.id]
  /\ AskShared(c)
  /\ Goto(c, "nested")
  /\ UNCHANGED <<runVars, live, born, leased, callVars, histVars>>

\* The second lease is granted: admission, then the replay job.
ScenarioReplay(c) ==
  /\ At(c, "nested", {"scenario"})
  /\ EnterShared(c)
  /\ Goto(c, IF Admits(sess[c]) /\ sess[c] \in live \ leased THEN "commit" ELSE "unnest")
  /\ ticket' = [ticket EXCEPT ![c] = run.id]
  /\ UNCHANGED <<runVars, poolVars, op, sess, saved, todo, approved, histVars>>

\* The runner records through the run mutex, no ticket; a closed run refuses.
ScenarioCommit(c) ==
  /\ At(c, "commit", {"scenario"})
  /\ IF run.closed THEN UNCHANGED <<run, committed>> ELSE Accept(c)
  /\ made' = made \cup {c}
  /\ Goto(c, "unnest")
  /\ UNCHANGED <<gateVars, used, disk, poolVars, callVars, discarded, dropped, harmed>>

ScenarioUnnest(c) ==
  /\ At(c, "unnest", {"scenario"})
  /\ LeaveShared(c)
  /\ Goto(c, "kill")
  /\ UNCHANGED <<runVars, poolVars, callVars, histVars>>

\* Cleanup stops the session and leaves its binding in the owner map.
ScenarioCleanup(c) ==
  /\ At(c, "kill", {"scenario"})
  /\ ~Busy(sess[c])
  /\ live' = live \ {sess[c]}
  /\ leased' = leased \ {sess[c]}
  /\ harmed' = IF sess[c] \in live \cap leased THEN harmed \cup {"scenario"} ELSE harmed
  /\ Goto(c, "return")
  /\ UNCHANGED <<gateVars, runVars, born, owners, callVars, made, committed, discarded, dropped>>

-----------------------------------------------------------------------------
(* tui_workflow verify: the finding is read, the re-check runs as a driving *)
(* call, and the record is written after its lease is gone.                *)

VerifyBegin(c, s) ==
  /\ pc[c] = "idle" /\ "verify" \in Ops
  /\ s \in born /\ c \notin made
  /\ run.mem # {}
  /\ op' = [op EXCEPT ![c] = "verify"]
  /\ sess' = [sess EXCEPT ![c] = s]
  /\ ticket' = [ticket EXCEPT ![c] = run.id]
  /\ AskShared(c)
  /\ Goto(c, "queue")
  /\ UNCHANGED <<runVars, poolVars, saved, todo, approved, histVars>>

JobVerify(c) ==
  /\ At(c, "job", {"verify"})
  /\ ~Busy(sess[c])
  /\ \/ /\ sess[c] \in live \ leased
        /\ LeaveShared(c)
        /\ Goto(c, "record")
        /\ UNCHANGED callVars
     \/ /\ sess[c] \notin live \ leased
        /\ ReturnShared(c)
  /\ UNCHANGED <<runVars, poolVars, histVars>>

\* record_verification: whatever run is current, open or not.
VerifyRecord(c) ==
  /\ At(c, "record", {"verify"})
  /\ Accept(c)
  /\ made' = made \cup {c}
  /\ Done(c)
  /\ UNCHANGED <<gateVars, used, disk, poolVars, discarded, dropped, harmed>>

-----------------------------------------------------------------------------
\* tui_run persist, whole under the run mutex and outside the gate: flush a
\* persistent run, promote an ephemeral one (its stages are in RunStore).
Persist ==
  /\ "persist" \in Ops
  /\ \/ run.dir /\ (\E ok \in BOOLEAN : Flushed(run, ok)) /\ UNCHANGED run
     \/ /\ ~run.dir
        /\ run' = [run EXCEPT !.dir = TRUE]
        /\ disk' = [disk EXCEPT ![run.id] =
                       [there |-> TRUE, closed |-> run.closed, ev |-> run.mem]]
  /\ UNCHANGED <<gateVars, used, poolVars, pc, callVars, histVars>>

-----------------------------------------------------------------------------
(* tui_run transitions, all under the exclusive lease.                     *)

TransitionBegin(c, o) ==
  /\ o \in Transitions
  /\ Begin(c, o, None)
  /\ AskExclusive(c)
  /\ Goto(c, "queue")
  /\ UNCHANGED <<runVars, poolVars, histVars>>

Leave(c) ==
  /\ pc[c] = "leave"
  /\ ReturnExclusive(c)
  /\ UNCHANGED <<runVars, poolVars, histVars>>

(* new.                                                                    *)

\* Refuse over evidence that exists in memory only, unless discard is set.
NewCheck(c) ==
  /\ At(c, "queue", {"new", "discard"})
  /\ EnterExclusive(c)
  /\ Goto(c, IF ~run.dir /\ run.mem # {} /\ op[c] = "new" THEN "leave" ELSE "swap")
  /\ UNCHANGED <<runVars, poolVars, callVars, histVars>>

\* Mutant: the swap starts an era of its own.
NewSwapBumps(c) ==
  /\ At(c, "swap", {"new", "discard"})
  /\ \E r \in Runs \ used : run' = Fresh(r) /\ used' = used \cup {r}
  /\ saved' = [saved EXCEPT ![c] = run]
  /\ epoch' = epoch + 1
  /\ Goto(c, "flush")
  /\ UNCHANGED <<waiting, readers, writer, entering, seen, disk, poolVars, op, sess,
                 ticket, todo, approved, histVars>>

NewSwap(c) ==
  /\ At(c, "swap", {"new", "discard"})
  /\ \E r \in Runs \ used : run' = Fresh(r) /\ used' = used \cup {r}
  /\ saved' = [saved EXCEPT ![c] = run]
  /\ Goto(c, "flush")
  /\ UNCHANGED <<gateVars, disk, poolVars, op, sess, ticket, todo, approved, histVars>>

\* Mutant: a failed flush does not swap the old run back.
NewFlushNoRollback(c) ==
  /\ At(c, "flush", {"new", "discard"})
  /\ \E ok \in BOOLEAN : Flushed(saved[c], ok)
  /\ discarded' = IF op[c] = "discard" /\ ~saved[c].dir
                  THEN discarded \cup saved[c].mem ELSE discarded
  /\ Goto(c, "leave")
  /\ UNCHANGED <<gateVars, run, used, poolVars, callVars, made, committed, dropped, harmed>>

\* The old run is flushed after the swap; if that fails it is swapped back.
NewFlush(c) ==
  /\ At(c, "flush", {"new", "discard"})
  /\ \E ok \in BOOLEAN :
       /\ Flushed(saved[c], ok)
       /\ run' = IF ok THEN run ELSE saved[c]
       /\ discarded' = IF ok /\ op[c] = "discard" /\ ~saved[c].dir
                       THEN discarded \cup saved[c].mem ELSE discarded
  /\ Goto(c, "leave")
  /\ UNCHANGED <<gateVars, used, poolVars, callVars, made, committed, dropped, harmed>>

(* close.                                                                  *)

\* The sessions bound to this run, then drain_events of each (abstracted).
CloseEnter(c) ==
  /\ At(c, "queue", {"close", "kill"})
  /\ EnterExclusive(c)
  /\ todo' = [todo EXCEPT ![c] = {s \in live : owners[s] = run.id}]
  /\ Goto(c, "seal")
  /\ UNCHANGED <<runVars, poolVars, op, sess, ticket, saved, approved, histVars>>

\* RunContext::close: flush and manifest must succeed, else the run stays open.
CloseSeal(c) ==
  /\ At(c, "seal", {"close", "kill"})
  /\ \/ /\ IF run.closed THEN UNCHANGED <<run, disk>>
           ELSE /\ run' = [run EXCEPT !.closed = TRUE]
                /\ disk' = IF ~run.dir THEN disk ELSE
                     [disk EXCEPT ![run.id] = [there |-> TRUE, closed |-> TRUE,
                                               ev |-> @.ev \cup (run.mem)]]
        /\ Goto(c, IF op[c] = "kill" THEN "leaseCheck" ELSE "leave")
     \/ /\ ~run.closed /\ run.dir
        /\ Flushed(run, FALSE)
        /\ Goto(c, "leave")
        /\ UNCHANGED run
  /\ UNCHANGED <<gateVars, used, poolVars, callVars, histVars>>

\* Mutant: the lease is asked for through with_sess, which a closed run refuses.
CloseNoLeaseCheck(c) ==
  /\ At(c, "leaseCheck", {"kill"})
  /\ \/ todo[c] = {} /\ Goto(c, "leave") /\ UNCHANGED callVars
     \/ \E s \in todo[c] :
          /\ todo' = [todo EXCEPT ![c] = @ \ {s}]
          /\ Goto(c, "kill")
          /\ sess' = [sess EXCEPT ![c] = s]
          /\ UNCHANGED <<op, ticket, saved, approved>>
  /\ UNCHANGED <<gateVars, runVars, poolVars, histVars>>

\* One of the owned sessions: a leased one is skipped and reported.
CloseLeaseCheck(c) ==
  /\ At(c, "leaseCheck", {"kill"})
  /\ \/ todo[c] = {} /\ Goto(c, "leave") /\ UNCHANGED callVars
     \/ \E s \in todo[c] :
          /\ ~Busy(s)
          /\ todo' = [todo EXCEPT ![c] = @ \ {s}]
          /\ Goto(c, IF s \in live \cap leased THEN "leaseCheck" ELSE "kill")
          /\ sess' = [sess EXCEPT ![c] = s]
          /\ UNCHANGED <<op, ticket, saved, approved>>
  /\ UNCHANGED <<gateVars, runVars, poolVars, histVars>>

CloseKill(c) ==
  /\ At(c, "kill", {"kill"})
  /\ Kill(c, sess[c])
  /\ Goto(c, "leaseCheck")
  /\ UNCHANGED <<gateVars, runVars, callVars>>

(* resume.                                                                 *)

Resumes == {"resume", "detach", "resumeLive"}

\* Mutant: the target is reopened as soon as it is restored.
RestoreReopens(c) ==
  /\ At(c, "queue", Resumes)
  /\ EnterExclusive(c)
  /\ \E t \in Runs :
       LET foreign == {s \in live : owners[s] # t} IN
       /\ disk[t].there
       /\ disk' = [disk EXCEPT ![t].closed = FALSE]
       /\ saved' = [saved EXCEPT ![c] =
            [id |-> t, dir |-> TRUE, closed |-> FALSE, mem |-> disk[t].ev]]
       /\ todo' = [todo EXCEPT ![c] = foreign]
       /\ Goto(c, IF foreign = {} \/ op[c] = "detach" THEN "preflight" ELSE "leave")
  /\ UNCHANGED <<run, used, poolVars, op, sess, ticket, approved, histVars>>

\* Restore the target into a local context, and list the foreign sessions
\* (an unbound one counts).  Without detach they refuse the resume; so does
\* a target that cannot be restored.
ResumeRestore(c) ==
  /\ At(c, "queue", Resumes)
  /\ EnterExclusive(c)
  /\ \/ \E t \in Runs :
          LET foreign == {s \in live : owners[s] # t} IN
          /\ disk[t].there
          /\ (t = run.id) = (op[c] = "resumeLive")
          /\ foreign = {} \/ op[c] = "detach"
          /\ saved' = [saved EXCEPT ![c] =
               [id |-> t, dir |-> TRUE, closed |-> disk[t].closed,
                mem |-> disk[t].ev]]
          /\ todo' = [todo EXCEPT ![c] = foreign]
          /\ Goto(c, "preflight")
     \/ Goto(c, "leave") /\ UNCHANGED <<saved, todo>>
  /\ UNCHANGED <<runVars, poolVars, op, sess, ticket, approved, histVars>>

\* preflight_lifecycle of each foreign session: a live lease refuses the whole
\* resume, a third run's session is skipped.
ResumePreflight(c) ==
  /\ At(c, "preflight", Resumes)
  /\ \/ todo[c] = {} /\ Goto(c, "flush") /\ UNCHANGED <<todo, approved>>
     \/ \E s \in todo[c] :
          /\ ~Busy(s)
          /\ todo' = [todo EXCEPT ![c] = @ \ {s}]
          /\ IF s \in live \cap leased
             THEN Goto(c, "leave") /\ UNCHANGED approved
             ELSE /\ UNCHANGED pc
                  /\ approved' = IF s \notin live \/ owners[s] \in {None, run.id}
                                 THEN [approved EXCEPT ![c] = @ \cup {s}] ELSE approved
  /\ UNCHANGED <<gateVars, runVars, poolVars, op, sess, ticket, saved, histVars>>

\* The live run is flushed; a failure aborts with nothing disturbed.
ResumeFlush(c) ==
  /\ At(c, "flush", Resumes)
  /\ \E ok \in BOOLEAN :
       Flushed(run, ok) /\ Goto(c, IF ok THEN "reopen" ELSE "leave")
  /\ UNCHANGED <<gateVars, run, used, poolVars, callVars, histVars>>

\* reopen: the manifest is written, or the target stays closed.
ResumeReopen(c) ==
  /\ At(c, "reopen", Resumes)
  /\ \/ /\ saved' = [saved EXCEPT ![c].closed = FALSE]
        /\ disk' = [disk EXCEPT ![saved[c].id].closed = FALSE]
        /\ Goto(c, "swap")
     \/ /\ "reopen" \in Faults
        /\ Goto(c, "leave")
        /\ UNCHANGED <<saved, disk>>
  /\ UNCHANGED <<gateVars, run, used, poolVars, op, sess, ticket, todo, approved, histVars>>

\* The current context is replaced, and dropped with what only it holds.
ResumeSwap(c) ==
  /\ At(c, "swap", Resumes)
  /\ run' = saved[c]
  /\ dropped' = dropped \cup
       (IF saved[c].id = run.id THEN run.mem \ saved[c].mem
        ELSE run.mem \ disk[run.id].ev)
  /\ Goto(c, "detach")
  /\ UNCHANGED <<gateVars, used, disk, poolVars, callVars, made, committed, discarded, harmed>>

\* Stop the approved foreign sessions, after the swap has committed.
ResumeDetach(c) ==
  /\ At(c, "detach", Resumes)
  /\ \/ /\ approved[c] = {}
        /\ Goto(c, "leave")
        /\ UNCHANGED <<poolVars, callVars, histVars>>
     \/ \E s \in approved[c] :
          /\ Kill(c, s)
          /\ approved' = [approved EXCEPT ![c] = @ \ {s}]
          /\ UNCHANGED <<pc, op, sess, ticket, saved, todo>>
  /\ UNCHANGED <<gateVars, runVars>>

-----------------------------------------------------------------------------
CallBegins(c) ==
  \/ \E s \in Sessions :
       DriveBegin(c, s) \/ StartBegin(c, s) \/ StopBegin(c, s)
         \/ ScenarioBegin(c, s) \/ VerifyBegin(c, s)
  \/ \E o \in Transitions : TransitionBegin(c, o)

CallStep(c) ==
  \/ Admit(c) \/ AdmitRefused(c) \/ Return(c)
  \/ JobDrive(c) \/ Commit(c) \/ JobLease(c) \/ JobVerify(c) \/ VerifyRecord(c)
  \/ StartLaunch(c) \/ StartBind(c)
  \/ StopLeaseCheck(c) \/ StopOwnerCheck(c) \/ StopKill(c)
  \/ RestartKill(c) \/ RestartReadback(c)
  \/ ScenarioLaunch(c) \/ ScenarioBind(c) \/ ScenarioReplay(c)
  \/ ScenarioCommit(c) \/ ScenarioUnnest(c) \/ ScenarioCleanup(c)
  \/ NewCheck(c) \/ NewSwap(c) \/ NewFlush(c)
  \/ CloseEnter(c) \/ CloseSeal(c) \/ CloseLeaseCheck(c) \/ CloseKill(c)
  \/ ResumeRestore(c) \/ ResumePreflight(c) \/ ResumeFlush(c)
  \/ ResumeReopen(c) \/ ResumeSwap(c) \/ ResumeDetach(c)
  \/ Leave(c)

GateGrants ==
  Grant /\ UNCHANGED <<runVars, poolVars, pc, callVars, histVars>>

Next ==
  \/ \E c \in Clients : CallBegins(c) \/ CallStep(c)
  \/ GateGrants
  \/ \E s \in Sessions : LeaseExpires(s)
  \/ Persist

Safety == Init /\ [][Next]_vars

\* The runtime polls every task that is ready, and the semaphore hands the
\* lock on when it is freed.  Nothing makes a caller send a request, a human
\* lease expire (a new one may be taken) or anyone call persist.
Fairness ==
  /\ \A c \in Clients : WF_vars(CallStep(c))
  /\ WF_vars(GateGrants)

Spec == Safety /\ Fairness

-----------------------------------------------------------------------------
(* Properties.                                                             *)

\* From admission to the commit, the world a driving call was authorised in
\* does not change: the current run is the one on its ticket, it is open, and
\* the session is not bound to another run (with_sess_authorized, lifecycle
\* gate).
AdmittedStable ==
  \A c \in Clients :
    pc[c] \in {"job", "commit"} /\ op[c] \in {"act", "lease", "scenario"} =>
      /\ run.id = ticket[c]
      /\ ~run.closed
      /\ owners[sess[c]] \in {None, run.id}

\* A transition sees every live session bound to a run: no launch is caught
\* between its start and its binding (tui_session start under one lease), so
\* close's owned list and resume's foreign list are complete.
SessionsBoundInTransition ==
  writer # NoClient /\ writer \notin entering => \A s \in live : owners[s] # None

\* Neither close nor resume ever kills a process a human has on lease, though
\* both look at the lease and stop the session in separate steps: no lease can
\* be granted while they hold the gate (CloseLeaseCheck, ResumePreflight).
TransitionsRespectLeases == harmed \cap Transitions = {}

\* The two of them: no session is without a run but under a lease of the gate,
\* and no transition takes one a human holds.
SessionsHeld == SessionsBoundInTransition /\ TransitionsRespectLeases

\* Evidence is filed under the run that authorised it, in memory and on disk
\* (RunTicket, RunEvidenceSink::commit, run_scenario_owned).
EvidenceProvenance ==
  /\ \A e \in run.mem : e.run = run.id
  /\ \A r \in Runs : \A e \in disk[r].ev : e.run = r

\* Between transitions every record a run accepted is in the live context of
\* that run or in its directory, unless the caller discarded it or a resume
\* dropped it (new's refusal, flush before replacement, swap back on failure).
EvidenceKept ==
  writer = NoClient =>
    \A e \in committed \ (discarded \cup dropped) :
      IF e.run = run.id THEN e \in run.mem ELSE e \in disk[e.run].ev

\* The two of them: evidence is written to the run it was made under, and a
\* transition that fails loses none.
EvidenceHonest == EvidenceProvenance /\ EvidenceKept

\* A resume that is refused or aborted leaves its target closed on disk: the
\* target is reopened only if it goes live (resume, step 3).
ReopenedGoesLive ==
  [][\A r \in Runs :
       disk[r].closed /\ ~disk'[r].closed =>
         \E c \in Clients : pc[c] = "reopen" /\ pc'[c] = "swap" /\ saved[c].id = r]_vars

\* Every tool call returns, whatever calls and transitions queue around it.
EveryCallReturns == \A c \in Clients : pc[c] # "idle" ~> pc[c] = "idle"

\* CHANGELOG: a leased session cannot be stopped even by its own run.
LeaseRespected == harmed = {}

\* What new's doc says of a transition, and resume's answer repeats
\* ("flushed_previous"): it never silently destroys unflushed evidence.
ResumeDropsNothing == dropped = {}
=============================================================================
