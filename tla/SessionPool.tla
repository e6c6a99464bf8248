---------------------------- MODULE SessionPool ----------------------------
(***************************************************************************)
(* The session pool of src/session/actor.rs: one thread-backed actor per   *)
(* session, a bounded mailbox in front of it, and a pool (directory plus   *)
(* active pointer) that any number of tool calls use at the same time.     *)
(*                                                                         *)
(* A caller is one in-flight tool call (a tokio task).  A caller that is   *)
(* not idle holds a clone of the actor handle of `tgt[c]`.  The directory, *)
(* the active pointer and the closing flag are three separate locks or     *)
(* atomics in the code, so each access is a step of its own here.          *)
(*                                                                         *)
(* Abstracted: what a job does to the screen, error texts, and the         *)
(* generation number.  A job is atomic: only its own actor thread touches  *)
(* the session while it runs.  The process is an owned child (portable     *)
(* PTY, pipe, line CLI), whose stop kills and reaps it and cannot fail.    *)
(***************************************************************************)
EXTENDS Naturals, Sequences, FiniteSets

CONSTANTS
  Sessions,  \* session ids (uuids: never reused)
  Callers,   \* concurrent tool calls
  Capacity,  \* mailbox slots (64 in the code)
  None       \* "no session" / "no caller"

ASSUME PoolAssumption ==
  /\ Capacity \in Nat \ {0}
  /\ None \notin Sessions
  /\ None \notin Callers

VARIABLES
  directory,  \* SessionPool.directory: ids that resolve to a handle
  active,     \* SessionPool.active
  dropped,    \* the pool itself has been dropped
  closing,    \* SessionActorInner.closing, shared by every handle clone
  mailbox,    \* the tokio mpsc queue of each actor
  thread,     \* the actor thread: unborn, running, exiting or exited
  joined,     \* the join handle has been taken and joined
  launched,   \* Session.launch is Some
  child,      \* the target process of the session
  pc,         \* where each caller is
  job,        \* which job the caller sends
  tgt,        \* the session whose handle the caller holds
  reply,      \* the caller's oneshot
  target,     \* stop only: did the target-stop job succeed
  stoppedOk   \* history: sessions whose removing stop returned Ok

vars == <<directory, active, dropped, closing, mailbox, thread, joined,
          launched, child, pc, job, tgt, reply, target, stoppedOk>>

poolVars  == <<directory, active, dropped>>
actorVars == <<mailbox, thread, launched, child>>
callVars  == <<job, tgt, reply, target>>

Jobs  == {"start", "work", "sync", "restart"}
Mail  == [from : Callers \cup {None}, kind : Jobs \cup {"stop", "shutdown"}]
Steps == {"idle", "lookup", "gate", "enqueue", "await", "setActive",
          "readActive", "clearActive", "beginClosing",
          "stopEnqueue", "stopAwait", "ackEnqueue", "ackAwait", "join"}

\* Every field has its type, and no mailbox holds more mail than the channel
\* was created for, whoever is posting (SessionActor::spawn, MAILBOX).
TypeOK ==
  /\ directory \subseteq Sessions
  /\ active \in Sessions \cup {None}
  /\ dropped \in BOOLEAN
  /\ closing \in [Sessions -> BOOLEAN]
  /\ mailbox \in [Sessions -> Seq(Mail)]
  /\ \A s \in Sessions : Len(mailbox[s]) <= Capacity
  /\ thread \in [Sessions -> {"unborn", "running", "exiting", "exited"}]
  /\ joined \in [Sessions -> BOOLEAN]
  /\ launched \in [Sessions -> BOOLEAN]
  /\ child \in [Sessions -> {"none", "running", "dead"}]
  /\ pc \in [Callers -> Steps]
  /\ job \in [Callers -> Jobs]
  /\ tgt \in [Callers -> Sessions \cup {None}]
  /\ reply \in [Callers -> {"none", "ok", "err", "lost"}]
  /\ target \in [Callers -> BOOLEAN]
  /\ stoppedOk \subseteq Sessions

Init ==
  /\ directory = {}
  /\ active = None
  /\ dropped = FALSE
  /\ closing = [s \in Sessions |-> FALSE]
  /\ mailbox = [s \in Sessions |-> <<>>]
  /\ thread = [s \in Sessions |-> "unborn"]
  /\ joined = [s \in Sessions |-> FALSE]
  /\ launched = [s \in Sessions |-> FALSE]
  /\ child = [s \in Sessions |-> "none"]
  /\ pc = [c \in Callers |-> "idle"]
  /\ job = [c \in Callers |-> "work"]
  /\ tgt = [c \in Callers |-> None]
  /\ reply = [c \in Callers |-> "none"]
  /\ target = [c \in Callers |-> FALSE]
  /\ stoppedOk = {}

-----------------------------------------------------------------------------
(* Bookkeeping of a caller's steps.                                        *)

Goto(c, step) == pc' = [pc EXCEPT ![c] = step]

\* The call returns: its handle clone, its oneshot and its locals are dropped.
Return(c) ==
  /\ pc' = [pc EXCEPT ![c] = "idle"]
  /\ job' = [job EXCEPT ![c] = "work"]
  /\ tgt' = [tgt EXCEPT ![c] = None]
  /\ reply' = [reply EXCEPT ![c] = "none"]
  /\ target' = [target EXCEPT ![c] = FALSE]

\* Mutant: an unbounded channel.
PostUnbounded(c, kind, step) ==
  LET s == tgt[c] IN
  /\ thread[s] \in {"running", "exiting"}
  /\ mailbox' = [mailbox EXCEPT ![s] = Append(@, [from |-> c, kind |-> kind])]
  /\ reply' = [reply EXCEPT ![c] = "none"]
  /\ Goto(c, step)

\* The mail is in the queue; the caller now waits on a fresh oneshot.
Post(c, kind, step) ==
  LET s == tgt[c] IN
  /\ thread[s] \in {"running", "exiting"}
  /\ Len(mailbox[s]) < Capacity
  /\ mailbox' = [mailbox EXCEPT ![s] = Append(@, [from |-> c, kind |-> kind])]
  /\ reply' = [reply EXCEPT ![c] = "none"]
  /\ Goto(c, step)

\* tx.send fails: the receiver is gone.
Refused(c) == thread[tgt[c]] = "exited"

-----------------------------------------------------------------------------
(* SessionPool::start / start_with_spec / attach_tmux.                     *)

\* Spawn the actor and hand it the launch; nobody else has the handle yet.
Start(c, s) ==
  /\ ~dropped
  /\ pc[c] = "idle"
  /\ thread[s] = "unborn"
  /\ thread' = [thread EXCEPT ![s] = "running"]
  /\ mailbox' = [mailbox EXCEPT ![s] = <<[from |-> c, kind |-> "start"]>>]
  /\ Goto(c, "await")
  /\ job' = [job EXCEPT ![c] = "start"]
  /\ tgt' = [tgt EXCEPT ![c] = s]
  /\ reply' = [reply EXCEPT ![c] = "none"]
  /\ UNCHANGED <<poolVars, closing, joined, launched, child, target, stoppedOk>>

\* Launch succeeded: publish the handle in the directory.
StartInsert(c) ==
  /\ pc[c] = "await" /\ job[c] = "start" /\ reply[c] = "ok"
  /\ directory' = directory \cup {tgt[c]}
  /\ Goto(c, "setActive")
  /\ UNCHANGED <<active, dropped, closing, actorVars, joined, callVars, stoppedOk>>

\* A second lock: the new session becomes the active one.
StartSetActive(c) ==
  /\ pc[c] = "setActive"
  /\ active' = tgt[c]
  /\ Return(c)
  /\ UNCHANGED <<directory, dropped, closing, actorVars, joined, stoppedOk>>

-----------------------------------------------------------------------------
(* SessionPool::with_session and SessionPool::restart.                     *)

\* An explicit id, or the active one; no active session is ActorGone.
Request(c, s, j) ==
  /\ ~dropped
  /\ pc[c] = "idle"
  /\ j # "start"
  /\ Goto(c, "lookup")
  /\ job' = [job EXCEPT ![c] = j]
  /\ tgt' = [tgt EXCEPT ![c] = s]
  /\ UNCHANGED <<poolVars, closing, actorVars, joined, reply, target, stoppedOk>>

RequestActive(c, j) == active # None /\ Request(c, active, j)

\* The directory read that clones the handle.
Resolve(c) ==
  /\ pc[c] = "lookup"
  /\ \/ /\ tgt[c] \in directory
        /\ Goto(c, "gate")
        /\ UNCHANGED callVars
     \/ /\ tgt[c] \notin directory
        /\ Return(c)
  /\ UNCHANGED <<poolVars, closing, actorVars, joined, stoppedOk>>

\* The closing gate of send and send_sync, read before the mail is queued.
Gate(c) ==
  /\ pc[c] = "gate"
  /\ \/ /\ ~closing[tgt[c]]
        /\ Goto(c, "enqueue")
        /\ UNCHANGED callVars
     \/ /\ closing[tgt[c]]
        /\ Return(c)
  /\ UNCHANGED <<poolVars, closing, actorVars, joined, stoppedOk>>

\* send: wait for a free slot (Post is disabled while the mailbox is full).
Enqueue(c) ==
  /\ pc[c] = "enqueue"
  /\ Post(c, job[c], "await")
  /\ UNCHANGED <<poolVars, closing, thread, launched, child, joined, job, tgt,
                 target, stoppedOk>>

\* send to a dead actor is ActorGone; send_sync to a full one is ActorBusy.
EnqueueRefused(c) ==
  /\ pc[c] = "enqueue"
  /\ \/ Refused(c)
     \/ job[c] = "sync" /\ Len(mailbox[tgt[c]]) >= Capacity
  /\ Return(c)
  /\ UNCHANGED <<poolVars, closing, actorVars, joined, stoppedOk>>

\* The oneshot resolved; a failed launch drops the only handle.
Receive(c) ==
  /\ pc[c] = "await"
  /\ reply[c] # "none"
  /\ ~(job[c] = "start" /\ reply[c] = "ok")
  /\ Return(c)
  /\ UNCHANGED <<poolVars, closing, actorVars, joined, stoppedOk>>

-----------------------------------------------------------------------------
(* SessionPool::stop, with begin_closing, send_control, shutdown_ack, join. *)

\* Mutant: the handle is read from the directory, not removed from it.
StopLooksUp(c, s) ==
  /\ ~dropped
  /\ pc[c] = "idle"
  /\ s \in directory
  /\ tgt' = [tgt EXCEPT ![c] = s]
  /\ Goto(c, "readActive")
  /\ UNCHANGED <<poolVars, closing, actorVars, joined, job, reply, target, stoppedOk>>

\* Remove from the directory first.  (An unknown id is success: no step.)
StopRemove(c, s) ==
  /\ ~dropped
  /\ pc[c] = "idle"
  /\ s \in directory
  /\ directory' = directory \ {s}
  /\ tgt' = [tgt EXCEPT ![c] = s]
  /\ Goto(c, "readActive")
  /\ UNCHANGED <<active, dropped, closing, actorVars, joined, job, reply, target, stoppedOk>>

StopReadActive(c) ==
  /\ pc[c] = "readActive"
  /\ Goto(c, IF active = tgt[c] THEN "clearActive" ELSE "beginClosing")
  /\ UNCHANGED <<poolVars, closing, actorVars, joined, callVars, stoppedOk>>

StopClearActive(c) ==
  /\ pc[c] = "clearActive"
  /\ active' = None
  /\ Goto(c, "beginClosing")
  /\ UNCHANGED <<directory, dropped, closing, actorVars, joined, callVars, stoppedOk>>

BeginClosing(c) ==
  /\ pc[c] = "beginClosing"
  /\ closing' = [closing EXCEPT ![tgt[c]] = TRUE]
  /\ Goto(c, "stopEnqueue")
  /\ UNCHANGED <<poolVars, actorVars, joined, callVars, stoppedOk>>

\* send_control: the target-stop job, exempt from the closing gate.
SendControl(c) ==
  /\ pc[c] = "stopEnqueue"
  /\ Post(c, "stop", "stopAwait")
  /\ UNCHANGED <<poolVars, closing, thread, launched, child, joined, job, tgt,
                 target, stoppedOk>>

\* The result of the target stop (a lost reply or a dead actor is a failure);
\* shutdown follows regardless.
StopTarget(c) ==
  /\ \/ pc[c] = "stopEnqueue" /\ Refused(c)
     \/ pc[c] = "stopAwait" /\ reply[c] # "none"
  /\ target' = [target EXCEPT ![c] = pc[c] = "stopAwait" /\ reply[c] = "ok"]
  /\ Goto(c, "ackEnqueue")
  /\ UNCHANGED <<poolVars, closing, actorVars, joined, job, tgt, reply, stoppedOk>>

ShutdownSend(c) ==
  /\ pc[c] = "ackEnqueue"
  /\ Post(c, "shutdown", "ackAwait")
  /\ UNCHANGED <<poolVars, closing, thread, launched, child, joined, job, tgt,
                 target, stoppedOk>>

\* shutdown_ack fails: the actor was already gone.  stop returns Err.
ShutdownFailed(c) ==
  /\ \/ pc[c] = "ackEnqueue" /\ Refused(c)
     \/ pc[c] = "ackAwait" /\ reply[c] = "lost"
  /\ Return(c)
  /\ UNCHANGED <<poolVars, closing, actorVars, joined, stoppedOk>>

ShutdownAcked(c) ==
  /\ pc[c] = "ackAwait"
  /\ reply[c] = "ok"
  /\ Goto(c, "join")
  /\ UNCHANGED <<poolVars, closing, actorVars, joined, callVars, stoppedOk>>

\* The join blocks until the thread is gone; then stop returns.
Join(c) ==
  /\ pc[c] = "join"
  /\ thread[tgt[c]] = "exited"
  /\ joined' = [joined EXCEPT ![tgt[c]] = TRUE]
  /\ stoppedOk' = IF target[c] THEN stoppedOk \cup {tgt[c]} ELSE stoppedOk
  /\ Return(c)
  /\ UNCHANGED <<poolVars, closing, actorVars>>

-----------------------------------------------------------------------------
(* The actor thread.                                                       *)

Answer(m, r) == reply' = [c \in Callers |-> IF c = m.from THEN r ELSE reply[c]]

Handling(s, kinds) ==
  /\ thread[s] = "running"
  /\ mailbox[s] # <<>>
  /\ Head(mailbox[s]).kind \in kinds

\* A job that runs to completion and leaves the process in state p.
RunJob(s, r, p) ==
  /\ mailbox' = [mailbox EXCEPT ![s] = Tail(@)]
  /\ Answer(Head(mailbox[s]), r)
  /\ child' = [child EXCEPT ![s] = p]

\* start_with_spec: the launch spec is stored only when the launch succeeds.
JobStart(s) ==
  /\ Handling(s, {"start"})
  /\ \/ /\ RunJob(s, "ok", "running")
        /\ launched' = [launched EXCEPT ![s] = TRUE]
     \/ /\ RunJob(s, "err", "none")
        /\ UNCHANGED launched
  /\ UNCHANGED <<poolVars, closing, thread, joined, pc, job, tgt, target, stoppedOk>>

JobWork(s) ==
  /\ Handling(s, {"work", "sync"})
  /\ RunJob(s, "ok", child[s])
  /\ UNCHANGED <<poolVars, closing, thread, joined, launched, pc, job, tgt, target, stoppedOk>>

\* Session::restart: no launch spec is an error; else stop the old child and
\* launch again, which may fail and leaves no process then.
JobRestart(s) ==
  /\ Handling(s, {"restart"})
  /\ \/ ~launched[s] /\ RunJob(s, "err", child[s])
     \/ launched[s] /\ RunJob(s, "ok", "running")
     \/ launched[s] /\ RunJob(s, "err", "dead")
  /\ UNCHANGED <<poolVars, closing, thread, joined, launched, pc, job, tgt, target, stoppedOk>>

\* Session::stop kills and reaps the owned child.
JobStop(s) ==
  /\ Handling(s, {"stop"})
  /\ RunJob(s, "ok", "dead")
  /\ UNCHANGED <<poolVars, closing, thread, joined, launched, pc, job, tgt, target, stoppedOk>>

\* Mutant: trust the earlier target-stop job and only acknowledge.
ShutdownWithoutStop(s) ==
  /\ Handling(s, {"shutdown"})
  /\ RunJob(s, "ok", child[s])
  /\ thread' = [thread EXCEPT ![s] = "exiting"]
  /\ UNCHANGED <<poolVars, closing, joined, launched, pc, job, tgt, target, stoppedOk>>

\* Mutant: acknowledge without leaving the loop.
ShutdownWithoutBreak(s) ==
  /\ Handling(s, {"shutdown"})
  /\ RunJob(s, "ok", "dead")
  /\ UNCHANGED <<poolVars, closing, thread, joined, launched, pc, job, tgt, target, stoppedOk>>

\* Mail::Shutdown: stop the session, acknowledge, leave the loop.
ActorShutdown(s) ==
  /\ Handling(s, {"shutdown"})
  /\ RunJob(s, "ok", "dead")
  /\ thread' = [thread EXCEPT ![s] = "exiting"]
  /\ UNCHANGED <<poolVars, closing, joined, launched, pc, job, tgt, target, stoppedOk>>

\* A job panics: its oneshot is lost, the thread unwinds and the session is
\* dropped, which may or may not take the child with it.
ActorCrash(s) ==
  /\ Handling(s, Jobs \cup {"stop"})
  /\ \E p \in {child[s], "dead"} : RunJob(s, "lost", p)
  /\ thread' = [thread EXCEPT ![s] = "exiting"]
  /\ UNCHANGED <<poolVars, closing, joined, launched, pc, job, tgt, target, stoppedOk>>

\* Mutant: the mail outlives the thread, so its oneshots never resolve.
ExitKeepsMail(s) ==
  /\ thread[s] = "exiting"
  /\ thread' = [thread EXCEPT ![s] = "exited"]
  /\ UNCHANGED <<poolVars, closing, mailbox, joined, launched, child, pc, callVars, stoppedOk>>

\* The thread ends: the receiver is dropped with all the mail left in it, and
\* every oneshot in that mail is lost.
ActorExit(s) ==
  /\ thread[s] = "exiting"
  /\ thread' = [thread EXCEPT ![s] = "exited"]
  /\ mailbox' = [mailbox EXCEPT ![s] = <<>>]
  /\ reply' = [c \in Callers |->
                 IF \E i \in DOMAIN mailbox[s] : mailbox[s][i].from = c
                 THEN "lost" ELSE reply[c]]
  /\ UNCHANGED <<poolVars, closing, joined, launched, child, pc, job, tgt, target, stoppedOk>>

\* blocking_recv returns None once the last handle is gone.
ActorDrained(s) ==
  /\ thread[s] = "running"
  /\ mailbox[s] = <<>>
  /\ s \notin directory
  /\ \A c \in Callers : tgt[c] # s
  /\ thread' = [thread EXCEPT ![s] = "exited"]
  /\ UNCHANGED <<poolVars, closing, mailbox, joined, launched, child, pc, callVars, stoppedOk>>

\* The target process ends by itself.
ChildExit(s) ==
  /\ child[s] = "running"
  /\ child' = [child EXCEPT ![s] = "dead"]
  /\ UNCHANGED <<poolVars, closing, mailbox, thread, joined, launched, pc, callVars, stoppedOk>>

-----------------------------------------------------------------------------
\* Drop for SessionPool: no call borrows the pool any more.  Each actor gets
\* a Shutdown without a listener (try_send) and loses its directory handle.
DropPool ==
  /\ ~dropped
  /\ \A c \in Callers : pc[c] = "idle"
  /\ dropped' = TRUE
  /\ directory' = {}
  /\ closing' = [s \in Sessions |-> closing[s] \/ s \in directory]
  /\ mailbox' = [s \in Sessions |->
        IF s \in directory /\ thread[s] # "exited" /\ Len(mailbox[s]) < Capacity
        THEN Append(mailbox[s], [from |-> None, kind |-> "shutdown"])
        ELSE mailbox[s]]
  /\ UNCHANGED <<active, thread, joined, launched, child, pc, callVars, stoppedOk>>

\* The server has exited.
Finished ==
  /\ dropped
  /\ \A s \in Sessions : thread[s] \in {"unborn", "exited"}
  /\ UNCHANGED vars

-----------------------------------------------------------------------------
CallerStep(c) ==
  \/ StartInsert(c) \/ StartSetActive(c)
  \/ Resolve(c) \/ Gate(c) \/ Enqueue(c) \/ EnqueueRefused(c) \/ Receive(c)
  \/ StopReadActive(c) \/ StopClearActive(c) \/ BeginClosing(c)
  \/ SendControl(c) \/ StopTarget(c)
  \/ ShutdownSend(c) \/ ShutdownFailed(c) \/ ShutdownAcked(c) \/ Join(c)

CallerBegins(c) ==
  \/ \E s \in Sessions : Start(c, s)
  \/ \E s \in Sessions, j \in Jobs : Request(c, s, j)
  \/ \E j \in Jobs : RequestActive(c, j)
  \/ \E s \in Sessions : StopRemove(c, s)

ActorStep(s) ==
  \/ JobStart(s) \/ JobWork(s) \/ JobRestart(s) \/ JobStop(s)
  \/ ActorShutdown(s) \/ ActorExit(s) \/ ActorDrained(s)

Next ==
  \/ \E c \in Callers : CallerBegins(c) \/ CallerStep(c)
  \/ \E s \in Sessions : ActorStep(s) \/ ActorCrash(s) \/ ChildExit(s)
  \/ DropPool
  \/ Finished

Safety == Init /\ [][Next]_vars

\* The runtime polls every ready task and the OS runs every actor thread.  A
\* full mailbox frees its slot to the longest-waiting sender (the channel's
\* semaphore is FIFO), hence strong fairness of the three sends.
Fairness ==
  /\ \A c \in Callers : WF_vars(CallerStep(c))
  /\ \A c \in Callers : SF_vars(Enqueue(c) \/ SendControl(c) \/ ShutdownSend(c))
  /\ \A s \in Sessions : WF_vars(ActorStep(s))

Spec == Safety /\ Fairness

-----------------------------------------------------------------------------
(* Properties.                                                             *)

\* A stop that returned Ok is final: the thread has exited and was joined, no
\* mail is left, the id no longer resolves and the target process is dead,
\* even when a restart slipped into the mailbox behind the target-stop job
\* (SessionPool::stop, shutdown_ack, the Shutdown arm of the actor loop).
StopOkIsFinal ==
  \A s \in stoppedOk :
    /\ thread[s] = "exited"
    /\ joined[s]
    /\ mailbox[s] = <<>>
    /\ child[s] # "running"
    /\ s \notin directory

TearingDown == {"readActive", "clearActive", "beginClosing", "stopEnqueue",
                "stopAwait", "ackEnqueue", "ackAwait", "join"}

\* Removing the directory entry elects one stopper: no two calls tear the
\* same actor down, and the directory never resolves to a closing actor.
SoleTeardown ==
  /\ \A c, d \in Callers :
       pc[c] \in TearingDown /\ pc[d] \in TearingDown /\ tgt[c] = tgt[d] => c = d
  /\ \A s \in directory :
       ~closing[s] /\ \A c \in Callers : ~(pc[c] \in TearingDown /\ tgt[c] = s)

\* No call hangs: whatever stops, crashes and full mailboxes it meets, every
\* tool call returns (send, restart, stop).
EveryCallReturns == \A c \in Callers : pc[c] # "idle" ~> pc[c] = "idle"

\* A closing actor always goes away, full mailbox or not: shutdown is never
\* a dropped notification (shutdown_ack, Drop for SessionPool).
ClosingActorExits == \A s \in Sessions : closing[s] ~> thread[s] = "exited"
=============================================================================
