------------------------- MODULE SessionPoolProofs -------------------------
(***************************************************************************)
(* For any number of sessions and calls and any mailbox capacity: the pool *)
(* is type correct, an actor is torn down by one call, and a stop that     *)
(* answered Ok is final.                                                   *)
(***************************************************************************)
EXTENDS SessionPool, SequenceTheorems, TLAPS

Holding(c) == pc[c] \notin {"idle", "lookup"}
Starting(c) == pc[c] = "await" /\ job[c] = "start"

\* Whoever holds a handle holds one of a session that was spawned; the start
\* call is the only holder until it publishes the session.
Handles ==
  /\ \A c \in Callers : pc[c] = "lookup" => tgt[c] \in Sessions
  /\ \A c \in Callers : Holding(c) => tgt[c] \in Sessions /\ thread[tgt[c]] # "unborn"
  /\ \A s \in directory : thread[s] # "unborn"
  /\ \A c \in Callers : pc[c] \in {"lookup", "gate", "enqueue"} => job[c] # "start"
  /\ \A c \in Callers : Starting(c) =>
       /\ tgt[c] \notin directory /\ ~closing[tgt[c]]
       /\ \A d \in Callers : Holding(d) /\ tgt[d] = tgt[c] => d = c

\* A session that was spawned is the only kind that closes, a stop that is
\* past begin_closing is on a closing one, and so is a stop that succeeded.
Closings ==
  /\ \A s \in Sessions : closing[s] => thread[s] # "unborn"
  /\ \A c \in Callers :
       pc[c] \in TearingDown \ {"readActive", "clearActive", "beginClosing"}
         => closing[tgt[c]]
  /\ \A s \in stoppedOk : closing[s]

Kinds == Jobs \cup {"stop", "shutdown"}

\* Who waits for an answer, from whom, and to what.
Listeners ==
  {l \in Callers \X Sessions \X Kinds :
     /\ tgt[l[1]] = l[2] /\ reply[l[1]] = "none"
     /\ \/ pc[l[1]] = "await" /\ l[3] = job[l[1]]
        \/ pc[l[1]] = "stopAwait" /\ l[3] = "stop"
        \/ pc[l[1]] = "ackAwait" /\ l[3] = "shutdown"}

\* Each mail has at most one listener, who is waiting for that very answer
\* and has no other mail; a thread that is gone has no mail.
Mails ==
  /\ \A s \in Sessions : thread[s] = "exited" => mailbox[s] = <<>>
  /\ \A s \in Sessions : \A i \in DOMAIN mailbox[s] :
       mailbox[s][i].from \in Callers =>
         <<mailbox[s][i].from, s, mailbox[s][i].kind>> \in Listeners
  /\ \A s \in Sessions : \A i, j \in DOMAIN mailbox[s] :
       mailbox[s][i].from \in Callers /\ mailbox[s][j].from = mailbox[s][i].from => i = j

\* An acknowledged shutdown leaves a thread that runs no more jobs and a
\* process that is not running.
Acks ==
  \A c \in Callers :
    pc[c] = "join" \/ (pc[c] = "ackAwait" /\ reply[c] = "ok") =>
      thread[tgt[c]] \in {"exiting", "exited"} /\ child[tgt[c]] # "running"

PoolInv ==
  /\ TypeOK /\ Handles /\ Closings /\ Mails /\ Acks
  /\ SoleTeardown /\ StopOkIsFinal

-----------------------------------------------------------------------------
(* What posting and taking mail does to a mailbox.                         *)

\* A posted mail joins the end of one mailbox that had a free slot (Post).
LEMMA Posted ==
  ASSUME TypeOK, NEW c \in Callers, tgt[c] \in Sessions,
         NEW kind \in Jobs \cup {"stop", "shutdown"}, NEW step, Post(c, kind, step)
  PROVE  LET s == tgt[c]
             m == [from |-> c, kind |-> kind] IN
         /\ mailbox' \in [Sessions -> Seq(Mail)]
         /\ \A t \in Sessions : Len(mailbox'[t]) <= Capacity
         /\ \A t \in Sessions : t # s => mailbox'[t] = mailbox[t]
         /\ DOMAIN mailbox'[s] = DOMAIN mailbox[s] \cup {Len(mailbox[s]) + 1}
         /\ \A i \in DOMAIN mailbox[s] : mailbox'[s][i] = mailbox[s][i]
         /\ mailbox'[s][Len(mailbox[s]) + 1] = m
         /\ Len(mailbox[s]) + 1 \notin DOMAIN mailbox[s]
<1> DEFINE s == tgt[c]
           m == [from |-> c, kind |-> kind]
<1>1. m \in Mail
  BY DEF Mail
<1>2. mailbox[s] \in Seq(Mail) /\ Len(mailbox[s]) < Capacity
      /\ mailbox' = [mailbox EXCEPT ![s] = Append(mailbox[s], m)]
  BY DEF TypeOK, Post
<1>3. /\ Append(mailbox[s], m) \in Seq(Mail)
      /\ Len(Append(mailbox[s], m)) = Len(mailbox[s]) + 1
      /\ \A i \in 1 .. Len(mailbox[s]) : Append(mailbox[s], m)[i] = mailbox[s][i]
      /\ Append(mailbox[s], m)[Len(mailbox[s]) + 1] = m
  BY <1>1, <1>2, AppendProperties
<1>4. Len(mailbox[s]) \in Nat /\ DOMAIN mailbox[s] = 1 .. Len(mailbox[s])
      /\ DOMAIN Append(mailbox[s], m) = 1 .. Len(mailbox[s]) + 1
  BY <1>2, <1>3
<1> HIDE DEF m
<1>5. mailbox'[s] = Append(mailbox[s], m)
      /\ mailbox' \in [Sessions -> Seq(Mail)]
      /\ \A t \in Sessions : t # s => mailbox'[t] = mailbox[t]
  BY <1>2, <1>3 DEF TypeOK
<1>6. \A t \in Sessions : Len(mailbox'[t]) <= Capacity
  BY <1>2, <1>3, <1>4, <1>5, PoolAssumption DEF TypeOK
<1> QED
  BY <1>3, <1>4, <1>5, <1>6 DEF m

\* The actor takes the first mail; the others move up (RunJob).
LEMMA Taken ==
  ASSUME TypeOK, NEW s \in Sessions, mailbox[s] # <<>>,
         mailbox' = [mailbox EXCEPT ![s] = Tail(@)]
  PROVE  /\ mailbox' \in [Sessions -> Seq(Mail)]
         /\ \A t \in Sessions : Len(mailbox'[t]) <= Capacity
         /\ \A t \in Sessions : t # s => mailbox'[t] = mailbox[t]
         /\ 1 \in DOMAIN mailbox[s] /\ Head(mailbox[s]) = mailbox[s][1]
         /\ Head(mailbox[s]) \in Mail
         /\ \A i \in DOMAIN mailbox'[s] :
              /\ i + 1 \in DOMAIN mailbox[s] /\ i + 1 # 1
              /\ mailbox'[s][i] = mailbox[s][i + 1]
              /\ \A j \in DOMAIN mailbox'[s] : i + 1 = j + 1 => i = j
<1>1. mailbox[s] \in Seq(Mail) /\ Len(mailbox[s]) <= Capacity
      /\ mailbox'[s] = Tail(mailbox[s])
      /\ \A t \in Sessions : t # s => mailbox'[t] = mailbox[t]
  BY DEF TypeOK
<1>2. /\ Head(mailbox[s]) \in Mail /\ Tail(mailbox[s]) \in Seq(Mail)
      /\ Len(Tail(mailbox[s])) = Len(mailbox[s]) - 1
      /\ \A i \in 1 .. Len(Tail(mailbox[s])) : Tail(mailbox[s])[i] = mailbox[s][i + 1]
  BY <1>1, HeadTailProperties
<1>3. Len(mailbox[s]) \in Nat \ {0} /\ DOMAIN mailbox[s] = 1 .. Len(mailbox[s])
  BY <1>1
<1>6. Head(mailbox[s]) = mailbox[s][1]
  BY <1>1, <1>3
<1>7. Len(Tail(mailbox[s])) = Len(mailbox[s]) - 1
      /\ DOMAIN mailbox'[s] = 1 .. Len(Tail(mailbox[s]))
  BY <1>1, <1>2, LenProperties
<1>4. mailbox' \in [Sessions -> Seq(Mail)]
  BY <1>1, <1>2 DEF TypeOK
<1>5. \A t \in Sessions : Len(mailbox'[t]) <= Capacity
  BY <1>1, <1>2, <1>3, PoolAssumption DEF TypeOK
<1> QED
  BY <1>1, <1>2, <1>3, <1>4, <1>5, <1>6, <1>7

-----------------------------------------------------------------------------
\* Every step preserves the types and the mailbox bound.
LEMMA TypeNext ==
  ASSUME PoolInv, [Next]_vars
  PROVE  TypeOK'
<1> USE DEF Goto, Return, poolVars, actorVars, callVars
<1>0. TypeOK /\ Handles /\ PoolAssumption
  BY PoolAssumption DEF PoolInv
<1>1. ASSUME NEW c \in Callers, CallerBegins(c) PROVE TypeOK'
  <2>1. ASSUME NEW s \in Sessions, Start(c, s) PROVE TypeOK'
    <3>1. [from |-> c, kind |-> "start"] \in Mail
      BY DEF Mail, Jobs
    <3>2. <<[from |-> c, kind |-> "start"]>> \in Seq(Mail)
          /\ Len(<<[from |-> c, kind |-> "start"]>>) = 1
      BY <3>1
    <3> HIDE DEF Mail
    <3> QED
      BY <1>0, <2>1, <3>2 DEF Start, TypeOK, Steps, Jobs
  <2>2. ASSUME NEW s \in Sessions, NEW j \in Jobs, Request(c, s, j) PROVE TypeOK'
    BY <1>0, <2>2 DEF Request, TypeOK, Steps
  <2>3. ASSUME NEW s \in Sessions, StopRemove(c, s) PROVE TypeOK'
    BY <1>0, <2>3 DEF StopRemove, TypeOK, Steps
  <2> QED
    BY <1>0, <1>1, <2>1, <2>2, <2>3 DEF CallerBegins, RequestActive, TypeOK
<1>2. ASSUME NEW c \in Callers, CallerStep(c) PROVE TypeOK'
  <2>0. Holding(c) => tgt[c] \in Sessions
    BY <1>0 DEF Handles
  <2>1. CASE StartInsert(c) \/ StartSetActive(c)
    BY <1>0, <2>0, <2>1, ZenonT(30) DEF StartInsert, StartSetActive, Holding, TypeOK, Steps, Jobs
  <2>2. CASE Return(c) /\ UNCHANGED <<poolVars, closing, actorVars, joined, stoppedOk>>
    BY <1>0, <2>2 DEF TypeOK, Steps, Jobs
  <2>9. CASE Resolve(c)
    BY <1>0, <2>2, <2>9 DEF Resolve, TypeOK, Steps
  <2>10. CASE Gate(c)
    BY <1>0, <2>2, <2>10 DEF Gate, TypeOK, Steps
  <2>3. CASE EnqueueRefused(c) \/ Receive(c) \/ ShutdownFailed(c)
    BY <1>0, <2>3, ZenonT(30) DEF EnqueueRefused, Receive, ShutdownFailed, TypeOK, Steps, Jobs
  <2>4. CASE StopReadActive(c) \/ StopClearActive(c) \/ BeginClosing(c) \/ ShutdownAcked(c)
    BY <1>0, <2>4 DEF StopReadActive, StopClearActive, BeginClosing, ShutdownAcked, TypeOK,
                      Steps
  <2>5. CASE StopTarget(c)
    <3>1. (pc[c] = "stopAwait" /\ reply[c] = "ok") \in BOOLEAN
      OBVIOUS
    <3> QED
      BY <1>0, <2>5, <3>1 DEF StopTarget, TypeOK, Steps
  <2>6. CASE Join(c)
    BY <1>0, <2>0, <2>6 DEF Join, Holding, TypeOK, Steps, Jobs
  <2>7. ASSUME NEW kind \in Jobs \cup {"stop", "shutdown"}, NEW step \in Steps, Holding(c),
               Post(c, kind, step),
               UNCHANGED <<poolVars, closing, thread, launched, child, joined, job, tgt,
                           target, stoppedOk>>
        PROVE  TypeOK'
    <3>1. mailbox' \in [Sessions -> Seq(Mail)]
          /\ \A t \in Sessions : Len(mailbox'[t]) <= Capacity
      BY <1>0, <2>0, <2>7, Posted
    <3>2. pc' \in [Callers -> Steps] /\ reply' \in [Callers -> {"none", "ok", "err", "lost"}]
      BY <1>0, <2>7 DEF Post, TypeOK
    <3> QED
      BY <1>0, <2>7, <3>1, <3>2 DEF TypeOK
  <2>8. CASE Enqueue(c) \/ SendControl(c) \/ ShutdownSend(c)
    <3>1. job[c] \in Jobs
      BY <1>0 DEF TypeOK
    <3> QED
      BY <2>7, <2>8, <3>1 DEF Enqueue, SendControl, ShutdownSend, Holding, Steps
  <2> QED
    BY <1>2, <2>1, <2>3, <2>4, <2>5, <2>6, <2>8, <2>9, <2>10 DEF CallerStep
<1>3. ASSUME NEW s \in Sessions, ActorStep(s) \/ ActorCrash(s) \/ ChildExit(s) PROVE TypeOK'
  <2>1. ASSUME NEW r \in {"ok", "err", "lost"}, NEW p \in {"none", "running", "dead"},
               mailbox[s] # <<>>, RunJob(s, r, p)
        PROVE  /\ mailbox' \in [Sessions -> Seq(Mail)]
               /\ \A t \in Sessions : Len(mailbox'[t]) <= Capacity
               /\ reply' \in [Callers -> {"none", "ok", "err", "lost"}]
               /\ child' \in [Sessions -> {"none", "running", "dead"}]
    <3>1. /\ mailbox' \in [Sessions -> Seq(Mail)]
          /\ \A t \in Sessions : Len(mailbox'[t]) <= Capacity
      BY <1>0, <2>1, Taken DEF RunJob
    <3>2. reply' \in [Callers -> {"none", "ok", "err", "lost"}]
      BY <1>0, <2>1 DEF RunJob, Answer, TypeOK
    <3>3. child' \in [Sessions -> {"none", "running", "dead"}]
      BY <1>0, <2>1 DEF RunJob, TypeOK
    <3> QED
      BY <3>1, <3>2, <3>3
  <2>2. child[s] \in {"none", "running", "dead"}
    BY <1>0 DEF TypeOK
  <2>3. CASE JobStart(s)
    BY <1>0, <2>1, <2>3 DEF JobStart, Handling, TypeOK
  <2>4. CASE JobWork(s) \/ JobRestart(s) \/ JobStop(s)
    BY <1>0, <2>1, <2>2, <2>4 DEF JobWork, JobRestart, JobStop, Handling, TypeOK
  <2>5. CASE ActorShutdown(s) \/ ActorCrash(s)
    BY <1>0, <2>1, <2>2, <2>5, ZenonT(30) DEF ActorShutdown, ActorCrash, Handling, TypeOK
  <2>6. CASE ActorExit(s)
    <3>1. <<>> \in Seq(Mail) /\ Len(<<>>) = 0
      OBVIOUS
    <3>2. reply' \in [Callers -> {"none", "ok", "err", "lost"}]
      BY <1>0, <2>6 DEF ActorExit, TypeOK
    <3>3. mailbox' \in [Sessions -> Seq(Mail)]
          /\ \A t \in Sessions : Len(mailbox'[t]) <= Capacity
      BY <1>0, <2>6, <3>1 DEF ActorExit, TypeOK
    <3> QED
      BY <1>0, <2>6, <3>2, <3>3 DEF ActorExit, TypeOK
  <2>7. CASE ActorDrained(s) \/ ChildExit(s)
    BY <1>0, <2>7 DEF ActorDrained, ChildExit, TypeOK
  <2> QED
    BY <1>3, <2>3, <2>4, <2>5, <2>6, <2>7 DEF ActorStep
<1>4. CASE DropPool
  <2> DEFINE m == [from |-> None, kind |-> "shutdown"]
  <2>1. m \in Mail
    BY DEF Mail
  <2>2. ASSUME NEW s \in Sessions
        PROVE  /\ mailbox[s] \in Seq(Mail) /\ Len(mailbox[s]) <= Capacity
               /\ Len(mailbox[s]) < Capacity =>
                    Append(mailbox[s], m) \in Seq(Mail) /\ Len(Append(mailbox[s], m)) <= Capacity
    <3>1. mailbox[s] \in Seq(Mail) /\ Len(mailbox[s]) <= Capacity /\ Len(mailbox[s]) \in Nat
      BY <1>0 DEF TypeOK
    <3>2. Append(mailbox[s], m) \in Seq(Mail)
          /\ Len(Append(mailbox[s], m)) = Len(mailbox[s]) + 1
      BY <2>1, <3>1, AppendProperties
    <3> QED
      BY <1>0, <3>1, <3>2
  <2> HIDE DEF m
  <2>3. mailbox' = [s \in Sessions |->
          IF s \in directory /\ thread[s] # "exited" /\ Len(mailbox[s]) < Capacity
          THEN Append(mailbox[s], m) ELSE mailbox[s]]
    BY <1>4 DEF DropPool, m
  <2>4. mailbox' \in [Sessions -> Seq(Mail)]
        /\ \A t \in Sessions : Len(mailbox'[t]) <= Capacity
    BY <2>2, <2>3
  <2>5. closing' \in [Sessions -> BOOLEAN]
    BY <1>0, <1>4 DEF DropPool, TypeOK
  <2> QED
    BY <1>0, <1>4, <2>4, <2>5 DEF DropPool, TypeOK
<1>5. CASE Finished \/ UNCHANGED vars
  BY <1>0, <1>5 DEF Finished, vars, TypeOK
<1> QED
  BY <1>1, <1>2, <1>3, <1>4, <1>5 DEF Next

-----------------------------------------------------------------------------
\* Who may hold a handle, what closes, and who tears down.
Ownership == Handles /\ Closings /\ SoleTeardown

\* Every step preserves the ownership of handles: the directory entry is
\* published by the one holder and taken by one stopper.
LEMMA OwnershipNext ==
  ASSUME PoolInv, [Next]_vars
  PROVE  Ownership'
<1> USE DEF Goto, Return, poolVars, actorVars, callVars, Ownership
<1>0. TypeOK /\ Handles /\ Closings /\ SoleTeardown /\ PoolAssumption
  BY PoolAssumption DEF PoolInv
<1> DEFINE Kept == /\ directory' = directory /\ closing' = closing
                   /\ thread' = thread /\ stoppedOk' = stoppedOk
<1>1. ASSUME NEW c \in Callers, Return(c), Kept PROVE Ownership'
  <2>1. pc'[c] = "idle" /\ \A d \in Callers \ {c} :
          pc'[d] = pc[d] /\ job'[d] = job[d] /\ tgt'[d] = tgt[d]
    BY <1>0, <1>1 DEF TypeOK
  <2>2. Handles'
    BY <1>0, <1>1, <2>1 DEF Handles, Holding, Starting
  <2>3. Closings'
    BY <1>0, <1>1, <2>1 DEF Closings, TearingDown
  <2>4. SoleTeardown'
    BY <1>0, <1>1, <2>1 DEF SoleTeardown, TearingDown
  <2> QED
    BY <2>2, <2>3, <2>4
\* The caller moves on with the handle it holds, and starts no teardown.
<1>2. ASSUME NEW c \in Callers, NEW step, pc' = [pc EXCEPT ![c] = step], Kept,
             UNCHANGED <<job, tgt>>, Holding(c),
             step \in TearingDown => pc[c] \in TearingDown \ {"readActive", "clearActive", "beginClosing"},
             step \in {"await", "enqueue"} => job[c] # "start",
             step \notin {"lookup", "gate"}
      PROVE  Ownership'
  <2>1. pc'[c] = step /\ \A d \in Callers \ {c} : pc'[d] = pc[d]
    BY <1>0, <1>2 DEF TypeOK
  <2>2. Handles'
    BY <1>0, <1>2, <2>1 DEF Handles, Holding, Starting
  <2>3. Closings'
    BY <1>0, <1>2, <2>1 DEF Closings, TearingDown
  <2>4. SoleTeardown'
    BY <1>0, <1>2, <2>1 DEF SoleTeardown, TearingDown
  <2> QED
    BY <2>2, <2>3, <2>4
<1>3. ASSUME NEW c \in Callers, CallerBegins(c) PROVE Ownership'
  <2>1. ASSUME NEW s \in Sessions, Start(c, s) PROVE Ownership'
    <3>1. /\ pc'[c] = "await" /\ tgt'[c] = s /\ thread'[s] = "running"
          /\ \A d \in Callers \ {c} : pc'[d] = pc[d] /\ job'[d] = job[d] /\ tgt'[d] = tgt[d]
          /\ \A t \in Sessions \ {s} : thread'[t] = thread[t]
          /\ directory' = directory /\ closing' = closing /\ stoppedOk' = stoppedOk
      BY <1>0, <2>1 DEF Start, TypeOK
    <3>2. /\ s \notin directory /\ ~closing[s]
          /\ \A d \in Callers : Holding(d) => tgt[d] # s
      BY <1>0, <2>1 DEF Start, Handles, Closings
    <3>6. \A d \in Callers : Starting(d)' =>
            /\ tgt'[d] \notin directory /\ ~closing[tgt'[d]]
            /\ \A e \in Callers : Holding(e)' /\ tgt'[e] = tgt'[d] => e = d
      <4>1. ASSUME NEW d \in Callers \ {c}, Starting(d)'
            PROVE  Starting(d) /\ Holding(d) /\ tgt[d] # s
        BY <3>1, <3>2, <4>1 DEF Starting, Holding
      <4>2. \A e \in Callers \ {c} : Holding(e)' <=> Holding(e)
        BY <3>1 DEF Holding
      <4> QED
        BY <1>0, <3>1, <3>2, <4>1, <4>2 DEF Handles
    <3>7. \A d \in Callers : Holding(d)' => tgt'[d] \in Sessions /\ thread'[tgt'[d]] # "unborn"
      BY <1>0, <3>1 DEF Handles, Holding
    <3>8. \A d \in Callers : pc'[d] \in {"lookup", "gate", "enqueue"} =>
            tgt'[d] \in Sessions /\ job'[d] # "start"
      BY <1>0, <3>1 DEF Handles, Holding
    <3>3. Handles'
      BY <1>0, <3>1, <3>2, <3>6, <3>7, <3>8 DEF Handles, TypeOK
    <3>4. Closings'
      BY <1>0, <3>1 DEF Closings, TearingDown, TypeOK
    <3>5. SoleTeardown'
      BY <1>0, <3>1 DEF SoleTeardown, TearingDown
    <3> QED
      BY <3>3, <3>4, <3>5
  <2>2. ASSUME NEW s \in Sessions, NEW j \in Jobs, Request(c, s, j) PROVE Ownership'
    <3>1. pc[c] = "idle" /\ pc'[c] = "lookup" /\ tgt'[c] = s /\ job'[c] # "start"
          /\ \A d \in Callers \ {c} : pc'[d] = pc[d] /\ job'[d] = job[d] /\ tgt'[d] = tgt[d]
      BY <1>0, <2>2 DEF Request, TypeOK
    <3>2. Handles'
      BY <1>0, <2>2, <3>1 DEF Request, Handles, Holding, Starting
    <3>3. Closings'
      BY <1>0, <2>2, <3>1 DEF Request, Closings, TearingDown
    <3>4. SoleTeardown'
      BY <1>0, <2>2, <3>1 DEF Request, SoleTeardown, TearingDown
    <3> QED
      BY <3>2, <3>3, <3>4
  <2>3. ASSUME NEW s \in Sessions, StopRemove(c, s) PROVE Ownership'
    <3>1. pc[c] = "idle" /\ pc'[c] = "readActive" /\ tgt'[c] = s /\ s \in directory
          /\ \A d \in Callers \ {c} : pc'[d] = pc[d] /\ tgt'[d] = tgt[d]
      BY <1>0, <2>3 DEF StopRemove, TypeOK
    <3>2. Handles'
      BY <1>0, <2>3, <3>1 DEF StopRemove, Handles, Holding, Starting
    <3>3. Closings'
      BY <1>0, <2>3, <3>1 DEF StopRemove, Closings, TearingDown
    <3>4. SoleTeardown'
      BY <1>0, <2>3, <3>1 DEF StopRemove, SoleTeardown, TearingDown
    <3> QED
      BY <3>2, <3>3, <3>4
  <2> QED
    BY <1>0, <1>3, <2>1, <2>2, <2>3 DEF CallerBegins, RequestActive, TypeOK
<1>4. ASSUME NEW c \in Callers, CallerStep(c) PROVE Ownership'
  <2>1. CASE StartInsert(c)
    <3>1. /\ Starting(c) /\ Holding(c) /\ pc'[c] = "setActive" /\ UNCHANGED <<job, tgt>>
          /\ \A d \in Callers \ {c} : pc'[d] = pc[d]
          /\ directory' = directory \cup {tgt[c]}
          /\ closing' = closing /\ thread' = thread /\ stoppedOk' = stoppedOk
      BY <1>0, <2>1 DEF StartInsert, Starting, Holding, TypeOK
    <3>2. \A d \in Callers : Holding(d) /\ tgt[d] = tgt[c] => d = c
      BY <1>0, <3>1 DEF Handles
    <3>7. tgt[c] \in Sessions /\ ~closing[tgt[c]] /\ thread[tgt[c]] # "unborn"
      BY <1>0, <3>1 DEF Handles
    <3>3. Handles'
      <4>1. \A d \in Callers : /\ Holding(d)' <=> Holding(d)
                               /\ Starting(d)' => Starting(d) /\ d # c /\ Holding(d)
        BY <3>1 DEF Holding, Starting
      <4>2. \A d \in Callers : pc'[d] \in {"lookup", "gate", "enqueue"} => pc'[d] = pc[d]
        BY <3>1
      <4>3. \A d \in Callers : Starting(d)' => tgt[d] # tgt[c]
        BY <3>2, <4>1
      <4> QED
        BY <1>0, <3>1, <3>7, <4>1, <4>2, <4>3 DEF Handles
    <3>5. \A d \in Callers : pc'[d] \in TearingDown =>
            Holding(d) /\ d # c /\ pc'[d] = pc[d] /\ tgt[d] # tgt[c]
      BY <3>1, <3>2 DEF TearingDown, Holding
    <3>4. Closings'
      BY <1>0, <3>1, <3>5 DEF Closings
    <3>6. SoleTeardown'
      BY <1>0, <3>1, <3>5, <3>7 DEF SoleTeardown
    <3> QED
      BY <3>3, <3>4, <3>6
  <2>2. CASE Resolve(c)
    <3>1. CASE tgt[c] \in directory /\ Goto(c, "gate") /\ UNCHANGED callVars
      <4>1. pc[c] = "lookup" /\ pc'[c] = "gate" /\ Kept /\ UNCHANGED <<job, tgt>>
            /\ \A d \in Callers \ {c} : pc'[d] = pc[d]
        BY <1>0, <2>2, <3>1 DEF Resolve, TypeOK
      <4>2. Handles'
        BY <1>0, <3>1, <4>1 DEF Handles, Holding, Starting
      <4>3. Closings'
        BY <1>0, <4>1 DEF Closings, TearingDown
      <4>4. SoleTeardown'
        BY <1>0, <4>1 DEF SoleTeardown, TearingDown
      <4> QED
        BY <4>2, <4>3, <4>4
    <3> QED
      BY <1>1, <2>2, <3>1 DEF Resolve
  <2>3. CASE Gate(c)
    <3>1. pc[c] = "gate" /\ job[c] # "start"
      BY <1>0, <2>3 DEF Gate, Handles
    <3> QED
      BY <1>1, <1>2, <2>3, <3>1 DEF Gate, Holding, TearingDown
  <2>4. CASE StartSetActive(c) \/ EnqueueRefused(c) \/ Receive(c) \/ ShutdownFailed(c)
    BY <1>1, <2>4 DEF StartSetActive, EnqueueRefused, Receive, ShutdownFailed
  <2>5. CASE Enqueue(c)
    <3>1. job[c] # "start"
      BY <1>0, <2>5 DEF Enqueue, Handles
    <3> QED
      BY <1>2, <2>5, <3>1, ZenonT(30) DEF Enqueue, Post, Holding, TearingDown
  <2>6. CASE SendControl(c)
    BY <1>2, <2>6, ZenonT(30) DEF SendControl, Post, Holding, TearingDown
  <2>12. CASE ShutdownSend(c)
    BY <1>2, <2>12, ZenonT(30) DEF ShutdownSend, Post, Holding, TearingDown
  <2>10. CASE StopTarget(c)
    BY <1>2, <2>10 DEF StopTarget, Holding, TearingDown
  <2>11. CASE ShutdownAcked(c)
    BY <1>2, <2>11 DEF ShutdownAcked, Holding, TearingDown
  <2>7. CASE StopReadActive(c) \/ StopClearActive(c)
    <3>1. /\ pc[c] \in {"readActive", "clearActive"}
          /\ pc'[c] \in {"clearActive", "beginClosing"}
          /\ Kept /\ UNCHANGED <<job, tgt>> /\ \A d \in Callers \ {c} : pc'[d] = pc[d]
      BY <1>0, <2>7 DEF StopReadActive, StopClearActive, TypeOK
    <3>2. Handles'
      BY <1>0, <3>1 DEF Handles, Holding, Starting
    <3>3. Closings'
      BY <1>0, <3>1 DEF Closings, TearingDown
    <3>4. SoleTeardown'
      BY <1>0, <3>1 DEF SoleTeardown, TearingDown
    <3> QED
      BY <3>2, <3>3, <3>4
  <2>8. CASE BeginClosing(c)
    <3>1. /\ pc[c] = "beginClosing" /\ pc'[c] = "stopEnqueue" /\ UNCHANGED <<job, tgt>>
          /\ \A d \in Callers \ {c} : pc'[d] = pc[d]
          /\ closing' = [closing EXCEPT ![tgt[c]] = TRUE] /\ tgt[c] \in Sessions
          /\ directory' = directory /\ thread' = thread /\ stoppedOk' = stoppedOk
      BY <1>0, <2>8 DEF BeginClosing, Handles, Holding, TypeOK
    <3>2. tgt[c] \notin directory /\ thread[tgt[c]] # "unborn"
          /\ \A d \in Callers : Starting(d) => tgt[d] # tgt[c]
      BY <1>0, <3>1 DEF SoleTeardown, TearingDown, Handles, Holding, Starting
    <3>3. closing'[tgt[c]] /\ \A s \in Sessions \ {tgt[c]} : closing'[s] = closing[s]
      BY <1>0, <3>1 DEF TypeOK
    <3>4. Handles'
      BY <1>0, <3>1, <3>2, <3>3 DEF Handles, Holding, Starting
    <3>7. \A d \in Callers : pc'[d] \in TearingDown <=> pc[d] \in TearingDown
      BY <3>1 DEF TearingDown
    <3>8. \A s \in Sessions : closing[s] => closing'[s]
      BY <3>3
    <3>5. Closings'
      <4>1. \A d \in Callers :
              pc'[d] \in TearingDown \ {"readActive", "clearActive", "beginClosing"} => closing'[tgt[d]]
        BY <1>0, <3>1, <3>3, <3>8 DEF Closings, Handles, Holding, TearingDown
      <4> QED
        BY <1>0, <3>1, <3>2, <3>3, <3>8, <4>1 DEF Closings, TypeOK
    <3>6. SoleTeardown'
      BY <1>0, <3>1, <3>2, <3>3, <3>7 DEF SoleTeardown, TypeOK
    <3> QED
      BY <3>4, <3>5, <3>6
  <2>9. CASE Join(c)
    <3>1. pc[c] = "join" /\ closing[tgt[c]] /\ stoppedOk' \subseteq stoppedOk \cup {tgt[c]}
      BY <1>0, <2>9 DEF Join, Closings, TearingDown
    <3>2. pc'[c] = "idle" /\ directory' = directory /\ closing' = closing /\ thread' = thread
          /\ \A d \in Callers \ {c} : pc'[d] = pc[d] /\ job'[d] = job[d] /\ tgt'[d] = tgt[d]
      BY <1>0, <2>9 DEF Join, TypeOK
    <3>3. Handles'
      BY <1>0, <3>2 DEF Handles, Holding, Starting
    <3>4. Closings'
      BY <1>0, <3>1, <3>2 DEF Closings, TearingDown
    <3>5. SoleTeardown'
      BY <1>0, <3>2 DEF SoleTeardown, TearingDown
    <3> QED
      BY <3>3, <3>4, <3>5
  <2> QED
    BY <1>4, <2>1, <2>2, <2>3, <2>4, <2>5, <2>6, <2>7, <2>8, <2>9,
       <2>10, <2>11, <2>12 DEF CallerStep
<1>5. ASSUME UNCHANGED <<directory, closing, pc, job, tgt, stoppedOk>>,
             \A s \in Sessions : thread[s] # "unborn" => thread'[s] # "unborn"
      PROVE  Ownership'
  <2>1. Handles'
    BY <1>0, <1>5 DEF Handles, Holding, Starting, TypeOK
  <2>2. Closings'
    BY <1>0, <1>5 DEF Closings, TearingDown
  <2>3. SoleTeardown'
    BY <1>0, <1>5 DEF SoleTeardown, TearingDown
  <2> QED
    BY <2>1, <2>2, <2>3
<1>6. ASSUME NEW s \in Sessions, ActorStep(s) \/ ActorCrash(s) \/ ChildExit(s)
      PROVE  Ownership'
  <2>1. UNCHANGED <<directory, closing, pc, job, tgt, stoppedOk>>
        /\ (thread' = thread \/ \E t \in {"exiting", "exited"} : thread' = [thread EXCEPT ![s] = t])
    BY <1>6 DEF ActorStep, JobStart, JobWork, JobRestart, JobStop, ActorShutdown, ActorCrash,
                ActorExit, ActorDrained, ChildExit
  <2>2. \A t \in Sessions : thread[t] # "unborn" => thread'[t] # "unborn"
    BY <1>0, <2>1 DEF TypeOK
  <2> QED
    BY <1>5, <2>1, <2>2
<1>7. CASE DropPool
  <2>1. directory' = {} /\ thread' = thread /\ pc' = pc /\ stoppedOk' = stoppedOk
        /\ (\A c \in Callers : pc[c] = "idle")
        /\ \A s \in Sessions : closing'[s] = (closing[s] \/ s \in directory)
    BY <1>0, <1>7 DEF DropPool, TypeOK
  <2>2. Handles'
    BY <2>1 DEF Handles, Holding, Starting
  <2>3. Closings'
    BY <1>0, <2>1 DEF Closings, Handles, TearingDown, TypeOK
  <2>4. SoleTeardown'
    BY <2>1 DEF SoleTeardown, TearingDown
  <2> QED
    BY <2>2, <2>3, <2>4
<1>8. CASE Finished \/ UNCHANGED vars
  BY <1>5, <1>8 DEF Finished, vars
<1> QED
  BY <1>3, <1>4, <1>6, <1>7, <1>8 DEF Next

-----------------------------------------------------------------------------
\* Whoever has mail in a queue waits there, without an answer.
LEMMA MailWaits ==
  ASSUME Mails, NEW s \in Sessions, NEW i \in DOMAIN mailbox[s],
         mailbox[s][i].from \in Callers
  PROVE  /\ tgt[mailbox[s][i].from] = s /\ reply[mailbox[s][i].from] = "none"
         /\ pc[mailbox[s][i].from] \in {"await", "stopAwait", "ackAwait"}
<1> DEFINE l == <<mailbox[s][i].from, s, mailbox[s][i].kind>>
<1>1. l \in Listeners
  BY DEF Mails
<1> QED
  BY <1>1 DEF Listeners

\* Every step keeps mail and listeners matched.
LEMMA MailsNext ==
  ASSUME PoolInv, [Next]_vars
  PROVE  Mails'
<1> USE DEF Goto, Return, poolVars, actorVars, callVars
<1>0. TypeOK /\ Handles /\ Mails /\ PoolAssumption
  BY PoolAssumption DEF PoolInv
<1> DEFINE Waiting(c) == pc[c] \in {"await", "stopAwait", "ackAwait"} /\ reply[c] = "none"
           OthersKept(c) == \A d \in Callers \ {c} : /\ pc'[d] = pc[d] /\ job'[d] = job[d]
                                                     /\ tgt'[d] = tgt[d] /\ reply'[d] = reply[d]
\* A caller without an unanswered mail may do as it likes.
<1>1. ASSUME NEW c \in Callers, ~Waiting(c), OthersKept(c), mailbox' = mailbox, thread' = thread
      PROVE  Mails'
  <2>1. \A s \in Sessions : \A i \in DOMAIN mailbox[s] : mailbox[s][i].from # c
    BY <1>0, <1>1, MailWaits DEF Mails
  <2>2. \A d \in Callers \ {c} : \A s, k : <<d, s, k>> \in Listeners => <<d, s, k>> \in Listeners'
    BY <1>1 DEF Listeners
  <2> QED
    BY <1>0, <1>1, <2>1, <2>2 DEF Mails
<1>2. ASSUME NEW c \in Callers, Holding(c), ~Waiting(c),
             NEW kind \in Jobs \cup {"stop", "shutdown"}, NEW step, Post(c, kind, step),
             UNCHANGED <<job, tgt, thread>>,
             \/ step = "await" /\ kind = job[c]
             \/ step = "stopAwait" /\ kind = "stop"
             \/ step = "ackAwait" /\ kind = "shutdown"
      PROVE  Mails'
  <2> DEFINE s == tgt[c]
             n == Len(mailbox[s]) + 1
  <2>1. s \in Sessions
    BY <1>0, <1>2 DEF Handles
  <2>2. /\ \A t \in Sessions : t # s => mailbox'[t] = mailbox[t]
        /\ DOMAIN mailbox'[s] = DOMAIN mailbox[s] \cup {n}
        /\ \A i \in DOMAIN mailbox[s] : mailbox'[s][i] = mailbox[s][i]
        /\ mailbox'[s][n] = [from |-> c, kind |-> kind]
        /\ n \notin DOMAIN mailbox[s]
    BY <1>0, <1>2, <2>1, Posted
  <2>3. \A t \in Sessions : \A i \in DOMAIN mailbox[t] : mailbox[t][i].from # c
    BY <1>0, <1>2, MailWaits DEF Mails
  <2>4. /\ pc'[c] = step /\ reply'[c] = "none" /\ thread[s] # "exited"
        /\ \A d \in Callers \ {c} : pc'[d] = pc[d] /\ reply'[d] = reply[d]
    BY <1>0, <1>2 DEF Post, TypeOK
  <2>5. <<c, s, kind>> \in Listeners'
    BY <1>2, <2>1, <2>4 DEF Listeners, Kinds
  <2>6. \A d \in Callers \ {c} : \A t, k : <<d, t, k>> \in Listeners => <<d, t, k>> \in Listeners'
    BY <1>2, <2>4 DEF Listeners
  <2> HIDE DEF s, n
  <2>7. \A t \in Sessions : thread'[t] = "exited" => mailbox'[t] = <<>>
    BY <1>0, <1>2, <2>2, <2>4 DEF Mails
  <2>8. \A t \in Sessions : \A i \in DOMAIN mailbox'[t] :
          mailbox'[t][i].from \in Callers => <<mailbox'[t][i].from, t, mailbox'[t][i].kind>> \in Listeners'
    BY <1>0, <2>2, <2>3, <2>5, <2>6 DEF Mails
  <2>9. \A t \in Sessions : \A i, j \in DOMAIN mailbox'[t] :
          mailbox'[t][i].from \in Callers /\ mailbox'[t][j].from = mailbox'[t][i].from => i = j
    BY <1>0, <2>2, <2>3 DEF Mails
  <2> QED
    BY <2>7, <2>8, <2>9 DEF Mails
<1>3. ASSUME NEW c \in Callers, CallerBegins(c) PROVE Mails'
  <2>1. ASSUME NEW s \in Sessions, Start(c, s) PROVE Mails'
    <3> DEFINE q == <<[from |-> c, kind |-> "start"]>>
    <3>1. /\ pc[c] = "idle" /\ pc'[c] = "await" /\ tgt'[c] = s /\ reply'[c] = "none"
          /\ job'[c] = "start" /\ OthersKept(c) /\ thread'[s] = "running"
          /\ \A t \in Sessions \ {s} : thread'[t] = thread[t] /\ mailbox'[t] = mailbox[t]
          /\ mailbox'[s] = q
      BY <1>0, <2>1 DEF Start, TypeOK
    <3>2. DOMAIN q = {1} /\ q[1].from = c /\ q[1].kind = "start"
      OBVIOUS
    <3>3. \A t \in Sessions : \A i \in DOMAIN mailbox[t] : mailbox[t][i].from # c
      BY <1>0, <3>1, MailWaits DEF Mails
    <3>4. \A d \in Callers \ {c} : \A t, k : <<d, t, k>> \in Listeners => <<d, t, k>> \in Listeners'
      BY <3>1 DEF Listeners
    <3>5. <<c, s, "start">> \in Listeners'
      BY <3>1 DEF Listeners, Kinds, Jobs
    <3> HIDE DEF q
    <3>6. \A t \in Sessions : thread'[t] = "exited" => mailbox'[t] = <<>>
      BY <1>0, <3>1 DEF Mails
    <3>7. \A t \in Sessions : \A i \in DOMAIN mailbox'[t] :
            mailbox'[t][i].from \in Callers =>
              <<mailbox'[t][i].from, t, mailbox'[t][i].kind>> \in Listeners'
      BY <1>0, <3>1, <3>2, <3>3, <3>4, <3>5, SMTT(30) DEF Mails
    <3>8. \A t \in Sessions : \A i, j \in DOMAIN mailbox'[t] :
            mailbox'[t][i].from \in Callers /\ mailbox'[t][j].from = mailbox'[t][i].from => i = j
      BY <1>0, <3>1, <3>2 DEF Mails
    <3> QED
      BY <3>6, <3>7, <3>8 DEF Mails
  <2>2. ASSUME NEW s \in Sessions \cup {None}, NEW j \in Jobs, Request(c, s, j) PROVE Mails'
    BY <1>0, <1>1, <2>2 DEF Request, TypeOK
  <2>3. ASSUME NEW s \in Sessions, StopRemove(c, s) PROVE Mails'
    BY <1>0, <1>1, <2>3 DEF StopRemove, TypeOK
  <2> QED
    BY <1>0, <1>3, <2>1, <2>2, <2>3 DEF CallerBegins, RequestActive, TypeOK
<1>4. ASSUME NEW c \in Callers, CallerStep(c) PROVE Mails'
  <2>1. CASE Enqueue(c) \/ SendControl(c) \/ ShutdownSend(c)
    <3>1. job[c] \in Jobs
      BY <1>0 DEF TypeOK
    <3> QED
      BY <1>2, <2>1, <3>1 DEF Enqueue, SendControl, ShutdownSend, Holding
  <2>2. ASSUME ~Enqueue(c), ~SendControl(c), ~ShutdownSend(c)
        PROVE  ~Waiting(c) /\ mailbox' = mailbox /\ thread' = thread
    BY <1>4, <2>2 DEF CallerStep, StartInsert, StartSetActive, Resolve, Gate, EnqueueRefused,
         Receive, StopReadActive, StopClearActive, BeginClosing, StopTarget, ShutdownFailed,
         ShutdownAcked, Join
  <2>3. ASSUME ~Enqueue(c), ~SendControl(c), ~ShutdownSend(c) PROVE OthersKept(c)
    <3>1. \E p, j, t, r : /\ pc' = [pc EXCEPT ![c] = p]
                          /\ job' \in {job, [job EXCEPT ![c] = j]}
                          /\ tgt' \in {tgt, [tgt EXCEPT ![c] = t]}
                          /\ reply' \in {reply, [reply EXCEPT ![c] = r]}
      BY <1>4, <2>3 DEF CallerStep, StartInsert, StartSetActive, Resolve, Gate, EnqueueRefused,
           Receive, StopReadActive, StopClearActive, BeginClosing, StopTarget, ShutdownFailed,
           ShutdownAcked, Join
    <3> QED
      BY <1>0, <3>1 DEF TypeOK
  <2> QED
    BY <1>1, <2>1, <2>2, <2>3
\* One mail is taken and its listener answered.
<1>5. ASSUME NEW s \in Sessions, NEW r, NEW p, thread[s] = "running", mailbox[s] # <<>>,
             RunJob(s, r, p), UNCHANGED <<pc, job, tgt>>,
             thread' \in {thread, [thread EXCEPT ![s] = "exiting"]}
      PROVE  Mails'
  <2> DEFINE m == Head(mailbox[s])
  <2>1. /\ \A t \in Sessions : t # s => mailbox'[t] = mailbox[t]
        /\ 1 \in DOMAIN mailbox[s] /\ m = mailbox[s][1]
        /\ \A i \in DOMAIN mailbox'[s] :
             /\ i + 1 \in DOMAIN mailbox[s] /\ i + 1 # 1
             /\ mailbox'[s][i] = mailbox[s][i + 1]
             /\ \A j \in DOMAIN mailbox'[s] : i + 1 = j + 1 => i = j
    BY <1>0, <1>5, Taken DEF RunJob
  <2>2. \A d \in Callers : d # m.from => reply'[d] = reply[d]
    BY <1>5 DEF RunJob, Answer
  <2>3. \A t \in Sessions : thread'[t] = "exited" => thread[t] = "exited" /\ t # s
    BY <1>0, <1>5 DEF TypeOK
  <2> HIDE DEF m
  <2>4. \A d \in Callers : \A t, k : d # m.from /\ <<d, t, k>> \in Listeners => <<d, t, k>> \in Listeners'
    BY <1>5, <2>2 DEF Listeners
  <2>5. \A t \in Sessions : \A i \in DOMAIN mailbox[t] :
          mailbox[t][i].from \in Callers /\ mailbox[t][i].from = m.from => t = s /\ i = 1
    BY <1>0, <2>1, MailWaits DEF Mails
  <2>6. \A t \in Sessions : \A i \in DOMAIN mailbox'[t] :
          mailbox'[t][i].from \in Callers => <<mailbox'[t][i].from, t, mailbox'[t][i].kind>> \in Listeners'
    BY <1>0, <2>1, <2>4, <2>5 DEF Mails
  <2>7. \A t \in Sessions : \A i, j \in DOMAIN mailbox'[t] :
          mailbox'[t][i].from \in Callers /\ mailbox'[t][j].from = mailbox'[t][i].from => i = j
    BY <1>0, <2>1 DEF Mails
  <2>8. \A t \in Sessions : thread'[t] = "exited" => mailbox'[t] = <<>>
    BY <1>0, <2>1, <2>3 DEF Mails
  <2> QED
    BY <2>6, <2>7, <2>8 DEF Mails
<1>6. ASSUME NEW s \in Sessions, ActorStep(s) \/ ActorCrash(s) \/ ChildExit(s) PROVE Mails'
  <2>1. CASE JobStart(s) \/ JobWork(s) \/ JobRestart(s) \/ JobStop(s)
    BY <1>5, <2>1 DEF JobStart, JobWork, JobRestart, JobStop, Handling
  <2>2. CASE ActorShutdown(s) \/ ActorCrash(s)
    BY <1>5, <2>2 DEF ActorShutdown, ActorCrash, Handling
  <2>3. CASE ActorExit(s)
    <3>1. /\ mailbox'[s] = <<>> /\ UNCHANGED <<pc, job, tgt>>
          /\ \A t \in Sessions \ {s} : mailbox'[t] = mailbox[t] /\ thread'[t] = thread[t]
      BY <1>0, <2>3 DEF ActorExit, TypeOK
    <3>2. \A d \in Callers : tgt[d] # s => reply'[d] = reply[d]
      BY <1>0, <2>3, MailWaits DEF ActorExit
    <3>3. \A d \in Callers : \A t, k : t # s /\ <<d, t, k>> \in Listeners => <<d, t, k>> \in Listeners'
      BY <3>1, <3>2 DEF Listeners
    <3> QED
      BY <1>0, <3>1, <3>3 DEF Mails
  <2>4. CASE ActorDrained(s) \/ ChildExit(s)
    <3>1. UNCHANGED <<mailbox, pc, job, tgt, reply>>
      BY <2>4 DEF ActorDrained, ChildExit
    <3>2. \A t \in Sessions : thread'[t] = "exited" => thread[t] = "exited" \/ mailbox[t] = <<>>
      BY <1>0, <2>4 DEF ActorDrained, ChildExit, TypeOK
    <3> QED
      BY <1>0, <3>1, <3>2 DEF Mails, Listeners
  <2> QED
    BY <1>6, <2>1, <2>2, <2>3, <2>4 DEF ActorStep
<1>7. CASE DropPool
  <2> DEFINE m == [from |-> None, kind |-> "shutdown"]
  <2>1. \A s \in Sessions : /\ mailbox[s] \in Seq(Mail)
                            /\ \A i \in DOMAIN mailbox[s] : mailbox[s][i].from \notin Callers
    <3>1. \A d \in Callers : pc[d] = "idle"
      BY <1>7 DEF DropPool
    <3>2. \A s \in Sessions : \A i \in DOMAIN mailbox[s] : mailbox[s][i].from \notin Callers
      BY <1>0, <3>1, MailWaits DEF Mails
    <3> QED
      BY <1>0, <3>2 DEF TypeOK
  <2>2. m \in Mail /\ m.from \notin Callers
    BY <1>0 DEF Mail
  <2> HIDE DEF m
  <2>6. mailbox' = [s \in Sessions |->
          IF s \in directory /\ thread[s] # "exited" /\ Len(mailbox[s]) < Capacity
          THEN Append(mailbox[s], m) ELSE mailbox[s]]
    BY <1>7 DEF DropPool, m
  <2>3. \A s \in Sessions :
          mailbox'[s] = mailbox[s] \/ (mailbox'[s] = Append(mailbox[s], m) /\ thread[s] # "exited")
    BY <2>6
  <2>4. ASSUME NEW s \in Sessions, NEW i \in DOMAIN mailbox'[s]
        PROVE  mailbox'[s][i].from \notin Callers
    <3>1. CASE mailbox'[s] = Append(mailbox[s], m)
      <4>1. /\ Len(mailbox[s]) \in Nat /\ DOMAIN mailbox[s] = 1 .. Len(mailbox[s])
            /\ DOMAIN mailbox'[s] = 1 .. Len(mailbox[s]) + 1
            /\ \A k \in 1 .. Len(mailbox[s]) : mailbox'[s][k] = mailbox[s][k]
            /\ mailbox'[s][Len(mailbox[s]) + 1] = m
        BY <2>1, <2>2, <3>1, AppendProperties, LenProperties
      <4>2. i \in DOMAIN mailbox[s] \/ i = Len(mailbox[s]) + 1
        BY <2>4, <4>1
      <4> QED
        BY <2>1, <2>2, <4>1, <4>2
    <3> QED
      BY <2>1, <2>3, <2>4, <3>1
  <2>5. thread' = thread
    BY <1>7 DEF DropPool
  <2> QED
    BY <1>0, <2>3, <2>4, <2>5 DEF Mails
<1>8. CASE Finished \/ UNCHANGED vars
  BY <1>0, <1>8 DEF Finished, vars, Mails, Listeners
<1> QED
  BY <1>3, <1>4, <1>6, <1>7, <1>8 DEF Next

-----------------------------------------------------------------------------
\* Every step keeps an acknowledged shutdown what it said.
LEMMA AcksNext ==
  ASSUME PoolInv, [Next]_vars
  PROVE  Acks'
<1> USE DEF Goto, Return, poolVars, actorVars, callVars
<1>0. TypeOK /\ Handles /\ Mails /\ Acks
  BY DEF PoolInv
<1> DEFINE Acked(c) == pc[c] = "join" \/ (pc[c] = "ackAwait" /\ reply[c] = "ok")
\* Nobody is acknowledged anew, and what is gone stays gone.
<1>1. ASSUME \A c \in Callers : Acked(c)' => Acked(c) /\ tgt'[c] = tgt[c],
             \A s \in Sessions : thread[s] \in {"exiting", "exited"} =>
               /\ thread'[s] \in {"exiting", "exited"}
               /\ child'[s] = child[s] \/ child'[s] = "dead"
      PROVE  Acks'
  <2>1. \A c \in Callers : Acked(c) => tgt[c] \in Sessions
    BY <1>0 DEF Handles, Holding
  <2> QED
    BY <1>0, <1>1, <2>1 DEF Acks
<1>2. ASSUME NEW c \in Callers, CallerBegins(c) PROVE Acks'
  <2>1. ASSUME NEW s \in Sessions, Start(c, s) PROVE Acks'
    BY <1>0, <1>1, <2>1 DEF Start, TypeOK
  <2>2. ASSUME NEW s \in Sessions \cup {None}, NEW j \in Jobs, Request(c, s, j) PROVE Acks'
    BY <1>0, <1>1, <2>2 DEF Request, TypeOK
  <2>3. ASSUME NEW s \in Sessions, StopRemove(c, s) PROVE Acks'
    BY <1>0, <1>1, <2>3 DEF StopRemove, TypeOK
  <2> QED
    BY <1>0, <1>2, <2>1, <2>2, <2>3 DEF CallerBegins, RequestActive, TypeOK
<1>3. ASSUME NEW c \in Callers, CallerStep(c) PROVE Acks'
  <2>1. CASE StartInsert(c) \/ StartSetActive(c) \/ Resolve(c)
    BY <1>0, <1>1, <2>1 DEF StartInsert, StartSetActive, Resolve, TypeOK
  <2>2. CASE Gate(c)
    BY <1>0, <1>1, <2>2 DEF Gate, TypeOK
  <2>3. CASE EnqueueRefused(c) \/ Receive(c) \/ ShutdownFailed(c) \/ Join(c)
    BY <1>0, <1>1, <2>3 DEF EnqueueRefused, Receive, ShutdownFailed, Join, TypeOK
  <2>4. CASE StopReadActive(c) \/ StopClearActive(c) \/ BeginClosing(c) \/ StopTarget(c)
             \/ ShutdownAcked(c)
    BY <1>0, <1>1, <2>4 DEF StopReadActive, StopClearActive, BeginClosing, StopTarget,
                            ShutdownAcked, TypeOK
  <2>5. CASE Enqueue(c) \/ SendControl(c) \/ ShutdownSend(c)
    BY <1>0, <1>1, <2>5 DEF Enqueue, SendControl, ShutdownSend, Post, TypeOK
  <2> QED
    BY <1>3, <2>1, <2>2, <2>3, <2>4, <2>5 DEF CallerStep
\* A running actor answers; only a shutdown answers a stop that waits on one.
<1>4. ASSUME NEW s \in Sessions, NEW kinds, NEW r, NEW p, Handling(s, kinds), RunJob(s, r, p),
             UNCHANGED <<pc, tgt>>,
             thread' \in {thread, [thread EXCEPT ![s] = "exiting"]},
             "shutdown" \in kinds =>
               p = "dead" /\ kinds = {"shutdown"} /\ thread' = [thread EXCEPT ![s] = "exiting"]
      PROVE  Acks'
  <2> DEFINE m == Head(mailbox[s])
  <2>1. /\ 1 \in DOMAIN mailbox[s] /\ m = mailbox[s][1] /\ m.kind \in kinds
        /\ \A d \in Callers : d # m.from => reply'[d] = reply[d]
        /\ \A t \in Sessions \ {s} : child'[t] = child[t] /\ thread'[t] = thread[t]
        /\ child'[s] = p /\ thread[s] = "running"
    BY <1>0, <1>4, Taken DEF Handling, RunJob, Answer, TypeOK
  <2>2. ASSUME m.from \in Callers, pc[m.from] = "ackAwait"
        PROVE  m.kind = "shutdown"
    <3>1. <<m.from, s, m.kind>> \in Listeners
      BY <1>0, <2>1, <2>2 DEF Mails
    <3> QED
      BY <2>2, <3>1 DEF Listeners
  <2>3. m.from \in Callers => tgt[m.from] = s
    BY <1>0, <2>1, MailWaits
  <2> HIDE DEF m
  <2>4. ASSUME NEW d \in Callers, Acked(d)'
        PROVE  thread'[tgt[d]] \in {"exiting", "exited"} /\ child'[tgt[d]] # "running"
    <3>1. CASE Acked(d)
      <4>1. thread[tgt[d]] \in {"exiting", "exited"} /\ child[tgt[d]] # "running"
            /\ tgt[d] \in Sessions
        BY <1>0, <3>1 DEF Acks, Handles, Holding
      <4> QED
        BY <2>1, <4>1
    <3>2. CASE ~Acked(d)
      <4>1. d = m.from /\ pc[d] = "ackAwait"
        BY <1>4, <2>1, <2>4, <3>2
      <4>2. tgt[d] = s /\ p = "dead" /\ thread' = [thread EXCEPT ![s] = "exiting"]
        BY <1>4, <2>1, <2>2, <2>3, <4>1
      <4> QED
        BY <1>0, <2>1, <4>2 DEF TypeOK
    <3> QED
      BY <3>1, <3>2
  <2> QED
    BY <1>4, <2>4 DEF Acks
<1>5. ASSUME NEW s \in Sessions, ActorStep(s) \/ ActorCrash(s) \/ ChildExit(s) PROVE Acks'
  <2>1. CASE JobStart(s)
    BY <1>4, <2>1 DEF JobStart
  <2>2. CASE JobWork(s)
    BY <1>4, <2>2 DEF JobWork
  <2>3. CASE JobRestart(s) \/ JobStop(s)
    BY <1>4, <2>3 DEF JobRestart, JobStop
  <2>4. CASE ActorShutdown(s)
    BY <1>4, <2>4 DEF ActorShutdown
  <2>5. CASE ActorCrash(s)
    BY <1>4, <2>5 DEF ActorCrash, Jobs
  <2>6. CASE ActorExit(s)
    <3>1. \A c \in Callers : reply'[c] = reply[c] \/ reply'[c] = "lost"
      BY <2>6 DEF ActorExit
    <3> QED
      BY <1>0, <1>1, <2>6, <3>1 DEF ActorExit, TypeOK
  <2>7. CASE ActorDrained(s) \/ ChildExit(s)
    BY <1>0, <1>1, <2>7 DEF ActorDrained, ChildExit, TypeOK
  <2> QED
    BY <1>5, <2>1, <2>2, <2>3, <2>4, <2>5, <2>6, <2>7 DEF ActorStep
<1>6. CASE DropPool \/ Finished \/ UNCHANGED vars
  BY <1>1, <1>6 DEF DropPool, Finished, vars
<1> QED
  BY <1>2, <1>3, <1>5, <1>6 DEF Next

\* Every step leaves a successful stop final.
LEMMA FinalNext ==
  ASSUME PoolInv, [Next]_vars
  PROVE  StopOkIsFinal'
<1> USE DEF Goto, Return, poolVars, actorVars, callVars
<1>0. TypeOK /\ Handles /\ Closings /\ Mails /\ Acks /\ SoleTeardown /\ StopOkIsFinal
  BY DEF PoolInv
<1>1. \A s \in stoppedOk : s \in Sessions /\ thread[s] = "exited" /\ closing[s]
  BY <1>0 DEF StopOkIsFinal, Closings, TypeOK
\* A step that adds no success leaves an exited session as it is.
<1>2. ASSUME stoppedOk' = stoppedOk,
             \A s \in Sessions : thread[s] = "exited" /\ closing[s] =>
               /\ thread'[s] = "exited" /\ mailbox'[s] = mailbox[s]
               /\ joined[s] => joined'[s]
               /\ child'[s] \in {child[s], "dead"}
               /\ s \in directory' => s \in directory
      PROVE  StopOkIsFinal'
  BY <1>0, <1>1, <1>2 DEF StopOkIsFinal
<1>3. ASSUME NEW c \in Callers, CallerBegins(c) PROVE StopOkIsFinal'
  BY <1>0, <1>2, <1>3 DEF CallerBegins, Start, Request, RequestActive, StopRemove, TypeOK
<1>4. ASSUME NEW c \in Callers, CallerStep(c) PROVE StopOkIsFinal'
  <2>1. CASE StartInsert(c)
    <3>1. ~closing[tgt[c]]
      BY <1>0, <2>1 DEF StartInsert, Starting, Handles
    <3> QED
      BY <1>2, <2>1, <3>1 DEF StartInsert
  <2>2. CASE Enqueue(c) \/ SendControl(c) \/ ShutdownSend(c)
    <3>1. /\ thread[tgt[c]] # "exited" /\ mailbox' = [mailbox EXCEPT ![tgt[c]] = mailbox'[tgt[c]]]
          /\ UNCHANGED <<directory, thread, child, joined, stoppedOk>>
      BY <1>0, <2>2 DEF Enqueue, SendControl, ShutdownSend, Post, TypeOK
    <3> QED
      BY <1>0, <1>2, <3>1 DEF TypeOK
  <2>3. CASE Join(c)
    <3>1. /\ thread[tgt[c]] = "exited" /\ pc[c] = "join" /\ tgt[c] \in Sessions
          /\ stoppedOk' \subseteq stoppedOk \cup {tgt[c]}
          /\ joined' = [joined EXCEPT ![tgt[c]] = TRUE]
          /\ UNCHANGED <<directory, mailbox, thread, child>>
      BY <1>0, <2>3 DEF Join, Handles, Holding
    <3>2. child[tgt[c]] # "running" /\ mailbox[tgt[c]] = <<>> /\ tgt[c] \notin directory
      BY <1>0, <3>1 DEF Acks, Mails, SoleTeardown, TearingDown
    <3>3. joined'[tgt[c]] /\ \A s \in Sessions : joined[s] => joined'[s]
      BY <1>0, <3>1 DEF TypeOK
    <3> QED
      BY <1>0, <1>1, <3>1, <3>2, <3>3 DEF StopOkIsFinal
  <2>4. ASSUME ~StartInsert(c), ~Enqueue(c), ~SendControl(c), ~ShutdownSend(c), ~Join(c)
        PROVE  UNCHANGED <<directory, mailbox, thread, child, joined, stoppedOk>>
    BY <1>4, <2>4 DEF CallerStep, StartSetActive, Resolve, Gate, EnqueueRefused, Receive,
         StopReadActive, StopClearActive, BeginClosing, StopTarget, ShutdownFailed, ShutdownAcked
  <2> QED
    BY <1>2, <2>1, <2>2, <2>3, <2>4
<1>5. ASSUME NEW s \in Sessions, ActorStep(s) \/ ActorCrash(s) \/ ChildExit(s)
      PROVE  StopOkIsFinal'
  <2>1. CASE JobStart(s) \/ JobWork(s) \/ JobRestart(s) \/ JobStop(s)
    BY <1>0, <1>2, <2>1 DEF JobStart, JobWork, JobRestart, JobStop, Handling, RunJob, TypeOK
  <2>2. CASE ActorShutdown(s) \/ ActorCrash(s)
    BY <1>0, <1>2, <2>2 DEF ActorShutdown, ActorCrash, Handling, RunJob, TypeOK
  <2>3. CASE ActorExit(s) \/ ActorDrained(s) \/ ChildExit(s)
    BY <1>0, <1>2, <2>3 DEF ActorExit, ActorDrained, ChildExit, TypeOK
  <2> QED
    BY <1>5, <2>1, <2>2, <2>3 DEF ActorStep
<1>6. CASE DropPool
  BY <1>0, <1>2, <1>6 DEF DropPool, TypeOK
<1>7. CASE Finished \/ UNCHANGED vars
  BY <1>2, <1>7 DEF Finished, vars
<1> QED
  BY <1>3, <1>4, <1>5, <1>6, <1>7 DEF Next

-----------------------------------------------------------------------------
\* The invariant holds of a new pool (SessionPool::new).
LEMMA PoolInvInit == Init => PoolInv
<1> SUFFICES ASSUME Init PROVE PoolInv
  OBVIOUS
<1>1. TypeOK
  <2>1. <<>> \in Seq(Mail) /\ Len(<<>>) = 0
    OBVIOUS
  <2>2. mailbox \in [Sessions -> Seq(Mail)] /\ \A s \in Sessions : Len(mailbox[s]) <= Capacity
    BY <2>1, PoolAssumption DEF Init
  <2> QED
    BY <2>2 DEF Init, TypeOK, Steps, Jobs
<1>2. Handles /\ Closings /\ Acks /\ SoleTeardown /\ StopOkIsFinal
  BY DEF Init, Handles, Holding, Starting, Closings, Acks, SoleTeardown, StopOkIsFinal,
         TearingDown
<1>3. Mails
  <2>1. \A s \in Sessions : DOMAIN mailbox[s] = {} /\ thread[s] = "unborn"
    BY DEF Init
  <2> QED
    BY <2>1 DEF Mails
<1> QED
  BY <1>1, <1>2, <1>3 DEF PoolInv

\* The invariant holds in every state the pool can reach.
LEMMA PoolInvariant == Safety => []PoolInv
<1>1. PoolInv /\ [Next]_vars => PoolInv'
  BY TypeNext, OwnershipNext, MailsNext, AcksNext, FinalNext DEF PoolInv, Ownership
<1> QED
  BY <1>1, PoolInvInit, PTL DEF Safety

\* The pool is type correct and no mailbox outgrows its channel (TypeOK).
THEOREM PoolTypeOK == Safety => []TypeOK
<1>1. PoolInv => TypeOK
  BY DEF PoolInv
<1> QED
  BY <1>1, PoolInvariant, PTL

\* One stop tears an actor down, and the directory never resolves to one that
\* is closing, for any number of concurrent calls (SessionPool::stop).
THEOREM PoolSoleTeardown == Safety => []SoleTeardown
<1>1. PoolInv => SoleTeardown
  BY DEF PoolInv
<1> QED
  BY <1>1, PoolInvariant, PTL

\* A stop that answered Ok is final, whatever raced with it (SessionPool::stop
\* and the Shutdown arm of the actor loop).
THEOREM PoolStopIsFinal == Safety => []StopOkIsFinal
<1>1. PoolInv => StopOkIsFinal
  BY DEF PoolInv
<1> QED
  BY <1>1, PoolInvariant, PTL
=============================================================================
