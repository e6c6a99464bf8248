--------------------------- MODULE LifecycleGate ---------------------------
(***************************************************************************)
(* RunLifecycleCoordinator of src/mcp/lifecycle.rs: the admission gate of  *)
(* the server.  Ordinary operations hold a shared lease from admission to  *)
(* commit, run transitions (new, close, resume) hold the exclusive one.    *)
(*                                                                         *)
(* The gate is a tokio RwLock, whose semaphore serves its queue strictly   *)
(* in order: a request behind a waiting transition waits, even if the lock *)
(* is only read-held.  A grant is made by whoever frees the lock; the task *)
(* that got it notices later (`entering`), and only then reads the epoch.  *)
(* A client may ask for a second shared lease while it holds one, because  *)
(* one handler does (run_scenario_owned).                                  *)
(***************************************************************************)
EXTENDS Naturals, Sequences, FiniteSets

CONSTANTS
  Clients,    \* concurrent tool calls
  MaxEpoch,   \* bound: transitions asked for in one behaviour
  MaxNested,  \* shared leases one call holds at most (2: the scenario run)
  NoClient    \* the exclusive lease is free

ASSUME GateAssumption ==
  /\ MaxEpoch \in Nat
  /\ MaxNested \in Nat \ {0}
  /\ NoClient \notin Clients

VARIABLES
  waiting,   \* the semaphore's queue: who waits, and for which lease
  readers,   \* read guards each client holds
  writer,    \* the holder of the write guard
  entering,  \* granted, but the task has not run since
  epoch,     \* the lifecycle epoch
  seen       \* Lease.captured_epoch of each client's lease

gateVars == <<waiting, readers, writer, entering, epoch, seen>>

Requests == [who : Clients, mode : {"shared", "exclusive"}]

Waits(c) == \E i \in DOMAIN waiting : waiting[i].who = c

\* Requests that will move the epoch: the queued transitions and the one that
\* holds the lock without having run yet.
PendingBumps ==
  Cardinality({i \in DOMAIN waiting : waiting[i].mode = "exclusive"})
    + (IF writer \in entering THEN 1 ELSE 0)

\* Guards are counted per client, one transition at a time, and the epoch
\* never passes its bound (RunLifecycleCoordinator).
GateTypeOK ==
  /\ waiting \in Seq(Requests)
  /\ readers \in [Clients -> 0 .. MaxNested]
  /\ writer \in Clients \cup {NoClient}
  /\ entering \subseteq Clients
  /\ epoch \in 0 .. MaxEpoch
  /\ seen \in [Clients -> 0 .. MaxEpoch]

GateInit ==
  /\ waiting = <<>>
  /\ readers = [c \in Clients |-> 0]
  /\ writer = NoClient
  /\ entering = {}
  /\ epoch = 0
  /\ seen = [c \in Clients |-> 0]

-----------------------------------------------------------------------------
(* RunLifecycleCoordinator::shared and ::exclusive.                        *)

Enqueue(c, m) ==
  /\ ~Waits(c)
  /\ c \notin entering
  /\ writer # c
  /\ waiting' = Append(waiting, [who |-> c, mode |-> m])
  /\ UNCHANGED <<readers, writer, entering, epoch, seen>>

AskShared(c) == readers[c] < MaxNested /\ Enqueue(c, "shared")

AskExclusive(c) ==
  /\ readers[c] = 0
  /\ epoch + PendingBumps < MaxEpoch
  /\ Enqueue(c, "exclusive")

\* Mutant: an exclusive request does not wait for the readers to drain.
GrantWithoutDrain ==
  LET c == Head(waiting).who IN
  /\ waiting # <<>>
  /\ writer = NoClient
  /\ \/ /\ Head(waiting).mode = "shared"
        /\ readers' = [readers EXCEPT ![c] = @ + 1]
        /\ UNCHANGED writer
     \/ /\ Head(waiting).mode = "exclusive"
        /\ writer' = c
        /\ UNCHANGED readers
  /\ waiting' = Tail(waiting)
  /\ entering' = entering \cup {c}
  /\ UNCHANGED <<epoch, seen>>

\* Mutant: readers overtake a waiting transition.
GrantReadPreferring ==
  \E i \in DOMAIN waiting :
    LET c == waiting[i].who IN
    /\ writer = NoClient
    /\ \/ /\ waiting[i].mode = "shared"
          /\ readers' = [readers EXCEPT ![c] = @ + 1]
          /\ UNCHANGED writer
       \/ /\ waiting[i].mode = "exclusive"
          /\ \A d \in Clients : readers[d] = 0
          /\ writer' = c
          /\ UNCHANGED readers
    /\ waiting' = SubSeq(waiting, 1, i - 1) \o SubSeq(waiting, i + 1, Len(waiting))
    /\ entering' = entering \cup {c}
    /\ UNCHANGED <<epoch, seen>>

\* The head of the queue gets the lock as soon as it is compatible.
Grant ==
  LET c == Head(waiting).who IN
  /\ waiting # <<>>
  /\ writer = NoClient
  /\ \/ /\ Head(waiting).mode = "shared"
        /\ readers' = [readers EXCEPT ![c] = @ + 1]
        /\ UNCHANGED writer
     \/ /\ Head(waiting).mode = "exclusive"
        /\ \A d \in Clients : readers[d] = 0
        /\ writer' = c
        /\ UNCHANGED readers
  /\ waiting' = Tail(waiting)
  /\ entering' = entering \cup {c}
  /\ UNCHANGED <<epoch, seen>>

\* Mutant: the epoch read before the gate is the one the lease keeps.
EnterSharedKeepsPre(c) ==
  /\ c \in entering
  /\ readers[c] > 0
  /\ entering' = entering \ {c}
  /\ UNCHANGED <<waiting, readers, writer, epoch, seen>>

\* shared returns: the epoch is read under the guard.
EnterShared(c) ==
  /\ c \in entering
  /\ readers[c] > 0
  /\ entering' = entering \ {c}
  /\ seen' = [seen EXCEPT ![c] = epoch]
  /\ UNCHANGED <<waiting, readers, writer, epoch>>

\* exclusive returns: capture, then bump before anything is mutated.
EnterExclusive(c) ==
  /\ c \in entering
  /\ writer = c
  /\ entering' = entering \ {c}
  /\ seen' = [seen EXCEPT ![c] = epoch]
  /\ epoch' = epoch + 1
  /\ UNCHANGED <<waiting, readers, writer>>

-----------------------------------------------------------------------------
(* Drop for Lease.                                                         *)

LeaveShared(c) ==
  /\ c \notin entering
  /\ readers[c] > 0
  /\ readers' = [readers EXCEPT ![c] = @ - 1]
  /\ UNCHANGED <<waiting, writer, entering, epoch, seen>>

\* Mutant: the era changes at the end of the transition as well.
LeaveExclusiveBumps(c) ==
  /\ c \notin entering
  /\ writer = c
  /\ writer' = NoClient
  /\ epoch' = epoch + 1
  /\ UNCHANGED <<waiting, readers, entering, seen>>

LeaveExclusive(c) ==
  /\ c \notin entering
  /\ writer = c
  /\ writer' = NoClient
  /\ UNCHANGED <<waiting, readers, entering, epoch, seen>>

-----------------------------------------------------------------------------
GateNext ==
  \/ Grant
  \/ \E c \in Clients :
       \/ AskShared(c) \/ AskExclusive(c)
       \/ EnterShared(c) \/ EnterExclusive(c)
       \/ LeaveShared(c) \/ LeaveExclusive(c)

GateSpec == GateInit /\ [][GateNext]_gateVars

-----------------------------------------------------------------------------
(* Properties.                                                             *)

\* A transition runs alone: while one holds the gate no operation holds a
\* shared lease, granted in whatever order (shared, exclusive, Drop).
Exclusion == writer # NoClient => \A c \in Clients : readers[c] = 0

\* The captured epoch of an admitted operation is the current epoch for as
\* long as it holds the lease: no transition crossed it (shared's comment
\* "the epoch is stable for the lease's lifetime").
EpochStable ==
  \A c \in Clients \ entering : readers[c] > 0 => seen[c] = epoch

\* The gate implements Admission: granting, noticing the grant and reading the
\* epoch look like one step to whoever asks.  A granted transition that has
\* not run has already ended the era.
Admissions ==
  INSTANCE Admission WITH
    Calls  <- Clients,
    Nobody <- NoClient,
    leases <- readers,
    alone  <- writer,
    era    <- epoch + (IF writer \in entering THEN 1 ELSE 0),
    stamp  <- [c \in Clients |->
                 IF readers[c] = 0 /\ writer # c THEN 0
                 ELSE IF c \in entering THEN epoch ELSE seen[c]]

\* To its callers the gate is atomic: every admission and every transition
\* takes effect in one step and carries the era it took effect in (module
\* comment of lifecycle.rs; shared and exclusive read the epoch later).
AdmissionAtomic == Admissions!Spec
=============================================================================
