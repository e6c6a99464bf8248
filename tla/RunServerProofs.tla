-------------------------- MODULE RunServerProofs --------------------------
(***************************************************************************)
(* For any number of clients, runs, sessions and faults.  The server uses  *)
(* its gate only through the gate's own protocol, so what the gate         *)
(* promises holds of the server, and an admitted call drives and commits   *)
(* in the run it was admitted to.  The server's state has its type; no     *)
(* session is without a run while a transition is at work, and no          *)
(* transition kills a session a human holds; a closed run is reopened on   *)
(* disk only by the resume that makes it live; and, as long as no verify   *)
(* re-check is at work (its final record bypasses the gate), evidence is   *)
(* filed under the run it was made for and survives every transition.      *)
(***************************************************************************)
EXTENDS RunServer, SequenceTheorems, FiniteSetTheorems, TLAPS

-----------------------------------------------------------------------------
(* The gate: for any number of clients and any bounds it excludes          *)
(* operations from transitions, an admitted operation's epoch stands       *)
(* still, and it implements the atomic Admission.                          *)

\* The part of the types the two invariants lean on (no bound is needed).
GateTypes ==
  /\ waiting \in Seq(Requests)
  /\ readers \in [Clients -> Nat]
  /\ writer \in Clients \cup {NoClient}
  /\ entering \subseteq Clients
  /\ epoch \in Nat
  /\ seen \in [Clients -> Nat]

\* EpochStable alone is not inductive: a transition that enters moves the
\* epoch, and only Exclusion says that nobody is looking.
GateInv == GateTypes /\ Exclusion /\ EpochStable

\* GateInv holds of a gate nobody has used (RunLifecycleCoordinator::default).
LEMMA GateInvInit == GateInit => GateInv
  BY DEF GateInit, GateInv, GateTypes, Exclusion, EpochStable, Requests

\* Taking the head off the queue leaves a queue, and its client is a client.
LEMMA HeadOfQueue ==
  ASSUME waiting \in Seq(Requests), waiting # <<>>
  PROVE  /\ Head(waiting).who \in Clients
         /\ Head(waiting).mode \in {"shared", "exclusive"}
         /\ Tail(waiting) \in Seq(Requests)
<1>1. Head(waiting) \in Requests /\ Tail(waiting) \in Seq(Requests)
  BY HeadTailProperties
<1> QED
  BY <1>1 DEF Requests

\* Every step of the gate preserves GateInv (shared, exclusive, Drop).
LEMMA GateInvNext == GateInv /\ [GateNext]_gateVars => GateInv'
<1> SUFFICES ASSUME GateInv, [GateNext]_gateVars PROVE GateInv'
  OBVIOUS
<1> USE GateAssumption DEF GateInv, GateTypes, Exclusion, EpochStable
<1>1. ASSUME NEW c \in Clients, NEW m \in {"shared", "exclusive"}, Enqueue(c, m)
      PROVE  GateInv'
  <2>1. [who |-> c, mode |-> m] \in Requests
    BY DEF Requests
  <2> QED
    BY <1>1, <2>1 DEF Enqueue
<1>2. ASSUME NEW c \in Clients, AskShared(c) PROVE GateInv'
  BY <1>1, <1>2 DEF AskShared
<1>3. ASSUME NEW c \in Clients, AskExclusive(c) PROVE GateInv'
  BY <1>1, <1>3 DEF AskExclusive
<1>4. ASSUME Grant PROVE GateInv'
  <2> DEFINE c == Head(waiting).who
  <2>1. c \in Clients /\ Tail(waiting) \in Seq(Requests)
    BY <1>4, HeadOfQueue DEF Grant
  <2>2. CASE readers' = [readers EXCEPT ![c] = @ + 1] /\ writer' = writer
    BY <1>4, <2>1, <2>2 DEF Grant
  <2>3. CASE writer' = c /\ readers' = readers /\ \A d \in Clients : readers[d] = 0
    BY <1>4, <2>1, <2>3 DEF Grant
  <2> QED
    BY <1>4, <2>2, <2>3 DEF Grant
<1>5. ASSUME NEW c \in Clients, EnterShared(c) PROVE GateInv'
  BY <1>5 DEF EnterShared
<1>6. ASSUME NEW c \in Clients, EnterExclusive(c) PROVE GateInv'
  <2>1. \A d \in Clients : readers[d] = 0
    BY <1>6 DEF EnterExclusive
  <2> QED
    BY <1>6, <2>1 DEF EnterExclusive
<1>7. ASSUME NEW c \in Clients, LeaveShared(c) PROVE GateInv'
  BY <1>7 DEF LeaveShared
<1>8. ASSUME NEW c \in Clients, LeaveExclusive(c) PROVE GateInv'
  BY <1>8 DEF LeaveExclusive
<1>9. CASE UNCHANGED gateVars
  BY <1>9 DEF gateVars
<1> QED
  BY <1>2, <1>3, <1>4, <1>5, <1>6, <1>7, <1>8, <1>9 DEF GateNext

\* A transition that holds the gate is alone (module comment of lifecycle.rs).
THEOREM GateExclusion == GateSpec => []Exclusion
<1>1. GateInv => Exclusion
  BY DEF GateInv
<1> QED
  BY <1>1, GateInvInit, GateInvNext, PTL DEF GateSpec

\* No transition crosses an admitted operation (shared, captured_epoch).
THEOREM GateEpochStable == GateSpec => []EpochStable
<1>1. GateInv => EpochStable
  BY DEF GateInv
<1> QED
  BY <1>1, GateInvInit, GateInvNext, PTL DEF GateSpec

-----------------------------------------------------------------------------
(* The bounds of the gate: guards per client and transitions asked for.    *)

\* The queued requests that will move the epoch.
Bumps(w) == {i \in DOMAIN w : w[i].mode = "exclusive"}

\* Queuing a request adds at most itself to them.
LEMMA BumpsOfAppend ==
  ASSUME NEW w \in Seq(Requests), NEW r \in Requests, IsFiniteSet(Bumps(w))
  PROVE  /\ IsFiniteSet(Bumps(Append(w, r)))
         /\ Cardinality(Bumps(Append(w, r)))
              = Cardinality(Bumps(w)) + (IF r.mode = "exclusive" THEN 1 ELSE 0)
<1>1. /\ DOMAIN Append(w, r) = DOMAIN w \cup {Len(w) + 1}
      /\ Len(w) + 1 \notin DOMAIN w
      /\ \A i \in DOMAIN w : Append(w, r)[i] = w[i]
      /\ Append(w, r)[Len(w) + 1] = r
  BY AppendProperties
<1>2. Cardinality(Bumps(w)) \in Nat
  BY FS_CardinalityType
<1>3. CASE r.mode = "exclusive"
  <2>1. Bumps(Append(w, r)) = Bumps(w) \cup {Len(w) + 1} /\ Len(w) + 1 \notin Bumps(w)
    BY <1>1, <1>3 DEF Bumps
  <2> QED
    BY <1>3, <2>1, FS_AddElement
<1>4. CASE r.mode # "exclusive"
  <2>1. Bumps(Append(w, r)) = Bumps(w)
    BY <1>1, <1>4 DEF Bumps
  <2> QED
    BY <1>2, <1>4, <2>1
<1> QED
  BY <1>3, <1>4

\* Taking the head off the queue takes at most itself from them.
LEMMA BumpsOfTail ==
  ASSUME NEW w \in Seq(Requests), w # <<>>, IsFiniteSet(Bumps(w))
  PROVE  /\ IsFiniteSet(Bumps(Tail(w)))
         /\ Cardinality(Bumps(w))
              = Cardinality(Bumps(Tail(w))) + (IF Head(w).mode = "exclusive" THEN 1 ELSE 0)
<1> DEFINE rest == Bumps(w) \ {1}
           shift == [i \in rest |-> i - 1]
<1>1. /\ Len(w) \in Nat \ {0} /\ DOMAIN w = 1 .. Len(w)
      /\ DOMAIN Tail(w) = 1 .. Len(w) - 1
      /\ \A i \in 1 .. Len(w) - 1 : Tail(w)[i] = w[i + 1]
      /\ Head(w) = w[1]
  BY HeadTailProperties, LenProperties, EmptySeq
<1>2. /\ IsFiniteSet(rest) /\ Cardinality(rest) \in Nat
      /\ Cardinality(Bumps(w)) = Cardinality(rest) + (IF Head(w).mode = "exclusive" THEN 1 ELSE 0)
  <2>1. 1 \in Bumps(w) <=> Head(w).mode = "exclusive"
    BY <1>1 DEF Bumps
  <2>2. Cardinality(Bumps(w)) \in Nat
    BY FS_CardinalityType
  <2>3. /\ IsFiniteSet(rest)
        /\ Cardinality(rest) = IF 1 \in Bumps(w) THEN Cardinality(Bumps(w)) - 1
                               ELSE Cardinality(Bumps(w))
    BY FS_RemoveElement
  <2>4. Cardinality(rest) \in Nat
    BY <2>3, FS_CardinalityType
  <2> HIDE DEF rest
  <2> QED
    BY <2>1, <2>2, <2>3, <2>4
<1>3. shift \in Surjection(rest, Bumps(Tail(w)))
  <2>1. \A i \in rest : shift[i] \in Bumps(Tail(w))
    BY <1>1 DEF Bumps
  <2>2. \A j \in Bumps(Tail(w)) : j + 1 \in rest /\ shift[j + 1] = j
    BY <1>1 DEF Bumps
  <2> QED
    BY <2>1, <2>2 DEF Surjection
<1>4. shift \in Injection(rest, Bumps(Tail(w)))
  <2>1. \A i \in rest : i \in Int
    BY <1>1 DEF Bumps
  <2> QED
    BY <1>3, <2>1 DEF Surjection, Injection, IsInjective
<1>5. /\ IsFiniteSet(Bumps(Tail(w)))
      /\ Cardinality(Bumps(Tail(w))) = Cardinality(rest)
  <2> HIDE DEF shift, rest
  <2> QED
    BY <1>2, <1>3, <1>4, FS_Surjection
<1> QED
  BY <1>2, <1>5

\* A client that waits for a shared lease has room for one more, because it
\* waits at most once; and the epoch has room for everything that is queued.
GateRoom ==
  /\ \A i \in DOMAIN waiting : waiting[i].mode = "shared" => readers[waiting[i].who] < MaxNested
  /\ \A i, j \in DOMAIN waiting : waiting[i].who = waiting[j].who => i = j
  /\ IsFiniteSet(Bumps(waiting)) /\ epoch + PendingBumps \in 0 .. MaxEpoch

GateTypeInv == GateTypeOK /\ GateRoom

\* The bounds hold of a gate nobody has used (RunLifecycleCoordinator::default).
LEMMA GateTypeInit == GateInit => GateTypeInv
<1> SUFFICES ASSUME GateInit PROVE GateTypeInv
  OBVIOUS
<1>1. Bumps(waiting) = {}
  BY DEF GateInit, Bumps
<1>2. PendingBumps = 0
  BY <1>1, FS_EmptySet DEF PendingBumps, Bumps, GateInit
<1> QED
  BY <1>1, <1>2, FS_EmptySet, GateAssumption
     DEF GateInit, GateTypeInv, GateTypeOK, GateRoom, Requests

\* What PendingBumps counts, in a gate that has its types.
LEMMA PendingIsNat ==
  ASSUME GateTypeInv
  PROVE  /\ Cardinality(Bumps(waiting)) \in Nat /\ epoch \in Nat
         /\ PendingBumps = Cardinality(Bumps(waiting)) + (IF writer \in entering THEN 1 ELSE 0)
  BY FS_CardinalityType DEF GateTypeInv, GateRoom, GateTypeOK, PendingBumps, Bumps

\* Queuing a request keeps the bounds, if there is room for it (shared and
\* exclusive before they wait).
LEMMA EnqueueKeepsRoom ==
  ASSUME GateTypeInv, NEW c \in Clients, NEW m \in {"shared", "exclusive"}, Enqueue(c, m),
         m = "shared" => readers[c] < MaxNested,
         m = "exclusive" => epoch + PendingBumps < MaxEpoch
  PROVE  GateTypeInv'
<1> DEFINE r == [who |-> c, mode |-> m]
<1>1. r \in Requests /\ waiting \in Seq(Requests) /\ waiting' = Append(waiting, r)
  BY DEF Requests, Enqueue, GateTypeInv, GateTypeOK
<1>2. /\ waiting' \in Seq(Requests)
      /\ DOMAIN waiting = 1 .. Len(waiting) /\ DOMAIN waiting' = 1 .. Len(waiting) + 1
      /\ Len(waiting) \in Nat
      /\ \A i \in 1 .. Len(waiting) : waiting'[i] = waiting[i]
      /\ waiting'[Len(waiting) + 1] = r
  BY <1>1, AppendProperties, LenProperties
<1>3. \A i \in DOMAIN waiting : waiting[i].who # c
  BY DEF Enqueue, Waits
<1>4. UNCHANGED <<readers, writer, entering, epoch, seen>>
  BY DEF Enqueue
<1>5. /\ IsFiniteSet(Bumps(waiting'))
      /\ Cardinality(Bumps(waiting'))
           = Cardinality(Bumps(waiting)) + (IF m = "exclusive" THEN 1 ELSE 0)
  BY <1>1, BumpsOfAppend DEF GateTypeInv, GateRoom
<1>6. PendingBumps' = Cardinality(Bumps(waiting')) + (IF writer \in entering THEN 1 ELSE 0)
  BY <1>4 DEF PendingBumps, Bumps
<1>7. epoch + PendingBumps' \in 0 .. MaxEpoch
  <2> HIDE DEF r
  <2>1. epoch + PendingBumps \in 0 .. MaxEpoch
    BY DEF GateTypeInv, GateRoom
  <2> QED
    BY <1>5, <1>6, <2>1, PendingIsNat, GateAssumption
<1>8. /\ \A i \in DOMAIN waiting' :
            waiting'[i].mode = "shared" => readers[waiting'[i].who] < MaxNested
      /\ \A i, j \in DOMAIN waiting' : waiting'[i].who = waiting'[j].who => i = j
  <2>1. \A i \in DOMAIN waiting' : i \in DOMAIN waiting \/ i = Len(waiting) + 1
    BY <1>2
  <2> QED
    BY <1>2, <1>3, <2>1 DEF GateTypeInv, GateRoom
<1> QED
  BY <1>2, <1>4, <1>5, <1>7, <1>8 DEF GateTypeInv, GateTypeOK, GateRoom, Bumps

\* A grant moves a request from the queue to the lock (the semaphore).
LEMMA GrantKeepsRoom == GateTypeInv /\ Grant => GateTypeInv'
<1> SUFFICES ASSUME GateTypeInv, Grant PROVE GateTypeInv'
  OBVIOUS
<1> DEFINE c == Head(waiting).who
<1>1. waiting \in Seq(Requests) /\ waiting # <<>> /\ waiting' = Tail(waiting)
  BY DEF Grant, GateTypeInv, GateTypeOK
<1>2. /\ c \in Clients /\ waiting' \in Seq(Requests)
      /\ Len(waiting) \in Nat \ {0} /\ DOMAIN waiting = 1 .. Len(waiting)
      /\ DOMAIN waiting' = 1 .. Len(waiting) - 1
      /\ \A i \in 1 .. Len(waiting) - 1 : waiting'[i] = waiting[i + 1]
      /\ Head(waiting) = waiting[1]
  BY <1>1, HeadOfQueue, HeadTailProperties, LenProperties, EmptySeq
<1>3. \A i \in DOMAIN waiting' : waiting'[i].who # c /\ i + 1 \in DOMAIN waiting
  BY <1>2 DEF GateTypeInv, GateRoom
<1>4. /\ IsFiniteSet(Bumps(waiting'))
      /\ Cardinality(Bumps(waiting))
           = Cardinality(Bumps(waiting')) + (IF Head(waiting).mode = "exclusive" THEN 1 ELSE 0)
  BY <1>1, BumpsOfTail DEF GateTypeInv, GateRoom
<1>5. Cardinality(Bumps(waiting')) \in Nat
  BY <1>4, FS_CardinalityType
<1>6. /\ entering' = entering \cup {c} /\ UNCHANGED <<epoch, seen>>
      /\ writer \notin entering
      /\ \/ /\ Head(waiting).mode = "shared" /\ writer' = NoClient
            /\ readers' = [readers EXCEPT ![c] = @ + 1]
         \/ /\ Head(waiting).mode = "exclusive" /\ writer' = c /\ readers' = readers
  BY GateAssumption DEF Grant, GateTypeInv, GateTypeOK
<1>7. PendingBumps' = Cardinality(Bumps(waiting')) + (IF writer' \in entering' THEN 1 ELSE 0)
  BY DEF PendingBumps, Bumps
<1>8. PendingBumps' = PendingBumps
  <2>1. writer' \in entering' <=> Head(waiting).mode = "exclusive"
    BY <1>2, <1>6, GateAssumption DEF GateTypeInv, GateTypeOK
  <2> HIDE DEF c
  <2> QED
    BY <1>4, <1>5, <1>6, <1>7, <2>1, PendingIsNat
<1>9. readers' \in [Clients -> 0 .. MaxNested]
  <2>1. Head(waiting).mode = "shared" => readers[c] < MaxNested
    BY <1>2 DEF GateTypeInv, GateRoom
  <2>2. readers \in [Clients -> 0 .. MaxNested] /\ c \in Clients
    BY <1>2 DEF GateTypeInv, GateTypeOK
  <2> HIDE DEF c
  <2>3. readers[c] \in 0 .. MaxNested
    BY <2>2
  <2> QED
    BY <1>6, <2>1, <2>2, <2>3, GateAssumption
<1>10. /\ \A i \in DOMAIN waiting' :
             waiting'[i].mode = "shared" => readers'[waiting'[i].who] < MaxNested
       /\ \A i, j \in DOMAIN waiting' : waiting'[i].who = waiting'[j].who => i = j
  <2>1. ASSUME NEW i \in DOMAIN waiting', waiting'[i].mode = "shared"
        PROVE  readers'[waiting'[i].who] < MaxNested
    <3>1. /\ waiting'[i] = waiting[i + 1] /\ i + 1 \in DOMAIN waiting
          /\ waiting'[i].who # c
      BY <1>2, <1>3
    <3>2. waiting'[i] \in Requests
      BY <1>2
    <3>3. readers'[waiting'[i].who] = readers[waiting'[i].who]
      BY <1>6, <3>1, <3>2 DEF GateTypeInv, GateTypeOK, Requests
    <3> QED
      BY <2>1, <3>1, <3>3 DEF GateTypeInv, GateRoom
  <2>2. ASSUME NEW i \in DOMAIN waiting', NEW j \in DOMAIN waiting',
               waiting'[i].who = waiting'[j].who
        PROVE  i = j
    <3>1. i + 1 = j + 1
      BY <1>2, <1>3, <2>2 DEF GateTypeInv, GateRoom
    <3> QED
      BY <1>2, <3>1
  <2> QED
    BY <2>1, <2>2
<1> QED
  BY <1>2, <1>4, <1>6, <1>8, <1>9, <1>10 DEF GateTypeInv, GateTypeOK, GateRoom, Bumps

\* Every step of the gate keeps the bounds.
LEMMA GateTypeNext == GateInv /\ GateTypeInv /\ [GateNext]_gateVars => GateTypeInv'
<1> SUFFICES ASSUME GateInv, GateTypeInv, [GateNext]_gateVars PROVE GateTypeInv'
  OBVIOUS
<1>1. ASSUME NEW c \in Clients, AskShared(c) \/ AskExclusive(c) PROVE GateTypeInv'
  BY <1>1, EnqueueKeepsRoom DEF AskShared, AskExclusive
<1>2. ASSUME UNCHANGED waiting, Bumps(waiting)' = Bumps(waiting), GateTypeOK',
             epoch' + (IF writer' \in entering' THEN 1 ELSE 0)
               = epoch + (IF writer \in entering THEN 1 ELSE 0),
             \A c \in Clients : readers'[c] <= readers[c]
      PROVE  GateTypeInv'
  <2>1. PendingBumps' = Cardinality(Bumps(waiting)) + (IF writer' \in entering' THEN 1 ELSE 0)
    BY <1>2 DEF PendingBumps, Bumps
  <2>2. epoch' + PendingBumps' = epoch + PendingBumps
    <3>1. epoch' \in Nat
      BY <1>2, GateAssumption DEF GateTypeOK
    <3> QED
      BY <1>2, <2>1, <3>1, PendingIsNat
  <2>3. ASSUME NEW i \in DOMAIN waiting
        PROVE  waiting[i].who \in Clients
    <3>1. waiting \in Seq(Requests)
      BY DEF GateTypeInv, GateTypeOK
    <3>2. waiting[i] \in Requests
      BY <3>1
    <3> QED
      BY <3>2 DEF Requests
  <2>4. ASSUME NEW c \in Clients, readers[c] < MaxNested PROVE readers'[c] < MaxNested
    BY <1>2, <2>4, GateAssumption DEF GateTypeInv, GateTypeOK
  <2> QED
    BY <1>2, <2>2, <2>3, <2>4 DEF GateTypeInv, GateRoom
<1>3. ASSUME NEW c \in Clients, EnterShared(c) PROVE GateTypeInv'
  <2>1. GateTypeOK' /\ \A d \in Clients : readers'[d] <= readers[d]
    BY <1>3, GateAssumption DEF EnterShared, GateTypeInv, GateTypeOK
  <2>2. writer # c
    BY <1>3, GateAssumption DEF EnterShared, GateInv, GateTypes, Exclusion
  <2>3. writer \in entering <=> writer' \in entering'
    BY <1>3, <2>2 DEF EnterShared
  <2> QED
    BY <1>2, <1>3, <2>1, <2>3 DEF EnterShared, Bumps
<1>4. ASSUME NEW c \in Clients, EnterExclusive(c) PROVE GateTypeInv'
  <2>1. epoch < MaxEpoch
    BY <1>4, PendingIsNat, GateAssumption
       DEF EnterExclusive, GateTypeInv, GateTypeOK, GateRoom
  <2>2. GateTypeOK' /\ \A d \in Clients : readers'[d] <= readers[d]
    BY <1>4, <2>1, GateAssumption DEF EnterExclusive, GateTypeInv, GateTypeOK
  <2> QED
    BY <1>2, <1>4, <2>2 DEF EnterExclusive, Bumps, GateTypeInv, GateTypeOK
<1>5. ASSUME NEW c \in Clients, LeaveShared(c) \/ LeaveExclusive(c) PROVE GateTypeInv'
  <2>1. GateTypeOK' /\ \A d \in Clients : readers'[d] <= readers[d]
    <3>1. GateTypeOK' /\ \A d \in Clients \ {c} : readers'[d] = readers[d]
      BY <1>5, GateAssumption DEF LeaveShared, LeaveExclusive, GateTypeInv, GateTypeOK
    <3>2. readers'[c] <= readers[c]
      BY <1>5, <3>1, GateAssumption DEF LeaveShared, LeaveExclusive, GateTypeInv, GateTypeOK
    <3>3. \A d \in Clients : readers[d] \in Nat
      BY GateAssumption DEF GateTypeInv, GateTypeOK
    <3> QED
      BY <3>1, <3>2, <3>3
  <2>2. entering' = entering /\ NoClient \notin entering
    BY <1>5, GateAssumption DEF LeaveShared, LeaveExclusive, GateTypeInv, GateTypeOK
  <2>3. writer' = writer \/ (writer \notin entering /\ writer' = NoClient)
    BY <1>5 DEF LeaveShared, LeaveExclusive
  <2>4. writer \in entering <=> writer' \in entering'
    BY <2>2, <2>3
  <2> QED
    BY <1>2, <1>5, <2>1, <2>4 DEF LeaveShared, LeaveExclusive, Bumps
<1>6. CASE UNCHANGED gateVars
  BY <1>6 DEF gateVars, GateTypeInv, GateTypeOK, GateRoom, PendingBumps, Bumps
<1> QED
  BY <1>1, <1>3, <1>4, <1>5, <1>6, GrantKeepsRoom DEF GateNext

\* Guards stay within what one call may hold, and the epoch within the
\* transitions that were asked for, whatever queues (RunLifecycleCoordinator).
THEOREM GateTypesCorrect == GateSpec => []GateTypeOK
<1>1. GateTypeInv => GateTypeOK
  BY DEF GateTypeInv
<1> QED
  BY <1>1, GateInvInit, GateInvNext, GateTypeInit, GateTypeNext, PTL DEF GateSpec

-----------------------------------------------------------------------------
(* The gate implements Admission.                                          *)

\* What the mapping shows of the era: a transition counts from its grant.
EraShown == epoch + (IF writer \in entering THEN 1 ELSE 0)

\* What it shows of a client's stamp.
StampShown ==
  [c \in Clients |->
     IF readers[c] = 0 /\ writer # c THEN 0
     ELSE IF c \in entering THEN epoch ELSE seen[c]]

\* The stamps shown are a function on the clients, before and after a step.
LEMMA StampsAreFunctions ==
  /\ StampShown = [c \in Clients |-> StampShown[c]]
  /\ StampShown' = [c \in Clients |-> StampShown'[c]]
  BY DEF StampShown

\* A gate nobody has used shows an admission nobody has used
\* (RunLifecycleCoordinator::default).
LEMMA GateInitAdmits == GateInit => Admissions!Init
<1> SUFFICES ASSUME GateInit PROVE Admissions!Init
  OBVIOUS
<1>1. NoClient \notin entering
  BY DEF GateInit
<1>2. EraShown = 0
  BY <1>1 DEF GateInit, EraShown
<1>3. StampShown = [c \in Clients |-> 0]
  BY GateAssumption DEF GateInit, StampShown
<1> QED
  BY <1>2, <1>3 DEF Admissions!Init, GateInit, EraShown, StampShown

\* Granting a shared lease admits the client, granting the exclusive one
\* starts the transition; every other step of the gate but a leave shows
\* nothing (shared, exclusive, Drop).
LEMMA GateStepAdmits ==
  GateInv /\ [GateNext]_gateVars => [Admissions!Next]_(Admissions!admissionVars)
<1> SUFFICES ASSUME GateInv, [GateNext]_gateVars
             PROVE  \/ Admissions!Next
                    \/ UNCHANGED <<readers, writer, EraShown, StampShown>>
  BY DEF Admissions!admissionVars, EraShown, StampShown
<1> USE GateAssumption DEF GateInv, GateTypes, Exclusion, EpochStable
<1>1. ASSUME NEW c \in Clients, NEW m \in {"shared", "exclusive"}, Enqueue(c, m)
      PROVE  UNCHANGED <<readers, writer, EraShown, StampShown>>
  BY <1>1 DEF Enqueue, EraShown, StampShown
<1>2. ASSUME NEW c \in Clients, AskShared(c)
      PROVE  UNCHANGED <<readers, writer, EraShown, StampShown>>
  BY <1>1, <1>2 DEF AskShared
<1>3. ASSUME NEW c \in Clients, AskExclusive(c)
      PROVE  UNCHANGED <<readers, writer, EraShown, StampShown>>
  BY <1>1, <1>3 DEF AskExclusive
<1>4. ASSUME Grant PROVE Admissions!Next
  <2>1. PICK c \in Clients :
          /\ c = Head(waiting).who
          /\ writer = NoClient
          /\ entering' = entering \cup {c}
          /\ UNCHANGED <<epoch, seen>>
    BY <1>4, HeadOfQueue DEF Grant
  <2>2. EraShown = epoch
    BY <2>1 DEF EraShown
  <2>3. CASE readers' = [readers EXCEPT ![c] = @ + 1] /\ writer' = writer
    <3>1. EraShown' = EraShown
      BY <2>1, <2>2, <2>3 DEF EraShown
    <3>2. StampShown' = [StampShown EXCEPT ![c] = EraShown]
      <4>1. \A d \in Clients \ {c} : StampShown'[d] = StampShown[d]
        BY <2>1, <2>3 DEF StampShown
      <4>2. StampShown'[c] = epoch
        BY <2>1, <2>3 DEF StampShown
      <4> QED
        BY <4>1, <4>2, <2>2, StampsAreFunctions
    <3>3. Admissions!Admit(c)
      BY <2>1, <2>3, <3>1, <3>2 DEF Admissions!Admit, EraShown, StampShown
    <3> QED
      BY <2>1, <3>3 DEF Admissions!Next
  <2>4. CASE writer' = c /\ readers' = readers /\ \A d \in Clients : readers[d] = 0
    <3>1. EraShown' = EraShown + 1
      BY <2>1, <2>2, <2>4 DEF EraShown
    <3>2. StampShown' = [StampShown EXCEPT ![c] = EraShown]
      <4>1. \A d \in Clients \ {c} : StampShown'[d] = StampShown[d]
        BY <2>1, <2>4 DEF StampShown
      <4>2. StampShown'[c] = epoch
        BY <2>1, <2>4 DEF StampShown
      <4> QED
        BY <4>1, <4>2, <2>2, StampsAreFunctions
    <3>3. Admissions!Transit(c)
      BY <2>1, <2>4, <3>1, <3>2 DEF Admissions!Transit, EraShown, StampShown
    <3> QED
      BY <2>1, <3>3 DEF Admissions!Next
  <2> QED
    BY <1>4, <2>1, <2>3, <2>4 DEF Grant
<1>5. ASSUME NEW c \in Clients, EnterShared(c)
      PROVE  UNCHANGED <<readers, writer, EraShown, StampShown>>
  <2>1. writer = NoClient
    BY <1>5 DEF EnterShared
  <2> QED
    BY <1>5, <2>1 DEF EnterShared, EraShown, StampShown
<1>6. ASSUME NEW c \in Clients, EnterExclusive(c)
      PROVE  UNCHANGED <<readers, writer, EraShown, StampShown>>
  <2>1. \A d \in Clients : readers[d] = 0
    BY <1>6 DEF EnterExclusive
  <2> QED
    BY <1>6, <2>1 DEF EnterExclusive, EraShown, StampShown
<1>7. ASSUME NEW c \in Clients, LeaveShared(c) PROVE Admissions!Next
  <2>1. writer = NoClient /\ c \notin entering /\ readers[c] > 0
    BY <1>7 DEF LeaveShared
  <2>2. EraShown' = EraShown
    BY <1>7, <2>1 DEF LeaveShared, EraShown
  <2>3. StampShown' = [StampShown EXCEPT ![c] = IF readers[c] = 1 THEN 0 ELSE @]
    <3>1. \A d \in Clients \ {c} : StampShown'[d] = StampShown[d]
      BY <1>7, <2>1 DEF LeaveShared, StampShown
    <3>2. StampShown'[c] = IF readers[c] = 1 THEN 0 ELSE StampShown[c]
      BY <1>7, <2>1 DEF LeaveShared, StampShown
    <3> QED
      BY <3>1, <3>2, StampsAreFunctions
  <2>4. Admissions!Retire(c)
    BY <1>7, <2>1, <2>2, <2>3 DEF LeaveShared, Admissions!Retire, EraShown, StampShown
  <2> QED
    BY <2>4 DEF Admissions!Next
<1>8. ASSUME NEW c \in Clients, LeaveExclusive(c) PROVE Admissions!Next
  <2>1. /\ writer = c /\ c \notin entering /\ writer' = NoClient
        /\ UNCHANGED <<readers, entering, epoch, seen>>
        /\ \A d \in Clients : readers[d] = 0
    BY <1>8 DEF LeaveExclusive
  <2>2. EraShown' = EraShown
    BY <2>1 DEF EraShown
  <2>3. StampShown' = [StampShown EXCEPT ![writer] = 0]
    BY <2>1 DEF StampShown
  <2>4. Admissions!Settle
    BY <2>1, <2>2, <2>3 DEF Admissions!Settle, EraShown, StampShown
  <2> QED
    BY <2>4 DEF Admissions!Next
<1>9. CASE UNCHANGED gateVars
  BY <1>9 DEF gateVars, EraShown, StampShown
<1> QED
  BY <1>2, <1>3, <1>4, <1>5, <1>6, <1>7, <1>8, <1>9 DEF GateNext

\* To its callers the gate is atomic, whoever queues and whenever the granted
\* tasks run (module comment of lifecycle.rs).
THEOREM GateImplementsAdmission == GateSpec => AdmissionAtomic
<1> QED
  BY GateInvInit, GateInvNext, GateInitAdmits, GateStepAdmits, PTL
     DEF GateSpec, AdmissionAtomic, Admissions!Spec

-----------------------------------------------------------------------------
(* The server over its gate.                                               *)

\* What a call may do with the gate: ask, enter and leave for itself.
GateMove(c) ==
  \/ AskShared(c) \/ AskExclusive(c)
  \/ EnterShared(c) \/ EnterExclusive(c)
  \/ LeaveShared(c) \/ LeaveExclusive(c)
  \/ UNCHANGED gateVars

\* The steps of one call, and the calls that begin, are its own steps of the
\* gate or leave it alone.
LEMMA CallMovesGate ==
  ASSUME NEW c \in Clients, CallBegins(c) \/ CallStep(c)
  PROVE  GateMove(c)
<1> USE DEF GateMove, ReturnShared, ReturnExclusive
<1>1. CASE CallBegins(c)
  BY <1>1 DEF CallBegins, DriveBegin, StartBegin, StopBegin, ScenarioBegin, VerifyBegin,
              TransitionBegin
<1>2. CASE Admit(c) \/ AdmitRefused(c) \/ Return(c) \/ JobDrive(c) \/ Commit(c)
           \/ JobLease(c) \/ JobVerify(c) \/ VerifyRecord(c)
  BY <1>2 DEF Admit, AdmitRefused, Return, JobDrive, Commit, JobLease, JobVerify, VerifyRecord
<1>3. CASE StartLaunch(c) \/ StartBind(c) \/ StopLeaseCheck(c) \/ StopOwnerCheck(c)
           \/ StopKill(c) \/ RestartKill(c) \/ RestartReadback(c)
  BY <1>3 DEF StartLaunch, StartBind, StopLeaseCheck, StopOwnerCheck, StopKill, RestartKill,
              RestartReadback
<1>4. CASE ScenarioLaunch(c) \/ ScenarioBind(c) \/ ScenarioReplay(c) \/ ScenarioCommit(c)
           \/ ScenarioUnnest(c) \/ ScenarioCleanup(c)
  BY <1>4 DEF ScenarioLaunch, ScenarioBind, ScenarioReplay, ScenarioCommit, ScenarioUnnest,
              ScenarioCleanup
<1>5. CASE NewCheck(c) \/ NewSwap(c) \/ NewFlush(c) \/ CloseEnter(c) \/ CloseSeal(c)
           \/ CloseLeaseCheck(c) \/ CloseKill(c) \/ Leave(c)
  BY <1>5 DEF NewCheck, NewSwap, NewFlush, CloseEnter, CloseSeal, CloseLeaseCheck, CloseKill,
              Leave
<1>6. CASE ResumeRestore(c) \/ ResumePreflight(c) \/ ResumeFlush(c) \/ ResumeReopen(c)
           \/ ResumeSwap(c) \/ ResumeDetach(c)
  BY <1>6 DEF ResumeRestore, ResumePreflight, ResumeFlush, ResumeReopen, ResumeSwap,
              ResumeDetach
<1> QED
  BY <1>1, <1>2, <1>3, <1>4, <1>5, <1>6 DEF CallStep

\* A call's own steps of the gate leave the leases of the others alone.
LEMMA OthersKeepLeases ==
  ASSUME NEW c \in Clients, GateMove(c)
  PROVE  \A d \in Clients \ {c} : readers'[d] = readers[d] /\ (writer' = d <=> writer = d)
<1>1. CASE AskShared(c) \/ AskExclusive(c) \/ EnterShared(c) \/ EnterExclusive(c)
  BY <1>1 DEF AskShared, AskExclusive, Enqueue, EnterShared, EnterExclusive
<1>2. CASE LeaveShared(c)
  BY <1>2 DEF LeaveShared
<1>3. CASE LeaveExclusive(c)
  BY <1>3, GateAssumption DEF LeaveExclusive
<1>4. CASE UNCHANGED gateVars
  BY <1>4 DEF gateVars
<1> QED
  BY <1>1, <1>2, <1>3, <1>4 DEF GateMove

\* Every step of the server is a step of the gate or leaves it alone.
LEMMA StepRefinesGate == [Next]_vars => [GateNext]_gateVars
<1> SUFFICES ASSUME [Next]_vars PROVE [GateNext]_gateVars
  OBVIOUS
<1>1. CASE \E c \in Clients : CallBegins(c) \/ CallStep(c)
  BY <1>1, CallMovesGate DEF GateMove, GateNext
<1>2. CASE GateGrants
  BY <1>2 DEF GateGrants, GateNext
<1>3. CASE \E s \in Sessions : LeaseExpires(s)
  BY <1>3 DEF LeaseExpires
<1>4. CASE Persist
  BY <1>4 DEF Persist
<1>5. CASE UNCHANGED vars
  BY <1>5 DEF vars
<1> QED
  BY <1>1, <1>2, <1>3, <1>4, <1>5 DEF Next

\* The server implements the gate: its handlers ask, enter and leave in the
\* gate's own steps and in no other way (lifecycle.rs and its callers).
THEOREM ServerRefinesGate == Safety => GateSpec
<1>1. Init => GateInit
  BY DEF Init
<1> QED
  BY <1>1, StepRefinesGate, PTL DEF Safety, GateSpec

\* So no operation of the server holds a lease while a transition runs.
THEOREM ServerExclusion == Safety => []Exclusion
  BY ServerRefinesGate, GateExclusion, PTL

-----------------------------------------------------------------------------
(* What an admitted call was authorised in does not change under it.       *)

Whole(x) == {"id", "closed"} \subseteq DOMAIN x

Driving(c) == pc[c] \in {"job", "commit"} /\ op[c] \in {"act", "lease", "scenario"}

\* The steps of a transition up to and with the one that replaces the run.
Changing(c) == pc[c] \in {"swap", "flush", "seal", "preflight", "reopen"}

\* What a call may rely on at the step it has reached.
Standing(c) ==
  /\ Driving(c) =>
       /\ readers[c] > 0 /\ sess[c] \in Sessions
       /\ run.id = ticket[c] /\ ~run.closed /\ owners[sess[c]] \in {None, run.id}
  /\ Changing(c) => writer = c
  /\ Changing(c) /\ (op[c] \in Resumes \/ pc[c] = "flush") => Whole(saved[c])
  /\ pc[c] = "idle" => ticket[c] = None
  /\ pc[c] = "queue" /\ op[c] \in {"act", "lease"} => ticket[c] = None
  /\ pc[c] \in {"queue", "bind", "nested"} /\ op[c] \in {"act", "lease", "scenario"}
       => sess[c] \in Sessions

\* AdmittedStable is not inductive alone: a driving call is safe because it
\* holds a shared lease and whoever would change the run holds the other one.
AdmissionInv ==
  /\ DOMAIN pc = Clients /\ DOMAIN op = Clients /\ DOMAIN sess = Clients
  /\ DOMAIN ticket = Clients /\ DOMAIN saved = Clients
  /\ DOMAIN owners = Sessions /\ Whole(run)
  /\ \A c \in Clients : Standing(c)

\* The domains do not change, and only client c moves.
Alone(c) ==
  /\ DOMAIN pc' = DOMAIN pc /\ DOMAIN op' = DOMAIN op /\ DOMAIN sess' = DOMAIN sess
  /\ DOMAIN ticket' = DOMAIN ticket /\ DOMAIN saved' = DOMAIN saved
  /\ DOMAIN owners' = DOMAIN owners
  /\ \A d \in Clients \ {c} :
       /\ pc'[d] = pc[d] /\ op'[d] = op[d] /\ sess'[d] = sess[d]
       /\ ticket'[d] = ticket[d] /\ saved'[d] = saved[d] /\ readers'[d] = readers[d]
  /\ \A s \in Sessions : owners'[s] \in {owners[s], None, run.id}

\* The run is not replaced, opened or closed.
SameRun == run'.id = run.id /\ run'.closed = run.closed /\ Whole(run')

\* A step of one call that leaves the run alone, or is made by the holder of
\* the exclusive lease, does not disturb the others.
LEMMA OthersStand ==
  ASSUME GateInv, AdmissionInv, NEW c \in Clients, Alone(c),
         SameRun \/ (writer = c /\ Whole(run')),
         writer' = writer \/ writer = c, Standing(c)'
  PROVE  AdmissionInv'
<1>1. \A d \in Clients \ {c} : writer = d => writer' = d
  OBVIOUS
<1>2. ASSUME NEW d \in Clients \ {c} PROVE Standing(d)'
  <2>1. Standing(d)
    BY DEF AdmissionInv
  <2>2. Driving(d)' => Driving(d)
    BY DEF Alone, Driving
  <2>3. CASE SameRun
    BY <1>1, <2>1, <2>2, <2>3 DEF Standing, Alone, SameRun, Driving, Changing
  <2>4. CASE writer = c
    <3>1. readers[d] = 0
      BY <2>4, GateAssumption DEF GateInv, Exclusion
    <3>2. ~Driving(d)
      BY <2>1, <3>1 DEF Standing
    <3> QED
      BY <1>1, <2>1, <2>2, <3>2 DEF Standing, Alone, Driving, Changing
  <2> QED
    BY <2>3, <2>4
<1>3. Whole(run')
  BY DEF SameRun
<1> QED
  BY <1>2, <1>3 DEF AdmissionInv, Alone, Whole

\* Where a call stands after a step that takes it out of every guarded phase.
Clear == {"return", "leave", "leaseCheck", "ownerCheck", "kill", "record", "unnest", "detach"}

\* A call in one of them stands.
LEMMA ClearStands ==
  ASSUME NEW c \in Clients, pc'[c] \in Clear PROVE Standing(c)'
  BY DEF Standing, Driving, Changing, Clear

\* A call that is done stands.
LEMMA IdleStands ==
  ASSUME NEW c \in Clients, AdmissionInv, Done(c) PROVE Standing(c)'
<1>1. pc'[c] = "idle" /\ ticket'[c] = None
  BY DEF Done, AdmissionInv
<1> QED
  BY <1>1 DEF Standing, Driving, Changing

\* A call that begins stands outside every guarded phase.
LEMMA BeginsAdmission ==
  ASSUME GateInv, AdmissionInv, NEW c \in Clients, CallBegins(c)
  PROVE  AdmissionInv'
<1> USE DEF runVars, poolVars, callVars, gateVars, Goto, Begin, AskShared, AskExclusive, Enqueue
<1>1. ASSUME NEW s \in Sessions,
             DriveBegin(c, s) \/ StartBegin(c, s) \/ ScenarioBegin(c, s)
      PROVE  AdmissionInv'
  <2>1. /\ pc[c] = "idle" /\ pc'[c] = "queue" /\ sess'[c] = s /\ Alone(c) /\ SameRun
        /\ ticket'[c] = ticket[c] /\ writer' = writer
    BY <1>1 DEF DriveBegin, StartBegin, ScenarioBegin, AdmissionInv, Alone, SameRun
  <2>2. Standing(c)'
    BY <2>1 DEF AdmissionInv, Standing, Driving, Changing
  <2> QED
    BY <2>1, <2>2, OthersStand
<1>2. ASSUME NEW s \in Sessions, StopBegin(c, s) PROVE AdmissionInv'
  <2>1. pc'[c] \in Clear /\ Alone(c) /\ SameRun /\ writer' = writer
    BY <1>2 DEF StopBegin, AdmissionInv, Alone, SameRun, Clear
  <2> QED
    BY <2>1, ClearStands, OthersStand
<1>3. ASSUME NEW s \in Sessions, VerifyBegin(c, s) PROVE AdmissionInv'
  <2>1. pc'[c] = "queue" /\ op'[c] = "verify" /\ Alone(c) /\ SameRun /\ writer' = writer
    BY <1>3 DEF VerifyBegin, AdmissionInv, Alone, SameRun
  <2>2. Standing(c)'
    BY <2>1 DEF Standing, Driving, Changing
  <2> QED
    BY <2>1, <2>2, OthersStand
<1>4. ASSUME NEW o, TransitionBegin(c, o) PROVE AdmissionInv'
  <2>1. /\ pc'[c] = "queue" /\ op'[c] \in Transitions /\ Alone(c) /\ SameRun
        /\ writer' = writer
    BY <1>4 DEF TransitionBegin, AdmissionInv, Alone, SameRun
  <2>2. Standing(c)'
    BY <2>1 DEF Standing, Driving, Changing, Transitions
  <2> QED
    BY <2>1, <2>2, OthersStand
<1> QED
  BY <1>1, <1>2, <1>3, <1>4 DEF CallBegins

\* Dropping a shared lease moves no other client's count (Drop for Lease).
LEMMA LeaveSharedKeeps ==
  ASSUME NEW c \in Clients, LeaveShared(c)
  PROVE  writer' = writer /\ \A d \in Clients \ {c} : readers'[d] = readers[d]
  BY DEF LeaveShared

\* The steps of driving, starting, stopping and scenario calls.
LEMMA SharedCallAdmission ==
  ASSUME GateInv, AdmissionInv, NEW c \in Clients,
         \/ Admit(c) \/ AdmitRefused(c) \/ Return(c) \/ JobDrive(c) \/ Commit(c)
         \/ JobLease(c) \/ JobVerify(c) \/ VerifyRecord(c)
         \/ StartLaunch(c) \/ StartBind(c)
         \/ StopLeaseCheck(c) \/ StopOwnerCheck(c) \/ StopKill(c)
         \/ RestartKill(c) \/ RestartReadback(c)
         \/ ScenarioLaunch(c) \/ ScenarioBind(c) \/ ScenarioReplay(c)
         \/ ScenarioCommit(c) \/ ScenarioUnnest(c) \/ ScenarioCleanup(c)
  PROVE  AdmissionInv'
<1> USE DEF runVars, poolVars, callVars, gateVars, Goto, At
<1>1. CASE Admit(c)
  <2>1. /\ pc[c] = "queue" /\ op[c] \in {"act", "lease", "verify"}
        /\ pc'[c] = "job" /\ readers'[c] > 0 /\ Alone(c)
        /\ run' = run /\ SameRun /\ writer' = writer /\ owners' = owners
        /\ op' = op /\ sess' = sess /\ Admits(sess[c])
        /\ ticket'[c] = IF ticket[c] = None THEN run.id ELSE ticket[c]
    BY <1>1 DEF Admit, EnterShared, AdmissionInv, Alone, SameRun
  <2>2. Standing(c)'
    BY <2>1 DEF AdmissionInv, Standing, Driving, Changing, Admits
  <2> QED
    BY <2>1, <2>2, OthersStand
<1>2. CASE AdmitRefused(c) \/ RestartReadback(c)
  <2>1. pc'[c] \in Clear /\ Alone(c) /\ SameRun /\ writer' = writer
    BY <1>2 DEF AdmitRefused, RestartReadback, EnterShared, AdmissionInv, Alone, SameRun, Clear
  <2> QED
    BY <2>1, ClearStands, OthersStand
<1>3. CASE Return(c) \/ Commit(c) \/ JobLease(c)
  <2>1. Done(c)
    BY <1>3 DEF Return, Commit, JobLease, ReturnShared
  <2>2. writer' = writer /\ \A d \in Clients \ {c} : readers'[d] = readers[d]
    BY <1>3, LeaveSharedKeeps DEF Return, Commit, JobLease, ReturnShared
  <2>3. owners' = owners
    BY <1>3 DEF Return, Commit, JobLease
  <2>4. Alone(c)
    BY <2>1, <2>2, <2>3 DEF Done, AdmissionInv, Alone
  <2>5. SameRun
    BY <1>3 DEF Return, Commit, JobLease, Accept, AdmissionInv, SameRun, Whole
  <2> QED
    BY <2>1, <2>2, <2>4, <2>5, IdleStands, OthersStand
<1>4. CASE VerifyRecord(c)
  <2>1. Done(c) /\ Alone(c) /\ SameRun /\ writer' = writer
    BY <1>4 DEF VerifyRecord, Done, Accept, AdmissionInv, Alone, SameRun, Whole
  <2> QED
    BY <2>1, IdleStands, OthersStand
<1>5. CASE JobDrive(c)
  <2>1. CASE Goto(c, "commit") /\ UNCHANGED <<gateVars, callVars>>
    <3>1. /\ pc[c] = "job" /\ op[c] = "act" /\ pc'[c] = "commit" /\ Alone(c) /\ SameRun
          /\ run' = run /\ writer' = writer /\ readers' = readers /\ owners' = owners
          /\ UNCHANGED <<op, sess, ticket>>
      BY <1>5, <2>1 DEF JobDrive, AdmissionInv, Alone, SameRun
    <3>2. Standing(c)'
      BY <3>1 DEF AdmissionInv, Standing, Driving, Changing
    <3> QED
      BY <3>1, <3>2, OthersStand
  <2>2. CASE ReturnShared(c)
    <3>1. Done(c) /\ Alone(c) /\ SameRun /\ writer' = writer
      BY <1>5, <2>2 DEF JobDrive, ReturnShared, LeaveShared, Done, AdmissionInv, Alone, SameRun
    <3> QED
      BY <3>1, IdleStands, OthersStand
  <2> QED
    BY <1>5, <2>1, <2>2 DEF JobDrive
<1>6. CASE JobVerify(c)
  <2>1. writer' = writer /\ \A d \in Clients \ {c} : readers'[d] = readers[d]
    BY <1>6, LeaveSharedKeeps DEF JobVerify, ReturnShared
  <2>2. SameRun /\ owners' = owners
    BY <1>6 DEF JobVerify, AdmissionInv, SameRun
  <2>3. CASE Done(c)
    BY <2>1, <2>2, <2>3, IdleStands, OthersStand DEF Done, AdmissionInv, Alone
  <2>4. CASE pc' = [pc EXCEPT ![c] = "record"] /\ UNCHANGED callVars
    <3>1. pc'[c] \in Clear /\ Alone(c)
      BY <2>1, <2>2, <2>4 DEF AdmissionInv, Alone, Clear
    <3> QED
      BY <2>1, <2>2, <3>1, ClearStands, OthersStand
  <2> QED
    BY <1>6, <2>3, <2>4 DEF JobVerify, ReturnShared
<1>7. CASE StartLaunch(c) \/ ScenarioLaunch(c)
  <2>1. /\ pc[c] = "queue" /\ pc'[c] \in {"bind", "return"} /\ Alone(c) /\ SameRun
        /\ op[c] \in {"start", "scenario"}
        /\ writer' = writer /\ UNCHANGED <<op, sess>>
    BY <1>7 DEF StartLaunch, ScenarioLaunch, EnterShared, AdmissionInv, Alone, SameRun
  <2>2. Standing(c)'
    BY <2>1 DEF AdmissionInv, Standing, Driving, Changing
  <2> QED
    BY <2>1, <2>2, OthersStand
<1>8. CASE StartBind(c)
  <2>1. pc'[c] \in Clear /\ Alone(c) /\ SameRun /\ writer' = writer
    BY <1>8 DEF StartBind, AdmissionInv, Alone, SameRun, Clear
  <2> QED
    BY <2>1, ClearStands, OthersStand
<1>9. CASE ScenarioBind(c)
  <2>1. /\ pc[c] = "bind" /\ op[c] = "scenario" /\ pc'[c] = "nested" /\ Alone(c) /\ SameRun
        /\ writer' = writer /\ UNCHANGED <<op, sess>>
    BY <1>9 DEF ScenarioBind, AskShared, Enqueue, AdmissionInv, Alone, SameRun
  <2>2. Standing(c)'
    BY <2>1 DEF AdmissionInv, Standing, Driving, Changing
  <2> QED
    BY <2>1, <2>2, OthersStand
<1>10. CASE ScenarioReplay(c)
  <2>1. /\ pc[c] = "nested" /\ op[c] = "scenario" /\ readers'[c] > 0 /\ Alone(c)
        /\ run' = run /\ SameRun /\ writer' = writer /\ owners' = owners
        /\ UNCHANGED <<op, sess>> /\ ticket'[c] = run.id
        /\ pc'[c] = "unnest" \/ (pc'[c] = "commit" /\ Admits(sess[c]))
    BY <1>10 DEF ScenarioReplay, EnterShared, AdmissionInv, Alone, SameRun
  <2>2. Standing(c)'
    BY <2>1 DEF AdmissionInv, Standing, Driving, Changing, Admits
  <2> QED
    BY <2>1, <2>2, OthersStand
<1>11. CASE ScenarioCommit(c)
  <2>1. pc'[c] \in Clear /\ Alone(c) /\ SameRun /\ writer' = writer
    BY <1>11 DEF ScenarioCommit, Accept, AdmissionInv, Alone, SameRun, Whole, Clear
  <2> QED
    BY <2>1, ClearStands, OthersStand
<1>12. CASE ScenarioUnnest(c) \/ ScenarioCleanup(c)
  <2>1. pc'[c] \in Clear /\ Alone(c) /\ SameRun /\ writer' = writer
    BY <1>12, LeaveSharedKeeps DEF ScenarioUnnest, ScenarioCleanup, AdmissionInv, Alone,
                                   SameRun, Clear
  <2> QED
    BY <2>1, ClearStands, OthersStand
<1>13. CASE StopLeaseCheck(c) \/ StopOwnerCheck(c)
  <2>1. Alone(c) /\ SameRun /\ writer' = writer /\ (Done(c) \/ pc'[c] \in Clear)
    BY <1>13 DEF StopLeaseCheck, StopOwnerCheck, Done, AdmissionInv, Alone, SameRun, Clear
  <2> QED
    BY <2>1, IdleStands, ClearStands, OthersStand
<1>14. CASE StopKill(c)
  <2>1. Alone(c) /\ SameRun /\ writer' = writer /\ Done(c)
    BY <1>14 DEF StopKill, Kill, Done, AdmissionInv, Alone, SameRun
  <2> QED
    BY <2>1, IdleStands, OthersStand
<1>15. CASE RestartKill(c)
  <2>1. /\ Alone(c) /\ SameRun /\ writer' = writer /\ op[c] = "restart"
        /\ Done(c) \/ (pc'[c] = "queue" /\ op' = op)
    BY <1>15 DEF RestartKill, AskShared, Enqueue, Done, AdmissionInv, Alone, SameRun
  <2>2. pc'[c] = "queue" /\ op' = op => Standing(c)'
    BY <2>1 DEF Standing, Driving, Changing
  <2> QED
    BY <2>1, <2>2, IdleStands, OthersStand
<1> QED
  BY <1>1, <1>2, <1>3, <1>4, <1>5, <1>6, <1>7, <1>8, <1>9, <1>10, <1>11, <1>12, <1>13, <1>14,
     <1>15

\* The steps of the transitions: whoever changes the run holds the gate.
LEMMA TransitionAdmission ==
  ASSUME GateInv, AdmissionInv, NEW c \in Clients,
         \/ NewCheck(c) \/ NewSwap(c) \/ NewFlush(c)
         \/ CloseEnter(c) \/ CloseSeal(c) \/ CloseLeaseCheck(c) \/ CloseKill(c)
         \/ ResumeRestore(c) \/ ResumePreflight(c) \/ ResumeFlush(c)
         \/ ResumeReopen(c) \/ ResumeSwap(c) \/ ResumeDetach(c) \/ Leave(c)
  PROVE  AdmissionInv'
<1> USE DEF runVars, poolVars, callVars, gateVars, Goto, At
<1>1. CASE NewCheck(c) \/ CloseEnter(c)
  <2>1. /\ writer = c /\ writer' = c /\ Alone(c) /\ SameRun /\ op' = op
        /\ pc'[c] \in {"leave", "swap", "seal"} /\ op[c] \in {"new", "discard", "close", "kill"}
    BY <1>1 DEF NewCheck, CloseEnter, EnterExclusive, AdmissionInv, Alone, SameRun
  <2>2. Standing(c)'
    BY <2>1 DEF Standing, Driving, Changing, Resumes
  <2> QED
    BY <2>1, <2>2, OthersStand
<1>2. CASE NewSwap(c)
  <2>1. /\ writer = c /\ writer' = writer /\ pc'[c] = "flush" /\ saved'[c] = run
        /\ Whole(run') /\ Whole(run) /\ Alone(c)
    BY <1>2 DEF NewSwap, Fresh, AdmissionInv, Standing, Changing, Alone, Whole
  <2>2. Standing(c)'
    BY <2>1 DEF Standing, Driving, Changing, Whole
  <2> QED
    BY <2>1, <2>2, OthersStand
<1>3. CASE NewFlush(c)
  <2>1. writer = c /\ Whole(saved[c]) /\ Whole(run) /\ writer' = writer
    BY <1>3 DEF NewFlush, AdmissionInv, Standing, Changing
  <2>2. (run' = run \/ run' = saved[c]) /\ pc'[c] \in Clear /\ Alone(c)
    BY <1>3 DEF NewFlush, AdmissionInv, Alone, Clear
  <2>3. Whole(run')
    BY <2>1, <2>2 DEF Whole
  <2> QED
    BY <2>1, <2>2, <2>3, ClearStands, OthersStand
<1>4. CASE CloseSeal(c)
  <2>1. writer = c /\ writer' = writer
    BY <1>4 DEF CloseSeal, AdmissionInv, Standing, Changing
  <2>2. Whole(run') /\ pc'[c] \in Clear /\ Alone(c)
    BY <1>4 DEF CloseSeal, AdmissionInv, Whole, Alone, Clear
  <2> QED
    BY <2>1, <2>2, ClearStands, OthersStand
<1>5. CASE CloseLeaseCheck(c) \/ CloseKill(c)
  <2>1. pc'[c] \in Clear /\ Alone(c) /\ SameRun /\ writer' = writer
    BY <1>5 DEF CloseLeaseCheck, CloseKill, Kill, AdmissionInv, Alone, SameRun, Clear
  <2> QED
    BY <2>1, ClearStands, OthersStand
<1>6. CASE ResumeRestore(c)
  <2>1. /\ writer = c /\ writer' = writer /\ Alone(c) /\ SameRun /\ op' = op
        /\ pc'[c] = "leave" \/ (pc'[c] = "preflight" /\ Whole(saved'[c]))
    BY <1>6 DEF ResumeRestore, EnterExclusive, AdmissionInv, Alone, SameRun, Whole
  <2>2. Standing(c)'
    BY <2>1 DEF Standing, Driving, Changing, Whole
  <2> QED
    BY <2>1, <2>2, OthersStand
<1>7. CASE ResumePreflight(c) \/ ResumeFlush(c)
  <2>1. /\ Alone(c) /\ SameRun /\ UNCHANGED <<op, saved, writer>> /\ Changing(c)
        /\ op[c] \in Resumes /\ pc'[c] \in {"preflight", "flush", "reopen", "leave"}
    BY <1>7 DEF ResumePreflight, ResumeFlush, AdmissionInv, Alone, SameRun, Changing
  <2>2. Standing(c)'
    BY <2>1 DEF AdmissionInv, Standing, Driving, Changing, Whole
  <2> QED
    BY <2>1, <2>2, OthersStand
<1>8. CASE ResumeReopen(c)
  <2>1. /\ Changing(c) /\ op[c] \in Resumes /\ UNCHANGED <<op, writer>>
        /\ pc'[c] \in {"swap", "leave"} /\ Alone(c) /\ SameRun
        /\ DOMAIN saved'[c] = DOMAIN saved[c]
    BY <1>8 DEF ResumeReopen, AdmissionInv, Alone, SameRun, Changing
  <2>2. Standing(c)'
    BY <2>1 DEF AdmissionInv, Standing, Driving, Changing, Whole
  <2> QED
    BY <2>1, <2>2, OthersStand
<1>9. CASE ResumeSwap(c)
  <2>1. writer = c /\ Whole(saved[c]) /\ writer' = writer
    BY <1>9 DEF ResumeSwap, AdmissionInv, Standing, Changing
  <2>2. run' = saved[c] /\ pc'[c] \in Clear /\ Alone(c)
    BY <1>9 DEF ResumeSwap, AdmissionInv, Alone, Clear
  <2>3. Whole(run')
    BY <2>1, <2>2 DEF Whole
  <2> QED
    BY <2>1, <2>2, <2>3, ClearStands, OthersStand
<1>10. CASE ResumeDetach(c)
  <2>1. pc'[c] \in Clear /\ Alone(c) /\ SameRun /\ writer' = writer
    BY <1>10 DEF ResumeDetach, Kill, AdmissionInv, Alone, SameRun, Clear
  <2> QED
    BY <2>1, ClearStands, OthersStand
<1>11. CASE Leave(c)
  <2>1. Done(c) /\ writer = c /\ Alone(c) /\ SameRun
    BY <1>11 DEF Leave, ReturnExclusive, LeaveExclusive, Done, AdmissionInv, Alone, SameRun
  <2> QED
    BY <2>1, IdleStands, OthersStand
<1> QED
  BY <1>1, <1>2, <1>3, <1>4, <1>5, <1>6, <1>7, <1>8, <1>9, <1>10, <1>11

\* Every step of the server preserves the admission invariant.
LEMMA AdmissionNext == GateInv /\ AdmissionInv /\ [Next]_vars => AdmissionInv'
<1> SUFFICES ASSUME GateInv, AdmissionInv, [Next]_vars PROVE AdmissionInv'
  OBVIOUS
<1>1. CASE \E c \in Clients : CallBegins(c) \/ CallStep(c)
  BY <1>1, BeginsAdmission, SharedCallAdmission, TransitionAdmission DEF CallStep
<1>2. CASE GateGrants
  <2>1. UNCHANGED <<run, owners, pc, op, sess, ticket, saved>>
    BY <1>2 DEF GateGrants, runVars, poolVars, callVars
  <2>2. ASSUME NEW c \in Clients
        PROVE  (readers[c] > 0 => readers'[c] > 0) /\ (writer = c => writer' = c)
    BY <1>2, GateAssumption DEF GateGrants, Grant, GateInv, GateTypes
  <2> QED
    BY <2>1, <2>2 DEF AdmissionInv, Standing, Driving, Changing, Whole
<1>3. CASE (\E s \in Sessions : LeaseExpires(s)) \/ UNCHANGED vars
  <2>1. UNCHANGED <<run, owners, pc, op, sess, ticket, saved, readers, writer>>
    BY <1>3 DEF LeaseExpires, vars, gateVars, runVars, poolVars, callVars
  <2> QED
    BY <2>1 DEF AdmissionInv, Standing, Driving, Changing, Whole
<1>4. CASE Persist
  <2>1. UNCHANGED <<owners, pc, op, sess, ticket, saved, readers, writer>>
    BY <1>4 DEF Persist, gateVars, poolVars, callVars
  <2>2. run'.id = run.id /\ run'.closed = run.closed /\ Whole(run')
    BY <1>4 DEF Persist, AdmissionInv, Whole
  <2> QED
    BY <2>1, <2>2 DEF AdmissionInv, Standing, Driving, Changing, Whole
<1> QED
  BY <1>1, <1>2, <1>3, <1>4 DEF Next

\* From admission to commit the run a call was admitted to stays the current
\* one and open, and its session stays its own (with_sess_authorized).
THEOREM ServerAdmittedStable == Safety => []AdmittedStable
<1>1. Init => GateInv /\ AdmissionInv
  <2>1. Init => AdmissionInv
    BY DEF Init, Fresh, AdmissionInv, Standing, Driving, Changing, Whole
  <2> QED
    BY <2>1, GateInvInit DEF Init
<1>2. GateInv /\ AdmissionInv /\ [Next]_vars => (GateInv /\ AdmissionInv)'
  BY AdmissionNext, StepRefinesGate, GateInvNext
<1>3. AdmissionInv => AdmittedStable
  BY DEF AdmissionInv, Standing, Driving, AdmittedStable
<1> QED
  BY <1>1, <1>2, <1>3, PTL DEF Safety

-----------------------------------------------------------------------------
(* Types.                                                                  *)

\* What the locals of a call hold at the step it has reached.
CallFits(c) ==
  /\ pc[c] \in {"job", "commit", "record"} \/ op[c] = "verify" => ticket[c] \in Runs
  /\ pc[c] = "queue" /\ op[c] \in {"start", "scenario"} => sess[c] \in born
  /\ saved[c] # None => saved[c].id \in used
  /\ pc[c] \in {"flush", "preflight", "reopen"} => saved[c] # None
  /\ pc[c] = "swap" /\ op[c] \in Resumes => saved[c] # None

\* The types alone are not inductive: a context that goes live out of a local
\* has to be there, and a run found on disk has to be one that was allocated.
TypeInv ==
  /\ RunTypeOK /\ CallTypeOK
  /\ \A c \in Clients : CallFits(c)
  /\ \A r \in Runs : disk[r].there => r \in used

\* Only client c's locals move.
Private(c) ==
  \A d \in Clients \ {c} :
    /\ pc'[d] = pc[d] /\ op'[d] = op[d] /\ sess'[d] = sess[d]
    /\ ticket'[d] = ticket[d] /\ saved'[d] = saved[d] /\ approved'[d] = approved[d]

\* What a step of call c owes the types.
Typed(c) ==
  /\ RunTypeOK' /\ CallTypeOK' /\ CallFits(c)' /\ Private(c)
  /\ used \subseteq used' /\ born \subseteq born'
  /\ \A r \in Runs : disk'[r].there => r \in used'

\* A step that pays it keeps the types.
LEMMA TypedKeeps ==
  ASSUME TypeInv, NEW c \in Clients, Typed(c) PROVE TypeInv'
<1>1. ASSUME NEW d \in Clients \ {c} PROVE CallFits(d)'
  BY DEF TypeInv, Typed, Private, CallFits
<1> QED
  BY <1>1 DEF TypeInv, Typed

\* A call that begins has its types.
LEMMA BeginsTyped ==
  ASSUME TypeInv, NEW c \in Clients, CallBegins(c) PROVE Typed(c)
<1> USE DEF Goto, runVars, poolVars, histVars, callVars
<1>1. run.id \in Runs
  BY DEF TypeInv, RunTypeOK
<1>2. ASSUME NEW s \in Sessions, NEW o \in {"act", "lease", "start", "stop", "restart", "scenario"},
             Begin(c, o, s), s \in born',
             pc'[c] \in {"queue", "leaseCheck", "kill"}, pc' = [pc EXCEPT ![c] = pc'[c]],
             UNCHANGED <<runVars, live, owners, leased, histVars>>, born' \in {born, born \cup {s}}
      PROVE  Typed(c)
  <2>1. CallTypeOK' /\ Private(c)
    BY <1>2 DEF TypeInv, CallTypeOK, Steps, Begin, Private, AllOps
  <2>2. RunTypeOK'
    BY <1>2 DEF TypeInv, RunTypeOK
  <2> QED
    BY <1>2, <2>1, <2>2 DEF Typed, TypeInv, CallFits, CallTypeOK, Begin
<1>3. ASSUME NEW s \in Sessions, DriveBegin(c, s) \/ StopBegin(c, s) PROVE Typed(c)
  BY <1>2, <1>3 DEF DriveBegin, StopBegin, TypeInv, CallTypeOK
<1>4. ASSUME NEW s \in Sessions, StartBegin(c, s) \/ ScenarioBegin(c, s) PROVE Typed(c)
  BY <1>2, <1>4 DEF StartBegin, ScenarioBegin, TypeInv, CallTypeOK
<1>5. ASSUME NEW s \in Sessions, VerifyBegin(c, s) PROVE Typed(c)
  <2>1. CallTypeOK' /\ Private(c)
    BY <1>1, <1>5 DEF VerifyBegin, TypeInv, CallTypeOK, Steps, Private, AllOps
  <2>2. RunTypeOK'
    BY <1>5 DEF VerifyBegin, TypeInv, RunTypeOK
  <2> QED
    BY <1>1, <1>5, <2>1, <2>2 DEF VerifyBegin, Typed, TypeInv, CallFits, CallTypeOK
<1>6. ASSUME NEW o \in Transitions, TransitionBegin(c, o) PROVE Typed(c)
  <2>1. CallTypeOK' /\ Private(c)
    BY <1>6 DEF TransitionBegin, TypeInv, CallTypeOK, Steps, Private, Begin, AllOps, Transitions
  <2>2. RunTypeOK'
    BY <1>6 DEF TransitionBegin, TypeInv, RunTypeOK
  <2>3. op'[c] \notin {"verify", "start", "scenario"} /\ pc'[c] = "queue"
    BY <1>6 DEF TransitionBegin, Begin, Transitions, TypeInv, CallTypeOK
  <2> QED
    BY <1>6, <2>1, <2>2, <2>3 DEF TransitionBegin, Begin, Typed, TypeInv, CallFits, CallTypeOK
<1> QED
  BY <1>3, <1>4, <1>5, <1>6 DEF CallBegins

\* A step that changes neither the runs nor the sessions nor the record of
\* them, and moves c's program counter and nothing but c's locals.
LEMMA LocalsTyped ==
  ASSUME TypeInv, NEW c \in Clients, CallTypeOK', CallFits(c)', Private(c),
         UNCHANGED <<runVars, poolVars, histVars>>
  PROVE  Typed(c)
  BY DEF TypeInv, Typed, RunTypeOK, runVars, poolVars, histVars

\* A call that returns has no locals.
LEMMA DoneTyped ==
  ASSUME CallTypeOK, NEW c \in Clients, Done(c)
  PROVE  CallTypeOK' /\ CallFits(c)' /\ Private(c)
  BY DEF CallTypeOK, Steps, CallFits, Private, Done

\* A call that moves on with the locals it has.
LEMMA GoesTyped ==
  ASSUME CallTypeOK, NEW c \in Clients, NEW step \in Steps, Goto(c, step), UNCHANGED callVars
  PROVE  CallTypeOK' /\ Private(c) /\ pc'[c] = step
  BY DEF CallTypeOK, Private, Goto, callVars

\* The evidence of a call is evidence, and lands in the current run.
LEMMA AcceptTyped ==
  ASSUME RunTypeOK, NEW c \in Clients, ticket[c] \in Runs, Accept(c)
  PROVE  run' \in Context /\ run'.id = run.id /\ committed' \subseteq Evidence
<1> DEFINE e == [by |-> c, run |-> ticket[c]]
<1>1. e \in Evidence
  BY DEF Evidence
<1>2. run' = [run EXCEPT !.mem = @ \cup {e}] /\ committed' = committed \cup {e}
  BY DEF Accept
<1> HIDE DEF e
<1>3. run \in Context /\ committed \subseteq Evidence
  BY DEF RunTypeOK
<1> QED
  BY <1>1, <1>2, <1>3 DEF Context

\* A flush changes the evidence of a directory and nothing else of it.
LEMMA FlushTyped ==
  ASSUME RunTypeOK, NEW x \in Context, NEW ok \in BOOLEAN, Flushed(x, ok)
  PROVE  /\ disk' \in [Runs -> [there : BOOLEAN, closed : BOOLEAN, ev : SUBSET Evidence]]
         /\ \A r \in Runs : disk'[r].there = disk[r].there /\ disk'[r].closed = disk[r].closed
  BY DEF RunTypeOK, Flushed, Context

\* A killed session leaves what is recorded of the sessions well typed.
LEMMA KillTyped ==
  ASSUME RunTypeOK, NEW c \in Clients, NEW s, op[c] \in AllOps, Kill(c, s)
  PROVE  /\ live' \subseteq live /\ leased' \subseteq leased /\ born' = born
         /\ owners' \in [Sessions -> Runs \cup {None}] /\ harmed' \subseteq AllOps
         /\ UNCHANGED <<made, committed, discarded, dropped>>
  BY DEF RunTypeOK, Kill

\* The steps of driving calls.
LEMMA DrivesTyped ==
  ASSUME TypeInv, NEW c \in Clients,
         \/ Admit(c) \/ AdmitRefused(c) \/ Return(c) \/ JobDrive(c) \/ Commit(c)
         \/ JobLease(c) \/ JobVerify(c) \/ VerifyRecord(c)
  PROVE  Typed(c)
<1> USE DEF runVars, poolVars, histVars
<1>1. CallTypeOK /\ RunTypeOK /\ CallFits(c) /\ run.id \in Runs
  BY DEF TypeInv, RunTypeOK
<1>2. CASE Admit(c)
  <2>1. CallTypeOK' /\ Private(c)
    BY <1>1, <1>2 DEF Admit, Goto, CallTypeOK, Steps, Private
  <2>2. CallFits(c)'
    BY <1>1, <1>2, <2>1 DEF Admit, Goto, At, CallTypeOK, CallFits
  <2> QED
    BY <1>2, <2>1, <2>2, LocalsTyped DEF Admit
<1>3. CASE AdmitRefused(c)
  <2>1. CallTypeOK' /\ Private(c) /\ CallFits(c)'
    BY <1>1, <1>3, GoesTyped DEF AdmitRefused, At, Steps, CallFits, callVars
  <2> QED
    BY <1>3, <2>1, LocalsTyped DEF AdmitRefused
<1>4. CASE Return(c)
  BY <1>1, <1>4, DoneTyped, LocalsTyped DEF Return, ReturnShared
<1>5. CASE JobDrive(c)
  <2>1. CASE Goto(c, "commit") /\ UNCHANGED callVars
    <3>1. CallTypeOK' /\ Private(c) /\ CallFits(c)'
      BY <1>1, <1>5, <2>1, GoesTyped DEF JobDrive, At, Steps, CallFits, callVars
    <3> QED
      BY <1>5, <3>1, LocalsTyped DEF JobDrive
  <2>2. CASE Done(c)
    BY <1>1, <1>5, <2>2, DoneTyped, LocalsTyped DEF JobDrive
  <2> QED
    BY <1>5, <2>1, <2>2 DEF JobDrive, ReturnShared
<1>6. CASE Commit(c) \/ VerifyRecord(c)
  <2>1. ticket[c] \in Runs /\ Done(c)
    BY <1>1, <1>6 DEF Commit, VerifyRecord, At, CallFits, ReturnShared
  <2>2. run' \in Context /\ run'.id = run.id /\ committed' \subseteq Evidence
    BY <1>1, <1>6, <2>1, AcceptTyped DEF Commit, VerifyRecord, RunTypeOK
  <2>3. RunTypeOK' /\ used' = used /\ born' = born /\ disk' = disk
    BY <1>1, <1>6, <2>2 DEF Commit, VerifyRecord, RunTypeOK
  <2> QED
    BY <1>1, <2>1, <2>3, DoneTyped DEF Typed, TypeInv
<1>7. CASE JobLease(c)
  <2>1. RunTypeOK' /\ used' = used /\ born' = born /\ disk' = disk /\ Done(c)
    BY <1>1, <1>7 DEF JobLease, RunTypeOK, ReturnShared
  <2> QED
    BY <1>1, <2>1, DoneTyped DEF Typed, TypeInv
<1>8. CASE JobVerify(c)
  <2>1. CASE Goto(c, "record") /\ UNCHANGED callVars
    <3>1. CallTypeOK' /\ Private(c) /\ CallFits(c)'
      BY <1>1, <1>8, <2>1, GoesTyped DEF JobVerify, At, Steps, CallFits, callVars
    <3> QED
      BY <1>8, <3>1, LocalsTyped DEF JobVerify
  <2>2. CASE Done(c)
    BY <1>1, <1>8, <2>2, DoneTyped, LocalsTyped DEF JobVerify
  <2> QED
    BY <1>8, <2>1, <2>2 DEF JobVerify, ReturnShared
<1> QED
  BY <1>2, <1>3, <1>4, <1>5, <1>6, <1>7, <1>8

\* The steps of start, stop and restart.
LEMMA SessionCallsTyped ==
  ASSUME TypeInv, NEW c \in Clients,
         \/ StartLaunch(c) \/ StartBind(c)
         \/ StopLeaseCheck(c) \/ StopOwnerCheck(c) \/ StopKill(c)
         \/ RestartKill(c) \/ RestartReadback(c)
  PROVE  Typed(c)
<1> USE DEF runVars, poolVars, histVars
<1>1. CallTypeOK /\ RunTypeOK /\ CallFits(c) /\ run.id \in Runs
  BY DEF TypeInv, RunTypeOK
<1>2. CASE StartLaunch(c)
  <2>1. CallTypeOK' /\ Private(c) /\ CallFits(c)'
    BY <1>1, <1>2, GoesTyped DEF StartLaunch, At, Steps, CallFits, callVars
  <2>2. RunTypeOK' /\ used' = used /\ born' = born /\ disk' = disk
    BY <1>1, <1>2 DEF StartLaunch, At, CallFits, RunTypeOK
  <2> QED
    BY <2>1, <2>2 DEF Typed, TypeInv
<1>3. CASE StartBind(c)
  <2>1. CallTypeOK' /\ Private(c) /\ CallFits(c)'
    BY <1>1, <1>3, GoesTyped DEF StartBind, At, Steps, CallFits, callVars
  <2>2. RunTypeOK' /\ used' = used /\ born' = born /\ disk' = disk
    BY <1>1, <1>3 DEF StartBind, RunTypeOK
  <2> QED
    BY <2>1, <2>2 DEF Typed, TypeInv
<1>4. CASE StopLeaseCheck(c) \/ StopOwnerCheck(c)
  <2>1. CASE Done(c)
    BY <1>1, <1>4, <2>1, DoneTyped, LocalsTyped DEF StopLeaseCheck, StopOwnerCheck
  <2>2. CASE (Goto(c, "ownerCheck") \/ Goto(c, "kill")) /\ UNCHANGED callVars
    <3>1. CallTypeOK' /\ Private(c) /\ CallFits(c)'
      BY <1>1, <1>4, <2>2, GoesTyped
         DEF StopLeaseCheck, StopOwnerCheck, At, Steps, CallFits, callVars
    <3> QED
      BY <1>4, <3>1, LocalsTyped DEF StopLeaseCheck, StopOwnerCheck
  <2> QED
    BY <1>4, <2>1, <2>2 DEF StopLeaseCheck, StopOwnerCheck
<1>5. CASE StopKill(c)
  <2>1. Done(c) /\ Kill(c, sess[c]) /\ op[c] \in AllOps /\ UNCHANGED runVars
    BY <1>5 DEF StopKill, At, AllOps
  <2>2. RunTypeOK' /\ born' = born
    BY <1>1, <2>1, KillTyped DEF RunTypeOK
  <2> QED
    BY <1>1, <2>1, <2>2, DoneTyped DEF Typed, TypeInv
<1>6. CASE RestartKill(c)
  <2>1. RunTypeOK' /\ used' = used /\ born' = born /\ disk' = disk
    BY <1>1, <1>6 DEF RestartKill, RunTypeOK, AllOps
  <2>2. CallTypeOK' /\ Private(c) /\ CallFits(c)'
    BY <1>1, <1>6, GoesTyped, DoneTyped DEF RestartKill, At, Steps, CallFits, callVars
  <2> QED
    BY <2>1, <2>2 DEF Typed, TypeInv
<1>7. CASE RestartReadback(c)
  <2>1. CallTypeOK' /\ Private(c) /\ CallFits(c)'
    BY <1>1, <1>7, GoesTyped DEF RestartReadback, At, Steps, CallFits, callVars
  <2> QED
    BY <1>7, <2>1, LocalsTyped DEF RestartReadback
<1> QED
  BY <1>2, <1>3, <1>4, <1>5, <1>6, <1>7

\* The steps of a scenario run.
LEMMA ScenarioTyped ==
  ASSUME TypeInv, NEW c \in Clients,
         \/ ScenarioLaunch(c) \/ ScenarioBind(c) \/ ScenarioReplay(c)
         \/ ScenarioCommit(c) \/ ScenarioUnnest(c) \/ ScenarioCleanup(c)
  PROVE  Typed(c)
<1> USE DEF runVars, poolVars, histVars
<1>1. CallTypeOK /\ RunTypeOK /\ CallFits(c) /\ run.id \in Runs
  BY DEF TypeInv, RunTypeOK
<1>2. CASE ScenarioLaunch(c)
  <2>1. CallTypeOK' /\ Private(c) /\ CallFits(c)'
    BY <1>1, <1>2, GoesTyped DEF ScenarioLaunch, At, Steps, CallFits, callVars
  <2>2. RunTypeOK' /\ used' = used /\ born' = born /\ disk' = disk
    BY <1>1, <1>2 DEF ScenarioLaunch, At, CallFits, RunTypeOK
  <2> QED
    BY <2>1, <2>2 DEF Typed, TypeInv
<1>3. CASE ScenarioBind(c)
  <2>1. CallTypeOK' /\ Private(c) /\ CallFits(c)'
    BY <1>1, <1>3, GoesTyped DEF ScenarioBind, At, Steps, CallFits, callVars
  <2>2. RunTypeOK' /\ used' = used /\ born' = born /\ disk' = disk
    BY <1>1, <1>3 DEF ScenarioBind, RunTypeOK
  <2> QED
    BY <2>1, <2>2 DEF Typed, TypeInv
<1>4. CASE ScenarioReplay(c)
  <2>1. CallTypeOK' /\ Private(c)
    BY <1>1, <1>4 DEF ScenarioReplay, Goto, CallTypeOK, Steps, Private
  <2>2. CallFits(c)'
    BY <1>1, <1>4, <2>1 DEF ScenarioReplay, Goto, At, CallTypeOK, CallFits
  <2> QED
    BY <1>4, <2>1, <2>2, LocalsTyped DEF ScenarioReplay
<1>5. CASE ScenarioCommit(c)
  <2>1. ticket[c] \in Runs /\ Goto(c, "unnest") /\ UNCHANGED callVars /\ op[c] = "scenario"
    BY <1>1, <1>5 DEF ScenarioCommit, At, CallFits
  <2>2. run' \in Context /\ run'.id = run.id /\ committed' \subseteq Evidence
    BY <1>1, <1>5, <2>1, AcceptTyped DEF ScenarioCommit, RunTypeOK
  <2>3. RunTypeOK' /\ used' = used /\ born' = born /\ disk' = disk
    BY <1>1, <1>5, <2>2 DEF ScenarioCommit, RunTypeOK
  <2>4. CallTypeOK' /\ Private(c) /\ CallFits(c)'
    BY <1>1, <2>1, <2>3, GoesTyped DEF Steps, CallFits, callVars
  <2> QED
    BY <2>3, <2>4 DEF Typed, TypeInv
<1>6. CASE ScenarioUnnest(c)
  <2>1. CallTypeOK' /\ Private(c) /\ CallFits(c)'
    BY <1>1, <1>6, GoesTyped DEF ScenarioUnnest, At, Steps, CallFits, callVars
  <2> QED
    BY <1>6, <2>1, LocalsTyped DEF ScenarioUnnest
<1>7. CASE ScenarioCleanup(c)
  <2>1. RunTypeOK' /\ used' = used /\ born' = born /\ disk' = disk
    BY <1>1, <1>7 DEF ScenarioCleanup, RunTypeOK, AllOps
  <2>2. CallTypeOK' /\ Private(c) /\ CallFits(c)'
    BY <1>1, <1>7, GoesTyped DEF ScenarioCleanup, At, Steps, CallFits, callVars
  <2> QED
    BY <2>1, <2>2 DEF Typed, TypeInv
<1> QED
  BY <1>2, <1>3, <1>4, <1>5, <1>6, <1>7

\* The steps of new and close.
LEMMA NewAndCloseTyped ==
  ASSUME TypeInv, NEW c \in Clients,
         \/ NewCheck(c) \/ NewSwap(c) \/ NewFlush(c)
         \/ CloseEnter(c) \/ CloseSeal(c) \/ CloseLeaseCheck(c) \/ CloseKill(c) \/ Leave(c)
  PROVE  Typed(c)
<1> USE DEF runVars, poolVars, histVars
<1>1. /\ CallTypeOK /\ RunTypeOK /\ CallFits(c) /\ run.id \in Runs
      /\ \A r \in Runs : disk[r].there => r \in used
  BY DEF TypeInv, RunTypeOK
<1>2. CASE NewCheck(c)
  <2>1. CallTypeOK' /\ Private(c) /\ CallFits(c)'
    BY <1>1, <1>2, GoesTyped DEF NewCheck, At, Steps, CallFits, callVars, Resumes
  <2> QED
    BY <1>2, <2>1, LocalsTyped DEF NewCheck
<1>3. CASE NewSwap(c)
  <2>1. PICK r \in Runs \ used : run' = Fresh(r) /\ used' = used \cup {r}
    BY <1>3 DEF NewSwap
  <2>2. run' \in Context /\ run'.id = r
    BY <2>1 DEF Fresh, Context
  <2>3. RunTypeOK' /\ born' = born /\ disk' = disk
    BY <1>1, <1>3, <2>1, <2>2 DEF NewSwap, RunTypeOK
  <2>4. CallTypeOK' /\ Private(c) /\ saved'[c] = run /\ pc'[c] = "flush" /\ op' = op
    BY <1>1, <1>3 DEF NewSwap, Goto, CallTypeOK, RunTypeOK, Steps, Private
  <2>5. saved'[c] # None
    BY <1>1, <2>4, ContextAssumption DEF RunTypeOK
  <2>6. CallFits(c)'
    BY <1>1, <1>3, <2>1, <2>4, <2>5 DEF NewSwap, At, CallFits, RunTypeOK
  <2> QED
    BY <1>1, <2>1, <2>3, <2>4, <2>6 DEF Typed
<1>4. CASE NewFlush(c)
  <2>1. saved[c] \in Context /\ saved[c].id \in used
    BY <1>1, <1>4 DEF NewFlush, At, CallFits, CallTypeOK
  <2>2. \/ Flushed(saved[c], TRUE) /\ run' = run
             /\ discarded' \in {discarded, discarded \cup saved[c].mem}
        \/ Flushed(saved[c], FALSE) /\ run' = saved[c] /\ discarded' = discarded
    BY <1>4 DEF NewFlush
  <2>3. /\ disk' \in [Runs -> [there : BOOLEAN, closed : BOOLEAN, ev : SUBSET Evidence]]
        /\ \A r \in Runs : disk'[r].there = disk[r].there
    BY <1>1, <2>1, <2>2, FlushTyped
  <2>4. run' \in Context /\ run'.id \in used /\ discarded' \subseteq Evidence
    <3>1. saved[c].mem \subseteq Evidence
      BY <2>1 DEF Context
    <3> QED
      BY <1>1, <2>1, <2>2, <3>1 DEF RunTypeOK
  <2>5. RunTypeOK' /\ born' = born /\ used' = used
    BY <1>1, <1>4, <2>3, <2>4 DEF NewFlush, RunTypeOK
  <2>6. CallTypeOK' /\ Private(c) /\ CallFits(c)'
    BY <1>1, <1>4, <2>5, GoesTyped DEF NewFlush, At, Steps, CallFits, callVars
  <2> QED
    BY <1>1, <2>3, <2>5, <2>6 DEF Typed
<1>5. CASE CloseEnter(c)
  <2>1. CallTypeOK' /\ Private(c)
    BY <1>1, <1>5 DEF CloseEnter, Goto, CallTypeOK, RunTypeOK, Steps, Private
  <2>2. CallFits(c)'
    BY <1>1, <1>5, <2>1 DEF CloseEnter, Goto, At, CallTypeOK, CallFits
  <2> QED
    BY <1>5, <2>1, <2>2, LocalsTyped DEF CloseEnter
<1>6. CASE CloseSeal(c)
  <2>1. /\ run' \in Context /\ run'.id = run.id
        /\ disk' \in [Runs -> [there : BOOLEAN, closed : BOOLEAN, ev : SUBSET Evidence]]
        /\ \A r \in Runs : disk'[r].there => disk[r].there \/ r = run.id
    <3>1. CASE run' = run /\ disk' = disk
      BY <1>1, <3>1 DEF RunTypeOK
    <3>2. CASE /\ run' = [run EXCEPT !.closed = TRUE]
               /\ disk' = IF ~run.dir THEN disk ELSE
                     [disk EXCEPT ![run.id] = [there |-> TRUE, closed |-> TRUE,
                                               ev |-> @.ev \cup (run.mem)]]
      BY <1>1, <3>2 DEF RunTypeOK, Context
    <3>3. CASE Flushed(run, FALSE) /\ run' = run
      BY <1>1, <3>3, FlushTyped DEF RunTypeOK
    <3> QED
      BY <1>6, <3>1, <3>2, <3>3 DEF CloseSeal
  <2>2. RunTypeOK' /\ born' = born /\ used' = used
    BY <1>1, <1>6, <2>1 DEF CloseSeal, RunTypeOK
  <2>3. CallTypeOK' /\ Private(c) /\ CallFits(c)'
    BY <1>1, <1>6, <2>2, GoesTyped DEF CloseSeal, At, Steps, CallFits, callVars
  <2> QED
    BY <1>1, <2>1, <2>2, <2>3 DEF Typed, RunTypeOK
<1>7. CASE CloseLeaseCheck(c)
  <2>1. CASE Goto(c, "leave") /\ UNCHANGED callVars
    <3>1. CallTypeOK' /\ Private(c) /\ CallFits(c)'
      BY <1>1, <1>7, <2>1, GoesTyped DEF CloseLeaseCheck, At, Steps, CallFits, callVars
    <3> QED
      BY <1>7, <3>1, LocalsTyped DEF CloseLeaseCheck
  <2>2. ASSUME NEW s \in todo[c],
               todo' = [todo EXCEPT ![c] = @ \ {s}],
               Goto(c, "kill") \/ Goto(c, "leaseCheck"),
               sess' = [sess EXCEPT ![c] = s],
               UNCHANGED <<op, ticket, saved, approved>>
        PROVE  Typed(c)
    <3>1. CallTypeOK' /\ Private(c) /\ pc'[c] \in {"kill", "leaseCheck"}
      BY <1>1, <2>2 DEF Goto, CallTypeOK, Steps, Private
    <3>2. CallFits(c)'
      BY <1>1, <1>7, <2>2, <3>1 DEF CloseLeaseCheck, At, CallFits
    <3> QED
      BY <1>7, <3>1, <3>2, LocalsTyped DEF CloseLeaseCheck
  <2> QED
    BY <1>7, <2>1, <2>2 DEF CloseLeaseCheck
<1>8. CASE CloseKill(c)
  <2>1. RunTypeOK' /\ born' = born /\ used' = used /\ disk' = disk
    BY <1>1, <1>8, KillTyped DEF CloseKill, At, AllOps, RunTypeOK
  <2>2. CallTypeOK' /\ Private(c) /\ CallFits(c)'
    BY <1>1, <1>8, <2>1, GoesTyped DEF CloseKill, At, Steps, CallFits, callVars
  <2> QED
    BY <1>1, <2>1, <2>2 DEF Typed
<1>9. CASE Leave(c)
  BY <1>1, <1>9, DoneTyped, LocalsTyped DEF Leave, ReturnExclusive
<1> QED
  BY <1>2, <1>3, <1>4, <1>5, <1>6, <1>7, <1>8, <1>9

\* The steps of resume.
LEMMA ResumeTyped ==
  ASSUME TypeInv, NEW c \in Clients,
         \/ ResumeRestore(c) \/ ResumePreflight(c) \/ ResumeFlush(c)
         \/ ResumeReopen(c) \/ ResumeSwap(c) \/ ResumeDetach(c)
  PROVE  Typed(c)
<1> USE DEF runVars, poolVars, histVars
<1>1. /\ CallTypeOK /\ RunTypeOK /\ CallFits(c) /\ run.id \in Runs
      /\ \A r \in Runs : disk[r].there => r \in used
  BY DEF TypeInv, RunTypeOK
<1>2. CASE ResumeRestore(c)
  <2>1. ASSUME NEW t \in Runs, NEW foreign \in SUBSET live, disk[t].there,
               saved' = [saved EXCEPT ![c] =
                 [id |-> t, dir |-> TRUE, closed |-> disk[t].closed, mem |-> disk[t].ev]],
               todo' = [todo EXCEPT ![c] = foreign], Goto(c, "preflight")
        PROVE  CallTypeOK' /\ Private(c) /\ CallFits(c)'
    <3>1. [id |-> t, dir |-> TRUE, closed |-> disk[t].closed, mem |-> disk[t].ev] \in Context
      BY <1>1 DEF RunTypeOK, Context
    <3>2. CallTypeOK' /\ Private(c)
      BY <1>1, <1>2, <2>1, <3>1 DEF ResumeRestore, Goto, CallTypeOK, RunTypeOK, Steps, Private
    <3>3. saved'[c] \in Context /\ saved'[c].id = t /\ pc'[c] = "preflight"
      BY <1>1, <2>1, <3>1 DEF CallTypeOK, Goto
    <3>4. saved'[c] # None
      BY <3>3, ContextAssumption
    <3>5. CallFits(c)'
      BY <1>1, <1>2, <2>1, <3>3, <3>4 DEF ResumeRestore, At, CallFits, Resumes
    <3> QED
      BY <3>2, <3>5
  <2>2. /\ op[c] \in Resumes
        /\ UNCHANGED <<runVars, poolVars, op, sess, ticket, approved, histVars>>
    BY <1>2 DEF ResumeRestore, At
  <2>3. ASSUME Goto(c, "leave"), UNCHANGED callVars
        PROVE  CallTypeOK' /\ Private(c) /\ CallFits(c)'
    <3>1. CallTypeOK' /\ Private(c) /\ pc'[c] = "leave"
      BY <1>1, <2>3, GoesTyped DEF Steps
    <3> QED
      BY <1>1, <2>2, <2>3, <3>1 DEF CallFits, callVars, Resumes
  <2>4. ASSUME Goto(c, "leave"), UNCHANGED <<saved, todo>>
        PROVE  CallTypeOK' /\ Private(c) /\ CallFits(c)'
    BY <2>2, <2>3, <2>4 DEF callVars
  <2>5. ASSUME NEW t \in Runs, disk[t].there,
               saved' = [saved EXCEPT ![c] =
                 [id |-> t, dir |-> TRUE, closed |-> disk[t].closed, mem |-> disk[t].ev]],
               todo' = [todo EXCEPT ![c] = {s \in live : owners[s] # t}], Goto(c, "preflight")
        PROVE  CallTypeOK' /\ Private(c) /\ CallFits(c)'
    BY <2>1, <2>5
  <2>6. CallTypeOK' /\ Private(c) /\ CallFits(c)'
    BY <1>2, <2>4, <2>5 DEF ResumeRestore
  <2> QED
    BY <2>2, <2>6, LocalsTyped
<1>3. CASE ResumePreflight(c)
  <2>1. CallTypeOK' /\ Private(c) /\ UNCHANGED <<op, ticket, saved>>
        /\ pc'[c] \in {"flush", "leave", "preflight"}
    <3>1. CASE Goto(c, "flush") /\ UNCHANGED <<todo, approved>>
      BY <1>1, <1>3, <3>1, GoesTyped DEF ResumePreflight, Steps, callVars
    <3>2. ASSUME NEW s \in todo[c],
                 todo' = [todo EXCEPT ![c] = @ \ {s}],
                 Goto(c, "leave") \/ pc' = pc,
                 approved' \in {approved, [approved EXCEPT ![c] = @ \cup {s}]}
          PROVE  CallTypeOK' /\ Private(c) /\ pc'[c] \in {"leave", "preflight"}
      <4>1. s \in Sessions
        BY <1>1 DEF CallTypeOK
      <4> QED
        BY <1>1, <1>3, <3>2, <4>1
           DEF ResumePreflight, At, Goto, CallTypeOK, Steps, Private
    <3> QED
      BY <1>3, <3>1, <3>2 DEF ResumePreflight, Goto, CallTypeOK, TypeInv
  <2>2. CallFits(c)'
    BY <1>1, <1>3, <2>1 DEF ResumePreflight, At, CallFits, Resumes
  <2> QED
    BY <1>3, <2>1, <2>2, LocalsTyped DEF ResumePreflight
<1>4. CASE ResumeFlush(c)
  <2>1. /\ disk' \in [Runs -> [there : BOOLEAN, closed : BOOLEAN, ev : SUBSET Evidence]]
        /\ \A r \in Runs : disk'[r].there = disk[r].there
        /\ Goto(c, "reopen") \/ Goto(c, "leave")
    BY <1>1, <1>4, FlushTyped DEF ResumeFlush, RunTypeOK
  <2>2. RunTypeOK' /\ born' = born /\ used' = used
    BY <1>1, <1>4, <2>1 DEF ResumeFlush, RunTypeOK
  <2>3. CallTypeOK' /\ Private(c) /\ CallFits(c)'
    BY <1>1, <1>4, <2>1, <2>2, GoesTyped DEF ResumeFlush, At, Steps, CallFits, callVars, Resumes
  <2> QED
    BY <1>1, <2>1, <2>2, <2>3 DEF Typed
<1>5. CASE ResumeReopen(c)
  <2>1. saved[c] \in Context /\ saved[c].id \in used
    BY <1>1, <1>5 DEF ResumeReopen, At, CallFits, CallTypeOK
  <2>2. /\ disk' \in [Runs -> [there : BOOLEAN, closed : BOOLEAN, ev : SUBSET Evidence]]
        /\ \A r \in Runs : disk'[r].there = disk[r].there
    <3>1. \/ disk' = disk \/ disk' = [disk EXCEPT ![saved[c].id].closed = FALSE]
      BY <1>5 DEF ResumeReopen
    <3>2. /\ disk \in [Runs -> [there : BOOLEAN, closed : BOOLEAN, ev : SUBSET Evidence]]
          /\ saved[c].id \in Runs
      BY <1>1, <2>1 DEF RunTypeOK
    <3>3. disk' \in [Runs -> [there : BOOLEAN, closed : BOOLEAN, ev : SUBSET Evidence]]
      BY <3>1, <3>2, ZenonT(30)
    <3>4. CASE disk' = [disk EXCEPT ![saved[c].id].closed = FALSE]
      BY <3>2, <3>4
    <3> QED
      BY <3>1, <3>3, <3>4
  <2>3. saved'[c] \in Context /\ saved'[c].id = saved[c].id
        /\ saved' = [saved EXCEPT ![c] = saved'[c]] /\ pc'[c] \in {"swap", "leave"}
    <3>1. \/ saved' = saved \/ saved' = [saved EXCEPT ![c].closed = FALSE]
      BY <1>5 DEF ResumeReopen
    <3>2. pc'[c] \in {"swap", "leave"}
      BY <1>1, <1>5 DEF ResumeReopen, Goto, CallTypeOK
    <3>3. saved \in [Clients -> Context \cup {None}]
      BY <1>1 DEF CallTypeOK
    <3>4. saved' = [saved EXCEPT ![c] = saved'[c]]
      BY <3>1, <3>3
    <3>5. saved'[c] = saved[c] \/ saved'[c] = [saved[c] EXCEPT !.closed = FALSE]
      BY <3>1, <3>3
    <3> QED
      BY <2>1, <3>2, <3>4, <3>5 DEF Context
  <2>4. CallTypeOK' /\ Private(c)
    BY <1>1, <1>5, <2>3 DEF ResumeReopen, Goto, CallTypeOK, Steps, Private
  <2>5. saved'[c] # None
    BY <2>3, ContextAssumption
  <2>6. CallFits(c)'
    BY <1>1, <1>5, <2>1, <2>3, <2>5 DEF ResumeReopen, At, CallFits, Resumes
  <2>7. RunTypeOK' /\ born' = born /\ used' = used
    BY <1>1, <1>5, <2>2 DEF ResumeReopen, RunTypeOK
  <2> QED
    BY <1>1, <2>2, <2>4, <2>6, <2>7 DEF Typed
<1>6. CASE ResumeSwap(c)
  <2>1. saved[c] \in Context /\ saved[c].id \in used
    BY <1>1, <1>6 DEF ResumeSwap, At, CallFits, CallTypeOK
  <2>2. dropped' \subseteq Evidence
    BY <1>1, <1>6 DEF ResumeSwap, RunTypeOK, Context
  <2>3. RunTypeOK' /\ born' = born /\ used' = used /\ disk' = disk
    BY <1>1, <1>6, <2>1, <2>2 DEF ResumeSwap, RunTypeOK
  <2>4. CallTypeOK' /\ Private(c) /\ CallFits(c)'
    BY <1>1, <1>6, <2>3, GoesTyped DEF ResumeSwap, At, Steps, CallFits, callVars
  <2> QED
    BY <1>1, <2>3, <2>4 DEF Typed
<1>7. CASE ResumeDetach(c)
  <2>1. CASE Goto(c, "leave") /\ UNCHANGED <<poolVars, callVars, histVars>>
    <3>1. CallTypeOK' /\ Private(c) /\ CallFits(c)'
      BY <1>1, <1>7, <2>1, GoesTyped DEF ResumeDetach, At, Steps, CallFits, callVars
    <3> QED
      BY <1>7, <2>1, <3>1, LocalsTyped DEF ResumeDetach
  <2>2. ASSUME NEW s \in approved[c], Kill(c, s),
               approved' = [approved EXCEPT ![c] = @ \ {s}],
               UNCHANGED <<pc, op, sess, ticket, saved, todo>>
        PROVE  Typed(c)
    <3>1. RunTypeOK' /\ born' = born /\ used' = used /\ disk' = disk
      BY <1>1, <1>7, <2>2, KillTyped DEF ResumeDetach, At, Resumes, AllOps, RunTypeOK
    <3>2. CallTypeOK' /\ Private(c)
      BY <1>1, <2>2 DEF CallTypeOK, Private
    <3>3. CallFits(c)'
      BY <1>1, <2>2, <3>1 DEF CallFits
    <3> QED
      BY <1>1, <3>1, <3>2, <3>3 DEF Typed
  <2> QED
    BY <1>7, <2>1, <2>2 DEF ResumeDetach
<1> QED
  BY <1>2, <1>3, <1>4, <1>5, <1>6, <1>7

\* Every step of a call pays what it owes the types.
LEMMA CallsTyped ==
  ASSUME TypeInv, NEW c \in Clients, CallBegins(c) \/ CallStep(c) PROVE Typed(c)
  BY BeginsTyped, DrivesTyped, SessionCallsTyped, ScenarioTyped, NewAndCloseTyped, ResumeTyped
     DEF CallStep

\* Every step of the server keeps the types.
LEMMA TypeNext == TypeInv /\ [Next]_vars => TypeInv'
<1> SUFFICES ASSUME TypeInv, [Next]_vars PROVE TypeInv'
  OBVIOUS
<1> USE DEF runVars, poolVars, callVars, histVars
<1>1. CASE \E c \in Clients : CallBegins(c) \/ CallStep(c)
  BY <1>1, CallsTyped, TypedKeeps
<1>2. CASE GateGrants \/ UNCHANGED vars
  <2>1. UNCHANGED <<runVars, poolVars, pc, callVars, histVars>>
    BY <1>2 DEF GateGrants, vars
  <2> QED
    BY <2>1 DEF TypeInv, RunTypeOK, CallTypeOK, CallFits
<1>3. CASE \E s \in Sessions : LeaseExpires(s)
  BY <1>3 DEF LeaseExpires, TypeInv, RunTypeOK, CallTypeOK, CallFits
<1>4. CASE Persist
  <2>1. /\ run' \in Context /\ run'.id = run.id
        /\ disk' \in [Runs -> [there : BOOLEAN, closed : BOOLEAN, ev : SUBSET Evidence]]
        /\ \A r \in Runs : disk'[r].there => disk[r].there \/ r = run.id
    <3>1. CASE run' = run /\ \E ok \in BOOLEAN : Flushed(run, ok)
      BY <3>1, FlushTyped DEF TypeInv, RunTypeOK
    <3>2. CASE /\ run' = [run EXCEPT !.dir = TRUE]
               /\ disk' = [disk EXCEPT ![run.id] =
                       [there |-> TRUE, closed |-> run.closed, ev |-> run.mem]]
      BY <3>2 DEF TypeInv, RunTypeOK, Context
    <3> QED
      BY <1>4, <3>1, <3>2 DEF Persist
  <2>2. UNCHANGED <<used, poolVars, pc, callVars, histVars>>
    BY <1>4 DEF Persist
  <2> QED
    BY <2>1, <2>2 DEF TypeInv, RunTypeOK, CallTypeOK, CallFits
<1> QED
  BY <1>1, <1>2, <1>3, <1>4 DEF Next

\* A server nobody has called has its types (TuiLabServer::new).
LEMMA TypeInit == Init => TypeInv
  BY ServerAssumption DEF Init, Fresh, TypeInv, RunTypeOK, CallTypeOK, CallFits, Context, Steps

\* The state of the server has its type: sessions are allocated before they
\* are live, the current run before it is current, the gate's counts stay in
\* their bounds (TuiLabServer and its handlers).
THEOREM ServerTypesCorrect == Safety => []TypeOK
<1>1. TypeInv => RunTypeOK /\ CallTypeOK
  BY DEF TypeInv
<1>2. GateTypeOK /\ RunTypeOK /\ CallTypeOK => TypeOK
  BY DEF TypeOK
<1> QED
  BY <1>1, <1>2, TypeInit, TypeNext, ServerRefinesGate, GateTypesCorrect, PTL DEF Safety

-----------------------------------------------------------------------------
(* Sessions and transitions.                                               *)

\* What a call holds while it deals with sessions: a launch that is not bound
\* yet has a shared lease, a transition the exclusive one, and what it has
\* looked at and means to kill is not under a human lease.
Holds(c) ==
  /\ pc[c] = "bind" => readers[c] > 0
  /\ op[c] \in Transitions /\ pc[c] \notin {"idle", "queue"} => writer = c
  /\ op[c] = "kill" /\ pc[c] = "kill" => sess[c] \notin live \cap leased
  /\ pc[c] \in {"idle", "queue"} \/ op[c] \notin Resumes => approved[c] = {}
  /\ op[c] \in Resumes /\ pc[c] # "leave" => approved[c] \cap live \cap leased = {}

\* SessionsHeld alone is not inductive: an unbound session is one whose launch
\* holds the gate, so no transition does; and a session stays as a transition
\* found it because whoever leases or launches holds the gate as well.
HeldInv ==
  /\ \A c \in Clients : Holds(c)
  /\ \A s \in live : owners[s] = None => \E c \in Clients : pc[c] = "bind" /\ sess[c] = s
  /\ harmed \cap Transitions = {}

\* What a step of call c owes the sessions.
Tidy(c) ==
  /\ Holds(c)'
  /\ live' \cap leased' \subseteq live \cap leased \/ readers[c] > 0
  /\ harmed' \cap Transitions \subseteq harmed
  /\ \A s \in live' : owners'[s] = None =>
       \/ pc'[c] = "bind" /\ sess'[c] = s
       \/ s \in live /\ owners[s] = None /\ ~(pc[c] = "bind" /\ sess[c] = s)

\* A step that pays it keeps the invariant.
LEMMA TidyKeeps ==
  ASSUME GateInv, HeldInv, NEW c \in Clients, Private(c), GateMove(c), Tidy(c)
  PROVE  HeldInv'
<1>1. ASSUME NEW d \in Clients \ {c} PROVE Holds(d)'
  <2>1. /\ Holds(d) /\ readers'[d] = readers[d] /\ (writer' = d <=> writer = d)
        /\ pc'[d] = pc[d] /\ op'[d] = op[d] /\ sess'[d] = sess[d] /\ approved'[d] = approved[d]
    BY OthersKeepLeases DEF HeldInv, Private
  <2>2. CASE live' \cap leased' \subseteq live \cap leased
    BY <2>1, <2>2 DEF Holds
  <2>3. CASE readers[c] > 0
    <3>1. writer # d
      BY <2>3, GateAssumption DEF GateInv, Exclusion
    <3>2. op[d] \in Transitions => pc[d] \in {"idle", "queue"}
      BY <2>1, <3>1 DEF Holds
    <3> QED
      BY <2>1, <3>2 DEF Holds, Transitions, Resumes
  <2> QED
    BY <2>2, <2>3 DEF Tidy
<1>2. ASSUME NEW s \in live', owners'[s] = None
      PROVE  \E d \in Clients : pc'[d] = "bind" /\ sess'[d] = s
  BY <1>2 DEF Tidy, HeldInv, Private
<1> QED
  BY <1>1, <1>2 DEF Tidy, HeldInv

\* A call that is no transition holds nothing a transition has to.
LEMMA OrdinaryHolds ==
  ASSUME NEW c \in Clients, op'[c] \notin Transitions, approved'[c] = {},
         pc'[c] = "bind" => readers'[c] > 0
  PROVE  Holds(c)'
  BY DEF Holds, Transitions, Resumes

\* A step that leaves the sessions and the record of harm alone, and is not
\* the binding of a launch.
LEMMA QuietTidy ==
  ASSUME NEW c \in Clients, Holds(c)', pc[c] # "bind", UNCHANGED <<live, owners, leased, harmed>>
  PROVE  Tidy(c)
  BY DEF Tidy

\* The calls that begin, and the steps of driving calls.
LEMMA DrivesTidy ==
  ASSUME TypeInv, HeldInv, NEW c \in Clients,
         \/ CallBegins(c)
         \/ Admit(c) \/ AdmitRefused(c) \/ Return(c) \/ JobDrive(c) \/ Commit(c)
         \/ JobLease(c) \/ JobVerify(c) \/ VerifyRecord(c)
  PROVE  Tidy(c)
<1> USE DEF poolVars, histVars
<1>1. CallTypeOK /\ Holds(c)
  BY DEF TypeInv, HeldInv
<1>2. CASE CallBegins(c)
  <2>1. ASSUME NEW s \in Sessions,
               DriveBegin(c, s) \/ StartBegin(c, s) \/ StopBegin(c, s)
                 \/ ScenarioBegin(c, s) \/ VerifyBegin(c, s)
        PROVE  Tidy(c)
    <3>1. /\ pc[c] = "idle" /\ pc'[c] # "bind" /\ approved' = approved
          /\ op'[c] \notin Transitions /\ UNCHANGED <<live, owners, leased, harmed>>
      BY <1>1, <2>1 DEF DriveBegin, StartBegin, StopBegin, ScenarioBegin, VerifyBegin, Begin,
                        Goto, CallTypeOK, Transitions
    <3> QED
      BY <1>1, <3>1, OrdinaryHolds, QuietTidy DEF Holds
  <2>2. ASSUME NEW o \in Transitions, TransitionBegin(c, o) PROVE Tidy(c)
    <3>1. /\ pc[c] = "idle" /\ pc'[c] = "queue" /\ approved' = approved
          /\ UNCHANGED <<live, owners, leased, harmed>>
      BY <1>1, <2>2 DEF TransitionBegin, Begin, Goto, CallTypeOK
    <3>2. Holds(c)'
      BY <1>1, <3>1 DEF Holds
    <3> QED
      BY <3>1, <3>2, QuietTidy
  <2> QED
    BY <1>2, <2>1, <2>2 DEF CallBegins
<1>3. CASE \/ Admit(c) \/ AdmitRefused(c) \/ Return(c) \/ JobDrive(c) \/ Commit(c)
           \/ JobLease(c) \/ JobVerify(c) \/ VerifyRecord(c)
  <2>1. /\ pc[c] # "bind" /\ pc'[c] # "bind" /\ (op'[c] = op[c] \/ op'[c] = "none")
        /\ approved'[c] \in {approved[c], {}}
        /\ UNCHANGED <<live, owners, harmed>>
    <3> USE DEF At, Goto, Done, callVars, CallTypeOK, ReturnShared
    <3>1. CASE Admit(c) \/ AdmitRefused(c) \/ Return(c) \/ Commit(c) \/ JobLease(c)
      BY <1>1, <3>1 DEF Admit, AdmitRefused, Return, Commit, JobLease
    <3>2. CASE JobDrive(c) \/ JobVerify(c) \/ VerifyRecord(c)
      BY <1>1, <3>2 DEF JobDrive, JobVerify, VerifyRecord
    <3> QED
      BY <1>3, <3>1, <3>2
  <2>2. op[c] \in {"act", "lease", "verify"} \/ pc[c] = "return"
    BY <1>3 DEF Admit, AdmitRefused, Return, JobDrive, Commit, JobLease, JobVerify, VerifyRecord, At
  <2>3. op'[c] \notin Transitions /\ approved'[c] = {}
    <3>1. CASE Return(c)
      BY <1>1, <3>1 DEF Return, ReturnShared, Done, CallTypeOK, Transitions
    <3>2. CASE op[c] \in {"act", "lease", "verify"}
      BY <1>1, <2>1, <3>2 DEF Holds, Transitions, Resumes
    <3> QED
      BY <1>3, <3>1, <3>2 DEF Admit, AdmitRefused, JobDrive, Commit, JobLease, JobVerify,
                              VerifyRecord, At
  <2>4. Holds(c)'
    BY <2>1, <2>3, OrdinaryHolds
  <2>5. CASE JobLease(c)
    <3>1. readers[c] > 0
      BY <2>5 DEF JobLease, ReturnShared, LeaveShared
    <3> QED
      BY <2>1, <2>4, <3>1 DEF Tidy
  <2>6. CASE leased' = leased
    BY <2>1, <2>4, <2>6, QuietTidy
  <2> QED
    BY <1>3, <2>5, <2>6 DEF Admit, AdmitRefused, Return, JobDrive, Commit, JobVerify, VerifyRecord
<1> QED
  BY <1>2, <1>3

\* A stopped session is out of the pool before it is out of the owner map.
LEMMA KillTidies ==
  ASSUME TypeInv, NEW c \in Clients, NEW s, Kill(c, s)
  PROVE  /\ live' \cap leased' \subseteq live \cap leased
         /\ \A x \in live' : owners'[x] = None => x \in live /\ owners[x] = None
         /\ harmed' = IF s \in live \cap leased THEN harmed \cup {op[c]} ELSE harmed
  BY DEF Kill, TypeInv, RunTypeOK

\* The steps of start, stop and restart.
LEMMA SessionCallsTidy ==
  ASSUME TypeInv, HeldInv, NEW c \in Clients,
         \/ StartLaunch(c) \/ StartBind(c)
         \/ StopLeaseCheck(c) \/ StopOwnerCheck(c) \/ StopKill(c)
         \/ RestartKill(c) \/ RestartReadback(c)
  PROVE  Tidy(c)
<1> USE DEF poolVars, histVars, callVars
<1>1. CallTypeOK /\ RunTypeOK /\ Holds(c) /\ run.id \in Runs
  BY DEF TypeInv, RunTypeOK, HeldInv
<1>2. op[c] \in {"start", "stop", "restart"}
  BY DEF StartLaunch, StartBind, StopLeaseCheck, StopOwnerCheck, StopKill, RestartKill,
         RestartReadback, At
<1>3. approved[c] = {} /\ op[c] \notin Transitions
  BY <1>1, <1>2 DEF Holds, Transitions, Resumes
<1>4. ASSUME op' = op, approved' = approved, pc'[c] = "bind" => readers'[c] > 0
      PROVE  Holds(c)'
  BY <1>3, <1>4, OrdinaryHolds
<1>5. ASSUME Done(c) PROVE Holds(c)'
  BY <1>1, <1>5, OrdinaryHolds DEF Done, CallTypeOK, Transitions
<1>6. CASE StartLaunch(c)
  <2>1. /\ pc[c] = "queue" /\ readers[c] > 0 /\ readers' = readers
        /\ op' = op /\ approved' = approved /\ sess' = sess
    BY <1>6 DEF StartLaunch, At, EnterShared
  <2>2. Holds(c)'
    BY <1>4, <2>1
  <2>3. \/ live' = live \cup {sess[c]} /\ pc'[c] = "bind"
        \/ live' = live
    BY <1>1, <1>6 DEF StartLaunch, Goto, CallTypeOK
  <2> QED
    BY <1>6, <2>1, <2>2, <2>3 DEF StartLaunch, Tidy
<1>7. CASE StartBind(c)
  <2>1. pc'[c] = "return" /\ op' = op /\ approved' = approved
    BY <1>1, <1>7 DEF StartBind, Goto, CallTypeOK
  <2>2. Holds(c)'
    BY <1>4, <2>1
  <2>3. \A s \in live : owners'[s] = None => owners[s] = None /\ s # sess[c]
    BY <1>1, <1>7, ServerAssumption DEF StartBind, RunTypeOK
  <2> QED
    BY <1>7, <2>2, <2>3 DEF StartBind, Tidy
<1>8. CASE StopLeaseCheck(c) \/ StopOwnerCheck(c) \/ RestartReadback(c)
  <2>1. /\ pc[c] # "bind" /\ UNCHANGED <<live, owners, leased, harmed>>
        /\ Done(c) \/ (op' = op /\ approved' = approved /\ pc'[c] # "bind")
    BY <1>1, <1>8 DEF StopLeaseCheck, StopOwnerCheck, RestartReadback, At, Goto, CallTypeOK
  <2> QED
    BY <1>4, <1>5, <2>1, QuietTidy
<1>9. CASE StopKill(c)
  <2>1. Done(c) /\ pc[c] # "bind" /\ Kill(c, sess[c])
    BY <1>9 DEF StopKill, At
  <2> QED
    BY <1>3, <1>5, <2>1, KillTidies DEF Tidy
<1>10. CASE RestartKill(c)
  <2>1. /\ pc[c] # "bind" /\ UNCHANGED <<live, owners, leased>>
        /\ Done(c) \/ (op' = op /\ approved' = approved /\ pc'[c] # "bind")
        /\ harmed' \in {harmed, harmed \cup {"restart"}}
    BY <1>1, <1>10 DEF RestartKill, At, Goto, CallTypeOK
  <2>2. Holds(c)'
    BY <1>4, <1>5, <2>1
  <2> QED
    BY <2>1, <2>2 DEF Tidy, Transitions
<1> QED
  BY <1>6, <1>7, <1>8, <1>9, <1>10

\* The steps of a scenario run.
LEMMA ScenarioTidy ==
  ASSUME TypeInv, HeldInv, NEW c \in Clients,
         \/ ScenarioLaunch(c) \/ ScenarioBind(c) \/ ScenarioReplay(c)
         \/ ScenarioCommit(c) \/ ScenarioUnnest(c) \/ ScenarioCleanup(c)
  PROVE  Tidy(c)
<1> USE DEF poolVars, histVars, callVars
<1>1. CallTypeOK /\ RunTypeOK /\ Holds(c) /\ run.id \in Runs
  BY DEF TypeInv, RunTypeOK, HeldInv
<1>2. op[c] = "scenario" /\ op' = op /\ approved' = approved
  BY DEF ScenarioLaunch, ScenarioBind, ScenarioReplay, ScenarioCommit, ScenarioUnnest,
         ScenarioCleanup, At
<1>3. pc'[c] = "bind" => readers'[c] > 0
  <2>1. CASE ScenarioLaunch(c)
    BY <2>1 DEF ScenarioLaunch, EnterShared
  <2>2. CASE ~ScenarioLaunch(c)
    BY <1>1, <2>2 DEF ScenarioBind, ScenarioReplay, ScenarioCommit, ScenarioUnnest,
                      ScenarioCleanup, Goto, CallTypeOK
  <2> QED
    BY <2>1, <2>2
<1>4. Holds(c)'
  BY <1>1, <1>2, <1>3, OrdinaryHolds DEF Holds, Transitions, Resumes
<1>5. CASE ScenarioLaunch(c)
  <2>1. pc[c] = "queue" /\ readers[c] > 0 /\ sess' = sess
    BY <1>5 DEF ScenarioLaunch, At, EnterShared
  <2>2. \/ live' = live \cup {sess[c]} /\ pc'[c] = "bind"
        \/ live' = live
    BY <1>1, <1>5 DEF ScenarioLaunch, Goto, CallTypeOK
  <2> QED
    BY <1>4, <1>5, <2>1, <2>2 DEF ScenarioLaunch, Tidy
<1>6. CASE ScenarioBind(c)
  <2>1. \A s \in live : owners'[s] = None => owners[s] = None /\ s # sess[c]
    BY <1>1, <1>6, ServerAssumption DEF ScenarioBind, RunTypeOK
  <2> QED
    BY <1>4, <1>6, <2>1 DEF ScenarioBind, Tidy
<1>7. CASE ScenarioReplay(c) \/ ScenarioCommit(c) \/ ScenarioUnnest(c)
  BY <1>4, <1>7, QuietTidy DEF ScenarioReplay, ScenarioCommit, ScenarioUnnest, At
<1>8. CASE ScenarioCleanup(c)
  <2>1. harmed' \in {harmed, harmed \cup {"scenario"}} /\ pc[c] = "kill"
    BY <1>8 DEF ScenarioCleanup, At
  <2> QED
    BY <1>4, <1>8, <2>1 DEF ScenarioCleanup, Tidy, Transitions
<1> QED
  BY <1>5, <1>6, <1>7, <1>8

\* The steps of new and close.
LEMMA NewAndCloseTidy ==
  ASSUME TypeInv, HeldInv, NEW c \in Clients,
         \/ NewCheck(c) \/ NewSwap(c) \/ NewFlush(c)
         \/ CloseEnter(c) \/ CloseSeal(c) \/ CloseLeaseCheck(c) \/ CloseKill(c) \/ Leave(c)
  PROVE  Tidy(c)
<1> USE DEF poolVars, histVars, callVars
<1>1. CallTypeOK /\ RunTypeOK /\ Holds(c)
  BY DEF TypeInv, HeldInv
<1>2. CASE Leave(c)
  <2>1. Done(c) /\ pc[c] # "bind" /\ UNCHANGED <<live, owners, leased, harmed>>
    BY <1>2 DEF Leave, ReturnExclusive
  <2>2. Holds(c)'
    BY <1>1, <2>1, OrdinaryHolds DEF Done, CallTypeOK, Transitions
  <2> QED
    BY <2>1, <2>2, QuietTidy
<1>3. CASE ~Leave(c)
  <2>1. /\ op[c] \in {"new", "discard", "close", "kill"} /\ op' = op /\ approved' = approved
        /\ pc[c] \notin {"idle", "bind"} /\ pc'[c] \notin {"idle", "queue", "bind"}
    <3>1. CASE NewCheck(c) \/ NewSwap(c) \/ NewFlush(c) \/ CloseEnter(c)
      BY <1>1, <3>1 DEF NewCheck, NewSwap, NewFlush, CloseEnter, At, Goto, CallTypeOK
    <3>2. CASE CloseSeal(c) \/ CloseLeaseCheck(c) \/ CloseKill(c)
      BY <1>1, <3>2 DEF CloseSeal, CloseLeaseCheck, CloseKill, At, Goto, CallTypeOK
    <3> QED
      BY <1>3, <3>1, <3>2
  <2>2. writer = c /\ writer' = c
    <3>1. CASE NewCheck(c) \/ CloseEnter(c)
      BY <3>1 DEF NewCheck, CloseEnter, EnterExclusive
    <3>2. CASE NewSwap(c) \/ NewFlush(c) \/ CloseSeal(c) \/ CloseLeaseCheck(c) \/ CloseKill(c)
      BY <1>1, <3>2 DEF NewSwap, NewFlush, CloseSeal, CloseLeaseCheck, CloseKill, At, gateVars,
                        Holds, Transitions
    <3> QED
      BY <1>3, <3>1, <3>2
  <2>3. approved[c] = {} /\ op[c] \notin Resumes
    BY <1>1, <2>1 DEF Holds, Resumes
  <2>4. ASSUME ~(pc'[c] = "kill" /\ op[c] = "kill" /\ sess'[c] \in live' \cap leased')
        PROVE  Holds(c)'
    BY <2>1, <2>2, <2>3, <2>4 DEF Holds
  <2>5. CASE NewCheck(c) \/ NewSwap(c) \/ NewFlush(c) \/ CloseEnter(c) \/ CloseSeal(c)
    <3>1. pc'[c] # "kill" /\ UNCHANGED <<live, owners, leased, harmed>>
      BY <1>1, <2>5 DEF NewCheck, NewSwap, NewFlush, CloseEnter, CloseSeal, Goto, CallTypeOK
    <3> QED
      BY <2>1, <2>4, <3>1, QuietTidy
  <2>6. CASE CloseLeaseCheck(c)
    <3>1. UNCHANGED <<live, owners, leased, harmed>>
      BY <2>6 DEF CloseLeaseCheck
    <3>2. pc'[c] = "kill" => sess'[c] \notin live \cap leased
      BY <1>1, <2>6 DEF CloseLeaseCheck, Goto, CallTypeOK
    <3> QED
      BY <2>1, <2>4, <3>1, <3>2, QuietTidy
  <2>7. CASE CloseKill(c)
    <3>1. pc[c] = "kill" /\ op[c] = "kill" /\ pc'[c] = "leaseCheck" /\ Kill(c, sess[c])
      BY <1>1, <2>7 DEF CloseKill, At, Goto, CallTypeOK
    <3>2. harmed' = harmed
      BY <1>1, <3>1, KillTidies DEF Holds
    <3> QED
      BY <2>4, <3>1, <3>2, KillTidies DEF Tidy
  <2> QED
    BY <1>3, <2>5, <2>6, <2>7
<1> QED
  BY <1>2, <1>3

\* The steps of resume.
LEMMA ResumeTidy ==
  ASSUME TypeInv, HeldInv, NEW c \in Clients,
         \/ ResumeRestore(c) \/ ResumePreflight(c) \/ ResumeFlush(c)
         \/ ResumeReopen(c) \/ ResumeSwap(c) \/ ResumeDetach(c)
  PROVE  Tidy(c)
<1> USE DEF poolVars, histVars, callVars
<1>1. CallTypeOK /\ RunTypeOK /\ Holds(c)
  BY DEF TypeInv, HeldInv
<1>2. /\ op[c] \in Resumes /\ op' = op
      /\ pc[c] \notin {"idle", "bind", "leave"} /\ pc'[c] \notin {"idle", "queue", "bind", "kill"}
  <2>1. CASE ResumeRestore(c) \/ ResumePreflight(c) \/ ResumeFlush(c)
    BY <1>1, <2>1 DEF ResumeRestore, ResumePreflight, ResumeFlush, At, Goto, CallTypeOK
  <2>2. CASE ResumeReopen(c) \/ ResumeSwap(c) \/ ResumeDetach(c)
    BY <1>1, <2>2 DEF ResumeReopen, ResumeSwap, ResumeDetach, At, Goto, CallTypeOK
  <2> QED
    BY <2>1, <2>2
<1>3. writer = c /\ writer' = c
  <2>1. CASE ResumeRestore(c)
    BY <2>1 DEF ResumeRestore, EnterExclusive
  <2>2. CASE ~ResumeRestore(c)
    BY <1>1, <1>2, <2>2 DEF ResumePreflight, ResumeFlush, ResumeReopen, ResumeSwap, ResumeDetach,
                            At, gateVars, Holds, Transitions, Resumes
  <2> QED
    BY <2>1, <2>2
<1>4. ASSUME approved'[c] \cap live' \cap leased' = {} PROVE Holds(c)'
  BY <1>2, <1>3, <1>4 DEF Holds, Resumes
<1>5. approved[c] \cap live \cap leased = {}
  BY <1>1, <1>2 DEF Holds
<1>6. CASE ResumeRestore(c) \/ ResumeFlush(c) \/ ResumeReopen(c) \/ ResumeSwap(c)
  <2>1. UNCHANGED <<approved, live, owners, leased, harmed>>
    BY <1>6 DEF ResumeRestore, ResumeFlush, ResumeReopen, ResumeSwap
  <2> QED
    BY <1>2, <1>4, <1>5, <2>1, QuietTidy
<1>7. CASE ResumePreflight(c)
  <2>1. UNCHANGED <<live, owners, leased, harmed>>
    BY <1>7 DEF ResumePreflight
  <2>2. approved'[c] \cap live \cap leased = {}
    <3>1. CASE approved' = approved
      BY <1>5, <3>1
    <3>2. ASSUME NEW s \in todo[c], s \notin live \cap leased,
                 approved' = [approved EXCEPT ![c] = @ \cup {s}]
          PROVE  approved'[c] \cap live \cap leased = {}
      BY <1>1, <1>5, <3>2 DEF CallTypeOK
    <3> QED
      BY <1>7, <3>1, <3>2 DEF ResumePreflight
  <2> QED
    BY <1>2, <1>4, <2>1, <2>2, QuietTidy
<1>8. CASE ResumeDetach(c)
  <2>1. CASE UNCHANGED <<poolVars, callVars, histVars>>
    BY <1>2, <1>4, <1>5, <2>1, QuietTidy
  <2>2. ASSUME NEW s \in approved[c], Kill(c, s), approved' = [approved EXCEPT ![c] = @ \ {s}]
        PROVE  Tidy(c)
    <3>1. harmed' = harmed /\ live' \cap leased' \subseteq live \cap leased
      BY <1>5, <2>2, KillTidies
    <3>2. Holds(c)'
      BY <1>1, <1>4, <1>5, <2>2, <3>1 DEF CallTypeOK
    <3> QED
      BY <1>2, <2>2, <3>1, <3>2, KillTidies DEF Tidy
  <2> QED
    BY <1>8, <2>1, <2>2 DEF ResumeDetach
<1> QED
  BY <1>6, <1>7, <1>8

\* Every step of the server keeps the invariant.
LEMMA HeldNext == GateInv /\ TypeInv /\ HeldInv /\ [Next]_vars => HeldInv'
<1> SUFFICES ASSUME GateInv, TypeInv, HeldInv, [Next]_vars PROVE HeldInv'
  OBVIOUS
<1> USE DEF runVars, poolVars, callVars, histVars
<1>1. ASSUME NEW c \in Clients, CallBegins(c) \/ CallStep(c) PROVE HeldInv'
  <2>1. Tidy(c)
    BY <1>1, DrivesTidy, SessionCallsTidy, ScenarioTidy, NewAndCloseTidy, ResumeTidy DEF CallStep
  <2>2. Private(c) /\ GateMove(c)
    BY <1>1, CallsTyped, CallMovesGate DEF Typed
  <2> QED
    BY <2>1, <2>2, TidyKeeps
<1>2. CASE GateGrants
  <2>1. UNCHANGED <<live, owners, leased, pc, op, sess, approved, harmed>>
    BY <1>2 DEF GateGrants
  <2>2. \A c \in Clients : (readers[c] > 0 => readers'[c] > 0) /\ (writer = c => writer' = c)
    BY <1>2, GateAssumption DEF GateGrants, Grant, GateInv, GateTypes
  <2> QED
    BY <2>1, <2>2 DEF HeldInv, Holds
<1>3. CASE \E s \in Sessions : LeaseExpires(s)
  <2>1. /\ UNCHANGED <<live, owners, pc, op, sess, approved, harmed, readers, writer>>
        /\ leased' \subseteq leased
    BY <1>3 DEF LeaseExpires, gateVars
  <2> QED
    BY <2>1 DEF HeldInv, Holds
<1>4. CASE Persist \/ UNCHANGED vars
  <2>1. UNCHANGED <<live, owners, leased, pc, op, sess, approved, harmed, readers, writer>>
    BY <1>4 DEF Persist, vars, gateVars
  <2> QED
    BY <2>1 DEF HeldInv, Holds
<1> QED
  BY <1>1, <1>2, <1>3, <1>4 DEF Next

\* A server nobody has called has no sessions (TuiLabServer::new).
LEMMA HeldInit == Init => HeldInv
  BY DEF Init, HeldInv, Holds, Transitions

\* No session is without a run while a transition is at work, so close and
\* resume see all of theirs; and neither kills a process a human has on lease
\* (start's one lease, close's and resume's look at the lease first).
THEOREM ServerSessionsHeld == Safety => []SessionsHeld
<1>1. GateInv /\ HeldInv => SessionsHeld
  BY GateAssumption DEF HeldInv, Holds, GateInv, GateTypes, Exclusion, SessionsHeld,
     SessionsBoundInTransition, TransitionsRespectLeases
<1>2. Init => GateInv
  BY GateInvInit DEF Init
<1>3. GateInv /\ [Next]_vars => GateInv'
  BY StepRefinesGate, GateInvNext
<1> QED
  BY <1>1, <1>2, <1>3, TypeInit, TypeNext, HeldInit, HeldNext, PTL DEF Safety

-----------------------------------------------------------------------------
(* Evidence and the runs on disk.                                          *)

\* new has replaced the run it still has to flush, and holds it in a local.
Swapped(c) == pc[c] = "flush" /\ op[c] \in {"new", "discard"}

\* resume holds the run it is about to make live in a local.
Restoring(c) == pc[c] \in {"preflight", "flush", "reopen", "swap"} /\ op[c] \in Resumes

\* The steps at which a transition holds or prepares another context.
Between == {"swap", "flush", "preflight", "reopen"}

\* Whoever is there holds the exclusive lease, so nobody else is.
LEMMA OneBetween ==
  ASSUME CallTypeOK, HeldInv, NEW c \in Clients, NEW d \in Clients, pc[d] \in Between,
         op[d] \in Transitions, writer = c
  PROVE  c = d
  BY DEF HeldInv, Holds, Between

\* What a flush writes: the evidence of its context, under its name.
LEMMA FlushFiles ==
  ASSUME RunTypeOK, NEW x \in Context, NEW ok \in BOOLEAN, Flushed(x, ok)
  PROVE  /\ \A r \in Runs \ {x.id} : disk'[r] = disk[r]
         /\ disk[x.id].ev \subseteq disk'[x.id].ev
         /\ disk'[x.id].ev \subseteq disk[x.id].ev \cup x.mem
         /\ ok /\ x.dir => x.mem \subseteq disk'[x.id].ev
<1>1. x.id \in Runs /\ x.mem \subseteq Evidence
  BY DEF Context
<1>2. disk \in [Runs -> [there : BOOLEAN, closed : BOOLEAN, ev : SUBSET Evidence]]
  BY DEF RunTypeOK
<1>3. CASE ~x.dir
  BY <1>3 DEF Flushed
<1>4. CASE x.dir
  <2>1. PICK part \in (IF ok THEN {x.mem} ELSE {{}, x.mem}) :
          disk' = [disk EXCEPT ![x.id].ev = @ \cup part]
    BY <1>4 DEF Flushed
  <2>2. part \subseteq x.mem /\ (ok => part = x.mem)
    BY <2>1
  <2>3. disk'[x.id].ev = disk[x.id].ev \cup part
    BY <1>1, <1>2, <2>1
  <2> QED
    BY <1>1, <1>2, <2>1, <2>2, <2>3
<1> QED
  BY <1>3, <1>4

\* The steps of a call that are not a transition's work on a context: they
\* leave the directories alone, and change the run only by a record they were
\* admitted for, or by a verification's.
LEMMA QuietCalls ==
  ASSUME GateInv, AdmissionInv, TypeInv, NEW c \in Clients,
         \/ CallBegins(c)
         \/ Admit(c) \/ AdmitRefused(c) \/ Return(c) \/ JobDrive(c) \/ Commit(c)
         \/ JobLease(c) \/ JobVerify(c) \/ VerifyRecord(c)
         \/ StartLaunch(c) \/ StartBind(c)
         \/ StopLeaseCheck(c) \/ StopOwnerCheck(c) \/ StopKill(c)
         \/ RestartKill(c) \/ RestartReadback(c)
         \/ ScenarioLaunch(c) \/ ScenarioBind(c) \/ ScenarioReplay(c)
         \/ ScenarioCommit(c) \/ ScenarioUnnest(c) \/ ScenarioCleanup(c)
         \/ CloseEnter(c) \/ CloseLeaseCheck(c) \/ CloseKill(c)
         \/ ResumeDetach(c) \/ Leave(c)
  PROVE  /\ UNCHANGED <<used, disk, discarded, dropped>>
         /\ pc[c] \notin Between /\ pc'[c] \notin Between
         /\ saved'[c] \in {saved[c], None}
         /\ op'[c] \in {op[c], "none"} \cup Ops
         /\ \/ UNCHANGED <<run, committed>>
            \/ Accept(c) /\ op[c] = "verify"
            \/ Accept(c) /\ readers[c] > 0 /\ ticket[c] = run.id
<1> USE DEF runVars, histVars, callVars, Between
<1>1. CallTypeOK /\ Standing(c)
  BY DEF TypeInv, AdmissionInv
<1>2. CASE CallBegins(c)
  <2> USE DEF Begin, Goto, CallTypeOK
  <2>1. ASSUME NEW s \in Sessions,
               DriveBegin(c, s) \/ StartBegin(c, s) \/ StopBegin(c, s) \/ ScenarioBegin(c, s)
        PROVE  /\ UNCHANGED <<run, committed, used, disk, discarded, dropped, saved>>
               /\ pc[c] = "idle" /\ pc'[c] \notin Between /\ op'[c] \in Ops
    BY <1>1, <2>1 DEF DriveBegin, StartBegin, StopBegin, ScenarioBegin
  <2>2. ASSUME NEW s \in Sessions, VerifyBegin(c, s)
        PROVE  /\ UNCHANGED <<run, committed, used, disk, discarded, dropped, saved>>
               /\ pc[c] = "idle" /\ pc'[c] \notin Between /\ op'[c] \in Ops
    BY <1>1, <2>2 DEF VerifyBegin
  <2>3. ASSUME NEW o \in Transitions, TransitionBegin(c, o)
        PROVE  /\ UNCHANGED <<run, committed, used, disk, discarded, dropped, saved>>
               /\ pc[c] = "idle" /\ pc'[c] \notin Between /\ op'[c] \in Ops
    BY <1>1, <2>3 DEF TransitionBegin
  <2> QED
    BY <1>2, <2>1, <2>2, <2>3 DEF CallBegins
<1>3. CASE Admit(c) \/ AdmitRefused(c) \/ StartLaunch(c) \/ StartBind(c) \/ RestartReadback(c)
  BY <1>1, <1>3 DEF Admit, AdmitRefused, StartLaunch, StartBind, RestartReadback, At, Goto, CallTypeOK
<1>4. CASE Return(c) \/ JobDrive(c) \/ JobLease(c) \/ JobVerify(c)
  BY <1>1, <1>4 DEF Return, JobDrive, JobLease, JobVerify, ReturnShared, Done, At, Goto, CallTypeOK
<1>5. CASE Commit(c)
  <2>1. readers[c] > 0 /\ Done(c)
    BY <1>5 DEF Commit, ReturnShared, LeaveShared
  <2>2. UNCHANGED <<run, committed>> \/ (Accept(c) /\ ticket[c] = run.id)
    BY <1>5 DEF Commit
  <2> QED
    BY <1>1, <1>5, <2>1, <2>2 DEF Commit, Done, At, CallTypeOK
<1>6. CASE VerifyRecord(c)
  <2>1. Accept(c) /\ op[c] = "verify"
    BY <1>6 DEF VerifyRecord, At
  <2> QED
    BY <1>1, <1>6, <2>1 DEF VerifyRecord, Done, At, CallTypeOK
<1>7. CASE StopLeaseCheck(c) \/ StopOwnerCheck(c) \/ StopKill(c) \/ RestartKill(c)
  BY <1>1, <1>7 DEF StopLeaseCheck, StopOwnerCheck, StopKill, RestartKill, Kill, Done, At, Goto, CallTypeOK
<1>8. CASE ScenarioLaunch(c) \/ ScenarioBind(c) \/ ScenarioReplay(c)
  BY <1>1, <1>8 DEF ScenarioLaunch, ScenarioBind, ScenarioReplay, At, Goto, CallTypeOK
<1>9. CASE ScenarioCommit(c)
  <2>1. readers[c] > 0 /\ ticket[c] = run.id
    BY <1>1, <1>9 DEF ScenarioCommit, At, Standing, Driving
  <2>2. UNCHANGED <<run, committed>> \/ Accept(c)
    BY <1>9 DEF ScenarioCommit
  <2> QED
    BY <1>1, <1>9, <2>1, <2>2 DEF ScenarioCommit, At, Goto, CallTypeOK
<1>10. CASE ScenarioUnnest(c) \/ ScenarioCleanup(c)
  BY <1>1, <1>10 DEF ScenarioUnnest, ScenarioCleanup, At, Goto, CallTypeOK
<1>11. CASE CloseEnter(c) \/ CloseLeaseCheck(c) \/ CloseKill(c)
  BY <1>1, <1>11 DEF CloseEnter, CloseLeaseCheck, CloseKill, Kill, At, Goto, CallTypeOK
<1>12. CASE ResumeDetach(c) \/ Leave(c)
  BY <1>1, <1>12 DEF ResumeDetach, Leave, ReturnExclusive, Kill, Done, At, Goto, CallTypeOK
<1> QED
  BY <1>2, <1>3, <1>4, <1>5, <1>6, <1>7, <1>8, <1>9, <1>10, <1>11, <1>12

\* While a transition works on a context nobody else does, or begins to.
LEMMA OthersWait ==
  ASSUME CallTypeOK, HeldInv, NEW c \in Clients, Private(c), writer = c
  PROVE  \A d \in Clients \ {c} :
           /\ ~Swapped(d) /\ ~Swapped(d)' /\ ~Restoring(d)'
           /\ ~(pc'[d] \in Between /\ op'[d] \in Transitions)
<1>1. ASSUME NEW d \in Clients \ {c} PROVE ~(pc[d] \in Between /\ op[d] \in Transitions)
  BY OneBetween
<1> QED
  BY <1>1 DEF Private, Swapped, Restoring, Between, Transitions, Resumes

\* The transition that works on a context has the exclusive lease.
LEMMA TransitionHolds ==
  ASSUME HeldInv, NEW c \in Clients,
         \/ NewCheck(c) \/ NewSwap(c) \/ NewFlush(c) \/ CloseSeal(c)
         \/ ResumeRestore(c) \/ ResumePreflight(c) \/ ResumeFlush(c)
         \/ ResumeReopen(c) \/ ResumeSwap(c)
  PROVE  writer = c
<1>1. Holds(c)
  BY DEF HeldInv
<1>2. CASE NewCheck(c) \/ ResumeRestore(c)
  BY <1>2 DEF NewCheck, ResumeRestore, EnterExclusive
<1>3. CASE NewSwap(c) \/ NewFlush(c) \/ CloseSeal(c)
  BY <1>1, <1>3 DEF NewSwap, NewFlush, CloseSeal, Holds, At, Transitions
<1>4. CASE ResumePreflight(c) \/ ResumeFlush(c) \/ ResumeReopen(c) \/ ResumeSwap(c)
  BY <1>1, <1>4 DEF ResumePreflight, ResumeFlush, ResumeReopen, ResumeSwap, Holds, At,
                    Transitions, Resumes
<1> QED
  BY <1>2, <1>3, <1>4

-----------------------------------------------------------------------------
(* A closed run is reopened by the resume that makes it live.              *)

\* What a transition's local says of the directories.
Filed(c) ==
  /\ Swapped(c) =>
       /\ run.id # saved[c].id
       /\ ~saved[c].dir => ~disk[saved[c].id].closed
  /\ Restoring(c) => saved[c].dir

\* A run without a directory is not closed on disk, in the server's context or
\* in the one a transition may put back; otherwise persist would reopen it.
FileInv ==
  /\ \A c \in Clients : Filed(c)
  /\ \A r \in Runs : disk[r].closed => disk[r].there
  /\ ~run.dir => ~disk[run.id].closed

\* The step that reopens a run on disk puts it in place next.
Reopens ==
  \A r \in Runs :
    disk[r].closed /\ ~disk'[r].closed =>
      \E c \in Clients : pc[c] = "reopen" /\ pc'[c] = "swap" /\ saved[c].id = r

\* A step that reopens nothing and works on no context.
LEMMA QuietFiles ==
  ASSUME FileInv, disk' = disk, run'.id = run.id, run'.dir = run.dir,
         \A c \in Clients : (Swapped(c)' => Swapped(c) /\ saved'[c] = saved[c])
                         /\ (Restoring(c)' => Restoring(c) /\ saved'[c] = saved[c])
  PROVE  FileInv' /\ Reopens
<1>1. ASSUME NEW c \in Clients PROVE Filed(c)'
  BY DEF FileInv, Filed
<1> QED
  BY <1>1 DEF FileInv, Reopens

\* Accepting evidence leaves the run where it is.
LEMMA AcceptKeepsRun ==
  ASSUME NEW c, Accept(c), run \in Context
  PROVE  /\ run'.id = run.id /\ run'.dir = run.dir /\ run'.closed = run.closed
         /\ run'.mem = run.mem \cup {[by |-> c, run |-> ticket[c]]}
  BY DEF Accept, Context

\* The steps of new and close.
LEMMA NewAndCloseFiles ==
  ASSUME TypeInv, HeldInv, FileInv, NEW c \in Clients, Private(c), TypeInv',
         NewCheck(c) \/ NewSwap(c) \/ NewFlush(c) \/ CloseSeal(c)
  PROVE  FileInv' /\ Reopens
<1> USE DEF runVars, poolVars, histVars, callVars
<1>1. /\ CallTypeOK /\ RunTypeOK /\ CallFits(c) /\ Filed(c) /\ run \in Context
      /\ run.id \in Runs /\ run.id \in used
      /\ \A r \in Runs : (disk[r].there => r \in used) /\ (disk[r].closed => disk[r].there)
      /\ ~run.dir => ~disk[run.id].closed
      /\ disk \in [Runs -> [there : BOOLEAN, closed : BOOLEAN, ev : SUBSET Evidence]]
  BY DEF TypeInv, RunTypeOK, FileInv
<1>2. \A d \in Clients \ {c} : ~Swapped(d)' /\ ~Restoring(d)'
  BY <1>1, OthersWait, TransitionHolds
<1>3. CASE NewCheck(c)
  <2>1. UNCHANGED <<run, disk>> /\ ~Swapped(c)' /\ ~Restoring(c)'
    BY <1>1, <1>3 DEF NewCheck, At, Goto, CallTypeOK, Swapped, Restoring, Resumes
  <2> QED
    BY <1>2, <2>1, QuietFiles
<1>4. CASE NewSwap(c)
  <2>1. PICK r \in Runs \ used : run' = Fresh(r)
    BY <1>4 DEF NewSwap
  <2>2. saved'[c] = run /\ disk' = disk /\ pc'[c] = "flush" /\ op'[c] \in {"new", "discard"}
    BY <1>1, <1>4 DEF NewSwap, At, Goto, CallTypeOK
  <2>3. run'.id = r /\ ~disk[r].closed
    BY <1>1, <2>1 DEF Fresh
  <2>4. Filed(c)'
    BY <1>1, <2>1, <2>2, <2>3 DEF Filed, Restoring, Resumes
  <2>5. \A d \in Clients : Filed(d)'
    BY <1>2, <2>4 DEF Filed
  <2> QED
    BY <1>1, <2>2, <2>3, <2>5 DEF FileInv, Reopens
<1>5. CASE NewFlush(c)
  <2>1. saved[c] \in Context /\ Swapped(c)
    BY <1>1, <1>5 DEF NewFlush, At, CallFits, CallTypeOK, Swapped
  <2>2. \/ Flushed(saved[c], TRUE) /\ run' = run
        \/ Flushed(saved[c], FALSE) /\ run' = saved[c]
    BY <1>5 DEF NewFlush
  <2>3. \A r \in Runs : disk'[r].there = disk[r].there /\ disk'[r].closed = disk[r].closed
    BY <1>1, <2>1, <2>2, FlushTyped
  <2>4. run'.id \in Runs /\ (~run'.dir => ~disk[run'.id].closed)
    BY <1>1, <2>1, <2>2 DEF Filed, Context
  <2>5. ~Swapped(c)' /\ ~Restoring(c)'
    BY <1>1, <1>5 DEF NewFlush, Goto, CallTypeOK, Swapped, Restoring
  <2>6. \A d \in Clients : Filed(d)'
    BY <1>2, <2>5 DEF Filed
  <2> QED
    BY <1>1, <2>3, <2>4, <2>6 DEF FileInv, Reopens
<1>6. CASE CloseSeal(c)
  <2>1. ~Swapped(c)' /\ ~Restoring(c)'
    BY <1>1, <1>6 DEF CloseSeal, At, Goto, CallTypeOK, Swapped, Restoring, Resumes
  <2>2. \A d \in Clients : Filed(d)'
    BY <1>2, <2>1 DEF Filed
  <2>3. CASE run' = run /\ disk' = disk
    BY <1>1, <2>2, <2>3 DEF FileInv, Reopens
  <2>4. CASE /\ run' = [run EXCEPT !.closed = TRUE]
             /\ disk' = IF ~run.dir THEN disk ELSE
                   [disk EXCEPT ![run.id] = [there |-> TRUE, closed |-> TRUE,
                                             ev |-> @.ev \cup (run.mem)]]
    <3>1. run'.id = run.id /\ run'.dir = run.dir
      BY <1>1, <2>4 DEF Context
    <3>2. \A r \in Runs : (disk[r].closed => disk'[r].closed) /\ (disk'[r].closed => disk'[r].there)
      BY <1>1, <2>4
    <3>3. ~run.dir => disk' = disk
      BY <2>4
    <3> QED
      BY <1>1, <2>2, <3>1, <3>2, <3>3 DEF FileInv, Reopens
  <2>5. CASE Flushed(run, FALSE) /\ run' = run
    <3>1. \A r \in Runs : disk'[r].there = disk[r].there /\ disk'[r].closed = disk[r].closed
      BY <1>1, <2>5, FlushTyped
    <3> QED
      BY <1>1, <2>2, <2>5, <3>1 DEF FileInv, Reopens
  <2> QED
    BY <1>6, <2>3, <2>4, <2>5 DEF CloseSeal
<1> QED
  BY <1>3, <1>4, <1>5, <1>6

\* The steps of resume.
LEMMA ResumeFiles ==
  ASSUME TypeInv, HeldInv, FileInv, NEW c \in Clients, Private(c), TypeInv',
         \/ ResumeRestore(c) \/ ResumePreflight(c) \/ ResumeFlush(c)
         \/ ResumeReopen(c) \/ ResumeSwap(c)
  PROVE  FileInv' /\ Reopens
<1> USE DEF runVars, poolVars, histVars, callVars
<1>1. /\ CallTypeOK /\ RunTypeOK /\ CallFits(c) /\ Filed(c) /\ run \in Context
      /\ run.id \in Runs
      /\ \A r \in Runs : disk[r].closed => disk[r].there
      /\ ~run.dir => ~disk[run.id].closed
      /\ disk \in [Runs -> [there : BOOLEAN, closed : BOOLEAN, ev : SUBSET Evidence]]
  BY DEF TypeInv, RunTypeOK, FileInv
<1>2. \A d \in Clients \ {c} : ~Swapped(d)' /\ ~Restoring(d)'
  BY <1>1, OthersWait, TransitionHolds
<1>3. op[c] \in Resumes /\ op' = op
  BY DEF ResumeRestore, ResumePreflight, ResumeFlush, ResumeReopen, ResumeSwap, At
<1>4. ~Swapped(c)'
  BY <1>3 DEF Swapped, Resumes
<1>5. ASSUME Restoring(c)' => saved'[c].dir PROVE \A d \in Clients : Filed(d)'
  BY <1>2, <1>4, <1>5 DEF Filed
<1>6. CASE ResumeRestore(c)
  <2>1. UNCHANGED <<run, disk>>
    BY <1>6 DEF ResumeRestore
  <2>2. Restoring(c)' => saved'[c].dir
    BY <1>1, <1>6 DEF ResumeRestore, Goto, CallTypeOK, Restoring
  <2> QED
    BY <1>1, <1>5, <2>1, <2>2 DEF FileInv, Reopens
<1>7. CASE ResumePreflight(c)
  <2>1. UNCHANGED <<run, disk, saved>> /\ Restoring(c)
    BY <1>7 DEF ResumePreflight, At, Restoring
  <2> QED
    BY <1>1, <1>5, <2>1 DEF FileInv, Filed, Reopens
<1>8. CASE ResumeFlush(c)
  <2>1. UNCHANGED <<run, saved>> /\ Restoring(c)
    BY <1>8 DEF ResumeFlush, At, Restoring
  <2>2. \A r \in Runs : disk'[r].there = disk[r].there /\ disk'[r].closed = disk[r].closed
    BY <1>1, <1>8, FlushTyped DEF ResumeFlush
  <2> QED
    BY <1>1, <1>5, <2>1, <2>2 DEF FileInv, Filed, Reopens
<1>9. CASE ResumeReopen(c)
  <2>1. saved[c] \in Context /\ Restoring(c) /\ run' = run /\ pc[c] = "reopen"
    BY <1>1, <1>9 DEF ResumeReopen, At, CallFits, CallTypeOK, Restoring
  <2>2. CASE /\ saved' = [saved EXCEPT ![c].closed = FALSE]
             /\ disk' = [disk EXCEPT ![saved[c].id].closed = FALSE]
             /\ Goto(c, "swap")
    <3>1. saved'[c].dir /\ pc'[c] = "swap" /\ saved[c].id \in Runs
      BY <1>1, <2>1, <2>2 DEF Goto, CallTypeOK, Filed, Context
    <3>2. \A r \in Runs : /\ disk'[r].there = disk[r].there
                          /\ disk'[r].closed => disk[r].closed
                          /\ r # saved[c].id => disk'[r] = disk[r]
      BY <1>1, <2>2, <3>1
    <3> QED
      BY <1>1, <1>5, <2>1, <3>1, <3>2 DEF FileInv, Reopens
  <2>3. CASE Goto(c, "leave") /\ UNCHANGED <<saved, disk>>
    BY <1>1, <1>5, <2>1, <2>3 DEF FileInv, Filed, Reopens
  <2> QED
    BY <1>9, <2>2, <2>3 DEF ResumeReopen
<1>10. CASE ResumeSwap(c)
  <2>1. saved[c].dir /\ run' = saved[c] /\ disk' = disk /\ saved' = saved
    BY <1>1, <1>10 DEF ResumeSwap, At, Filed, Restoring
  <2> QED
    BY <1>1, <1>5, <2>1 DEF FileInv, Reopens
<1> QED
  BY <1>6, <1>7, <1>8, <1>9, <1>10

\* Every step of the server keeps the invariant, and reopens only what is
\* going live.
LEMMA FileNext ==
  ASSUME GateInv, AdmissionInv, TypeInv, HeldInv, FileInv, [Next]_vars
  PROVE  FileInv' /\ (Reopens \/ UNCHANGED vars)
<1> USE DEF runVars, poolVars, histVars, callVars
<1>1. /\ CallTypeOK /\ RunTypeOK /\ run \in Context /\ run.id \in Runs
      /\ disk \in [Runs -> [there : BOOLEAN, closed : BOOLEAN, ev : SUBSET Evidence]]
  BY DEF TypeInv, RunTypeOK
<1>2. TypeInv'
  BY TypeNext
<1>3. ASSUME NEW c \in Clients, CallBegins(c) \/ CallStep(c) PROVE FileInv' /\ Reopens
  <2>1. Private(c)
    BY <1>3, CallsTyped DEF Typed
  <2>2. CASE NewCheck(c) \/ NewSwap(c) \/ NewFlush(c) \/ CloseSeal(c)
    BY <1>2, <2>1, <2>2, NewAndCloseFiles
  <2>3. CASE \/ ResumeRestore(c) \/ ResumePreflight(c) \/ ResumeFlush(c)
             \/ ResumeReopen(c) \/ ResumeSwap(c)
    BY <1>2, <2>1, <2>3, ResumeFiles
  <2>4. CASE ~ \/ NewCheck(c) \/ NewSwap(c) \/ NewFlush(c) \/ CloseSeal(c)
               \/ ResumeRestore(c) \/ ResumePreflight(c) \/ ResumeFlush(c)
               \/ ResumeReopen(c) \/ ResumeSwap(c)
    <3>1. /\ disk' = disk /\ pc'[c] \notin Between
          /\ UNCHANGED run \/ Accept(c)
      BY <1>3, <2>4, QuietCalls DEF CallStep
    <3>2. run'.id = run.id /\ run'.dir = run.dir
      BY <1>1, <3>1, AcceptKeepsRun
    <3>3. ~Swapped(c)' /\ ~Restoring(c)'
      BY <3>1 DEF Between, Swapped, Restoring
    <3> QED
      BY <2>1, <3>1, <3>2, <3>3, QuietFiles DEF Private, Swapped, Restoring
  <2> QED
    BY <2>2, <2>3, <2>4
<1>4. CASE GateGrants \/ (\E s \in Sessions : LeaseExpires(s)) \/ UNCHANGED vars
  <2>1. UNCHANGED <<run, disk, pc, op, saved>>
    BY <1>4 DEF GateGrants, LeaseExpires, vars
  <2> QED
    BY <2>1, QuietFiles DEF Swapped, Restoring
<1>5. CASE Persist
  <2>1. /\ UNCHANGED <<pc, op, saved>> /\ run'.id = run.id
        /\ \A r \in Runs : r # run.id => disk'[r] = disk[r]
        /\ disk[run.id].closed => disk'[run.id].closed
        /\ disk'[run.id].closed => disk'[run.id].there
        /\ ~run'.dir => ~disk'[run.id].closed
    <3>1. \A r \in Runs : disk[r].closed => disk[r].there
      BY DEF FileInv
    <3>2. ASSUME NEW ok \in BOOLEAN, run.dir, Flushed(run, ok), run' = run
          PROVE  /\ \A r \in Runs : r # run.id => disk'[r] = disk[r]
                 /\ disk'[run.id].there = disk[run.id].there
                 /\ disk'[run.id].closed = disk[run.id].closed
      BY <1>1, <3>2, FlushTyped, FlushFiles
    <3>3. ASSUME ~run.dir, run' = [run EXCEPT !.dir = TRUE],
                 disk' = [disk EXCEPT ![run.id] =
                             [there |-> TRUE, closed |-> run.closed, ev |-> run.mem]]
          PROVE  /\ \A r \in Runs : r # run.id => disk'[r] = disk[r]
                 /\ disk'[run.id].there /\ ~disk[run.id].closed
                 /\ run'.id = run.id /\ run'.dir
      BY <1>1, <3>3 DEF Context, FileInv
    <3> QED
      BY <1>1, <1>5, <3>1, <3>2, <3>3 DEF Persist
  <2>2. \A r \in Runs : disk[r].closed => disk'[r].closed
    BY <2>1
  <2>3. \A r \in Runs : disk'[r].closed => disk'[r].there
    BY <2>1 DEF FileInv
  <2>4. ASSUME NEW c \in Clients PROVE Filed(c)'
    <3>1. Filed(c) /\ (Swapped(c)' => Swapped(c)) /\ (Restoring(c)' => Restoring(c))
      BY <2>1 DEF FileInv, Swapped, Restoring
    <3>2. Swapped(c) => saved[c].id \in Runs
      BY <1>1 DEF TypeInv, CallFits, RunTypeOK, Swapped
    <3> QED
      BY <2>1, <3>1, <3>2 DEF Filed
  <2> QED
    BY <2>1, <2>2, <2>3, <2>4 DEF FileInv, Reopens
<1> QED
  BY <1>3, <1>4, <1>5 DEF Next

\* A server that has just started has nothing on disk (TuiLabServer::new).
LEMMA FileInit == Init => FileInv
  BY DEF Init, Fresh, FileInv, Filed, Swapped, Restoring

\* What the other invariants need to be kept.
ServerInv == GateInv /\ AdmissionInv /\ TypeInv /\ HeldInv

\* They hold of a server that has just started.
LEMMA ServerInvInit == Init => ServerInv
<1>1. Init => AdmissionInv
  BY DEF Init, Fresh, AdmissionInv, Standing, Driving, Changing, Whole
<1>2. Init => GateInv
  BY GateInvInit DEF Init
<1> QED
  BY <1>1, <1>2, TypeInit, HeldInit DEF ServerInv

\* Every step of the server keeps them.
LEMMA ServerInvNext == ServerInv /\ [Next]_vars => ServerInv'
  BY AdmissionNext, StepRefinesGate, GateInvNext, TypeNext, HeldNext DEF ServerInv

\* A refused or aborted resume leaves its target closed on disk, and so does
\* every other call, persist and a rolled-back new included.
THEOREM ServerReopensLive == Safety => ReopenedGoesLive
<1>1. ServerInv /\ FileInv /\ [Next]_vars => FileInv' /\ [Reopens]_vars
  BY FileNext DEF ServerInv
<1>2. [Reopens]_vars =>
        [\A r \in Runs :
           disk[r].closed /\ ~disk'[r].closed =>
             \E c \in Clients : pc[c] = "reopen" /\ pc'[c] = "swap" /\ saved[c].id = r]_vars
  BY DEF Reopens
<1> QED
  BY <1>1, <1>2, ServerInvInit, ServerInvNext, FileInit, PTL DEF Safety, ReopenedGoesLive

-----------------------------------------------------------------------------
(* Evidence is filed under its run, and no transition loses it.            *)

\* What was accepted and neither given up nor dropped.
Given == committed \ (discarded \cup dropped)

\* All of x was made for run r.
Of(x, r) == \A e \in x : e.run = r

\* A record is where the context x of a run, or that run's directory, keeps it.
KeptBy(x, e) == IF e.run = x.id THEN e \in x.mem ELSE e \in disk[e.run].ev

\* What the local context of a transition has to hold.
Accounts(c) ==
  /\ pc[c] = "swap" /\ op[c] = "new" /\ ~run.dir => run.mem = {}
  /\ saved[c] # None => Of(saved[c].mem, saved[c].id)
  /\ Swapped(c) =>
       /\ saved[c].id # run.id /\ run.mem = {}
       /\ op[c] = "new" /\ ~saved[c].dir => saved[c].mem = {}
       /\ \A e \in Given : e.run # run.id /\ KeptBy(saved[c], e)
  /\ Restoring(c) => saved[c].id = run.id \/ disk[saved[c].id].ev \subseteq saved[c].mem
  /\ op[c] # "verify"

\* While new has not flushed the run it replaced, that run's evidence is in a
\* local of the call and the new run's there is none of.
EvidenceInv ==
  /\ \A c \in Clients : Accounts(c)
  /\ Of(run.mem, run.id) /\ \A r \in Runs : Of(disk[r].ev, r)
  /\ \A e \in committed : e.run \in used
  /\ \/ \E c \in Clients : Swapped(c)
     \/ \A e \in Given : KeptBy(run, e)

\* A call that is not a transition at work on a context either commits a
\* record it was admitted for, while no transition is at work, or touches no
\* evidence.
LEMMA QuietEvidence ==
  ASSUME ServerInv, EvidenceInv, "verify" \notin Ops, NEW c \in Clients, Private(c),
         UNCHANGED <<used, disk, discarded, dropped>>,
         pc[c] \notin Between, pc'[c] \notin Between, saved'[c] \in {saved[c], None},
         op'[c] \in {op[c], "none"} \cup Ops,
         \/ UNCHANGED <<run, committed>>
         \/ Accept(c) /\ op[c] = "verify"
         \/ Accept(c) /\ readers[c] > 0 /\ ticket[c] = run.id
  PROVE  EvidenceInv'
<1>1. /\ run \in Context /\ run.id \in used /\ used' = used /\ disk' = disk
      /\ HeldInv
      /\ Of(run.mem, run.id) /\ (\A r \in Runs : Of(disk[r].ev, r))
      /\ \A e \in committed : e.run \in used
  BY DEF ServerInv, TypeInv, RunTypeOK, EvidenceInv
<1>2. ~Swapped(c) /\ ~Swapped(c)' /\ ~Restoring(c)' /\ op'[c] # "verify" /\ pc'[c] # "swap"
  BY DEF Between, Swapped, Restoring, EvidenceInv, Accounts
<1>3. saved'[c] # None => Of(saved'[c].mem, saved'[c].id)
  BY DEF EvidenceInv, Accounts
<1>4. CASE UNCHANGED <<run, committed>>
  <2>1. Given' = Given /\ UNCHANGED <<run, disk, committed, used>>
    BY <1>4 DEF Given
  <2>2. ASSUME NEW d \in Clients \ {c} PROVE Accounts(d)' /\ (Swapped(d)' <=> Swapped(d))
    BY <2>1 DEF EvidenceInv, Accounts, Private, Swapped, Restoring, KeptBy
  <2>3. Accounts(c)'
    BY <1>2, <1>3 DEF Accounts
  <2>4. (\E d \in Clients : Swapped(d)') \/ \A e \in Given' : KeptBy(run, e)'
    BY <1>2, <2>1, <2>2 DEF EvidenceInv, KeptBy
  <2> QED
    BY <1>1, <2>1, <2>2, <2>3, <2>4 DEF EvidenceInv
<1>5. CASE Accept(c) /\ readers[c] > 0 /\ ticket[c] = run.id
  <2> DEFINE new == [by |-> c, run |-> ticket[c]]
  <2>1. /\ new.run = run.id /\ run'.id = run.id /\ run'.mem = run.mem \cup {new}
        /\ committed' = committed \cup {new}
    BY <1>1, <1>5, AcceptKeepsRun DEF Accept
  <2> HIDE DEF new
  <2>2. writer = NoClient
    BY <1>5 DEF ServerInv, GateInv, GateTypes, Exclusion
  <2>3. ASSUME NEW d \in Clients PROVE ~(pc[d] \in Between /\ op[d] \in Transitions)
    BY <1>1, <2>2, GateAssumption DEF HeldInv, Holds, Between
  <2>4. ASSUME NEW d \in Clients PROVE ~Swapped(d)
    BY <2>3 DEF Swapped, Between, Transitions
  <2>5. ASSUME NEW d \in Clients \ {c} PROVE Accounts(d)'
    <3>1. /\ pc'[d] = pc[d] /\ op'[d] = op[d] /\ saved'[d] = saved[d] /\ Accounts(d)
      BY DEF Private, EvidenceInv
    <3>2. ~Swapped(d)' /\ ~Restoring(d)' /\ ~(pc'[d] = "swap" /\ op'[d] = "new")
      BY <2>3, <3>1 DEF Swapped, Restoring, Between, Transitions, Resumes
    <3> QED
      BY <3>1, <3>2 DEF Accounts
  <2>6. Accounts(c)'
    BY <1>2, <1>3 DEF Accounts
  <2>7. \A e \in Given : KeptBy(run, e)
    BY <2>4 DEF EvidenceInv
  <2>8. \A e \in Given' : KeptBy(run, e)'
    BY <1>1, <2>1, <2>7 DEF Given, KeptBy
  <2>9. Of(run'.mem, run'.id) /\ \A e \in committed' : e.run \in used'
    BY <1>1, <2>1 DEF Of
  <2> QED
    BY <1>1, <2>5, <2>6, <2>8, <2>9 DEF EvidenceInv
<1> QED
  BY <1>4, <1>5 DEF EvidenceInv, Accounts

\* A transition that has no other context of its own afterwards owes only that
\* what was accepted is in the context that is current, or on disk.
LEMMA SettledEvidence ==
  ASSUME ServerInv, EvidenceInv, NEW c \in Clients, Private(c), writer = c,
         committed' = committed, used \subseteq used', Accounts(c)',
         Of(run.mem, run.id)', \A r \in Runs : Of(disk'[r].ev, r),
         \A e \in Given' : KeptBy(run, e)'
  PROVE  EvidenceInv'
<1>1. ASSUME NEW d \in Clients \ {c} PROVE Accounts(d)'
  <2>1. ~Swapped(d)' /\ ~Restoring(d)' /\ ~(pc'[d] \in Between /\ op'[d] \in Transitions)
    BY OthersWait DEF ServerInv, TypeInv
  <2>2. saved'[d] = saved[d] /\ op'[d] = op[d] /\ Accounts(d)
    BY DEF Private, EvidenceInv
  <2> QED
    BY <2>1, <2>2 DEF Accounts, Between, Transitions
<1> QED
  BY <1>1 DEF EvidenceInv

\* The steps of new and close.
LEMMA NewAndCloseEvidence ==
  ASSUME ServerInv, EvidenceInv, NEW c \in Clients, Private(c),
         NewCheck(c) \/ NewSwap(c) \/ NewFlush(c) \/ CloseSeal(c)
  PROVE  EvidenceInv'
<1> USE DEF runVars, poolVars, histVars, callVars
<1>1. /\ CallTypeOK /\ RunTypeOK /\ CallFits(c) /\ HeldInv /\ run \in Context
      /\ run.id \in Runs /\ run.id \in used
      /\ disk \in [Runs -> [there : BOOLEAN, closed : BOOLEAN, ev : SUBSET Evidence]]
  BY DEF ServerInv, TypeInv, RunTypeOK
<1>2. /\ Accounts(c) /\ Of(run.mem, run.id) /\ (\A r \in Runs : Of(disk[r].ev, r))
      /\ \A e \in committed : e.run \in used
  BY DEF EvidenceInv
<1>3. writer = c
  BY TransitionHolds DEF ServerInv
<1>4. \A d \in Clients \ {c} : ~Swapped(d)
  BY <1>1, <1>3, OthersWait
<1>5. ASSUME ~Swapped(c) PROVE \A e \in Given : KeptBy(run, e)
  BY <1>4, <1>5 DEF EvidenceInv
<1>6. \A e \in Given : e.run \in Runs
  BY <1>1 DEF Given, RunTypeOK, Evidence
<1>7. CASE NewCheck(c)
  <2>1. /\ UNCHANGED <<run, disk, used, saved, op, committed, discarded, dropped>>
        /\ pc'[c] \in {"leave", "swap"} /\ op[c] \in {"new", "discard"} /\ ~Swapped(c)
        /\ pc'[c] = "swap" /\ op[c] = "new" => run.dir \/ run.mem = {}
    BY <1>1, <1>7 DEF NewCheck, At, Goto, CallTypeOK, Swapped
  <2>2. Accounts(c)'
    BY <1>2, <2>1 DEF Accounts, Swapped, Restoring, Resumes
  <2>3. \A e \in Given' : KeptBy(run, e)'
    BY <1>5, <2>1 DEF Given, KeptBy
  <2> QED
    BY <1>2, <1>3, <2>1, <2>2, <2>3, SettledEvidence
<1>8. CASE NewSwap(c)
  <2>1. PICK r \in Runs \ used : run' = Fresh(r) /\ used' = used \cup {r}
    BY <1>8 DEF NewSwap
  <2>2. /\ UNCHANGED <<disk, op, committed, discarded, dropped>>
        /\ saved'[c] = run /\ pc'[c] = "flush" /\ op[c] \in {"new", "discard"} /\ ~Swapped(c)
        /\ run'.id = r /\ run'.mem = {} /\ pc[c] = "swap"
    BY <1>1, <1>8, <2>1 DEF NewSwap, At, Goto, CallTypeOK, Swapped, Fresh
  <2>3. /\ Given' = Given
        /\ \A e \in Given : e.run \in used /\ KeptBy(run, e)
    BY <1>2, <1>5, <2>2 DEF Given
  <2>4. Accounts(c)'
    <3>1. \A e \in Given' : e.run # run'.id /\ KeptBy(saved[c], e)'
      BY <2>1, <2>2, <2>3 DEF KeptBy
    <3> QED
      BY <1>1, <1>2, <2>1, <2>2, <3>1 DEF Accounts, Restoring, Resumes
  <2>5. ASSUME NEW d \in Clients \ {c} PROVE Accounts(d)'
    <3>1. /\ ~Swapped(d)' /\ ~Restoring(d)' /\ ~(pc'[d] \in Between /\ op'[d] \in Transitions)
          /\ saved'[d] = saved[d] /\ op'[d] = op[d] /\ Accounts(d)
      BY <1>1, <1>3, OthersWait DEF Private, EvidenceInv
    <3> QED
      BY <3>1 DEF Accounts, Between, Transitions
  <2>6. Of(run'.mem, run'.id) /\ Swapped(c)'
    BY <2>2 DEF Of, Swapped
  <2> QED
    BY <1>2, <2>1, <2>2, <2>4, <2>5, <2>6 DEF EvidenceInv
<1>9. CASE NewFlush(c)
  <2>1. /\ saved[c] \in Context /\ Swapped(c) /\ saved[c] # None
        /\ UNCHANGED <<used, op, saved, committed, dropped>> /\ pc'[c] = "leave"
    BY <1>1, <1>9 DEF NewFlush, At, Goto, CallFits, CallTypeOK, Swapped
  <2>2. /\ saved[c].id \in Runs /\ Of(saved[c].mem, saved[c].id)
        /\ \A e \in Given : e.run # run.id /\ KeptBy(saved[c], e)
        /\ op[c] = "new" /\ ~saved[c].dir => saved[c].mem = {}
    BY <1>2, <2>1 DEF Accounts, Context
  <2>3. Accounts(c)'
    BY <1>2, <2>1 DEF Accounts, Swapped, Restoring
  <2>4. /\ \A r \in Runs : Of(disk'[r].ev, r) /\ disk[r].ev \subseteq disk'[r].ev
        /\ \/ /\ Flushed(saved[c], TRUE) /\ run' = run
              /\ discarded' = IF op[c] = "discard" /\ ~saved[c].dir
                              THEN discarded \cup saved[c].mem ELSE discarded
           \/ run' = saved[c] /\ discarded' = discarded
    <3>1. PICK ok \in {TRUE, FALSE} :
            /\ Flushed(saved[c], ok)
            /\ run' = IF ok THEN run ELSE saved[c]
            /\ discarded' = IF ok /\ op[c] = "discard" /\ ~saved[c].dir
                            THEN discarded \cup saved[c].mem ELSE discarded
      BY <1>9 DEF NewFlush
    <3>2. \A r \in Runs : Of(disk'[r].ev, r) /\ disk[r].ev \subseteq disk'[r].ev
      <4>1. /\ \A r \in Runs \ {saved[c].id} : disk'[r] = disk[r]
            /\ disk[saved[c].id].ev \subseteq disk'[saved[c].id].ev
            /\ disk'[saved[c].id].ev \subseteq disk[saved[c].id].ev \cup saved[c].mem
        BY <1>1, <2>1, <3>1, FlushFiles
      <4> QED
        BY <1>2, <2>2, <4>1 DEF Of
    <3> QED
      BY <3>1, <3>2
  <2>5. CASE /\ Flushed(saved[c], TRUE) /\ run' = run
             /\ discarded' = IF op[c] = "discard" /\ ~saved[c].dir
                             THEN discarded \cup saved[c].mem ELSE discarded
    <3>1. saved[c].dir => saved[c].mem \subseteq disk'[saved[c].id].ev
      BY <1>1, <2>1, <2>5, FlushFiles
    <3>2. ASSUME NEW e \in Given' PROVE KeptBy(run, e)'
      <4>1. e \in Given /\ e \notin discarded'
        BY <2>1, <2>5, <3>2 DEF Given
      <4>2. e.run # run'.id /\ KeptBy(saved[c], e) /\ e.run \in Runs
        BY <1>6, <2>2, <2>5, <4>1
      <4>3. e.run = saved[c].id => saved[c].dir
        BY <2>1, <2>2, <2>5, <4>1, <4>2 DEF KeptBy, Swapped
      <4> QED
        BY <2>4, <3>1, <4>2, <4>3 DEF KeptBy
    <3> QED
      BY <1>2, <1>3, <2>1, <2>3, <2>4, <2>5, <3>2, SettledEvidence
  <2>6. CASE run' = saved[c] /\ discarded' = discarded
    <3>1. \A e \in Given' : KeptBy(run, e)'
      BY <1>6, <2>1, <2>2, <2>4, <2>6 DEF Given, KeptBy
    <3> QED
      BY <1>3, <2>1, <2>2, <2>3, <2>4, <2>6, <3>1, SettledEvidence
  <2> QED
    BY <2>4, <2>5, <2>6
<1>10. CASE CloseSeal(c)
  <2>1. /\ UNCHANGED <<used, op, saved, committed, discarded, dropped>> /\ ~Swapped(c)
        /\ pc'[c] \in {"leave", "leaseCheck"}
    BY <1>1, <1>10 DEF CloseSeal, At, Goto, CallTypeOK, Swapped
  <2>2. run'.id = run.id /\ run'.mem = run.mem
        /\ \A r \in Runs : Of(disk'[r].ev, r) /\ disk[r].ev \subseteq disk'[r].ev
    <3>1. CASE run' = run /\ disk' = disk
      BY <1>2, <3>1
    <3>2. CASE /\ run' = [run EXCEPT !.closed = TRUE]
               /\ disk' = IF ~run.dir THEN disk ELSE
                     [disk EXCEPT ![run.id] = [there |-> TRUE, closed |-> TRUE,
                                               ev |-> @.ev \cup (run.mem)]]
      BY <1>1, <1>2, <3>2 DEF Context, Of
    <3>3. CASE Flushed(run, FALSE) /\ run' = run
      BY <1>1, <1>2, <3>3, FlushFiles, ZenonT(30) DEF Of
    <3> QED
      BY <1>10, <3>1, <3>2, <3>3 DEF CloseSeal
  <2>3. Accounts(c)'
    BY <1>2, <2>1 DEF Accounts, Swapped, Restoring
  <2>4. \A e \in Given' : KeptBy(run, e)'
    BY <1>5, <1>6, <2>1, <2>2 DEF Given, KeptBy
  <2> QED
    BY <1>2, <1>3, <2>1, <2>2, <2>3, <2>4, SettledEvidence
<1> QED
  BY <1>7, <1>8, <1>9, <1>10

\* The steps of resume.
LEMMA ResumeEvidence ==
  ASSUME ServerInv, EvidenceInv, NEW c \in Clients, Private(c),
         \/ ResumeRestore(c) \/ ResumePreflight(c) \/ ResumeFlush(c)
         \/ ResumeReopen(c) \/ ResumeSwap(c)
  PROVE  EvidenceInv'
<1> USE DEF runVars, poolVars, histVars, callVars
<1>1. /\ CallTypeOK /\ RunTypeOK /\ CallFits(c) /\ HeldInv /\ run \in Context
      /\ run.id \in Runs
      /\ disk \in [Runs -> [there : BOOLEAN, closed : BOOLEAN, ev : SUBSET Evidence]]
  BY DEF ServerInv, TypeInv, RunTypeOK
<1>2. /\ Accounts(c) /\ Of(run.mem, run.id) /\ (\A r \in Runs : Of(disk[r].ev, r))
      /\ \A e \in committed : e.run \in used
  BY DEF EvidenceInv
<1>3. writer = c
  BY TransitionHolds DEF ServerInv
<1>4. op[c] \in Resumes /\ op' = op /\ UNCHANGED <<used, committed, discarded>>
  BY DEF ResumeRestore, ResumePreflight, ResumeFlush, ResumeReopen, ResumeSwap, At
<1>5. ~Swapped(c) /\ ~Swapped(c)' /\ op[c] \notin {"new", "verify"}
  BY <1>4 DEF Swapped, Resumes
<1>6. \A e \in Given : KeptBy(run, e) /\ e.run \in Runs
  <2>1. \A d \in Clients : ~Swapped(d)
    BY <1>1, <1>3, <1>5, OthersWait
  <2> QED
    BY <1>1, <2>1 DEF EvidenceInv, Given, RunTypeOK, Evidence
<1>7. CASE ResumeRestore(c)
  <2>1. /\ UNCHANGED <<run, disk, dropped>>
        /\ \/ /\ pc'[c] = "leave" /\ saved' = saved
           \/ \E t \in Runs : saved'[c] = [id |-> t, dir |-> TRUE, closed |-> disk[t].closed,
                                           mem |-> disk[t].ev]
    BY <1>1, <1>7 DEF ResumeRestore, Goto, CallTypeOK
  <2>2. Accounts(c)'
    <3>1. CASE pc'[c] = "leave" /\ saved' = saved
      BY <1>2, <1>4, <1>5, <3>1 DEF Accounts, Restoring
    <3>2. ASSUME NEW t \in Runs, saved'[c] = [id |-> t, dir |-> TRUE,
                                  closed |-> disk[t].closed, mem |-> disk[t].ev]
          PROVE  Accounts(c)'
      BY <1>2, <1>4, <1>5, <2>1, <3>2 DEF Accounts
    <3> QED
      BY <2>1, <3>1, <3>2
  <2>3. \A e \in Given' : KeptBy(run, e)'
    BY <1>4, <1>6, <2>1 DEF Given, KeptBy
  <2> QED
    BY <1>2, <1>3, <1>4, <2>1, <2>2, <2>3, SettledEvidence
<1>8. CASE ResumePreflight(c)
  <2>1. UNCHANGED <<run, disk, dropped, saved>> /\ Restoring(c)
    BY <1>8 DEF ResumePreflight, At, Restoring
  <2>2. Accounts(c)'
    BY <1>2, <1>4, <1>5, <2>1 DEF Accounts
  <2>3. \A e \in Given' : KeptBy(run, e)'
    BY <1>4, <1>6, <2>1 DEF Given, KeptBy
  <2> QED
    BY <1>2, <1>3, <1>4, <2>1, <2>2, <2>3, SettledEvidence
<1>9. CASE ResumeFlush(c)
  <2>1. UNCHANGED <<run, dropped, saved>> /\ Restoring(c) /\ saved[c] \in Context
    BY <1>1, <1>9 DEF ResumeFlush, At, Restoring, CallFits, CallTypeOK
  <2>2. PICK ok \in BOOLEAN : Flushed(run, ok)
    BY <1>9 DEF ResumeFlush
  <2>3. /\ \A r \in Runs \ {run.id} : disk'[r] = disk[r]
        /\ disk[run.id].ev \subseteq disk'[run.id].ev
        /\ disk'[run.id].ev \subseteq disk[run.id].ev \cup run.mem
    BY <1>1, <2>2, FlushFiles
  <2>4. Accounts(c)'
    BY <1>2, <1>4, <1>5, <2>1, <2>3 DEF Accounts, Context
  <2>5. (\A r \in Runs : Of(disk'[r].ev, r)) /\ \A e \in Given' : KeptBy(run, e)'
    BY <1>2, <1>4, <1>6, <2>1, <2>3 DEF Given, KeptBy, Of
  <2> QED
    BY <1>2, <1>3, <1>4, <2>1, <2>4, <2>5, SettledEvidence
<1>10. CASE ResumeReopen(c)
  <2>1. UNCHANGED <<run, dropped>> /\ Restoring(c) /\ saved[c] \in Context /\ saved[c] # None
    BY <1>1, <1>10 DEF ResumeReopen, At, Restoring, CallFits, CallTypeOK
  <2>2. /\ \A r \in Runs : disk'[r].ev = disk[r].ev
        /\ saved'[c].id = saved[c].id /\ saved'[c].mem = saved[c].mem
    <3>1. saved[c].id \in Runs /\ saved \in [Clients -> Context \cup {None}]
      BY <1>1, <2>1 DEF CallTypeOK, Context
    <3>2. CASE /\ saved' = [saved EXCEPT ![c].closed = FALSE]
               /\ disk' = [disk EXCEPT ![saved[c].id].closed = FALSE]
      <4>1. \A r \in Runs : disk'[r].ev = disk[r].ev
        BY <1>1, <3>1, <3>2
      <4>2. saved'[c].id = saved[c].id /\ saved'[c].mem = saved[c].mem
        BY <2>1, <3>1, <3>2 DEF Context
      <4> QED
        BY <4>1, <4>2
    <3>3. CASE UNCHANGED <<saved, disk>>
      BY <3>3
    <3> QED
      BY <1>10, <3>2, <3>3 DEF ResumeReopen
  <2>3. Accounts(c)'
    BY <1>2, <1>4, <1>5, <2>1, <2>2 DEF Accounts, Context
  <2>4. (\A r \in Runs : Of(disk'[r].ev, r)) /\ \A e \in Given' : KeptBy(run, e)'
    BY <1>2, <1>4, <1>6, <2>1, <2>2 DEF Given, KeptBy
  <2> QED
    BY <1>2, <1>3, <1>4, <2>1, <2>3, <2>4, SettledEvidence
<1>11. CASE ResumeSwap(c)
  <2>1. /\ run' = saved[c] /\ saved[c] \in Context /\ saved[c] # None /\ Restoring(c)
        /\ UNCHANGED <<disk, saved>> /\ pc'[c] = "detach"
        /\ dropped' = dropped \cup
             (IF saved[c].id = run.id THEN run.mem \ saved[c].mem
              ELSE run.mem \ disk[run.id].ev)
    BY <1>1, <1>4, <1>11 DEF ResumeSwap, At, Goto, CallFits, CallTypeOK, Restoring
  <2>2. Accounts(c)'
    BY <1>2, <1>4, <1>5, <2>1 DEF Accounts, Restoring
  <2>3. ASSUME NEW e \in Given' PROVE KeptBy(run, e)'
    <3>1. e \in Given /\ e \notin dropped'
      BY <1>4, <2>1 DEF Given
    <3>2. KeptBy(run, e) /\ e.run \in Runs
      BY <1>6, <3>1
    <3>3. CASE saved[c].id = run.id
      BY <2>1, <3>1, <3>2, <3>3 DEF KeptBy
    <3>4. CASE saved[c].id # run.id
      BY <1>2, <2>1, <3>1, <3>2, <3>4 DEF KeptBy, Accounts
    <3> QED
      BY <3>3, <3>4
  <2>4. Of(run.mem, run.id)' /\ \A r \in Runs : Of(disk'[r].ev, r)
    BY <1>2, <2>1 DEF Accounts
  <2> QED
    BY <1>3, <1>4, <2>2, <2>3, <2>4, SettledEvidence
<1> QED
  BY <1>7, <1>8, <1>9, <1>10, <1>11

\* persist writes what the current context holds.
LEMMA PersistEvidence ==
  ASSUME ServerInv, EvidenceInv, Persist
  PROVE  EvidenceInv'
<1> USE DEF runVars, poolVars, histVars, callVars
<1>1. /\ RunTypeOK /\ CallTypeOK /\ run \in Context /\ run.id \in Runs
      /\ disk \in [Runs -> [there : BOOLEAN, closed : BOOLEAN, ev : SUBSET Evidence]]
      /\ Of(run.mem, run.id) /\ (\A r \in Runs : Of(disk[r].ev, r))
      /\ \A e \in committed : e.run \in used /\ e.run \in Runs
  BY DEF ServerInv, TypeInv, RunTypeOK, EvidenceInv, Evidence
<1>2. UNCHANGED <<used, pc, op, saved, committed, discarded, dropped>>
  BY DEF Persist
<1>3. /\ run'.id = run.id /\ run'.mem = run.mem /\ (~run'.dir => ~run.dir)
      /\ \A r \in Runs \ {run.id} : disk'[r] = disk[r]
      /\ Of(disk'[run.id].ev, run.id)
  <2>1. ASSUME NEW ok \in BOOLEAN, run.dir, Flushed(run, ok), run' = run
        PROVE  /\ \A r \in Runs \ {run.id} : disk'[r] = disk[r]
               /\ Of(disk'[run.id].ev, run.id)
    BY <1>1, <2>1, FlushFiles DEF Of
  <2>2. ASSUME ~run.dir, run' = [run EXCEPT !.dir = TRUE],
               disk' = [disk EXCEPT ![run.id] =
                           [there |-> TRUE, closed |-> run.closed, ev |-> run.mem]]
        PROVE  /\ \A r \in Runs \ {run.id} : disk'[r] = disk[r]
               /\ Of(disk'[run.id].ev, run.id)
               /\ run'.id = run.id /\ run'.dir /\ run'.mem = run.mem
    BY <1>1, <2>2 DEF Context
  <2> QED
    BY <2>1, <2>2 DEF Persist
<1>4. \A r \in Runs : Of(disk'[r].ev, r)
  BY <1>1, <1>3
<1>5. ASSUME NEW e \in Given PROVE KeptBy(run, e) => KeptBy(run, e)'
  BY <1>1, <1>3 DEF Given, KeptBy
<1>6. ASSUME NEW d \in Clients PROVE Accounts(d)' /\ (Swapped(d)' <=> Swapped(d))
  <2>1. Accounts(d) /\ (Swapped(d)' <=> Swapped(d)) /\ (Restoring(d)' <=> Restoring(d))
    BY <1>2 DEF EvidenceInv, Swapped, Restoring
  <2>2. Swapped(d) \/ Restoring(d) => saved[d] \in Context \/ saved[d].id = run.id
    BY <1>1 DEF ServerInv, TypeInv, CallFits, CallTypeOK, Swapped, Restoring, Resumes
  <2>3. Restoring(d) => saved[d].id = run.id \/ disk'[saved[d].id].ev \subseteq saved[d].mem
    BY <1>3, <2>1, <2>2 DEF Accounts, Context
  <2>4. ASSUME NEW e \in Given, e.run # run.id, KeptBy(saved[d], e) PROVE KeptBy(saved[d], e)'
    BY <1>1, <1>2, <1>3, <2>4 DEF Given, KeptBy
  <2>5. Given' = Given
    BY <1>2 DEF Given
  <2> QED
    BY <1>2, <1>3, <2>1, <2>3, <2>4, <2>5 DEF Accounts
<1>7. Given' = Given
  BY <1>2 DEF Given
<1> QED
  BY <1>1, <1>2, <1>3, <1>4, <1>5, <1>6, <1>7 DEF EvidenceInv

\* Every step of a server without verify keeps the invariant.
LEMMA EvidenceNext ==
  ASSUME ServerInv, EvidenceInv, [Next]_vars, "verify" \notin Ops
  PROVE  EvidenceInv'
<1> USE DEF runVars, poolVars, histVars, callVars
<1>1. ASSUME NEW c \in Clients, CallBegins(c) \/ CallStep(c) PROVE EvidenceInv'
  <2>1. Private(c)
    BY <1>1, CallsTyped DEF ServerInv, Typed
  <2>2. CASE NewCheck(c) \/ NewSwap(c) \/ NewFlush(c) \/ CloseSeal(c)
    BY <2>1, <2>2, NewAndCloseEvidence
  <2>3. CASE \/ ResumeRestore(c) \/ ResumePreflight(c) \/ ResumeFlush(c)
             \/ ResumeReopen(c) \/ ResumeSwap(c)
    BY <2>1, <2>3, ResumeEvidence
  <2>4. CASE ~ \/ NewCheck(c) \/ NewSwap(c) \/ NewFlush(c) \/ CloseSeal(c)
               \/ ResumeRestore(c) \/ ResumePreflight(c) \/ ResumeFlush(c)
               \/ ResumeReopen(c) \/ ResumeSwap(c)
    <3>1. /\ UNCHANGED <<used, disk, discarded, dropped>>
          /\ pc[c] \notin Between /\ pc'[c] \notin Between
          /\ saved'[c] \in {saved[c], None} /\ op'[c] \in {op[c], "none"} \cup Ops
          /\ \/ UNCHANGED <<run, committed>>
             \/ Accept(c) /\ op[c] = "verify"
             \/ Accept(c) /\ readers[c] > 0 /\ ticket[c] = run.id
      BY <1>1, <2>4, QuietCalls DEF CallStep, ServerInv
    <3> QED
      BY <2>1, <3>1, QuietEvidence
  <2> QED
    BY <2>2, <2>3, <2>4
<1>2. CASE GateGrants \/ (\E s \in Sessions : LeaseExpires(s)) \/ UNCHANGED vars
  <2>1. UNCHANGED <<run, used, disk, pc, op, saved, committed, discarded, dropped>>
    BY <1>2 DEF GateGrants, LeaseExpires, vars
  <2>2. Given' = Given /\ \A c \in Clients : Accounts(c)' /\ (Swapped(c)' <=> Swapped(c))
    BY <2>1 DEF EvidenceInv, Accounts, Given, KeptBy, Swapped, Restoring
  <2> QED
    BY <2>1, <2>2 DEF EvidenceInv, KeptBy
<1> QED
  BY <1>1, <1>2, PersistEvidence DEF Next

\* As long as nobody asks for a verify re-check, whose record is written with
\* no lease and no ticket, evidence is filed under the run it was made for, and
\* between transitions what a run accepted is in its context or its directory
\* (RunEvidenceSink::commit, new's flush and swap back, resume's flush).
THEOREM ServerEvidenceHonest ==
  ASSUME "verify" \notin Ops
  PROVE  Safety => []EvidenceHonest
<1>1. Init => EvidenceInv
  BY ServerAssumption DEF Init, Fresh, EvidenceInv, Accounts, Of, Given, KeptBy, Swapped, Restoring
<1>2. ServerInv /\ EvidenceInv /\ [Next]_vars => EvidenceInv'
  BY EvidenceNext
<1>3. ServerInv /\ EvidenceInv => EvidenceHonest
  <2>1. ASSUME ServerInv, EvidenceInv, writer = NoClient, NEW c \in Clients PROVE ~Swapped(c)
    BY <2>1, GateAssumption DEF ServerInv, HeldInv, Holds, Swapped, Transitions
  <2> QED
    BY <2>1 DEF EvidenceInv, EvidenceHonest, EvidenceProvenance, EvidenceKept, Of, Given, KeptBy
<1> QED
  BY <1>1, <1>2, <1>3, ServerInvInit, ServerInvNext, PTL DEF Safety
=============================================================================
