---------------------------- MODULE ComponentProofs ----------------------------
(***************************************************************************)
(* Invariants of the components that are composed in MCParts.              *)
(*                                                                         *)
(* The event stream, for any ring, any number of events, resumes and       *)
(* readers: it has its type, no consumer skips an event in silence,        *)
(* coverage counts each event once, and what was appended to the log stays *)
(* there.                                                                  *)
(*                                                                         *)
(* The line and pipe engines, for any viewport, any caps, any bytes and    *)
(* any cuts of a stream: types and caps are kept, what changes the         *)
(* viewport moves the sequence that waits look at, and the line engine has *)
(* a snapshot of each of its latest edges.                                 *)
(*                                                                         *)
(* The drivers of the audit, for any number of controls, Tabs and sizes    *)
(* and any ring: an application that behaves is not accused, and is put    *)
(* back as it was.  The audit, for any table of profiles: drivers are      *)
(* isolated, and what they leave is reported.                              *)
(*                                                                         *)
(* Exploration, for any keys, faults and budgets: what the minimiser saves *)
(* crashes the application and has no key too many.                        *)
(***************************************************************************)
EXTENDS SessionEvents, SequenceTheorems, ScanLemmas, TLAPS

\* Those of the line and pipe engines.
CONSTANTS Rows, MaxLines, SnapCap, MaxBytes, MaxGen
VARIABLES proc, wire, chan, eng, snaps, ask, got

L == INSTANCE LineEngines

\* What the constants are: a ring that halves, and consumers of three kinds.
EventBounds ==
  /\ Ring \in Nat /\ Ring >= 2 /\ Ring % 2 = 0
  /\ MaxEvents \in Nat /\ MaxResumes \in Nat
  /\ Persistence # Coverage /\ {Persistence, Coverage} \cap Readers = {}

-----------------------------------------------------------------------------
(* since.                                                                  *)

\* What a filter of the first i events has kept.
KeptOf(s, cursor, i) ==
  {q \in Seq(Events) :
     /\ \A x \in Events : x \in Range(q) <=> x > cursor /\ \E j \in 1 .. i : s[j] = x
     /\ i > 0 => (s[i] > cursor => q # <<>> /\ Last(q) = s[i])}

\* A sequence with an element more.
LEMMA RangeAppend ==
  ASSUME NEW T, NEW q \in Seq(T), NEW x \in T
  PROVE  /\ Append(q, x) \in Seq(T) /\ Append(q, x) # <<>>
         /\ Last(Append(q, x)) = x
         /\ \A y : y \in Range(Append(q, x)) <=> y = x \/ y \in Range(q)
<1>1. /\ Append(q, x) \in Seq(T) /\ Len(Append(q, x)) = Len(q) + 1
      /\ \A i \in 1 .. Len(q) : Append(q, x)[i] = q[i]
      /\ Append(q, x)[Len(q) + 1] = x
  BY AppendProperties
<1>2. DOMAIN Append(q, x) = 1 .. Len(q) + 1 /\ DOMAIN q = 1 .. Len(q) /\ Len(q) \in Nat
  BY <1>1
<1>3. ASSUME NEW y PROVE y \in Range(Append(q, x)) <=> y = x \/ y \in Range(q)
  <2>1. ASSUME y \in Range(Append(q, x)) PROVE y = x \/ y \in Range(q)
    <3>1. PICK i \in 1 .. Len(q) + 1 : Append(q, x)[i] = y
      BY <1>2, <2>1 DEF Range
    <3> QED
      BY <1>1, <1>2, <3>1 DEF Range
  <2>2. ASSUME y \in Range(q) PROVE y \in Range(Append(q, x))
    <3>1. PICK i \in 1 .. Len(q) : q[i] = y
      BY <1>2, <2>2 DEF Range
    <3>2. i \in 1 .. Len(q) + 1 /\ Append(q, x)[i] = y
      BY <1>1, <1>2, <3>1
    <3> QED
      BY <1>2, <3>2 DEF Range
  <2>3. x \in Range(Append(q, x))
    <3>1. Len(q) + 1 \in 1 .. Len(q) + 1
      BY <1>2
    <3> QED
      BY <1>1, <1>2, <3>1 DEF Range
  <2> QED
    BY <2>1, <2>2, <2>3
<1>4. Append(q, x) # <<>> /\ Last(Append(q, x)) = x
  <2>1. Len(Append(q, x)) # 0 /\ Len(<<>>) = 0
    BY <1>1, <1>2
  <2> QED
    BY <1>1, <2>1 DEF Last
<1> QED
  BY <1>1, <1>3, <1>4

\* The filter of since keeps what is after the cursor, the last one last.
LEMMA AfterKeeps ==
  ASSUME EventBounds, NEW s \in Seq(Events), NEW cursor \in Nat
  PROVE  After(s, cursor) \in KeptOf(s, cursor, Len(s))
<1> DEFINE f == CHOOSE g : g = [i \in 0 .. Len(s) |->
                  IF i = 0 THEN <<>>
                  ELSE IF s[i] > cursor THEN Append(g[i - 1], s[i]) ELSE g[i - 1]]
           step == [p \in (1 .. Len(s)) \X Seq(Events) |->
                      IF s[p[1]] > cursor THEN Append(p[2], s[p[1]]) ELSE p[2]]
           P == {p \in (0 .. Len(s)) \X Seq(Events) : p[2] \in KeptOf(s, cursor, p[1])}
<1>1. After(s, cursor) = f[Len(s)]
  BY DEF After
<1>0. Events \subseteq Nat
  BY DEF EventBounds, Events
<1>2. Len(s) \in Nat /\ \A i \in 1 .. Len(s) : s[i] \in Events
  OBVIOUS
<1>3. \A i \in 1 .. Len(s), q \in Seq(Events) :
        step[<<i, q>>] = IF s[i] > cursor THEN Append(q, s[i]) ELSE q
  OBVIOUS
<1>4. step \in [(1 .. Len(s)) \X Seq(Events) -> Seq(Events)]
  <2>1. \A i \in 1 .. Len(s), q \in Seq(Events) :
          (IF s[i] > cursor THEN Append(q, s[i]) ELSE q) \in Seq(Events)
    BY <1>2, AppendProperties, SMTT(30)
  <2> QED
    BY <2>1
<1> HIDE DEF step
<1>5. f = [i \in 0 .. Len(s) |->
             IF i = 0 THEN <<>>
             ELSE IF s[i] > cursor THEN Append(f[i - 1], s[i]) ELSE f[i - 1]]
  <2>1. PICK g \in [0 .. Len(s) -> Seq(Events)] :
          \A i \in 0 .. Len(s) : g[i] = IF i = 0 THEN <<>> ELSE step[<<i, g[i - 1]>>]
    <3>1. <<>> \in Seq(Events)
      OBVIOUS
    <3>2. Scans(Len(s), Seq(Events), <<>>, step)
      BY <1>2, <1>4, <3>1, ScanExists
    <3> QED
      BY <3>2 DEF Scans, IsScan
  <2>2. \A i \in 1 .. Len(s) :
          g[i] = IF s[i] > cursor THEN Append(g[i - 1], s[i]) ELSE g[i - 1]
    <3>1. \A i \in 1 .. Len(s) : i \in 0 .. Len(s) /\ i # 0 /\ i - 1 \in 0 .. Len(s)
      BY <1>2
    <3> QED
      BY <1>3, <2>1, <3>1
  <2>3. g = [i \in 0 .. Len(s) |->
               IF i = 0 THEN <<>>
               ELSE IF s[i] > cursor THEN Append(g[i - 1], s[i]) ELSE g[i - 1]]
    <3>1. ASSUME NEW i \in 0 .. Len(s)
          PROVE  g[i] = IF i = 0 THEN <<>>
                        ELSE IF s[i] > cursor THEN Append(g[i - 1], s[i]) ELSE g[i - 1]
      <4>1. i # 0 => i \in 1 .. Len(s)
        BY <1>2
      <4> QED
        BY <2>1, <2>2, <4>1
    <3> QED
      BY <3>1
  <2> QED
    BY <2>3
<1> HIDE DEF f
<1>a. /\ f[0] = <<>>
      /\ \A i \in 1 .. Len(s) : f[i] = IF s[i] > cursor THEN Append(f[i - 1], s[i]) ELSE f[i - 1]
  <2>1. 0 \in 0 .. Len(s) /\ \A i \in 1 .. Len(s) : i \in 0 .. Len(s) /\ i # 0
    BY <1>2
  <2> QED
    BY <1>5, <2>1
<1>6. <<0, f[0]>> \in P
  <2>1. f[0] = <<>>
    BY <1>a
  <2>2. <<>> \in KeptOf(s, cursor, 0)
    <3>1. <<>> \in Seq(Events) /\ Range(<<>>) = {}
      BY DEF Range
    <3>2. ~\E j \in 1 .. 0 : s[j] = s[j]
      OBVIOUS
    <3> QED
      BY <3>1, <3>2 DEF KeptOf
  <2>3. <<>> \in Seq(Events) /\ 0 \in 0 .. Len(s)
    BY <1>2
  <2> QED
    BY <2>1, <2>2, <2>3
<1>7. ASSUME NEW i \in 1 .. Len(s), <<i - 1, f[i - 1]>> \in P PROVE <<i, f[i]>> \in P
  <2>1. f[i] = IF s[i] > cursor THEN Append(f[i - 1], s[i]) ELSE f[i - 1]
    BY <1>a
  <2>2. f[i - 1] \in Seq(Events) /\ s[i] \in Events
    BY <1>2, <1>7 DEF KeptOf
  <2>3. \A x \in Events : x \in Range(f[i - 1]) <=> x > cursor /\ \E j \in 1 .. i - 1 : s[j] = x
    BY <1>7 DEF KeptOf
  <2>4. \A x : (\E j \in 1 .. i : s[j] = x) <=> x = s[i] \/ \E j \in 1 .. i - 1 : s[j] = x
    BY <1>2
  <2>5. CASE s[i] > cursor
    <3>1. f[i] = Append(f[i - 1], s[i])
      BY <2>1, <2>5
    <3>2. /\ f[i] \in Seq(Events) /\ f[i] # <<>> /\ Last(f[i]) = s[i]
          /\ \A y : y \in Range(f[i]) <=> y = s[i] \/ y \in Range(f[i - 1])
      <4> DEFINE q == f[i - 1]
                 x == s[i]
      <4>1. q \in Seq(Events) /\ x \in Events
        BY <2>2
      <4>2. f[i] = Append(q, x)
        BY <3>1
      <4> HIDE DEF q, x
      <4>3. /\ Append(q, x) \in Seq(Events) /\ Append(q, x) # <<>> /\ Last(Append(q, x)) = x
            /\ \A y : y \in Range(Append(q, x)) <=> y = x \/ y \in Range(q)
        BY ONLY <4>1, RangeAppend, Zenon
      <4> QED
        BY <4>2, <4>3 DEF q, x
    <3>3. \A x \in Events : x \in Range(f[i]) <=> x > cursor /\ \E j \in 1 .. i : s[j] = x
      BY <2>3, <2>4, <2>5, <3>2
    <3> QED
      BY <1>2, <3>2, <3>3 DEF KeptOf
  <2>6. CASE ~(s[i] > cursor)
    <3>1. f[i] = f[i - 1]
      BY <2>1, <2>6
    <3>2. \A x \in Events : x \in Range(f[i]) <=> x > cursor /\ \E j \in 1 .. i : s[j] = x
      BY <2>3, <2>4, <2>6, <3>1
    <3> QED
      BY <1>2, <2>2, <2>6, <3>1, <3>2 DEF KeptOf
  <2> QED
    BY <2>5, <2>6
<1>8. \A i \in 0 .. Len(s) : <<i, f[i]>> \in P
  <2> HIDE DEF P
  <2> QED
    BY <1>2, <1>6, <1>7, ScanHolds
<1>9. Len(s) \in 0 .. Len(s)
  BY <1>2
<1> QED
  BY <1>1, <1>8, <1>9

-----------------------------------------------------------------------------
(* Types.                                                                  *)

RunType == [dir : BOOLEAN, closed : BOOLEAN, held : Seq(Seq(Events)), count : Counts]
DiskType == [log : Seq(Events), count : Counts]
AnswerType == [Consumers -> [events : SUBSET Events, gap : BOOLEAN]]

\* The queue has the last numbers handed out, without a hole.
Numbered(q) ==
  /\ q.next \in 1 .. MaxEvents + 1 /\ Len(q.events) < q.next
  /\ \A i \in 1 .. Len(q.events) : q.events[i] = q.next - 1 - Len(q.events) + i

InQueue(n) == queue.next - Len(queue.events) <= n /\ n < queue.next

TypeInv == TypeOK /\ Numbered(queue)

\* No event is counted twice: what is not taken out yet and was counted is
\* behind the cursor of coverage, which only a resume sets back, and then
\* nothing of what was counted is in the queue any more.
CoverInv ==
  /\ CoverOnce
  /\ \A n \in Events : disk.count[n] <= run.count[n]
  /\ \A n \in Events : n >= queue.next => run.count[n] = 0
  /\ \A n \in Events :
       InQueue(n) /\ run.count[n] > 0 => n <= at[Coverage] /\ ~closing /\ ~run.closed

\* A run with a directory has a backlog only after a failed write, and one
\* without has appended nothing: so no flush replaces a log that was appended to.
AppendInv ==
  /\ AppendedKept
  /\ ~run.dir => appended = {}
  /\ ~faulty /\ run.dir => run.held = <<>>

\* Before the first eviction every event is still queued or was drained.
GapInv ==
  queue.evicted = 0 => \A n \in Events : n < queue.next => InQueue(n) \/ n \in drained

EventInv == TypeInv /\ CoverInv /\ AppendInv /\ GapInv

\* The fields, typed one by one.
LEMMA Fields ==
  ASSUME EventBounds, TypeInv
  PROVE  /\ queue.events \in Seq(Events) /\ queue.next \in 1 .. MaxEvents + 1
         /\ queue.evicted \in Nat /\ Len(queue.events) \in 0 .. Ring
         /\ Len(queue.events) < queue.next
         /\ \A i \in 1 .. Len(queue.events) :
              queue.events[i] = queue.next - 1 - Len(queue.events) + i
         /\ \A c \in Consumers : at[c] \in 0 .. MaxEvents
         /\ run \in RunType /\ disk \in DiskType
         /\ Persistence \in Consumers /\ Coverage \in Consumers
         /\ MaxEvents \in Nat /\ Ring \in Nat
<1>1. Len(queue.events) \in Nat
  BY DEF TypeInv, TypeOK
<1> QED
  BY <1>1 DEF TypeInv, TypeOK, Numbered, EventBounds, RunType, DiskType, Consumers

\* What is in the queue.
LEMMA QueueHas ==
  ASSUME EventBounds, TypeInv, NEW n \in Events
  PROVE  n \in Range(queue.events) <=> InQueue(n)
<1> DEFINE q == queue.events
<1>1. /\ q \in Seq(Events) /\ Len(q) \in Nat /\ DOMAIN q = 1 .. Len(q)
      /\ queue.next \in Nat /\ Len(q) < queue.next
      /\ \A i \in 1 .. Len(q) : q[i] = queue.next - 1 - Len(q) + i
  BY Fields DEF EventBounds
<1>2. n \in Nat
  BY DEF Events, EventBounds
<1> HIDE DEF q
<1>3. ASSUME n \in Range(q) PROVE InQueue(n)
  <2>1. PICK i \in 1 .. Len(q) : q[i] = n
    BY <1>1, <1>3 DEF Range
  <2> QED
    BY <1>1, <2>1 DEF InQueue, q
<1>4. ASSUME InQueue(n) PROVE n \in Range(q)
  <2> DEFINE i == n + 1 + Len(q) - queue.next
  <2>1. i \in 1 .. Len(q)
    BY <1>1, <1>2, <1>4 DEF InQueue, q
  <2>2. q[i] = n
    <3>1. q[i] = queue.next - 1 - Len(q) + i
      BY <1>1, <2>1
    <3> QED
      BY <1>1, <1>2, <3>1, SMTT(30)
  <2> QED
    BY <1>1, <2>1, <2>2 DEF Range
<1> QED
  BY <1>3, <1>4 DEF q

\* A batch has what is retained after the cursor; its cursor moves to the end
\* of the queue or not at all; and between the two numbers there is nothing
\* that is not in the batch, unless it says so or the queue was drained (since).
LEMMA SinceGives ==
  ASSUME EventBounds, TypeInv, NEW cursor \in 0 .. MaxEvents
  PROVE  /\ Since(cursor).events \in Seq(Events)
         /\ Since(cursor).cursor \in 0 .. MaxEvents
         /\ Since(cursor).gap \in BOOLEAN
         /\ \A n \in Events : n \in Range(Since(cursor).events) <=> n > cursor /\ InQueue(n)
         /\ \A n \in Events :
              n > cursor /\ n < queue.next =>
                n \in Range(Since(cursor).events) \/ Since(cursor).gap
                \/ (queue.events = <<>> /\ queue.evicted = 0)
         /\ Since(cursor).cursor \in {cursor, queue.next - 1}
         /\ Since(0).cursor = queue.next - 1
<1> DEFINE q == queue.events
           fresh == After(q, cursor)
<1>1. /\ q \in Seq(Events) /\ Len(q) \in Nat /\ DOMAIN q = 1 .. Len(q)
      /\ queue.next \in 1 .. MaxEvents + 1 /\ Len(q) < queue.next /\ queue.evicted \in Nat
      /\ \A i \in 1 .. Len(q) : q[i] = queue.next - 1 - Len(q) + i
      /\ MaxEvents \in Nat
  BY Fields
<1>2. cursor \in Nat /\ 0 \in Nat
  BY <1>1
<1>3. fresh \in KeptOf(q, cursor, Len(q)) /\ After(q, 0) \in KeptOf(q, 0, Len(q))
  BY <1>1, <1>2, AfterKeeps
<1>4. ASSUME NEW n \in Events PROVE (\E j \in 1 .. Len(q) : q[j] = n) <=> InQueue(n)
  <2>1. (\E j \in 1 .. Len(q) : q[j] = n) <=> n \in Range(q)
    BY <1>1 DEF Range
  <2> QED
    BY <2>1, QueueHas
<1>5. ASSUME q = <<>> PROVE Len(q) = 0
  BY <1>5
<1>6. ASSUME q # <<>>
      PROVE  Len(q) \in 1 .. Len(q) /\ q[Len(q)] = queue.next - 1 /\ queue.next - 1 \in Events
             /\ Head(q) = queue.next - Len(q)
  <2>1. Len(q) >= 1
    BY <1>1, <1>6
  <2>2. Head(q) = q[1]
    BY <1>1, <1>6
  <2> QED
    BY <1>1, <2>1, <2>2, SMTT(30) DEF Events
<1>7. Since(cursor) = IF q = <<>>
                      THEN [events |-> <<>>, cursor |-> queue.next - 1, gap |-> queue.evicted > 0]
                      ELSE [events |-> fresh,
                            cursor |-> IF fresh = <<>> THEN cursor ELSE Last(fresh),
                            gap |-> cursor + 1 < Head(q)]
  BY DEF Since
<1>8. Since(0) = IF q = <<>>
                 THEN [events |-> <<>>, cursor |-> queue.next - 1, gap |-> queue.evicted > 0]
                 ELSE [events |-> After(q, 0),
                       cursor |-> IF After(q, 0) = <<>> THEN 0 ELSE Last(After(q, 0)),
                       gap |-> 0 + 1 < Head(q)]
  BY DEF Since
<1>9. /\ fresh \in Seq(Events)
      /\ \A n \in Events : n \in Range(fresh) <=> n > cursor /\ InQueue(n)
      /\ q # <<>> /\ queue.next - 1 > cursor => fresh # <<>> /\ Last(fresh) = queue.next - 1
  <2>1. /\ fresh \in Seq(Events)
        /\ \A n \in Events : n \in Range(fresh) <=> n > cursor /\ \E j \in 1 .. Len(q) : q[j] = n
        /\ Len(q) > 0 => (q[Len(q)] > cursor => fresh # <<>> /\ Last(fresh) = q[Len(q)])
    BY <1>3 DEF KeptOf
  <2>2. q # <<>> => Len(q) > 0 /\ q[Len(q)] = queue.next - 1
    BY <1>1, <1>6
  <2> QED
    BY <1>4, <2>1, <2>2
<1>10. q # <<>> => After(q, 0) # <<>> /\ Last(After(q, 0)) = queue.next - 1
  <2>1. Len(q) > 0 => (q[Len(q)] > 0 => After(q, 0) # <<>> /\ Last(After(q, 0)) = q[Len(q)])
    BY <1>3 DEF KeptOf
  <2> QED
    BY <1>1, <1>6, <2>1
<1>11. ASSUME q # <<>>, ~(queue.next - 1 > cursor) PROVE fresh = <<>>
  <2>1. ASSUME NEW i \in 1 .. Len(fresh) PROVE FALSE
    <3>1. fresh[i] \in Range(fresh) /\ fresh[i] \in Events
      BY <1>9 DEF Range
    <3>2. fresh[i] > cursor /\ fresh[i] < queue.next /\ fresh[i] \in Nat
      BY <1>9, <3>1 DEF InQueue, Events
    <3> QED
      BY <1>1, <1>2, <1>11, <3>2
  <2>2. Len(fresh) \in Nat
    BY <1>9
  <2>3. Len(fresh) = 0
    BY <2>1, <2>2
  <2> QED
    BY <1>9, <2>3
<1> HIDE DEF q, fresh
<1>12. CASE q = <<>>
  <2>1. /\ Since(cursor).events = <<>> /\ Since(cursor).cursor = queue.next - 1
        /\ Since(cursor).gap = (queue.evicted > 0) /\ Since(0).cursor = queue.next - 1
    BY <1>7, <1>8, <1>12
  <2>2. Range(<<>>) = {} /\ <<>> \in Seq(Events)
    BY DEF Range
  <2>3. \A n \in Events : ~InQueue(n)
    <3>1. Len(q) = 0 /\ \A n \in Events : n \in Nat
      BY <1>5, <1>12 DEF Events
    <3> QED
      BY <1>1, <3>1 DEF InQueue, q
  <2>4. queue.next - 1 \in 0 .. MaxEvents /\ (queue.evicted > 0 \/ queue.evicted = 0)
    BY <1>1
  <2>5. \A n \in Events : n \in Range(Since(cursor).events) <=> n > cursor /\ InQueue(n)
    BY <2>1, <2>2, <2>3
  <2>6. Since(cursor).gap \/ (queue.events = <<>> /\ queue.evicted = 0)
    BY <1>12, <2>1, <2>4 DEF q
  <2>7. /\ Since(cursor).events \in Seq(Events) /\ Since(cursor).cursor \in 0 .. MaxEvents
        /\ Since(cursor).gap \in BOOLEAN
    BY <2>1, <2>2, <2>4
  <2> QED
    BY <2>1, <2>5, <2>6, <2>7
<1>13. CASE q # <<>>
  <2>1. /\ Since(cursor).events = fresh
        /\ Since(cursor).cursor = IF fresh = <<>> THEN cursor ELSE Last(fresh)
        /\ Since(cursor).gap = (cursor + 1 < Head(q))
        /\ Since(0).cursor = queue.next - 1
    BY <1>7, <1>8, <1>10, <1>13
  <2>2. Since(cursor).cursor \in {cursor, queue.next - 1} /\ Since(cursor).cursor \in 0 .. MaxEvents
    BY <1>1, <1>9, <1>11, <1>13, <2>1
  <2>3. ASSUME NEW n \in Events, n > cursor, n < queue.next, ~Since(cursor).gap
        PROVE  n \in Range(fresh)
    <3>1. n \in Nat
      BY DEF Events
    <3>2. Head(q) = queue.next - Len(q)
      BY <1>6, <1>13
    <3>3. ~(cursor + 1 < Head(q))
      BY <2>1, <2>3
    <3>4. InQueue(n)
      BY <1>1, <1>2, <2>3, <3>1, <3>2, <3>3 DEF InQueue, q
    <3> QED
      BY <1>9, <2>3, <3>4
  <2> QED
    BY <1>9, <2>1, <2>2, <2>3
<1> QED
  BY <1>12, <1>13

\* A push adds the next number, and drops numbers only when it says so (push).
LEMMA PushGives ==
  ASSUME EventBounds, TypeInv, queue.next <= MaxEvents
  PROVE  /\ Push(queue) \in [events : Seq(Events), next : Nat, evicted : Nat]
         /\ Len(Push(queue).events) <= Ring /\ Numbered(Push(queue))
         /\ Push(queue).next = queue.next + 1
         /\ Len(Push(queue).events) <= Len(queue.events) + 1
         /\ Push(queue).evicted = 0 =>
              queue.evicted = 0 /\ Len(Push(queue).events) = Len(queue.events) + 1
<1> DEFINE q == queue.events
           half == Ring \div 2
           full == Len(q) >= Ring
           kept == IF full THEN SubSeq(q, half + 1, Len(q)) ELSE q
<1>1. /\ q \in Seq(Events) /\ Len(q) \in 0 .. Ring
      /\ queue.next \in 1 .. MaxEvents + 1 /\ Len(q) < queue.next /\ queue.evicted \in Nat
      /\ \A i \in 1 .. Len(q) : q[i] = queue.next - 1 - Len(q) + i
      /\ MaxEvents \in Nat /\ Ring \in Nat /\ Ring >= 2
  BY Fields DEF EventBounds
<1>2. half \in 1 .. Ring - 1
  BY <1>1
<1>3. Push(queue) = [events |-> Append(kept, queue.next), next |-> queue.next + 1,
                     evicted |-> IF full THEN queue.evicted + half ELSE queue.evicted]
  BY DEF Push
<1> HIDE DEF q, half
<1>4. /\ kept \in Seq(Events) /\ Len(kept) = IF full THEN Len(q) - half ELSE Len(q)
      /\ \A i \in 1 .. Len(kept) : kept[i] = queue.next - 1 - Len(kept) + i
  <2>1. CASE full
    <3>1. Len(q) = Ring /\ kept = SubSeq(q, half + 1, Len(q))
      <4>1. kept = SubSeq(q, half + 1, Len(q))
        BY <2>1
      <4> HIDE DEF kept
      <4> QED
        BY <1>1, <2>1, <4>1
    <3>2. /\ kept \in Seq(Events) /\ Len(kept) = Len(q) - half
          /\ \A i \in 1 .. Len(kept) : kept[i] = q[i + half]
      BY <1>1, <1>2, <3>1
    <3>3. ASSUME NEW i \in 1 .. Len(kept) PROVE kept[i] = queue.next - 1 - Len(kept) + i
      <4>1. i + half \in 1 .. Len(q)
        BY <1>1, <1>2, <3>1, <3>2
      <4>2. q[i + half] = queue.next - 1 - Len(q) + (i + half)
        BY <1>1, <4>1
      <4> HIDE DEF kept
      <4> QED
        BY <1>1, <1>2, <3>1, <3>2, <4>2
    <3> QED
      BY <2>1, <3>2, <3>3
  <2>2. CASE ~full
    BY <1>1, <2>2
  <2> QED
    BY <2>1, <2>2
<1> HIDE DEF kept
<1>5. queue.next \in Events
  BY <1>1 DEF Events
<1>6. /\ Append(kept, queue.next) \in Seq(Events)
      /\ Len(Append(kept, queue.next)) = Len(kept) + 1
      /\ \A i \in 1 .. Len(kept) : Append(kept, queue.next)[i] = kept[i]
      /\ Append(kept, queue.next)[Len(kept) + 1] = queue.next
  BY <1>4, <1>5, AppendProperties
<1> DEFINE more == Append(kept, queue.next)
<1> HIDE DEF more
<1>7. /\ more \in Seq(Events) /\ Len(more) = Len(kept) + 1 /\ Len(kept) \in Nat
      /\ \A i \in 1 .. Len(kept) : more[i] = kept[i]
      /\ more[Len(kept) + 1] = queue.next
  BY <1>4, <1>6 DEF more
<1>8. Len(kept) < Ring /\ Len(kept) <= Len(q) /\ (Len(kept) = Len(q) \/ full)
  BY <1>1, <1>2, <1>4
<1>9. ASSUME NEW i \in 1 .. Len(more) PROVE more[i] = (queue.next + 1) - 1 - Len(more) + i
  <2>1. CASE i = Len(kept) + 1
    BY <1>1, <1>7, <2>1
  <2>2. CASE i # Len(kept) + 1
    <3>1. i \in 1 .. Len(kept)
      BY <1>7, <2>2
    <3>2. more[i] = queue.next - 1 - Len(kept) + i
      BY <1>4, <1>7, <3>1
    <3> QED
      BY <1>1, <1>7, <3>1, <3>2
  <2> QED
    BY <2>1, <2>2
<1>10. /\ Push(queue).events = more /\ Push(queue).next = queue.next + 1
       /\ Push(queue).evicted = IF full THEN queue.evicted + half ELSE queue.evicted
       /\ Push(queue) = [events |-> more, next |-> queue.next + 1,
                         evicted |-> IF full THEN queue.evicted + half ELSE queue.evicted]
  BY <1>3 DEF more
<1>11. (IF full THEN queue.evicted + half ELSE queue.evicted) \in Nat
  BY <1>1, <1>2
<1>12. Push(queue).evicted = 0 => ~full /\ queue.evicted = 0
  BY <1>1, <1>2, <1>10
<1>13. Numbered(Push(queue))
  <2>1. queue.next + 1 \in 1 .. MaxEvents + 1 /\ Len(more) < queue.next + 1
    BY <1>1, <1>7, <1>8
  <2> QED
    BY <1>9, <1>10, <2>1 DEF Numbered
<1>14. Push(queue) \in [events : Seq(Events), next : Nat, evicted : Nat]
  <2>1. queue.next + 1 \in Nat
    BY <1>1
  <2> QED
    BY <1>7, <1>10, <1>11, <2>1
<1>15. Len(more) <= Ring /\ Len(more) <= Len(q) + 1
  BY <1>1, <1>7, <1>8
<1>16. Push(queue).evicted = 0 => Len(more) = Len(q) + 1
  BY <1>4, <1>7, <1>12
<1> QED
  BY <1>10, <1>12, <1>13, <1>14, <1>15, <1>16 DEF q

-----------------------------------------------------------------------------
(* hold_events and flush.                                                  *)

\* Both parts of a concatenation are in it.
LEMMA RangeConcat ==
  ASSUME NEW T, NEW s \in Seq(T), NEW t \in Seq(T)
  PROVE  s \o t \in Seq(T) /\ Range(s) \subseteq Range(s \o t) /\ Range(t) \subseteq Range(s \o t)
<1>1. /\ s \o t \in Seq(T) /\ Len(s \o t) = Len(s) + Len(t)
      /\ Len(s) \in Nat /\ Len(t) \in Nat
      /\ DOMAIN s = 1 .. Len(s) /\ DOMAIN t = 1 .. Len(t) /\ DOMAIN (s \o t) = 1 .. Len(s \o t)
      /\ \A i \in 1 .. Len(s) : (s \o t)[i] = s[i]
      /\ \A i \in 1 .. Len(t) : (s \o t)[Len(s) + i] = t[i]
  OBVIOUS
<1> DEFINE u == s \o t
<1> HIDE DEF u
<1>2. /\ Len(u) = Len(s) + Len(t) /\ DOMAIN u = 1 .. Len(u)
      /\ \A i \in 1 .. Len(s) : u[i] = s[i]
      /\ \A i \in 1 .. Len(t) : u[Len(s) + i] = t[i]
  BY <1>1 DEF u
<1>3. ASSUME NEW y \in Range(s) PROVE y \in Range(u)
  <2>1. PICK i \in 1 .. Len(s) : s[i] = y
    BY <1>1 DEF Range
  <2>2. i \in 1 .. Len(u) /\ u[i] = y
    BY <1>1, <1>2, <2>1
  <2> QED
    BY <1>2, <2>2 DEF Range
<1>4. ASSUME NEW y \in Range(t) PROVE y \in Range(u)
  <2>1. PICK i \in 1 .. Len(t) : t[i] = y
    BY <1>1 DEF Range
  <2>2. Len(s) + i \in 1 .. Len(u) /\ u[Len(s) + i] = y
    BY <1>1, <1>2, <2>1
  <2> QED
    BY <1>2, <2>2 DEF Range
<1> QED
  BY <1>1, <1>3, <1>4 DEF u

\* What a run holds or appends keeps its type, and as long as no write fails
\* whatever counts as appended is in the log (hold_events).
LEMMA HoldGives ==
  ASSUME TypeInv, NEW r \in RunType, NEW batch \in Seq(Events), Hold(r, batch)
  PROVE  /\ run' \in RunType /\ run'.dir = r.dir /\ run'.closed = r.closed
         /\ run'.count = r.count
         /\ disk' \in DiskType /\ disk'.count = disk.count
         /\ folded' \subseteq Events /\ appended' \subseteq Events /\ faulty' \in BOOLEAN
         /\ ~r.dir => appended' = appended
         /\ ~faulty' => ~faulty
         /\ ~faulty' /\ r.dir => run'.held = r.held
         /\ ~faulty' /\ appended \subseteq Range(disk.log) => appended' \subseteq Range(disk'.log)
<1>1. /\ disk \in DiskType /\ disk.log \in Seq(Events) /\ r.held \in Seq(Seq(Events))
      /\ folded \subseteq Events /\ appended \subseteq Events /\ faulty \in BOOLEAN
  BY DEF TypeInv, TypeOK, DiskType, RunType
<1>2. Range(batch) \subseteq Events
  BY DEF Range
<1>3. folded' \subseteq Events
  BY <1>1, <1>2 DEF Hold
<1>4. /\ Held(r, batch) \in RunType /\ Held(r, batch).dir = r.dir
      /\ Held(r, batch).closed = r.closed /\ Held(r, batch).count = r.count
  <2>1. Append(r.held, batch) \in Seq(Seq(Events))
    BY <1>1
  <2> QED
    BY <2>1 DEF Held, RunType
<1>5. CASE batch = <<>> /\ run' = r /\ UNCHANGED <<disk, appended, faulty>>
  BY <1>1, <1>3, <1>5
<1>6. CASE ~r.dir /\ run' = Held(r, batch) /\ UNCHANGED <<disk, appended, faulty>>
  BY <1>1, <1>3, <1>4, <1>6
<1>7. CASE /\ r.dir /\ run' = r /\ UNCHANGED faulty
           /\ disk' = [disk EXCEPT !.log = @ \o batch]
           /\ appended' = appended \cup Range(batch)
  <2>1. /\ disk.log \o batch \in Seq(Events)
        /\ Range(disk.log) \subseteq Range(disk.log \o batch)
        /\ Range(batch) \subseteq Range(disk.log \o batch)
    BY <1>1, RangeConcat
  <2>2. disk' \in DiskType /\ disk'.count = disk.count /\ disk'.log = disk.log \o batch
    BY <1>1, <1>7, <2>1 DEF DiskType
  <2>3. appended' \subseteq Events
    BY <1>1, <1>2, <1>7
  <2>4. appended \subseteq Range(disk.log) => appended' \subseteq Range(disk'.log)
    BY <1>7, <2>1, <2>2
  <2> QED
    BY <1>1, <1>3, <1>7, <2>2, <2>3, <2>4
<1>8. CASE /\ r.dir /\ run' = Held(r, batch) /\ faulty' = TRUE /\ UNCHANGED appended
           /\ \E k \in 0 .. Len(batch) - 1 :
                disk' = [disk EXCEPT !.log = @ \o SubSeq(batch, 1, k)]
  <2>1. PICK k \in 0 .. Len(batch) - 1 : disk' = [disk EXCEPT !.log = @ \o SubSeq(batch, 1, k)]
    BY <1>8
  <2>2. SubSeq(batch, 1, k) \in Seq(Events)
    BY <2>1
  <2>3. disk.log \o SubSeq(batch, 1, k) \in Seq(Events)
    BY <1>1, <2>2
  <2>4. disk' \in DiskType /\ disk'.count = disk.count
    BY <1>1, <2>1, <2>3 DEF DiskType
  <2> QED
    BY <1>1, <1>3, <1>4, <1>8, <2>4
<1> QED
  BY <1>5, <1>6, <1>7, <1>8 DEF Hold

\* A flush keeps types and puts nothing of what was counted at risk.
LEMMA FlushGives ==
  ASSUME TypeInv, NEW closed \in BOOLEAN, FlushOk(closed) \/ FlushFails
  PROVE  /\ run' \in RunType /\ run'.count = run.count /\ run'.dir
         /\ run'.closed \in {run.closed, closed}
         /\ disk' \in DiskType /\ disk'.count \in {disk.count, run.count}
         /\ reported' \subseteq Events /\ faulty' \in BOOLEAN
         /\ ~faulty' => ~faulty /\ run'.held = <<>>
         /\ ~faulty' /\ run.held = <<>> => disk'.log = disk.log
<1>1. /\ run \in RunType /\ disk \in DiskType /\ run.held \in Seq(Seq(Events))
      /\ run.count \in Counts /\ run.closed \in BOOLEAN
      /\ disk.log \in Seq(Events) /\ disk.count \in Counts
      /\ folded \subseteq Events /\ reported \subseteq Events /\ faulty \in BOOLEAN
  BY DEF TypeInv, TypeOK, DiskType, RunType
<1>2. <<>> \in Seq(Seq(Events))
  OBVIOUS
<1>3. \A k \in DOMAIN run.held : run.held[k] \in Seq(Events)
  BY <1>1
<1>4. Flushed \in DiskType /\ Flushed.count = run.count
      /\ (run.held = <<>> => Flushed.log = disk.log)
  <2>1. ASSUME run.held # <<>> PROVE Last(run.held) \in Seq(Events)
    <3>1. Len(run.held) \in DOMAIN run.held
      BY <1>1, <2>1
    <3> QED
      BY <1>3, <3>1 DEF Last
  <2> QED
    BY <1>1, <2>1 DEF Flushed, DiskType
<1>5. CASE FlushOk(closed)
  <2>1. run' \in RunType /\ run'.count = run.count /\ run'.dir /\ run'.closed = closed /\ run'.held = <<>>
    BY <1>1, <1>2, <1>5 DEF FlushOk, TakeHeld, RunType
  <2>2. disk' = Flushed /\ reported' \subseteq Events /\ faulty' = faulty
    BY <1>1, <1>5 DEF FlushOk
  <2> QED
    BY <1>1, <1>4, <2>1, <2>2
<1>6. CASE FlushFails
  <2>1. run' \in RunType /\ run'.count = run.count /\ run'.dir /\ run'.closed = run.closed
    BY <1>1, <1>2, <1>6 DEF FlushFails, TakeHeld, RunType
  <2>2. \/ disk' = disk \/ disk' = Flushed
        \/ \E k \in DOMAIN run.held : disk' = [disk EXCEPT !.log = run.held[k]]
    BY <1>6 DEF FlushFails
  <2>3. disk' \in DiskType /\ disk'.count \in {disk.count, run.count}
    <3>1. ASSUME NEW k \in DOMAIN run.held, disk' = [disk EXCEPT !.log = run.held[k]]
          PROVE  disk' \in DiskType /\ disk'.count = disk.count
      BY <1>1, <1>3, <3>1 DEF DiskType
    <3> QED
      BY <1>1, <1>4, <2>2, <3>1
  <2>4. faulty' = TRUE /\ reported' = reported
    BY <1>6 DEF FlushFails
  <2> QED
    BY <1>1, <2>1, <2>3, <2>4
<1> QED
  BY <1>5, <1>6

-----------------------------------------------------------------------------
(* The invariant.                                                          *)

\* At first.
LEMMA EventInit ==
  ASSUME EventBounds, Init
  PROVE  EventInv
<1>1. /\ MaxEvents \in Nat /\ MaxResumes \in Nat /\ Ring \in Nat
      /\ Coverage \in Consumers
  BY DEF EventBounds, Consumers
<1>2. /\ <<>> \in Seq(Events) /\ <<>> \in Seq(Seq(Events)) /\ Len(<<>>) = 0
      /\ Zero \in Counts /\ (\A n \in Events : Zero[n] = 0 /\ n \in Nat /\ n >= 1)
      /\ Nothing \in AnswerType
  BY DEF Zero, Counts, Nothing, AnswerType, Events
<1>3. PICK dir \in BOOLEAN : run = [dir |-> dir, closed |-> FALSE, held |-> <<>>, count |-> Zero]
  BY DEF Init
<1>4. /\ queue = [events |-> <<>>, next |-> 1, evicted |-> 0] /\ at = [c \in Consumers |-> 0]
      /\ disk = [log |-> <<>>, count |-> Zero] /\ closing = FALSE /\ resumes = 0
      /\ answer = Nothing /\ drained = {} /\ folded = {} /\ appended = {} /\ reported = {}
      /\ faulty = FALSE
  BY DEF Init
<1>5. TypeOK
  <2>1. queue \in [events : Seq(Events), next : Nat, evicted : Nat] /\ Len(queue.events) <= Ring
    BY <1>1, <1>2, <1>4
  <2>2. /\ run \in [dir : BOOLEAN, closed : BOOLEAN, held : Seq(Seq(Events)), count : Counts]
        /\ disk \in [log : Seq(Events), count : Counts]
    BY <1>2, <1>3, <1>4
  <2>3. at \in [Consumers -> 0 .. MaxEvents]
    BY <1>1, <1>4
  <2>4. answer \in AnswerType
    BY <1>2, <1>4
  <2>5. resumes \in 0 .. MaxResumes
    BY <1>1, <1>4
  <2> QED
    BY <1>4, <2>1, <2>2, <2>3, <2>4, <2>5 DEF TypeOK, AnswerType
<1>6. Numbered(queue)
  BY <1>1, <1>2, <1>4 DEF Numbered
<1>7. CoverInv
  BY <1>1, <1>2, <1>3, <1>4 DEF CoverInv, CoverOnce, InQueue
<1>8. AppendInv
  BY <1>3, <1>4 DEF AppendInv, AppendedKept
<1>9. GapInv
  BY <1>2, <1>4 DEF GapInv
<1> QED
  BY <1>5, <1>6, <1>7, <1>8, <1>9 DEF EventInv, TypeInv

\* The answers a step gives.
LEMMA AnswerTypes ==
  ASSUME NEW f \in AnswerType, NEW c \in Consumers, NEW b,
         b.events \in Seq(Events), b.gap \in BOOLEAN
  PROVE  Nothing \in AnswerType /\ [f EXCEPT ![c] = Answered(b)] \in AnswerType
<1>1. Nothing \in AnswerType
  BY DEF Nothing, AnswerType
<1>2. Range(b.events) \subseteq Events
  BY DEF Range
<1> QED
  BY <1>1, <1>2 DEF Answered, AnswerType

\* The counts after a fold, and what they were.
Recorded ==
  [n \in Events |-> run.count[n] + (IF /\ Since(0).cursor > at[Coverage]
                                       /\ n \in Range(Since(at[Coverage]).events) THEN 1 ELSE 0)]

\* A fold counts what coverage has not passed, which nobody has counted.
LEMMA RecordedGives ==
  ASSUME EventBounds, TypeInv, CoverInv, ~closing, ~run.closed
  PROVE  /\ Recorded \in Counts
         /\ \A n \in Events : Recorded[n] <= 1 /\ run.count[n] <= Recorded[n]
         /\ \A n \in Events : Recorded[n] > run.count[n] =>
              InQueue(n) /\ queue.next - 1 > at[Coverage]
<1>1. /\ at[Coverage] \in 0 .. MaxEvents /\ run \in RunType /\ run.count \in Counts
      /\ MaxEvents \in Nat
  BY Fields DEF RunType
<1>2. /\ Since(0).cursor = queue.next - 1
      /\ \A n \in Events :
           n \in Range(Since(at[Coverage]).events) <=> n > at[Coverage] /\ InQueue(n)
  BY <1>1, SinceGives
<1>3. ASSUME NEW n \in Events
      PROVE  /\ Recorded[n] \in 0 .. 1 /\ run.count[n] <= Recorded[n]
             /\ Recorded[n] > run.count[n] => InQueue(n) /\ queue.next - 1 > at[Coverage]
  <2>1. run.count[n] \in 0 .. 2 /\ run.count[n] <= 1 /\ n \in Nat
    BY <1>1 DEF Counts, CoverInv, CoverOnce, Events
  <2>2. InQueue(n) /\ run.count[n] > 0 => n <= at[Coverage]
    BY DEF CoverInv
  <2>3. Recorded[n] = run.count[n] + (IF /\ queue.next - 1 > at[Coverage]
                                        /\ n > at[Coverage] /\ InQueue(n) THEN 1 ELSE 0)
    BY <1>2 DEF Recorded
  <2> QED
    BY <1>1, <2>1, <2>2, <2>3
<1>4. Recorded \in Counts
  <2>1. Recorded = [n \in Events |-> Recorded[n]]
    BY DEF Recorded
  <2>2. \A n \in Events : Recorded[n] \in 0 .. 2
    BY <1>3
  <2> HIDE DEF Recorded
  <2> QED
    BY <2>1, <2>2 DEF Counts
<1> QED
  BY <1>3, <1>4

\* Types, part by part.
LEMMA TypeParts ==
  TypeInv <=>
    /\ queue \in [events : Seq(Events), next : Nat, evicted : Nat] /\ Len(queue.events) <= Ring
    /\ Numbered(queue)
    /\ at \in [Consumers -> 0 .. MaxEvents]
    /\ run \in RunType /\ disk \in DiskType
    /\ closing \in BOOLEAN /\ resumes \in 0 .. MaxResumes /\ answer \in AnswerType
    /\ drained \subseteq Events /\ folded \subseteq Events
    /\ appended \subseteq Events /\ reported \subseteq Events /\ faulty \in BOOLEAN
  BY DEF TypeInv, TypeOK, RunType, DiskType, AnswerType

\* Nothing was served by a step that serves nothing.
LEMMA NothingServed ==
  Nothing \in AnswerType
  BY DEF Nothing, AnswerType

\* What is in the queue is among the events.
LEMMA Queued ==
  ASSUME TypeInv
  PROVE  Range(queue.events) \subseteq Events
  BY DEF TypeInv, TypeOK, Range

\* An empty queue has nothing and keeps its numbers.
LEMMA Emptied ==
  ASSUME TypeInv, queue' = [queue EXCEPT !.events = <<>>]
  PROVE  /\ queue' \in [events : Seq(Events), next : Nat, evicted : Nat]
         /\ Len(queue'.events) = 0 /\ Numbered(queue')
         /\ queue'.next = queue.next /\ queue'.evicted = queue.evicted
<1>1. /\ queue \in [events : Seq(Events), next : Nat, evicted : Nat]
      /\ queue.next \in 1 .. MaxEvents + 1
  BY DEF TypeInv, TypeOK, Numbered
<1>2. <<>> \in Seq(Events) /\ Len(<<>>) = 0
  OBVIOUS
<1>3. queue' = [events |-> <<>>, next |-> queue.next, evicted |-> queue.evicted]
  BY <1>1
<1>4. queue'.events = <<>> /\ queue'.next = queue.next /\ queue'.evicted = queue.evicted
  BY <1>3
<1>5. queue' \in [events : Seq(Events), next : Nat, evicted : Nat]
  BY <1>1, <1>2, <1>3
<1>6. Len(queue'.events) = 0
  BY <1>2, <1>4
<1>7. Numbered(queue')
  <2>1. queue'.next \in 1 .. MaxEvents + 1 /\ 0 < queue'.next
    BY <1>1, <1>4
  <2>2. \A i \in 1 .. 0 : FALSE
    OBVIOUS
  <2> QED
    BY <1>6, <2>1, <2>2 DEF Numbered
<1> QED
  BY <1>4, <1>5, <1>6, <1>7

\* Types are kept by every step.
LEMMA EventTypeNext ==
  ASSUME EventBounds, TypeInv, CoverInv, [Next]_vars
  PROVE  TypeInv'
<1> DEFINE QueueType == /\ queue' \in [events : Seq(Events), next : Nat, evicted : Nat]
                        /\ Len(queue'.events) <= Ring /\ Numbered(queue')
<1>0. /\ queue \in [events : Seq(Events), next : Nat, evicted : Nat] /\ Len(queue.events) <= Ring
      /\ Numbered(queue) /\ queue.events \in Seq(Events)
      /\ at \in [Consumers -> 0 .. MaxEvents]
      /\ run \in RunType /\ run.closed \in BOOLEAN /\ run.dir \in BOOLEAN
      /\ disk \in DiskType /\ disk.count \in Counts
      /\ closing \in BOOLEAN /\ resumes \in 0 .. MaxResumes /\ answer \in AnswerType
      /\ drained \subseteq Events /\ folded \subseteq Events
      /\ appended \subseteq Events /\ reported \subseteq Events /\ faulty \in BOOLEAN
      /\ Range(queue.events) \subseteq Events
      /\ Nothing \in AnswerType
  BY TypeParts, Queued, NothingServed DEF RunType, DiskType
<1>n. ASSUME QueueType, at' \in [Consumers -> 0 .. MaxEvents], run' \in RunType, disk' \in DiskType,
             closing' \in BOOLEAN, resumes' \in 0 .. MaxResumes, answer' \in AnswerType,
             drained' \subseteq Events, folded' \subseteq Events, appended' \subseteq Events,
             reported' \subseteq Events, faulty' \in BOOLEAN
      PROVE  TypeInv'
  BY <1>n DEF TypeInv, TypeOK, RunType, DiskType, AnswerType, Numbered
<1>q. ASSUME queue' = queue PROVE QueueType
  BY <1>0, <1>q
<1>e. ASSUME queue' = [queue EXCEPT !.events = <<>>] PROVE QueueType
  <2>1. Ring \in Nat
    BY DEF EventBounds
  <2> QED
    BY <1>e, <2>1, Emptied
<1>b. Persistence \in Consumers /\ Coverage \in Consumers /\ Persistence # Coverage
  BY DEF Consumers, EventBounds
<1>f. \A c \in Consumers : at[c] \in 0 .. MaxEvents
  BY <1>0
<1> USE DEF hist
<1>1. CASE Emit
  <2>1. QueueType
    BY <1>1, PushGives DEF Emit
  <2> HIDE DEF QueueType
  <2> QED
    BY <1>0, <1>1, <1>n, <2>1 DEF Emit, ServesNothing
<1>2. ASSUME NEW c \in Readers, Read(c) PROVE TypeInv'
  <2>1. c \in Consumers /\ at[c] \in 0 .. MaxEvents
    BY <1>f DEF Consumers
  <2> DEFINE b == Since(at[c])
  <2>2. b.events \in Seq(Events) /\ b.gap \in BOOLEAN /\ b.cursor \in 0 .. MaxEvents
    BY <2>1, SinceGives
  <2>3. at' = [at EXCEPT ![c] = b.cursor] /\ answer' = [Nothing EXCEPT ![c] = Answered(b)]
    BY <1>2 DEF Read
  <2> HIDE DEF b
  <2>4. at' \in [Consumers -> 0 .. MaxEvents] /\ answer' \in AnswerType
    BY <1>0, <2>1, <2>2, <2>3, AnswerTypes
  <2>5. QueueType /\ UNCHANGED <<run, disk, closing, resumes, drained, folded, appended, reported, faulty>>
    BY <1>2, <1>q DEF Read
  <2> HIDE DEF QueueType
  <2> QED
    BY <1>0, <1>n, <2>4, <2>5
<1>3. CASE Fold
  <2> DEFINE p == Since(at[Persistence])
             c == Since(at[Coverage])
             upto == Since(0).cursor
  <2>1. /\ p.events \in Seq(Events) /\ p.gap \in BOOLEAN /\ p.cursor \in 0 .. MaxEvents
        /\ c.events \in Seq(Events) /\ c.gap \in BOOLEAN
    BY <1>b, <1>f, SinceGives
  <2>2. upto \in 0 .. MaxEvents
    <3>1. 0 \in 0 .. MaxEvents
      BY DEF EventBounds
    <3> QED
      BY <3>1, SinceGives
  <2>3. /\ at' = [at EXCEPT ![Persistence] = IF p.events = <<>> THEN @ ELSE p.cursor,
                            ![Coverage] = IF upto > at[Coverage] THEN upto ELSE @]
        /\ answer' = [Nothing EXCEPT ![Persistence] = Answered(p), ![Coverage] = Answered(c)]
        /\ Hold([run EXCEPT !.count = Recorded], p.events)
        /\ ~closing /\ ~run.closed
        /\ UNCHANGED <<queue, closing, resumes, drained, reported>>
    BY <1>3 DEF Fold, Recorded
  <2>4. Recorded \in Counts
    BY <2>3, RecordedGives
  <2> DEFINE r == [run EXCEPT !.count = Recorded]
  <2>5. r \in RunType
    BY <1>0, <2>4 DEF RunType
  <2> HIDE DEF p, c, upto, r
  <2>6. Hold(r, p.events)
    BY <2>3 DEF r
  <2>7. /\ run' \in RunType /\ disk' \in DiskType
        /\ folded' \subseteq Events /\ appended' \subseteq Events /\ faulty' \in BOOLEAN
    BY <2>1, <2>5, <2>6, HoldGives
  <2>8. at' \in [Consumers -> 0 .. MaxEvents]
    BY <1>0, <1>b, <2>1, <2>2, <2>3
  <2>9. answer' \in AnswerType
    <3>1. [Nothing EXCEPT ![Persistence] = Answered(p)] \in AnswerType
      BY <1>0, <1>b, <2>1, AnswerTypes
    <3> QED
      BY <1>b, <2>1, <2>3, <3>1, AnswerTypes
  <2>10. QueueType
    BY <1>q, <2>3
  <2> HIDE DEF QueueType
  <2> QED
    BY <1>0, <1>n, <2>3, <2>7, <2>8, <2>9, <2>10
<1>4. CASE Persist
  <2>1. FlushOk(run.closed) \/ FlushFails
    BY <1>4 DEF Persist
  <2>2. run' \in RunType /\ disk' \in DiskType /\ reported' \subseteq Events /\ faulty' \in BOOLEAN
    BY <1>0, <2>1, FlushGives
  <2>3. QueueType
    BY <1>4, <1>q DEF Persist
  <2> HIDE DEF QueueType
  <2> QED
    BY <1>0, <1>4, <1>n, <2>2, <2>3 DEF Persist, ServesNothing
<1>5. CASE CloseDrain
  <2>1. /\ run' \in RunType /\ disk' \in DiskType
        /\ folded' \subseteq Events /\ appended' \subseteq Events /\ faulty' \in BOOLEAN
    BY <1>0, <1>5, HoldGives DEF CloseDrain
  <2>2. QueueType
    BY <1>5, <1>e DEF CloseDrain
  <2>3. drained' \subseteq Events
    BY <1>0, <1>5 DEF CloseDrain
  <2> HIDE DEF QueueType
  <2> QED
    BY <1>0, <1>5, <1>n, <2>1, <2>2, <2>3 DEF CloseDrain, ServesNothing
<1>6. CASE CloseFlush
  <2>1. CASE FlushOk(TRUE) \/ FlushFails
    <3>1. run' \in RunType /\ disk' \in DiskType /\ reported' \subseteq Events /\ faulty' \in BOOLEAN
      BY <2>1, FlushGives
    <3>2. QueueType
      BY <1>6, <1>q DEF CloseFlush
    <3> HIDE DEF QueueType
    <3> QED
      BY <1>0, <1>6, <1>n, <3>1, <3>2 DEF CloseFlush, ServesNothing
  <2>2. CASE run' = [run EXCEPT !.closed = TRUE] /\ UNCHANGED <<disk, reported, faulty>>
    <3>1. run' \in RunType
      BY <1>0, <2>2 DEF RunType
    <3>2. QueueType
      BY <1>6, <1>q DEF CloseFlush
    <3> HIDE DEF QueueType
    <3> QED
      BY <1>0, <1>6, <1>n, <2>2, <3>1, <3>2 DEF CloseFlush, ServesNothing
  <2> QED
    BY <1>6, <2>1, <2>2 DEF CloseFlush
<1>7. CASE CloseAgain
  <2>1. QueueType
    BY <1>7, <1>e DEF CloseAgain
  <2>2. drained' \subseteq Events
    BY <1>0, <1>7 DEF CloseAgain
  <2> HIDE DEF QueueType
  <2> QED
    BY <1>0, <1>7, <1>n, <2>1, <2>2 DEF CloseAgain, ServesNothing
<1>8. CASE Resume
  <2>1. /\ run' = [dir |-> TRUE, closed |-> FALSE, held |-> <<>>, count |-> disk.count]
        /\ at' = [at EXCEPT ![Persistence] = 0, ![Coverage] = 0]
        /\ resumes < MaxResumes /\ resumes' = resumes + 1
    BY <1>8 DEF Resume
  <2>2. <<>> \in Seq(Seq(Events)) /\ MaxEvents \in Nat /\ MaxResumes \in Nat
    BY DEF EventBounds
  <2>3. run' \in RunType
    BY <1>0, <2>1, <2>2 DEF RunType
  <2>4. at' \in [Consumers -> 0 .. MaxEvents]
    <3>1. 0 \in 0 .. MaxEvents
      BY <2>2
    <3> QED
      BY <1>0, <2>1, <3>1
  <2>5. resumes' \in 0 .. MaxResumes
    BY <1>0, <2>1, <2>2
  <2>6. QueueType
    BY <1>8, <1>q DEF Resume
  <2> HIDE DEF QueueType
  <2> QED
    BY <1>0, <1>8, <1>n, <2>3, <2>4, <2>5, <2>6 DEF Resume, ServesNothing
<1>9. CASE UNCHANGED vars
  <2>1. QueueType
    BY <1>9, <1>q DEF vars
  <2> HIDE DEF QueueType
  <2> QED
    BY <1>0, <1>9, <1>n, <2>1 DEF vars
<1> QED
  BY <1>1, <1>2, <1>3, <1>4, <1>5, <1>6, <1>7, <1>8, <1>9 DEF Next

\* A step that leaves queue and counts alone, sets no cursor of coverage back
\* and starts no close counts nothing twice.
LEMMA CoverKept ==
  ASSUME EventBounds, TypeInv, CoverInv, queue' = queue, at'[Coverage] = at[Coverage],
         run'.count = run.count, disk'.count \in {disk.count, run.count},
         closing' => closing, run'.closed => run.closed \/ closing
  PROVE  CoverInv'
<1>1. \A n \in Events : run.count[n] \in Nat
  BY TypeParts DEF RunType, Counts
<1> QED
  BY <1>1 DEF CoverInv, CoverOnce, InQueue

\* Nothing is counted twice.
LEMMA EventCoverNext ==
  ASSUME EventBounds, TypeInv, TypeInv', CoverInv, [Next]_vars
  PROVE  CoverInv'
<1> USE DEF hist
<1>0. /\ \A n \in Events : run.count[n] \in Nat /\ n \in Nat
      /\ queue.next \in 1 .. MaxEvents + 1 /\ Len(queue.events) \in Nat
      /\ Len(queue.events) < queue.next
      /\ MaxEvents \in Nat /\ at[Coverage] \in 0 .. MaxEvents
  <2>1. \A n \in Events : run.count[n] \in Nat /\ n \in Nat
    <3>1. run.count \in Counts
      BY TypeParts DEF RunType
    <3> QED
      BY <3>1 DEF Counts, Events, EventBounds
  <2> QED
    BY <2>1, Fields
<1>b. Persistence # Coverage /\ Coverage \notin Readers /\ Coverage \in Consumers
      /\ Persistence \in Consumers /\ at \in [Consumers -> 0 .. MaxEvents]
  BY TypeParts DEF EventBounds, Consumers
<1>1. CASE Emit
  <2>1. queue' = Push(queue) /\ queue.next <= MaxEvents /\ UNCHANGED <<at, run, disk, closing>>
    BY <1>1 DEF Emit
  <2>2. queue'.next = queue.next + 1 /\ Len(queue'.events) <= Len(queue.events) + 1
        /\ Len(queue'.events) \in Nat
    BY <2>1, PushGives, TypeParts
  <2>3. ASSUME NEW n \in Events, InQueue(n)' PROVE InQueue(n) \/ n >= queue.next
    BY <1>0, <2>2, <2>3 DEF InQueue
  <2>4. \A n \in Events : n >= queue'.next => n >= queue.next
    BY <1>0, <2>2
  <2>5. CoverOnce' /\ \A n \in Events : disk'.count[n] <= run'.count[n]
    BY <2>1 DEF CoverInv, CoverOnce
  <2>6. \A n \in Events : n >= queue'.next => run'.count[n] = 0
    BY <2>1, <2>4 DEF CoverInv
  <2>7. ASSUME NEW n \in Events, InQueue(n)', run'.count[n] > 0
        PROVE  n <= at'[Coverage] /\ ~closing' /\ ~run'.closed
    <3>1. run.count[n] > 0 /\ run.count[n] # 0
      BY <1>0, <2>1, <2>7
    <3>2. InQueue(n)
      BY <2>3, <2>7, <3>1 DEF CoverInv
    <3> QED
      BY <2>1, <3>1, <3>2 DEF CoverInv
  <2> QED
    BY <2>5, <2>6, <2>7 DEF CoverInv
<1>2. ASSUME NEW c \in Readers, Read(c) PROVE CoverInv'
  <2>1. at'[Coverage] = at[Coverage] /\ UNCHANGED <<queue, run, disk, closing>>
    BY <1>2, <1>b DEF Read
  <2> QED
    BY <2>1, CoverKept
<1>3. CASE Fold
  <2> DEFINE p == Since(at[Persistence])
             upto == Since(0).cursor
             r == [run EXCEPT !.count = Recorded]
  <2>1. /\ at' = [at EXCEPT ![Persistence] = IF p.events = <<>> THEN @ ELSE p.cursor,
                            ![Coverage] = IF upto > at[Coverage] THEN upto ELSE @]
        /\ Hold(r, p.events)
        /\ ~closing /\ ~run.closed
        /\ UNCHANGED <<queue, closing>>
    BY <1>3 DEF Fold, Recorded
  <2>2. upto = queue.next - 1 /\ p.events \in Seq(Events)
    BY <1>0, <1>b, SinceGives
  <2>3. /\ Recorded \in Counts
        /\ \A n \in Events : Recorded[n] <= 1 /\ run.count[n] <= Recorded[n]
        /\ \A n \in Events : Recorded[n] > run.count[n] =>
              InQueue(n) /\ queue.next - 1 > at[Coverage]
    BY <2>1, RecordedGives
  <2>4. r \in RunType /\ r.count = Recorded /\ r.closed = run.closed
    BY <2>3, TypeParts DEF RunType
  <2> HIDE DEF p, upto, r
  <2>5. run'.count = Recorded /\ ~run'.closed /\ disk'.count = disk.count
    BY <2>1, <2>2, <2>4, HoldGives
  <2>6. at'[Coverage] = IF queue.next - 1 > at[Coverage] THEN queue.next - 1 ELSE at[Coverage]
    BY <1>b, <2>1, <2>2
  <2>7. \A n \in Events : Recorded[n] \in Nat /\ disk.count[n] \in Nat
    BY <2>3, TypeParts DEF Counts, DiskType
  <2>8. CoverOnce' /\ \A n \in Events : disk'.count[n] <= run'.count[n]
    BY <1>0, <2>3, <2>5, <2>7 DEF CoverInv, CoverOnce
  <2>9. ASSUME NEW n \in Events, n >= queue.next PROVE Recorded[n] = 0
    <3>1. run.count[n] = 0 /\ ~InQueue(n)
      BY <1>0, <2>9 DEF CoverInv, InQueue
    <3> QED
      BY <2>3, <2>7, <3>1
  <2>10. ASSUME NEW n \in Events, InQueue(n), Recorded[n] > 0 PROVE n <= at'[Coverage]
    BY <1>0, <2>6, <2>10 DEF InQueue
  <2>11. \A n \in Events : InQueue(n)' <=> InQueue(n)
    BY <2>1 DEF InQueue
  <2> QED
    BY <2>1, <2>5, <2>8, <2>9, <2>10, <2>11 DEF CoverInv
<1>4. CASE Persist
  <2>1. FlushOk(run.closed) \/ FlushFails
    BY <1>4 DEF Persist
  <2>2. run'.count = run.count /\ run'.closed = run.closed /\ disk'.count \in {disk.count, run.count}
    <3>1. run.closed \in BOOLEAN
      BY TypeParts DEF RunType
    <3> QED
      BY <2>1, <3>1, FlushGives
  <2>3. UNCHANGED <<queue, at, closing>>
    BY <1>4 DEF Persist
  <2> QED
    BY <2>2, <2>3, CoverKept
<1>5. CASE CloseDrain
  <2>1. /\ run \in RunType /\ queue.events \in Seq(Events)
        /\ ~run.closed /\ Hold(run, queue.events)
    BY <1>5, Fields DEF CloseDrain
  <2>2. run'.count = run.count /\ run'.closed = run.closed /\ disk'.count = disk.count
    BY <2>1, HoldGives
  <2>3. queue'.next = queue.next /\ Len(queue'.events) = 0 /\ at' = at
    BY <1>5, Emptied DEF CloseDrain
  <2>4. \A n \in Events : ~InQueue(n)'
    BY <1>0, <2>3 DEF InQueue
  <2> QED
    BY <2>2, <2>3, <2>4 DEF CoverInv, CoverOnce
<1>6. CASE CloseFlush
  <2>1. closing /\ UNCHANGED <<queue, at>> /\ ~closing'
    BY <1>6 DEF CloseFlush
  <2>2. run'.count = run.count /\ disk'.count \in {disk.count, run.count}
    <3>1. CASE FlushOk(TRUE) \/ FlushFails
      BY <3>1, FlushGives
    <3>2. CASE run' = [run EXCEPT !.closed = TRUE] /\ UNCHANGED <<disk, reported, faulty>>
      BY <3>2, TypeParts DEF RunType
    <3> QED
      BY <1>6, <3>1, <3>2 DEF CloseFlush
  <2> QED
    BY <2>1, <2>2, CoverKept
<1>7. CASE CloseAgain
  <2>1. queue'.next = queue.next /\ Len(queue'.events) = 0 /\ UNCHANGED <<at, run, disk, closing>>
    BY <1>7, Emptied DEF CloseAgain
  <2>2. \A n \in Events : ~InQueue(n)'
    BY <1>0, <2>1 DEF InQueue
  <2> QED
    BY <2>1, <2>2 DEF CoverInv, CoverOnce
<1>8. CASE Resume
  <2>1. /\ run' = [dir |-> TRUE, closed |-> FALSE, held |-> <<>>, count |-> disk.count]
        /\ run.closed /\ UNCHANGED <<queue, disk>>
    BY <1>8 DEF Resume
  <2>2. \A n \in Events : disk.count[n] \in Nat /\ disk.count[n] <= run.count[n]
    <3>1. disk.count \in Counts
      BY TypeParts DEF DiskType
    <3> QED
      BY <3>1 DEF Counts, CoverInv
  <2>3. \A n \in Events : InQueue(n) => disk.count[n] = 0
    BY <1>0, <2>1, <2>2 DEF CoverInv
  <2>4. \A n \in Events : n >= queue.next => disk.count[n] = 0
    BY <1>0, <2>2 DEF CoverInv
  <2>5. \A n \in Events : disk.count[n] <= 1
    BY <1>0, <2>2 DEF CoverInv, CoverOnce
  <2>6. run'.count = disk.count /\ disk'.count = disk.count /\ queue'.next = queue.next
        /\ \A n \in Events : InQueue(n)' <=> InQueue(n)
    BY <2>1 DEF InQueue
  <2>7. CoverOnce' /\ \A n \in Events : disk'.count[n] <= run'.count[n]
    BY <2>2, <2>5, <2>6 DEF CoverOnce
  <2>8. \A n \in Events : InQueue(n)' => ~(run'.count[n] > 0)
    BY <2>3, <2>6
  <2> QED
    BY <2>4, <2>6, <2>7, <2>8 DEF CoverInv
<1>9. CASE UNCHANGED vars
  <2>1. UNCHANGED <<queue, at, run, disk, closing>>
    BY <1>9 DEF vars
  <2> QED
    BY <2>1, CoverKept
<1> QED
  BY <1>1, <1>2, <1>3, <1>4, <1>5, <1>6, <1>7, <1>8, <1>9 DEF Next

\* What was appended stays, and an unclaimed number is in the queue or drained.
LEMMA EventAppendNext ==
  ASSUME EventBounds, TypeInv, CoverInv, AppendInv, [Next]_vars
  PROVE  AppendInv'
<1> USE DEF hist
<1>0. /\ run \in RunType /\ run.closed \in BOOLEAN /\ run.dir \in BOOLEAN
      /\ queue.events \in Seq(Events) /\ faulty \in BOOLEAN
  BY TypeParts, Fields DEF RunType
<1>h. ASSUME NEW r \in RunType, NEW batch \in Seq(Events), Hold(r, batch),
             r.dir = run.dir, r.held = run.held
      PROVE  AppendInv'
  <2>1. /\ run'.dir = r.dir
        /\ ~r.dir => appended' = appended
        /\ ~faulty' => ~faulty
        /\ ~faulty' /\ r.dir => run'.held = r.held
        /\ ~faulty' /\ appended \subseteq Range(disk.log) => appended' \subseteq Range(disk'.log)
    BY <1>h, HoldGives
  <2> QED
    BY <1>h, <2>1 DEF AppendInv, AppendedKept
<1>f. ASSUME NEW closed \in BOOLEAN, FlushOk(closed) \/ FlushFails, appended' = appended
      PROVE  AppendInv'
  <2>1. /\ run'.dir
        /\ ~faulty' => ~faulty /\ run'.held = <<>>
        /\ ~faulty' /\ run.held = <<>> => disk'.log = disk.log
    BY <1>f, FlushGives
  <2>2. ASSUME ~faulty' PROVE appended \subseteq Range(disk'.log)
    <3>1. CASE run.dir
      BY <2>1, <2>2, <3>1 DEF AppendInv, AppendedKept
    <3>2. CASE ~run.dir
      BY <3>2 DEF AppendInv
    <3> QED
      BY <3>1, <3>2
  <2> QED
    BY <1>f, <2>1, <2>2 DEF AppendInv, AppendedKept
<1>k. ASSUME appended' = appended, disk'.log = disk.log, run'.dir = run.dir, run'.held = run.held,
             faulty' = faulty
      PROVE  AppendInv'
  BY <1>k DEF AppendInv, AppendedKept
<1>1. CASE Emit
  BY <1>1, <1>k DEF Emit
<1>2. ASSUME NEW c \in Readers, Read(c) PROVE AppendInv'
  BY <1>2, <1>k DEF Read
<1>3. CASE Fold
  <2> DEFINE p == Since(at[Persistence])
             r == [run EXCEPT !.count = Recorded]
  <2>1. Hold(r, p.events) /\ ~closing /\ ~run.closed
    BY <1>3 DEF Fold, Recorded
  <2>2. p.events \in Seq(Events) /\ Recorded \in Counts
    BY <2>1, Fields, SinceGives, RecordedGives
  <2>3. r \in RunType /\ r.dir = run.dir /\ r.held = run.held
    BY <1>0, <2>2 DEF RunType
  <2> HIDE DEF p, r
  <2> QED
    BY <1>h, <2>1, <2>2, <2>3
<1>4. CASE Persist
  BY <1>0, <1>4, <1>f DEF Persist
<1>5. CASE CloseDrain
  BY <1>0, <1>5, <1>h DEF CloseDrain
<1>6. CASE CloseFlush
  <2>1. CASE FlushOk(TRUE) \/ FlushFails
    BY <1>6, <1>f, <2>1 DEF CloseFlush
  <2>2. CASE run' = [run EXCEPT !.closed = TRUE] /\ UNCHANGED <<disk, reported, faulty>>
    <3>1. run'.dir = run.dir /\ run'.held = run.held
      BY <1>0, <2>2 DEF RunType
    <3> QED
      BY <1>6, <1>k, <2>2, <3>1 DEF CloseFlush
  <2> QED
    BY <1>6, <2>1, <2>2 DEF CloseFlush
<1>7. CASE CloseAgain
  BY <1>7, <1>k DEF CloseAgain
<1>8. CASE Resume
  <2>1. run'.held = <<>> /\ run'.dir /\ run.dir /\ UNCHANGED <<disk, appended, faulty>>
    BY <1>8 DEF Resume
  <2> QED
    BY <2>1 DEF AppendInv, AppendedKept
<1>9. CASE UNCHANGED vars
  BY <1>9, <1>k DEF vars
<1> QED
  BY <1>1, <1>2, <1>3, <1>4, <1>5, <1>6, <1>7, <1>8, <1>9 DEF Next

\* Before the first eviction nothing is lost from the queue but by a drain.
LEMMA EventGapNext ==
  ASSUME EventBounds, TypeInv, TypeInv', GapInv, [Next]_vars
  PROVE  GapInv'
<1> USE DEF hist
<1>0. /\ \A n \in Events : n \in Nat
      /\ queue.next \in 1 .. MaxEvents + 1 /\ Len(queue.events) \in Nat /\ MaxEvents \in Nat
  BY Fields DEF Events
<1>k. ASSUME UNCHANGED <<queue, drained>> PROVE GapInv'
  BY <1>k DEF GapInv, InQueue
<1>d. ASSUME queue' = [queue EXCEPT !.events = <<>>], drained' = drained \cup Range(queue.events)
      PROVE  GapInv'
  <2>1. queue'.next = queue.next /\ queue'.evicted = queue.evicted
    BY <1>d, Emptied
  <2>2. \A n \in Events : InQueue(n) => n \in drained'
    BY <1>d, QueueHas
  <2> QED
    BY <1>d, <2>1, <2>2 DEF GapInv
<1>1. CASE Emit
  <2>1. queue' = Push(queue) /\ queue.next <= MaxEvents /\ drained' = drained
    BY <1>1 DEF Emit
  <2>2. /\ queue'.next = queue.next + 1
        /\ queue'.evicted = 0 => queue.evicted = 0 /\ Len(queue'.events) = Len(queue.events) + 1
    BY <2>1, PushGives
  <2>3. ASSUME queue'.evicted = 0, NEW n \in Events, n < queue'.next
        PROVE  InQueue(n)' \/ n \in drained
    <3>1. CASE n = queue.next
      BY <1>0, <2>2, <2>3, <3>1 DEF InQueue
    <3>2. CASE n # queue.next
      <4>1. n < queue.next
        BY <1>0, <2>2, <2>3, <3>2
      <4>2. InQueue(n) \/ n \in drained
        BY <2>2, <2>3, <4>1 DEF GapInv
      <4> QED
        BY <1>0, <2>2, <2>3, <4>2 DEF InQueue
    <3> QED
      BY <3>1, <3>2
  <2> QED
    BY <2>1, <2>3 DEF GapInv
<1>2. ASSUME NEW c \in Readers, Read(c) PROVE GapInv'
  BY <1>2, <1>k DEF Read
<1>3. CASE Fold
  BY <1>3, <1>k DEF Fold
<1>4. CASE Persist
  BY <1>4, <1>k DEF Persist
<1>5. CASE CloseDrain
  BY <1>5, <1>d DEF CloseDrain
<1>6. CASE CloseFlush
  BY <1>6, <1>k DEF CloseFlush
<1>7. CASE CloseAgain
  BY <1>7, <1>d DEF CloseAgain
<1>8. CASE Resume
  BY <1>8, <1>k DEF Resume
<1>9. CASE UNCHANGED vars
  BY <1>9, <1>k DEF vars
<1> QED
  BY <1>1, <1>2, <1>3, <1>4, <1>5, <1>6, <1>7, <1>8, <1>9 DEF Next

\* Every step keeps it.
LEMMA EventNext ==
  ASSUME EventBounds, EventInv, [Next]_vars
  PROVE  EventInv'
<1>1. TypeInv'
  BY EventTypeNext DEF EventInv
<1> QED
  BY <1>1, EventCoverNext, EventAppendNext, EventGapNext DEF EventInv

\* A reader that moves past an event was served it, was told of a gap, or a
\* drain had taken everything (since, fold_into_run).
LEMMA EventsTold ==
  ASSUME EventBounds, EventInv, Next
  PROVE  NothingSkipped
<1> USE DEF hist
<1>b. /\ Persistence # Coverage /\ Coverage \in Consumers /\ Persistence \in Consumers
      /\ Persistence \notin Readers /\ Coverage \notin Readers
      /\ at \in [Consumers -> 0 .. MaxEvents] /\ MaxEvents \in Nat
      /\ \A n \in Events : n \in Nat
      /\ queue.next \in 1 .. MaxEvents + 1 /\ Len(queue.events) \in Nat
  BY TypeParts, Fields DEF EventBounds, Consumers, EventInv, Events
<1>t. ASSUME NEW c \in Consumers, NEW n \in Events, at[c] < n, n <= queue.next - 1
      PROVE  \/ n \in Range(Since(at[c]).events) \/ Since(at[c]).gap \/ n \in drained
  <2>1. at[c] \in 0 .. MaxEvents /\ n > at[c] /\ n < queue.next
    BY <1>b, <1>t
  <2>2. \/ n \in Range(Since(at[c]).events) \/ Since(at[c]).gap
        \/ (queue.events = <<>> /\ queue.evicted = 0)
    BY <2>1, SinceGives DEF EventInv
  <2>3. ASSUME queue.events = <<>>, queue.evicted = 0 PROVE n \in drained
    <3>1. Len(queue.events) = 0
      BY <2>3
    <3>2. ~InQueue(n)
      BY <1>b, <2>1, <3>1 DEF InQueue
    <3> QED
      BY <2>1, <2>3, <3>2 DEF EventInv, GapInv
  <2> QED
    BY <2>2, <2>3
<1>k. ASSUME \A c \in Consumers : at'[c] \in {at[c], 0} PROVE NothingSkipped
  BY <1>b, <1>k DEF NothingSkipped
<1>1. CASE Emit
  BY <1>1, <1>k DEF Emit
<1>2. ASSUME NEW d \in Readers, Read(d) PROVE NothingSkipped
  <2>1. d \in Consumers
    BY DEF Consumers
  <2> DEFINE b == Since(at[d])
  <2>2. /\ at' = [at EXCEPT ![d] = b.cursor]
        /\ answer' = [Nothing EXCEPT ![d] = Answered(b)]
    BY <1>2 DEF Read
  <2>3. b.cursor \in {at[d], queue.next - 1}
    BY <1>b, <2>1, SinceGives DEF EventInv
  <2> HIDE DEF b
  <2>4. answer'[d] = Answered(b) /\ at'[d] = b.cursor /\ \A c \in Consumers \ {d} : at'[c] = at[c]
    BY <1>b, <2>1, <2>2 DEF Nothing
  <2>5. answer'[d].events = Range(b.events) /\ answer'[d].gap = b.gap
    BY <2>4 DEF Answered
  <2>6. ASSUME NEW c \in Consumers, NEW n \in Events, at[c] < n, n <= at'[c]
        PROVE  n \in answer'[c].events \/ answer'[c].gap \/ n \in drained
    <3>1. c = d
      BY <1>b, <2>4, <2>6
    <3>2. at'[d] = queue.next - 1
      BY <1>b, <2>1, <2>3, <2>4, <2>6, <3>1
    <3>3. n \in Range(b.events) \/ b.gap \/ n \in drained
      BY <1>t, <2>1, <2>6, <3>1, <3>2 DEF b
    <3> QED
      BY <2>5, <3>1, <3>3
  <2> QED
    BY <2>6 DEF NothingSkipped
<1>3. CASE Fold
  <2> DEFINE p == Since(at[Persistence])
             g == Since(at[Coverage])
             upto == Since(0).cursor
  <2>1. /\ at' = [at EXCEPT ![Persistence] = IF p.events = <<>> THEN @ ELSE p.cursor,
                            ![Coverage] = IF upto > at[Coverage] THEN upto ELSE @]
        /\ answer' = [Nothing EXCEPT ![Persistence] = Answered(p), ![Coverage] = Answered(g)]
    BY <1>3 DEF Fold
  <2>2. p.cursor \in {at[Persistence], queue.next - 1} /\ upto = queue.next - 1
    BY <1>b, SinceGives DEF EventInv
  <2> HIDE DEF p, g, upto
  <2>3. /\ answer'[Persistence] = Answered(p) /\ answer'[Coverage] = Answered(g)
        /\ at'[Persistence] \in {at[Persistence], queue.next - 1}
        /\ at'[Coverage] \in {at[Coverage], queue.next - 1}
        /\ \A c \in Consumers \ {Persistence, Coverage} : at'[c] = at[c]
    BY <1>b, <2>1, <2>2 DEF Nothing
  <2>4. /\ answer'[Persistence].events = Range(p.events) /\ answer'[Persistence].gap = p.gap
        /\ answer'[Coverage].events = Range(g.events) /\ answer'[Coverage].gap = g.gap
    BY <2>3 DEF Answered
  <2>5. ASSUME NEW c \in Consumers, NEW n \in Events, at[c] < n, n <= at'[c]
        PROVE  n \in answer'[c].events \/ answer'[c].gap \/ n \in drained
    <3>1. c \in {Persistence, Coverage}
      BY <1>b, <2>3, <2>5
    <3>2. at'[c] = queue.next - 1
      BY <1>b, <2>3, <2>5, <3>1
    <3>3. n \in Range(Since(at[c]).events) \/ Since(at[c]).gap \/ n \in drained
      BY <1>t, <2>5, <3>2
    <3> QED
      BY <2>4, <3>1, <3>3 DEF p, g
  <2> QED
    BY <2>5 DEF NothingSkipped
<1>4. CASE Persist
  BY <1>4, <1>k DEF Persist
<1>5. CASE CloseDrain
  BY <1>5, <1>k DEF CloseDrain
<1>6. CASE CloseFlush
  BY <1>6, <1>k DEF CloseFlush
<1>7. CASE CloseAgain
  BY <1>7, <1>k DEF CloseAgain
<1>8. CASE Resume
  <2>1. at' = [at EXCEPT ![Persistence] = 0, ![Coverage] = 0]
    BY <1>8 DEF Resume
  <2> QED
    BY <1>b, <1>k, <2>1
<1> QED
  BY <1>1, <1>2, <1>3, <1>4, <1>5, <1>6, <1>7, <1>8 DEF Next

\* It says what the runs check.
LEMMA EventSafe ==
  ASSUME EventInv
  PROVE  TypeOK /\ CoverOnce /\ AppendedKept
BY DEF EventInv, TypeInv, CoverInv, AppendInv

\* The stream's state has its type, coverage counts each event once, and what
\* was appended to the log of a run stays there (TerminalEventQueue, fold).
THEOREM EventStreamSafe ==
  ASSUME EventBounds
  PROVE  Spec => [](TypeOK /\ CoverOnce /\ AppendedKept)
<1>1. Init => EventInv
  BY EventInit
<1>2. EventInv /\ [Next]_vars => EventInv'
  BY EventNext
<1>3. EventInv => TypeOK /\ CoverOnce /\ AppendedKept
  BY EventSafe
<1> QED
  BY <1>1, <1>2, <1>3, PTL DEF Spec
\* What the constants are: there is a row, and a snapshot may be kept.
LineBounds ==
  /\ Rows \in Nat /\ Rows >= 1 /\ MaxLines \in Nat
  /\ SnapCap \in Nat /\ SnapCap >= 1 /\ MaxGen \in Nat /\ MaxGen >= 1

Chunk == [from : L!Streams, bytes : Seq(L!Bytes)]

-----------------------------------------------------------------------------
(* Lines and snapshots.                                                    *)

\* The newest n of a sequence are its end.
LEMMA NewestGives ==
  ASSUME NEW T, NEW s \in Seq(T), NEW n \in Nat
  PROVE  /\ L!Newest(s, n) \in Seq(T)
         /\ Len(L!Newest(s, n)) = IF Len(s) > n THEN n ELSE Len(s)
         /\ \A i \in 1 .. Len(L!Newest(s, n)) :
              L!Newest(s, n)[i] = s[Len(s) - Len(L!Newest(s, n)) + i]
         /\ Len(s) <= n => L!Newest(s, n) = s
<1>1. Len(s) \in Nat
  OBVIOUS
<1>2. CASE Len(s) > n
  <2> DEFINE from == Len(s) - n + 1
  <2>1. L!Newest(s, n) = SubSeq(s, from, Len(s))
    BY <1>2 DEF L!Newest
  <2>2. from \in 1 .. Len(s) + 1
    BY <1>1, <1>2
  <2>3. /\ SubSeq(s, from, Len(s)) \in Seq(T)
        /\ Len(SubSeq(s, from, Len(s))) = Len(s) - from + 1
        /\ \A i \in 1 .. Len(s) - from + 1 : SubSeq(s, from, Len(s))[i] = s[from + i - 1]
    <3> HIDE DEF from
    <3> QED
      BY <1>1, <2>2
  <2>4. Len(s) - from + 1 = n /\ \A i \in 1 .. n : from + i - 1 = Len(s) - n + i
    BY <1>1
  <2> HIDE DEF from
  <2>5. Len(L!Newest(s, n)) = n /\ \A i \in 1 .. n : L!Newest(s, n)[i] = s[Len(s) - n + i]
    BY <2>1, <2>3, <2>4
  <2> DEFINE last == L!Newest(s, n)
  <2>6. last \in Seq(T)
    BY <2>1, <2>3
  <2> HIDE DEF last
  <2>7. Len(last) = n /\ \A i \in 1 .. n : last[i] = s[Len(s) - n + i]
    BY <2>5 DEF last
  <2>8. \A i \in 1 .. Len(last) : last[i] = s[Len(s) - Len(last) + i]
    BY <2>7
  <2> QED
    BY <1>1, <1>2, <2>6, <2>7, <2>8 DEF last
<1>3. CASE ~(Len(s) > n)
  <2>1. L!Newest(s, n) = s
    BY <1>3 DEF L!Newest
  <2>2. \A i \in 1 .. Len(s) : Len(s) - Len(s) + i = i
    BY <1>1
  <2> QED
    BY <1>3, <2>1, <2>2
<1> QED
  BY <1>2, <1>3

\* The viewport is lines.
LEMMA ViewTypes ==
  ASSUME LineBounds, NEW e \in L!Engine
  PROVE  L!View(e) \in Seq(L!Text)
<1>1. e.lines \in Seq(L!Text) /\ e.pending \in L!Text /\ Rows \in Nat /\ Rows - 1 \in Nat
  BY DEF L!Engine, LineBounds
<1>2. L!Newest(e.lines, Rows) \in Seq(L!Text) /\ L!Newest(e.lines, Rows - 1) \in Seq(L!Text)
  BY <1>1, NewestGives
<1> QED
  BY <1>1, <1>2 DEF L!View

\* Eviction keeps everything but the oldest lines, and those only over the cap.
LEMMA EvictedGives ==
  ASSUME LineBounds, NEW e \in L!Engine
  PROVE  /\ L!Evicted(e) \in L!Engine /\ Len(L!Evicted(e).lines) <= MaxLines
         /\ L!Evicted(e).kind = e.kind /\ L!Evicted(e).store = e.store
         /\ L!Evicted(e).screen = e.screen /\ L!Evicted(e).pending = e.pending
         /\ Len(e.lines) <= MaxLines => L!Evicted(e).lines = e.lines
<1> DEFINE extra == IF Len(e.lines) > MaxLines THEN Len(e.lines) - MaxLines ELSE 0
           kept == L!Newest(e.lines, MaxLines)
<1>1. e.lines \in Seq(L!Text) /\ Len(e.lines) \in Nat /\ MaxLines \in Nat /\ e.evicted \in Nat
  BY DEF L!Engine, LineBounds
<1>2. /\ kept \in Seq(L!Text) /\ Len(kept) <= MaxLines
      /\ Len(e.lines) <= MaxLines => kept = e.lines
  <2>1. /\ kept \in Seq(L!Text) /\ Len(kept) = IF Len(e.lines) > MaxLines THEN MaxLines ELSE Len(e.lines)
        /\ Len(e.lines) <= MaxLines => kept = e.lines
    BY <1>1, NewestGives
  <2> HIDE DEF kept
  <2> QED
    BY <1>1, <2>1
<1>3. e.evicted + extra \in Nat
  BY <1>1
<1>4. L!Evicted(e) = [e EXCEPT !.lines = kept, !.evicted = e.evicted + extra]
  BY DEF L!Evicted
<1> HIDE DEF kept, extra
<1> QED
  BY <1>2, <1>3, <1>4 DEF L!Engine

\* The snapshots are those of the latest n edges, in order.
Edges(kept, n) ==
  /\ Len(kept) = IF n < SnapCap THEN n ELSE SnapCap
  /\ \A i \in 1 .. Len(kept) : kept[i].seq = n - Len(kept) + i

\* Retaining an edge keeps the cap, and the ring has it (retain_edge_snapshot).
LEMMA RetainGives ==
  ASSUME LineBounds, NEW kept \in Seq(L!Snapshot), NEW e \in L!Engine, NEW g \in 1 .. MaxGen
  PROVE  /\ L!Retain(kept, e, g) \in Seq(L!Snapshot)
         /\ Len(kept) <= SnapCap => Len(L!Retain(kept, e, g)) <= SnapCap
         /\ \A n \in Nat : Edges(kept, n) /\ e.screen = n + 1 => Edges(L!Retain(kept, e, g), n + 1)
<1> DEFINE snap == [seq |-> e.screen, view |-> L!View(e), gen |-> g]
           more == Append(kept, snap)
<1>1. /\ snap \in L!Snapshot /\ snap.seq = e.screen /\ e.screen \in Nat
      /\ SnapCap \in Nat /\ SnapCap >= 1
  BY ViewTypes DEF L!Snapshot, L!Engine, LineBounds
<1> HIDE DEF snap
<1>2. /\ more \in Seq(L!Snapshot) /\ Len(more) = Len(kept) + 1 /\ Len(kept) \in Nat
      /\ \A i \in 1 .. Len(kept) : more[i] = kept[i]
      /\ more[Len(kept) + 1] = snap
  BY <1>1, AppendProperties
<1>3. L!Retain(kept, e, g) = IF kept # <<>> /\ L!Last(kept).seq = e.screen THEN kept
                           ELSE L!Newest(more, SnapCap)
  BY DEF L!Retain, snap
<1> HIDE DEF more
<1>4. /\ L!Newest(more, SnapCap) \in Seq(L!Snapshot)
      /\ Len(L!Newest(more, SnapCap)) = IF Len(more) > SnapCap THEN SnapCap ELSE Len(more)
      /\ \A i \in 1 .. Len(L!Newest(more, SnapCap)) :
           L!Newest(more, SnapCap)[i] = more[Len(more) - Len(L!Newest(more, SnapCap)) + i]
  BY <1>1, <1>2, NewestGives
<1> DEFINE top == L!Newest(more, SnapCap)
<1> HIDE DEF top
<1>5. ASSUME NEW n \in Nat, Edges(kept, n), e.screen = n + 1 PROVE Edges(L!Retain(kept, e, g), n + 1)
  <2>1. ~(kept # <<>> /\ L!Last(kept).seq = e.screen)
    <3>1. ASSUME kept # <<>> PROVE L!Last(kept).seq = n
      <4>1. Len(kept) \in 1 .. Len(kept)
        BY <3>1
      <4> QED
        BY <1>2, <1>5, <4>1 DEF Edges, L!Last
    <3> QED
      BY <1>5, <3>1
  <2>2. L!Retain(kept, e, g) = top
    BY <1>3, <2>1 DEF top
  <2>3. Len(kept) = IF n < SnapCap THEN n ELSE SnapCap
    BY <1>5 DEF Edges
  <2>4. Len(top) = IF n + 1 < SnapCap THEN n + 1 ELSE SnapCap
    BY <1>1, <1>2, <1>4, <2>3 DEF top
  <2>5. ASSUME NEW i \in 1 .. Len(top) PROVE top[i].seq = n + 1 - Len(top) + i
    <3> DEFINE k == Len(more) - Len(top) + i
    <3>1. top[i] = more[k]
      BY <1>4 DEF top
    <3>2. Len(top) \in Nat /\ Len(top) <= Len(more) /\ k \in 1 .. Len(kept) + 1
      BY <1>1, <1>2, <2>3, <2>4
    <3>3. CASE k = Len(kept) + 1
      <4>1. i = Len(top)
        BY <1>2, <3>2, <3>3
      <4>2. top[i].seq = n + 1
        BY <1>1, <1>2, <1>5, <3>1, <3>3
      <4> QED
        BY <3>2, <4>1, <4>2
    <3>4. CASE k # Len(kept) + 1
      <4>1. k \in 1 .. Len(kept)
        BY <1>2, <3>2, <3>4
      <4>2. more[k].seq = n - Len(kept) + k
        BY <1>2, <1>5, <4>1 DEF Edges
      <4> QED
        BY <1>2, <3>1, <3>2, <4>2
    <3> QED
      BY <3>3, <3>4
  <2> QED
    BY <2>2, <2>4, <2>5 DEF Edges
<1>6. L!Retain(kept, e, g) \in Seq(L!Snapshot)
  BY <1>3, <1>4
<1>7. Len(kept) <= SnapCap => Len(L!Retain(kept, e, g)) <= SnapCap
  BY <1>1, <1>2, <1>3, <1>4
<1> QED
  BY <1>5, <1>6, <1>7

-----------------------------------------------------------------------------
(* The line engine.                                                        *)

\* What is carried through a chunk.
Feed == [e : L!Engine, snaps : Seq(L!Snapshot), changed : BOOLEAN, live : BOOLEAN]

\* What a part of a chunk has done to the engine e0 and its snapshots.
Fed(e0, k0, w) ==
  /\ w \in Feed
  /\ Len(k0) <= SnapCap => Len(w.snaps) <= SnapCap
  /\ w.e.kind = e0.kind /\ w.e.store = e0.store
  /\ w.e.screen >= e0.screen
  /\ w.changed => w.e.screen > e0.screen
  /\ ~w.changed => w.e.screen = e0.screen /\ w.e.lines = e0.lines
  /\ ~w.changed /\ ~w.live => w.e.pending = e0.pending
  /\ Edges(k0, e0.screen) => Edges(w.snaps, w.e.screen)

\* What one byte does: it commits a line, which is an edge, or changes the
\* live line, or nothing of either.
LEMMA LineByteGives ==
  ASSUME LineBounds, NEW w \in Feed, NEW b \in L!Bytes, NEW next, NEW g \in 1 .. MaxGen
  PROVE  /\ L!LineByte(w, b, next, g) \in Feed
         /\ L!LineByte(w, b, next, g).e.kind = w.e.kind
         /\ L!LineByte(w, b, next, g).e.store = w.e.store
         /\ \/ /\ L!LineByte(w, b, next, g).changed
               /\ L!LineByte(w, b, next, g).e.screen = w.e.screen + 1
               /\ L!LineByte(w, b, next, g).snaps = L!Retain(w.snaps, L!LineByte(w, b, next, g).e, g)
            \/ /\ L!LineByte(w, b, next, g).changed = w.changed
               /\ L!LineByte(w, b, next, g).e.screen = w.e.screen
               /\ L!LineByte(w, b, next, g).e.lines = w.e.lines
               /\ L!LineByte(w, b, next, g).snaps = w.snaps
               /\ \/ L!LineByte(w, b, next, g).live
                  \/ /\ L!LineByte(w, b, next, g).live = w.live
                     /\ L!LineByte(w, b, next, g).e.pending = w.e.pending
<1>1. /\ w.e \in L!Engine /\ w.snaps \in Seq(L!Snapshot) /\ w.e.lines \in Seq(L!Text)
      /\ w.e.pending \in L!Text /\ w.e.pending \in Seq({"a"}) /\ w.e.screen \in Nat /\ w.e.bell \in Nat
  BY DEF Feed, L!Engine, L!Text
<1>2. b = "nl" \/ b = "cr" \/ b = "bel" \/ b = "a"
  BY DEF L!Bytes
<1>3. CASE b = "nl"
  <2> DEFINE e == [w.e EXCEPT !.lines = Append(@, w.e.pending), !.pending = <<>>, !.screen = @ + 1]
  <2>1. L!LineByte(w, b, next, g) = [w EXCEPT !.e = e, !.snaps = L!Retain(@, e, g), !.changed = TRUE]
    BY <1>3 DEF L!LineByte
  <2>2. Append(w.e.lines, w.e.pending) \in Seq(L!Text) /\ <<>> \in L!Text /\ w.e.screen + 1 \in Nat
    BY <1>1 DEF L!Text
  <2>3. /\ e \in L!Engine /\ e.kind = w.e.kind /\ e.store = w.e.store
        /\ e.screen = w.e.screen + 1
    BY <1>1, <2>2 DEF L!Engine
  <2> HIDE DEF e
  <2>4. L!Retain(w.snaps, e, g) \in Seq(L!Snapshot)
    BY <1>1, <2>3, RetainGives
  <2> QED
    BY <2>1, <2>3, <2>4 DEF Feed
<1>4. CASE b = "cr"
  <2>1. L!LineByte(w, b, next, g) = IF next # "nl" /\ w.e.pending # <<>>
                                  THEN [w EXCEPT !.e.pending = <<>>, !.live = TRUE] ELSE w
    BY <1>4 DEF L!LineByte
  <2>2. [w.e EXCEPT !.pending = <<>>] \in L!Engine
    <3>1. <<>> \in L!Text
      BY DEF L!Text
    <3> QED
      BY <1>1, <3>1 DEF L!Engine
  <2> DEFINE e == [w.e EXCEPT !.pending = <<>>]
  <2>3. /\ e \in L!Engine /\ e.kind = w.e.kind /\ e.store = w.e.store
        /\ e.screen = w.e.screen /\ e.lines = w.e.lines
    BY <1>1, <2>2 DEF L!Engine
  <2>4. L!LineByte(w, b, next, g) = IF next # "nl" /\ w.e.pending # <<>>
                                  THEN [w EXCEPT !.e = e, !.live = TRUE] ELSE w
    BY <2>1
  <2> HIDE DEF e
  <2>5. CASE L!LineByte(w, b, next, g) = [w EXCEPT !.e = e, !.live = TRUE]
    BY <2>3, <2>5 DEF Feed
  <2>6. CASE L!LineByte(w, b, next, g) = w
    BY <2>6
  <2> QED
    BY <2>4, <2>5, <2>6
<1>5. CASE b = "bel"
  <2> DEFINE e == [w.e EXCEPT !.bell = w.e.bell + 1]
  <2>1. L!LineByte(w, b, next, g) = [w EXCEPT !.e = e]
    BY <1>5 DEF L!LineByte
  <2>2. w.e.bell + 1 \in Nat
    BY <1>1
  <2>3. /\ e \in L!Engine /\ e.kind = w.e.kind /\ e.store = w.e.store /\ e.pending = w.e.pending
        /\ e.screen = w.e.screen /\ e.lines = w.e.lines
    BY <1>1, <2>2 DEF L!Engine
  <2> HIDE DEF e
  <2> QED
    BY <2>1, <2>3 DEF Feed
<1>6. CASE b = "a"
  <2>1. L!LineByte(w, b, next, g) = [w EXCEPT !.e.pending = Append(@, b), !.live = TRUE]
    BY <1>6 DEF L!LineByte
  <2>2. [w.e EXCEPT !.pending = Append(@, b)] \in L!Engine
    <3>1. Append(w.e.pending, b) \in L!Text
      BY <1>1, <1>6 DEF L!Text
    <3> QED
      BY <1>1, <3>1 DEF L!Engine
  <2> QED
    BY <1>1, <2>1, <2>2, ZenonT(30) DEF Feed, L!Engine
<1> QED
  BY <1>2, <1>3, <1>4, <1>5, <1>6

\* So a chunk goes on as it began.
LEMMA LineByteFeeds ==
  ASSUME LineBounds, NEW e0 \in L!Engine, NEW k0, NEW w, Fed(e0, k0, w),
         NEW b \in L!Bytes, NEW next, NEW g \in 1 .. MaxGen
  PROVE  Fed(e0, k0, L!LineByte(w, b, next, g))
<1> DEFINE v == L!LineByte(w, b, next, g)
<1>1. /\ w \in Feed /\ w.e \in L!Engine /\ w.snaps \in Seq(L!Snapshot)
      /\ w.e.screen \in Nat /\ e0.screen \in Nat /\ w.changed \in BOOLEAN
  BY DEF Fed, Feed, L!Engine
<1>2. /\ v \in Feed /\ v.e.kind = w.e.kind /\ v.e.store = w.e.store
      /\ \/ /\ v.changed /\ v.e.screen = w.e.screen + 1 /\ v.snaps = L!Retain(w.snaps, v.e, g)
         \/ /\ v.changed = w.changed /\ v.e.screen = w.e.screen /\ v.e.lines = w.e.lines
            /\ v.snaps = w.snaps
            /\ v.live \/ (v.live = w.live /\ v.e.pending = w.e.pending)
  BY <1>1, LineByteGives
<1> HIDE DEF v
<1>3. CASE v.changed /\ v.e.screen = w.e.screen + 1 /\ v.snaps = L!Retain(w.snaps, v.e, g)
  <2>1. v.e \in L!Engine
    BY <1>2 DEF Feed
  <2>2. /\ Len(w.snaps) <= SnapCap => Len(v.snaps) <= SnapCap
        /\ Edges(w.snaps, w.e.screen) => Edges(v.snaps, v.e.screen)
    BY <1>1, <1>3, <2>1, RetainGives
  <2>3. v.e.screen > e0.screen
    BY <1>1, <1>3 DEF Fed
  <2>4. v.e.screen >= e0.screen
    BY <1>1, <1>3 DEF Fed
  <2>5. v.changed
    BY <1>3
  <2>6. Len(k0) <= SnapCap => Len(v.snaps) <= SnapCap
    BY <2>2 DEF Fed
  <2>7. Edges(k0, e0.screen) => Edges(v.snaps, v.e.screen)
    BY <2>2 DEF Fed
  <2>8. v.e.kind = e0.kind /\ v.e.store = e0.store /\ v \in Feed
    BY <1>2 DEF Fed
  <2>9. /\ v.changed => v.e.screen > e0.screen
        /\ ~v.changed => v.e.screen = e0.screen /\ v.e.lines = e0.lines
        /\ ~v.changed /\ ~v.live => v.e.pending = e0.pending
    BY <2>3, <2>5
  <2> QED
    BY ONLY <2>4, <2>6, <2>7, <2>8, <2>9, Zenon DEF Fed, v
<1>4. CASE /\ v.changed = w.changed /\ v.e.screen = w.e.screen /\ v.e.lines = w.e.lines
           /\ v.snaps = w.snaps
           /\ v.live \/ (v.live = w.live /\ v.e.pending = w.e.pending)
  <2>1. v.e.kind = e0.kind /\ v.e.store = e0.store /\ v \in Feed
    BY <1>2 DEF Fed
  <2>2. /\ Len(k0) <= SnapCap => Len(v.snaps) <= SnapCap
        /\ v.e.screen >= e0.screen
        /\ v.changed => v.e.screen > e0.screen
        /\ ~v.changed => v.e.screen = e0.screen /\ v.e.lines = e0.lines
        /\ Edges(k0, e0.screen) => Edges(v.snaps, v.e.screen)
    BY <1>4 DEF Fed
  <2>3. ~v.changed /\ ~v.live => v.e.pending = e0.pending
    BY <1>4 DEF Fed
  <2> QED
    BY ONLY <2>1, <2>2, <2>3, Zenon DEF Fed, v
<1> QED
  BY <1>2, <1>3, <1>4 DEF v

\* What does not move the screen leaves what the viewport is made of alone.
Moved(e0, e) ==
  /\ e.kind = e0.kind /\ e.screen >= e0.screen
  /\ e.screen = e0.screen => e.lines = e0.lines /\ e.pending = e0.pending

Capped(e) == Len(e.lines) <= MaxLines /\ \A s \in L!Streams : Len(e.store[s]) <= MaxLines

\* ingest of the line engine, a whole chunk.
LEMMA LineIngestGives ==
  ASSUME LineBounds, NEW kept \in Seq(L!Snapshot), NEW e \in L!Engine, Capped(e),
         NEW chunk \in Chunk, NEW g \in 1 .. MaxGen
  PROVE  /\ L!LineIngest(kept, e, chunk, g).e \in L!Engine /\ Capped(L!LineIngest(kept, e, chunk, g).e)
         /\ Moved(e, L!LineIngest(kept, e, chunk, g).e)
         /\ L!LineIngest(kept, e, chunk, g).snaps \in Seq(L!Snapshot)
         /\ Len(kept) <= SnapCap => Len(L!LineIngest(kept, e, chunk, g).snaps) <= SnapCap
         /\ Edges(kept, e.screen) =>
              Edges(L!LineIngest(kept, e, chunk, g).snaps, L!LineIngest(kept, e, chunk, g).e.screen)
         /\ L!LineIngest(kept, e, chunk, g) =
              [e |-> L!LineIngest(kept, e, chunk, g).e, snaps |-> L!LineIngest(kept, e, chunk, g).snaps]
<1> DEFINE bytes == chunk.bytes
           next(i) == IF i = Len(bytes) THEN "end" ELSE bytes[i + 1]
           begun == [e |-> e, snaps |-> kept, changed |-> FALSE, live |-> FALSE]
           f == CHOOSE h : h = [n \in 0 .. Len(bytes) |->
                  IF n = 0 THEN [e |-> e, snaps |-> kept, changed |-> FALSE, live |-> FALSE]
                  ELSE L!LineByte(h[n - 1], bytes[n], IF n = Len(bytes) THEN "end" ELSE bytes[n + 1], g)]
           step == [p \in (1 .. Len(bytes)) \X Feed |-> L!LineByte(p[2], bytes[p[1]], next(p[1]), g)]
           w == f[Len(bytes)]
           moved == [w.e EXCEPT !.screen = IF L!LiveEdge(w) THEN @ + 1 ELSE @,
                                !.content = IF w.changed \/ w.live THEN @ + 1 ELSE @,
                                !.output = @ + 1]
           P == {p \in (0 .. Len(bytes)) \X Feed : Fed(e, kept, p[2])}
<1>1. L!LineIngest(kept, e, chunk, g) =
        [e |-> L!Evicted(moved), snaps |-> IF L!LiveEdge(w) THEN L!Retain(w.snaps, moved, g) ELSE w.snaps]
  BY DEF L!LineIngest
<1>2. /\ bytes \in Seq(L!Bytes) /\ Len(bytes) \in Nat
      /\ \A i \in 1 .. Len(bytes) : bytes[i] \in L!Bytes
  BY DEF Chunk
<1>3. begun \in Feed /\ Fed(e, kept, begun)
  <2>1. e.screen \in Nat
    BY DEF L!Engine
  <2> QED
    BY <2>1 DEF Feed, Fed
<1>4. step \in [(1 .. Len(bytes)) \X Feed -> Feed]
  <2>1. \A i \in 1 .. Len(bytes), x \in Feed : L!LineByte(x, bytes[i], next(i), g) \in Feed
    BY <1>2, LineByteGives
  <2> HIDE DEF bytes, next
  <2> QED
    BY <2>1
<1>5. f = [n \in 0 .. Len(bytes) |->
             IF n = 0 THEN begun ELSE L!LineByte(f[n - 1], bytes[n], next(n), g)]
  <2> HIDE DEF step, bytes
  <2>1. Scans(Len(bytes), Feed, begun, step)
    BY ONLY <1>2, <1>3, <1>4, ScanExists, Zenon
  <2> HIDE DEF begun, next
  <2>2. PICK h \in [0 .. Len(bytes) -> Feed] :
          \A i \in 0 .. Len(bytes) : h[i] = IF i = 0 THEN begun ELSE step[<<i, h[i - 1]>>]
    BY <2>1 DEF Scans, IsScan
  <2>3. ASSUME NEW i \in 0 .. Len(bytes)
        PROVE  h[i] = IF i = 0 THEN begun ELSE L!LineByte(h[i - 1], bytes[i], next(i), g)
    <3>1. CASE i = 0
      BY <2>2, <3>1
    <3>2. CASE i # 0
      <4>1. i \in 1 .. Len(bytes) /\ i - 1 \in 0 .. Len(bytes)
        BY <1>2, <3>2
      <4>2. step[<<i, h[i - 1]>>] = L!LineByte(h[i - 1], bytes[i], next(i), g)
        <5>1. h[i - 1] \in Feed
          BY <2>2, <4>1
        <5> QED
          BY <4>1, <5>1 DEF step
      <4> QED
        BY <2>2, <3>2, <4>2
    <3> QED
      BY <3>1, <3>2
  <2>4. h = [n \in 0 .. Len(bytes) |-> IF n = 0 THEN begun ELSE L!LineByte(h[n - 1], bytes[n], next(n), g)]
    BY <2>2, <2>3
  <2> QED
    BY <2>4 DEF begun, next, bytes
<1> HIDE DEF f, step, begun, next, bytes
<1>6. /\ f[0] = begun
      /\ \A i \in 1 .. Len(bytes) : f[i] = L!LineByte(f[i - 1], bytes[i], next(i), g)
  <2>1. 0 \in 0 .. Len(bytes) /\ \A i \in 1 .. Len(bytes) : i \in 0 .. Len(bytes) /\ i # 0
    BY <1>2
  <2> QED
    BY <1>5, <2>1
<1>7. <<0, f[0]>> \in P
  BY <1>2, <1>3, <1>6
<1>8. ASSUME NEW i \in 1 .. Len(bytes), <<i - 1, f[i - 1]>> \in P PROVE <<i, f[i]>> \in P
  <2>1. Fed(e, kept, f[i - 1]) /\ bytes[i] \in L!Bytes /\ i \in 0 .. Len(bytes)
    BY <1>2, <1>8
  <2>2. Fed(e, kept, f[i])
    <3>1. Fed(e, kept, L!LineByte(f[i - 1], bytes[i], next(i), g))
      BY <2>1, LineByteFeeds
    <3> QED
      BY <1>6, <3>1
  <2>3. f[i] \in Feed
    BY <2>2 DEF Fed
  <2> QED
    BY <2>1, <2>2, <2>3
<1>9. Fed(e, kept, w)
  <2> HIDE DEF P
  <2>1. \A i \in 0 .. Len(bytes) : <<i, f[i]>> \in P
    BY ONLY <1>2, <1>7, <1>8, ScanHolds, Zenon
  <2>2. Len(bytes) \in 0 .. Len(bytes)
    BY <1>2
  <2> QED
    BY <2>1, <2>2 DEF P
<1> HIDE DEF w
<1>10. /\ w \in Feed /\ w.e \in L!Engine /\ w.snaps \in Seq(L!Snapshot) /\ w.changed \in BOOLEAN
       /\ w.live \in BOOLEAN /\ w.e.screen \in Nat /\ w.e.content \in Nat /\ w.e.output \in Nat
       /\ e.screen \in Nat
  BY <1>9 DEF Fed, Feed, L!Engine
<1>11. /\ moved \in L!Engine /\ moved.kind = w.e.kind /\ moved.store = w.e.store
       /\ moved.lines = w.e.lines /\ moved.pending = w.e.pending
       /\ moved.screen = IF L!LiveEdge(w) THEN w.e.screen + 1 ELSE w.e.screen
  <2> DEFINE screen == IF L!LiveEdge(w) THEN w.e.screen + 1 ELSE w.e.screen
             content == IF w.changed \/ w.live THEN w.e.content + 1 ELSE w.e.content
             output == w.e.output + 1
  <2>1. screen \in Nat /\ content \in Nat /\ output \in Nat
    BY <1>10, SMTT(30)
  <2>2. moved = [w.e EXCEPT !.screen = screen, !.content = content, !.output = output]
    BY <1>10 DEF L!Engine
  <2> HIDE DEF moved, content, output
  <2>3. moved.screen = screen
    <3> HIDE DEF screen
    <3> QED
      BY <1>10, <2>2 DEF L!Engine
  <2> HIDE DEF screen
  <2>4. /\ moved \in L!Engine /\ moved.kind = w.e.kind /\ moved.store = w.e.store
        /\ moved.lines = w.e.lines /\ moved.pending = w.e.pending
    BY <1>10, <2>1, <2>2 DEF L!Engine
  <2> QED
    BY <2>3, <2>4 DEF screen
<1> HIDE DEF moved
<1>12. /\ L!Evicted(moved) \in L!Engine /\ Len(L!Evicted(moved).lines) <= MaxLines
       /\ L!Evicted(moved).kind = e.kind /\ L!Evicted(moved).store = e.store
       /\ L!Evicted(moved).screen = moved.screen /\ L!Evicted(moved).pending = w.e.pending
       /\ Len(w.e.lines) <= MaxLines => L!Evicted(moved).lines = w.e.lines
  BY <1>9, <1>11, EvictedGives DEF Fed
<1>13. Capped(L!Evicted(moved))
  BY <1>12 DEF Capped
<1>14. Moved(e, L!Evicted(moved))
  <2>1. L!Evicted(moved).screen >= e.screen
    BY <1>9, <1>10, <1>11, <1>12 DEF Fed
  <2>2. ASSUME L!Evicted(moved).screen = e.screen
        PROVE  L!Evicted(moved).lines = e.lines /\ L!Evicted(moved).pending = e.pending
    <3>1. ~w.changed
      BY <1>9, <1>10, <1>11, <1>12, <2>2 DEF Fed
    <3>2. ~w.live
      BY <1>9, <1>10, <1>11, <1>12, <2>2, <3>1 DEF Fed, L!LiveEdge
    <3>3. w.e.lines = e.lines /\ w.e.pending = e.pending
      BY <1>9, <3>1, <3>2 DEF Fed
    <3> QED
      BY <1>12, <3>3 DEF Capped
  <2> QED
    BY <1>12, <2>1, <2>2 DEF Moved
<1>15. /\ L!Retain(w.snaps, moved, g) \in Seq(L!Snapshot)
       /\ Len(w.snaps) <= SnapCap => Len(L!Retain(w.snaps, moved, g)) <= SnapCap
       /\ Edges(w.snaps, w.e.screen) /\ moved.screen = w.e.screen + 1 =>
            Edges(L!Retain(w.snaps, moved, g), w.e.screen + 1)
  BY <1>10, <1>11, RetainGives
<1> DEFINE r == L!LineIngest(kept, e, chunk, g)
<1>16. /\ r.e = L!Evicted(moved) /\ r = [e |-> r.e, snaps |-> r.snaps]
       /\ r.snaps = IF L!LiveEdge(w) THEN L!Retain(w.snaps, moved, g) ELSE w.snaps
  BY <1>1
<1> HIDE DEF r
<1>17. /\ r.snaps \in Seq(L!Snapshot)
       /\ Len(kept) <= SnapCap => Len(r.snaps) <= SnapCap
       /\ Edges(kept, e.screen) => Edges(r.snaps, r.e.screen)
  <2>1. CASE L!LiveEdge(w)
    BY <1>9, <1>11, <1>12, <1>15, <1>16, <2>1 DEF Fed
  <2>2. CASE ~L!LiveEdge(w)
    BY <1>9, <1>10, <1>11, <1>12, <1>16, <2>2 DEF Fed
  <2> QED
    BY <2>1, <2>2
<1> QED
  BY <1>12, <1>13, <1>14, <1>16, <1>17 DEF r

-----------------------------------------------------------------------------
(* The pipe engine.                                                        *)

\* One byte of the fused stream: what the viewport is made of changes only
\* with the sequence.
LEMMA FusedByteGives ==
  ASSUME LineBounds, NEW e \in L!Engine, NEW b \in L!Bytes
  PROVE  /\ L!FusedByte(e, b) \in L!Engine
         /\ Len(e.lines) <= MaxLines => Len(L!FusedByte(e, b).lines) <= MaxLines
         /\ L!FusedByte(e, b).kind = e.kind /\ L!FusedByte(e, b).store = e.store
         /\ \/ L!FusedByte(e, b).screen = e.screen + 1
            \/ /\ L!FusedByte(e, b).screen = e.screen
               /\ L!FusedByte(e, b).lines = e.lines /\ L!FusedByte(e, b).pending = e.pending
<1> DEFINE moved == [e EXCEPT !.screen = e.screen + 1, !.content = e.content + 1]
<1>1. /\ e.screen \in Nat /\ e.content \in Nat /\ e.bell \in Nat /\ e.lines \in Seq(L!Text)
      /\ e.pending \in L!Text /\ e.pending \in Seq({"a"}) /\ <<>> \in L!Text
  BY DEF L!Engine, L!Text
<1>2. /\ moved \in L!Engine /\ moved.kind = e.kind /\ moved.store = e.store
      /\ moved.lines = e.lines /\ moved.pending = e.pending /\ moved.screen = e.screen + 1
  <2>1. e.screen + 1 \in Nat /\ e.content + 1 \in Nat
    BY <1>1
  <2> QED
    BY <2>1 DEF L!Engine
<1>3. b = "nl" \/ b = "cr" \/ b = "bel" \/ b = "a"
  BY DEF L!Bytes
<1>4. CASE b = "nl"
  <2> DEFINE more == [moved EXCEPT !.lines = Append(@, e.pending), !.pending = <<>>]
  <2>1. L!FusedByte(e, b) = L!Evicted(more)
    BY <1>4 DEF L!FusedByte
  <2>2. Append(moved.lines, e.pending) \in Seq(L!Text)
    BY <1>1, <1>2
  <2> HIDE DEF moved
  <2>3. /\ more \in L!Engine /\ more.kind = e.kind /\ more.store = e.store
        /\ more.screen = e.screen + 1
    BY <1>1, <1>2, <2>2 DEF L!Engine
  <2> HIDE DEF more
  <2> QED
    BY <2>1, <2>3, EvictedGives
<1>5. CASE b = "cr"
  <2> DEFINE cleared == [moved EXCEPT !.pending = <<>>]
  <2>1. L!FusedByte(e, b) = IF e.pending = <<>> THEN e ELSE cleared
    BY <1>5 DEF L!FusedByte
  <2> HIDE DEF moved
  <2>2. /\ cleared \in L!Engine /\ cleared.kind = e.kind /\ cleared.store = e.store
        /\ cleared.lines = e.lines /\ cleared.screen = e.screen + 1
    BY <1>1, <1>2 DEF L!Engine
  <2> HIDE DEF cleared
  <2> QED
    BY <2>1, <2>2
<1>6. CASE b = "bel"
  <2> DEFINE rung == [e EXCEPT !.bell = e.bell + 1]
  <2>1. L!FusedByte(e, b) = rung
    BY <1>6 DEF L!FusedByte
  <2>2. e.bell + 1 \in Nat
    BY <1>1
  <2>3. /\ rung \in L!Engine /\ rung.kind = e.kind /\ rung.store = e.store
        /\ rung.lines = e.lines /\ rung.screen = e.screen /\ rung.pending = e.pending
    BY <2>2 DEF L!Engine
  <2> HIDE DEF rung
  <2> QED
    BY <2>1, <2>3
<1>7. CASE b = "a"
  <2> DEFINE typed == [moved EXCEPT !.pending = Append(e.pending, b)]
  <2>1. L!FusedByte(e, b) = typed
    BY <1>2, <1>7 DEF L!FusedByte
  <2>2. Append(e.pending, b) \in L!Text
    BY <1>1, <1>7 DEF L!Text
  <2> HIDE DEF moved
  <2>3. /\ typed \in L!Engine /\ typed.kind = e.kind /\ typed.store = e.store
        /\ typed.lines = e.lines /\ typed.screen = e.screen + 1
    BY <1>2, <2>2 DEF L!Engine
  <2> HIDE DEF typed
  <2> QED
    BY <2>1, <2>3
<1> QED
  BY <1>3, <1>4, <1>5, <1>6, <1>7

\* What part of a fused chunk has done to the engine e0.
FusedTo(e0, e) ==
  e \in L!Engine /\ Len(e.lines) <= MaxLines /\ e.store = e0.store /\ Moved(e0, e)

\* ingest_fused, the whole chunk.
LEMMA FusedGives ==
  ASSUME LineBounds, NEW e \in L!Engine, Len(e.lines) <= MaxLines, NEW bytes \in Seq(L!Bytes)
  PROVE  FusedTo(e, L!Fused(e, bytes))
<1> DEFINE f == CHOOSE h : h = [n \in 0 .. Len(bytes) |->
                  IF n = 0 THEN e ELSE L!FusedByte(h[n - 1], bytes[n])]
           step == [p \in (1 .. Len(bytes)) \X L!Engine |-> L!FusedByte(p[2], bytes[p[1]])]
           P == {p \in (0 .. Len(bytes)) \X L!Engine : FusedTo(e, p[2])}
<1>1. L!Fused(e, bytes) = f[Len(bytes)]
  BY DEF L!Fused
<1>2. Len(bytes) \in Nat /\ \A i \in 1 .. Len(bytes) : bytes[i] \in L!Bytes
  OBVIOUS
<1>3. FusedTo(e, e)
  <2>1. e.screen \in Nat
    BY DEF L!Engine
  <2> QED
    BY <2>1 DEF FusedTo, Moved
<1>4. step \in [(1 .. Len(bytes)) \X L!Engine -> L!Engine]
  <2>1. \A i \in 1 .. Len(bytes), x \in L!Engine : L!FusedByte(x, bytes[i]) \in L!Engine
    BY <1>2, FusedByteGives
  <2> QED
    BY <2>1
<1>5. f = [n \in 0 .. Len(bytes) |-> IF n = 0 THEN e ELSE L!FusedByte(f[n - 1], bytes[n])]
  <2> HIDE DEF step
  <2>1. Scans(Len(bytes), L!Engine, e, step)
    BY ONLY <1>2, <1>4, e \in L!Engine, ScanExists, Zenon
  <2>2. PICK h \in [0 .. Len(bytes) -> L!Engine] :
          \A i \in 0 .. Len(bytes) : h[i] = IF i = 0 THEN e ELSE step[<<i, h[i - 1]>>]
    BY <2>1 DEF Scans, IsScan
  <2>3. ASSUME NEW i \in 0 .. Len(bytes)
        PROVE  h[i] = IF i = 0 THEN e ELSE L!FusedByte(h[i - 1], bytes[i])
    <3>1. CASE i = 0
      BY <2>2, <3>1
    <3>2. CASE i # 0
      <4>1. i \in 1 .. Len(bytes) /\ i - 1 \in 0 .. Len(bytes)
        BY <1>2, <3>2
      <4>2. step[<<i, h[i - 1]>>] = L!FusedByte(h[i - 1], bytes[i])
        <5>1. h[i - 1] \in L!Engine
          BY <2>2, <4>1
        <5> QED
          BY <4>1, <5>1 DEF step
      <4> QED
        BY <2>2, <3>2, <4>2
    <3> QED
      BY <3>1, <3>2
  <2>4. h = [n \in 0 .. Len(bytes) |-> IF n = 0 THEN e ELSE L!FusedByte(h[n - 1], bytes[n])]
    BY <2>2, <2>3
  <2> QED
    BY <2>4
<1> HIDE DEF f, step
<1>6. f[0] = e /\ \A i \in 1 .. Len(bytes) : f[i] = L!FusedByte(f[i - 1], bytes[i])
  <2>1. 0 \in 0 .. Len(bytes) /\ \A i \in 1 .. Len(bytes) : i \in 0 .. Len(bytes) /\ i # 0
    BY <1>2
  <2> QED
    BY <1>5, <2>1
<1>7. <<0, f[0]>> \in P
  BY <1>2, <1>3, <1>6
<1>8. ASSUME NEW i \in 1 .. Len(bytes), <<i - 1, f[i - 1]>> \in P PROVE <<i, f[i]>> \in P
  <2> DEFINE x == f[i - 1]
             y == f[i]
  <2>1. FusedTo(e, x) /\ bytes[i] \in L!Bytes /\ i \in 0 .. Len(bytes) /\ x \in L!Engine
    BY <1>2, <1>8
  <2>2. y = L!FusedByte(x, bytes[i])
    BY <1>6
  <2> HIDE DEF x, y
  <2>3. /\ y \in L!Engine
        /\ Len(x.lines) <= MaxLines => Len(y.lines) <= MaxLines
        /\ y.kind = x.kind /\ y.store = x.store
        /\ \/ y.screen = x.screen + 1
           \/ y.screen = x.screen /\ y.lines = x.lines /\ y.pending = x.pending
    BY <2>1, <2>2, FusedByteGives
  <2>4. e.screen \in Nat /\ x.screen \in Nat
    BY <2>1 DEF L!Engine
  <2>5. FusedTo(e, y)
    BY <2>1, <2>3, <2>4 DEF FusedTo, Moved
  <2> QED
    BY <2>1, <2>3, <2>5 DEF y
<1> HIDE DEF P
<1>9. \A i \in 0 .. Len(bytes) : <<i, f[i]>> \in P
  BY ONLY <1>2, <1>7, <1>8, ScanHolds, Zenon
<1>10. Len(bytes) \in 0 .. Len(bytes)
  BY <1>2
<1> QED
  BY <1>1, <1>9, <1>10 DEF P

\* What is carried through the bytes of a stream.
Lines == [lines : Seq(L!Text), cur : L!Text, open : BOOLEAN]

\* A byte of a stream keeps that.
LEMMA StoreByteGives ==
  ASSUME NEW a \in Lines, NEW b \in L!Bytes
  PROVE  L!StoreByte(a, b) \in Lines
<1>1. a.lines \in Seq(L!Text) /\ a.cur \in L!Text /\ a.cur \in Seq({"a"}) /\ <<>> \in L!Text
  BY DEF Lines, L!Text
<1>2. CASE b = "nl"
  <2>1. Append(a.lines, a.cur) \in Seq(L!Text)
    BY <1>1
  <2>2. L!StoreByte(a, b) = [lines |-> Append(a.lines, a.cur), cur |-> <<>>, open |-> FALSE]
    BY <1>2 DEF L!StoreByte
  <2> QED
    BY <1>1, <2>1, <2>2 DEF Lines
<1>3. CASE b \in {"cr", "bel"}
  BY <1>3 DEF L!StoreByte
<1>4. CASE b = "a"
  <2>1. Append(a.cur, b) \in L!Text
    BY <1>1, <1>4 DEF L!Text
  <2>2. L!StoreByte(a, b) = [a EXCEPT !.cur = Append(a.cur, b)]
    BY <1>4 DEF L!StoreByte
  <2> QED
    BY <2>1, <2>2 DEF Lines
<1> QED
  BY <1>2, <1>3, <1>4 DEF L!Bytes

\* The store of a stream after a chunk is lines, and not over the cap; what
\* the viewport is made of is left alone.
LEMMA StoredGives ==
  ASSUME LineBounds, NEW e \in L!Engine, Capped(e), NEW chunk \in Chunk
  PROVE  /\ L!Stored(e, chunk) \in L!Engine /\ Capped(L!Stored(e, chunk))
         /\ Moved(e, L!Stored(e, chunk))
<1> DEFINE s == chunk.from
           bytes == chunk.bytes
           continues == e.open[s] /\ e.store[s] # <<>>
           begun == [lines |-> IF continues THEN L!Front(e.store[s]) ELSE e.store[s],
                     cur |-> IF continues THEN L!Last(e.store[s]) ELSE <<>>, open |-> TRUE]
           f == CHOOSE h : h = [n \in 0 .. Len(bytes) |->
                  IF n = 0
                  THEN [lines |-> IF e.open[s] /\ e.store[s] # <<>> THEN L!Front(e.store[s]) ELSE e.store[s],
                        cur |-> IF e.open[s] /\ e.store[s] # <<>> THEN L!Last(e.store[s]) ELSE <<>>,
                        open |-> TRUE]
                  ELSE L!StoreByte(h[n - 1], bytes[n])]
           step == [p \in (1 .. Len(bytes)) \X Lines |-> L!StoreByte(p[2], bytes[p[1]])]
           done == f[Len(bytes)]
           store == IF done.cur = <<>> THEN done.lines ELSE Append(done.lines, done.cur)
           extra == IF Len(store) > MaxLines THEN Len(store) - MaxLines ELSE 0
           kept == L!Newest(store, MaxLines)
<1>1. L!Stored(e, chunk) =
        [e EXCEPT !.store = [@ EXCEPT ![s] = kept], !.open = [@ EXCEPT ![s] = done.open],
                  !.evicted = @ + extra, !.output = @ + 1]
  BY DEF L!Stored
<1>2. /\ s \in L!Streams /\ bytes \in Seq(L!Bytes) /\ Len(bytes) \in Nat
      /\ \A i \in 1 .. Len(bytes) : bytes[i] \in L!Bytes
      /\ e.store \in [L!Streams -> Seq(L!Text)] /\ e.store[s] \in Seq(L!Text)
      /\ e.open \in [L!Streams -> BOOLEAN]
      /\ e.evicted \in Nat /\ e.output \in Nat /\ e.screen \in Nat /\ MaxLines \in Nat
  BY DEF Chunk, L!Engine, LineBounds
<1>3. begun \in Lines
  <2> DEFINE old == e.store[s]
  <2>1. old \in Seq(L!Text) /\ <<>> \in L!Text
    BY <1>2 DEF L!Text
  <2>2. ASSUME old # <<>> PROVE L!Front(old) \in Seq(L!Text) /\ L!Last(old) \in L!Text
    <3> HIDE DEF old
    <3>1. Len(old) \in 1 .. Len(old) /\ Len(old) - 1 \in 0 .. Len(old)
      BY <2>1, <2>2
    <3>2. L!Last(old) \in L!Text
      BY <2>1, <3>1 DEF L!Last
    <3>3. SubSeq(old, 1, Len(old) - 1) \in Seq(L!Text)
      BY <2>1, <3>1
    <3> QED
      BY <3>2, <3>3 DEF L!Front
  <2>3. CASE continues
    BY <2>2, <2>3 DEF Lines
  <2>4. CASE ~continues
    BY <2>1, <2>4 DEF Lines
  <2> QED
    BY <2>3, <2>4
<1>4. step \in [(1 .. Len(bytes)) \X Lines -> Lines]
  <2> HIDE DEF bytes
  <2>1. \A i \in 1 .. Len(bytes), x \in Lines : L!StoreByte(x, bytes[i]) \in Lines
    BY <1>2, StoreByteGives
  <2> QED
    BY <2>1
<1>5. f \in [0 .. Len(bytes) -> Lines]
  <2> HIDE DEF step, bytes, begun
  <2>1. Scans(Len(bytes), Lines, begun, step)
    BY ONLY <1>2, <1>3, <1>4, ScanExists, Zenon
  <2>2. PICK h \in [0 .. Len(bytes) -> Lines] :
          \A i \in 0 .. Len(bytes) : h[i] = IF i = 0 THEN begun ELSE step[<<i, h[i - 1]>>]
    BY <2>1 DEF Scans, IsScan
  <2>3. ASSUME NEW i \in 0 .. Len(bytes)
        PROVE  h[i] = IF i = 0 THEN begun ELSE L!StoreByte(h[i - 1], bytes[i])
    <3>1. CASE i = 0
      BY <2>2, <3>1
    <3>2. CASE i # 0
      <4>1. i \in 1 .. Len(bytes) /\ i - 1 \in 0 .. Len(bytes)
        BY <1>2, <3>2
      <4>2. step[<<i, h[i - 1]>>] = L!StoreByte(h[i - 1], bytes[i])
        <5>1. h[i - 1] \in Lines
          BY <2>2, <4>1
        <5> QED
          BY <4>1, <5>1 DEF step
      <4> QED
        BY <2>2, <3>2, <4>2
    <3> QED
      BY <3>1, <3>2
  <2>4. h = [n \in 0 .. Len(bytes) |-> IF n = 0 THEN begun ELSE L!StoreByte(h[n - 1], bytes[n])]
    BY <2>2, <2>3
  <2>5. f = CHOOSE g : g = [n \in 0 .. Len(bytes) |->
                             IF n = 0 THEN begun ELSE L!StoreByte(g[n - 1], bytes[n])]
    BY DEF begun, bytes
  <2> HIDE DEF f
  <2>6. f = [n \in 0 .. Len(bytes) |-> IF n = 0 THEN begun ELSE L!StoreByte(f[n - 1], bytes[n])]
    BY <2>4, <2>5
  <2> DEFINE P == {p \in (0 .. Len(bytes)) \X Lines : p[2] \in Lines}
  <2>7. f[0] = begun /\ \A i \in 1 .. Len(bytes) : f[i] = L!StoreByte(f[i - 1], bytes[i])
    <3>1. 0 \in 0 .. Len(bytes) /\ \A i \in 1 .. Len(bytes) : i \in 0 .. Len(bytes) /\ i # 0
      BY <1>2
    <3> QED
      BY <2>6, <3>1
  <2>8. <<0, f[0]>> \in P
    BY <1>2, <1>3, <2>7
  <2>9. ASSUME NEW i \in 1 .. Len(bytes), <<i - 1, f[i - 1]>> \in P PROVE <<i, f[i]>> \in P
    BY <1>2, <2>7, <2>9, StoreByteGives, SMTT(30)
  <2> HIDE DEF P
  <2>10. \A i \in 0 .. Len(bytes) : <<i, f[i]>> \in P
    BY ONLY <1>2, <2>8, <2>9, ScanHolds, Zenon
  <2>11. \A i \in 0 .. Len(bytes) : f[i] \in Lines
    BY <2>10 DEF P
  <2> QED
    BY <2>6, <2>11
<1> HIDE DEF f, step, begun, bytes, continues
<1>6. done \in Lines
  <2>1. Len(bytes) \in 0 .. Len(bytes)
    BY <1>2
  <2> QED
    BY <1>5, <2>1
<1> HIDE DEF done
<1>7. /\ store \in Seq(L!Text) /\ Len(store) \in Nat
      /\ done.open \in BOOLEAN
  BY <1>6 DEF Lines
<1> HIDE DEF store
<1>8. kept \in Seq(L!Text) /\ Len(kept) <= MaxLines /\ e.evicted + extra \in Nat
  <2>1. kept \in Seq(L!Text) /\ Len(kept) = IF Len(store) > MaxLines THEN MaxLines ELSE Len(store)
    BY <1>2, <1>7, NewestGives
  <2> HIDE DEF kept
  <2> QED
    BY <1>2, <1>7, <2>1
<1> HIDE DEF kept
<1> DEFINE stores == [e.store EXCEPT ![s] = kept]
           opens == [e.open EXCEPT ![s] = done.open]
           evicted == e.evicted + extra
           output == e.output + 1
<1>9. /\ stores \in [L!Streams -> Seq(L!Text)]
      /\ \A t \in L!Streams : stores[t] = IF t = s THEN kept ELSE e.store[t]
      /\ opens \in [L!Streams -> BOOLEAN]
      /\ evicted \in Nat /\ output \in Nat
  BY <1>2, <1>7, <1>8, SMTT(30)
<1>10. L!Stored(e, chunk) = [e EXCEPT !.store = stores, !.open = opens,
                                    !.evicted = evicted, !.output = output]
  BY <1>1
<1> HIDE DEF stores, opens, evicted, output, s
<1> DEFINE r == L!Stored(e, chunk)
<1>11. /\ r \in L!Engine /\ r.store = stores /\ r.lines = e.lines
       /\ r.pending = e.pending /\ r.screen = e.screen /\ r.kind = e.kind
  BY <1>9, <1>10 DEF L!Engine
<1> HIDE DEF r
<1>12. Capped(r)
  BY <1>8, <1>9, <1>11 DEF Capped
<1>13. Moved(e, r)
  BY <1>2, <1>11 DEF Moved
<1> QED
  BY <1>11, <1>12, <1>13 DEF r

\* ingest_stream, the whole chunk.
LEMMA PipeIngestGives ==
  ASSUME LineBounds, NEW e \in L!Engine, Capped(e), NEW chunk \in Chunk
  PROVE  /\ L!PipeIngest(e, chunk) \in L!Engine /\ Capped(L!PipeIngest(e, chunk))
         /\ Moved(e, L!PipeIngest(e, chunk))
<1> DEFINE a == L!Stored(e, chunk)
           c == L!PipeIngest(e, chunk)
<1>1. a \in L!Engine /\ Capped(a) /\ Moved(e, a) /\ Len(a.lines) <= MaxLines
  BY StoredGives DEF Capped
<1>2. c = L!Fused(a, chunk.bytes) /\ chunk.bytes \in Seq(L!Bytes)
  BY DEF L!PipeIngest, Chunk
<1> HIDE DEF a, c
<1>3. FusedTo(a, c)
  BY <1>1, <1>2, FusedGives
<1>4. c \in L!Engine /\ Capped(c) /\ Moved(a, c)
  BY <1>1, <1>3 DEF FusedTo, Capped
<1>5. e.screen \in Nat /\ a.screen \in Nat /\ c.screen \in Nat
  BY <1>1, <1>4 DEF L!Engine
<1>6. Moved(e, c)
  BY <1>1, <1>4, <1>5 DEF Moved
<1> QED
  BY <1>4, <1>6 DEF c

-----------------------------------------------------------------------------
(* The drain of the channel.                                               *)

\* What is carried through the chunks.
World == {w \in [e : L!Engine, snaps : Seq(L!Snapshot)] : Capped(w.e)}

\* What some chunks have done to the engine and its snapshots.
PumpedTo(v, w) ==
  /\ w \in World /\ Moved(v.e, w.e)
  /\ Len(v.snaps) <= SnapCap => Len(w.snaps) <= SnapCap
  /\ v.e.kind = "line" /\ Edges(v.snaps, v.e.screen) => Edges(w.snaps, w.e.screen)

\* One chunk.
LEMMA IngestGives ==
  ASSUME LineBounds, proc.gen \in 1 .. MaxGen, NEW v \in World, NEW chunk \in Chunk
  PROVE  PumpedTo(v, L!Ingest(v, chunk))
<1> DEFINE e == v.e
           kept == v.snaps
           w == L!Ingest(v, chunk)
           g == proc.gen
<1>1. /\ e \in L!Engine /\ Capped(e) /\ kept \in Seq(L!Snapshot) /\ g \in 1 .. MaxGen
      /\ e.kind \in {"line", "pipe"} /\ v \in [e : L!Engine, snaps : Seq(L!Snapshot)]
  BY DEF World, L!Engine
<1>2. w = IF e.kind = "line" THEN L!LineIngest(kept, e, chunk, g)
          ELSE [v EXCEPT !.e = L!PipeIngest(e, chunk)]
  BY DEF L!Ingest
<1>3. CASE e.kind = "line"
  <2> HIDE DEF e, kept, g, w
  <2>1. w = L!LineIngest(kept, e, chunk, g)
    BY <1>2, <1>3
  <2>2. /\ w.e \in L!Engine /\ Capped(w.e) /\ Moved(e, w.e) /\ w.snaps \in Seq(L!Snapshot)
        /\ Len(kept) <= SnapCap => Len(w.snaps) <= SnapCap
        /\ Edges(kept, e.screen) => Edges(w.snaps, w.e.screen)
        /\ w = [e |-> w.e, snaps |-> w.snaps]
    BY <1>1, <2>1, LineIngestGives
  <2>3. w \in World
    BY <2>2 DEF World
  <2> QED
    BY <2>2, <2>3 DEF PumpedTo, e, kept, w
<1>4. CASE e.kind # "line"
  <2> DEFINE c == L!PipeIngest(e, chunk)
  <2>1. w = [v EXCEPT !.e = c]
    BY <1>2, <1>4
  <2>2. c \in L!Engine /\ Capped(c) /\ Moved(e, c)
    BY <1>1, PipeIngestGives
  <2> HIDE DEF c, w
  <2>3. w \in [e : L!Engine, snaps : Seq(L!Snapshot)] /\ w.e = c /\ w.snaps = v.snaps
    BY <1>1, <2>1, <2>2
  <2>4. w \in World
    BY <2>2, <2>3 DEF World
  <2> QED
    BY <1>4, <2>2, <2>3, <2>4 DEF PumpedTo, w
<1> QED
  BY <1>3, <1>4

\* The world before a drain.
Now == [e |-> eng, snaps |-> snaps]

\* The whole drain.
LEMMA PumpedGives ==
  ASSUME LineBounds, L!TypeOK
  PROVE  PumpedTo(Now, L!Pumped)
<1> DEFINE f == CHOOSE h : h = [n \in 0 .. Len(chan) |->
                  IF n = 0 THEN [e |-> eng, snaps |-> snaps] ELSE L!Ingest(h[n - 1], chan[n])]
           step == [p \in (1 .. Len(chan)) \X World |-> L!Ingest(p[2], chan[p[1]])]
           P == {p \in (0 .. Len(chan)) \X World : PumpedTo(Now, p[2])}
<1>1. L!Pumped = f[Len(chan)]
  BY DEF L!Pumped
<1>2. /\ proc.gen \in 1 .. MaxGen /\ chan \in Seq(Chunk) /\ eng \in L!Engine
      /\ Capped(eng) /\ snaps \in Seq(L!Snapshot)
  BY DEF L!TypeOK, Chunk, Capped
<1>3. Len(chan) \in Nat /\ \A i \in 1 .. Len(chan) : chan[i] \in Chunk
  BY <1>2
<1>4. Now \in World /\ PumpedTo(Now, Now)
  <2>1. Now \in World /\ Now.e = eng /\ eng.screen \in Nat
    BY <1>2 DEF Now, World, L!Engine
  <2>2. Moved(Now.e, Now.e)
    BY <2>1 DEF Moved
  <2> QED
    BY <2>1, <2>2 DEF PumpedTo
<1>5. \A i \in 1 .. Len(chan), x \in World : L!Ingest(x, chan[i]) \in World
  BY <1>2, <1>3, IngestGives DEF PumpedTo
<1>6. step \in [(1 .. Len(chan)) \X World -> World]
  BY <1>5
<1>7. f = [n \in 0 .. Len(chan) |-> IF n = 0 THEN Now ELSE L!Ingest(f[n - 1], chan[n])]
  <2> HIDE DEF step
  <2>1. Scans(Len(chan), World, Now, step)
    BY ONLY <1>3, <1>4, <1>6, ScanExists, Zenon
  <2>2. PICK h \in [0 .. Len(chan) -> World] :
          \A i \in 0 .. Len(chan) : h[i] = IF i = 0 THEN Now ELSE step[<<i, h[i - 1]>>]
    BY <2>1 DEF Scans, IsScan
  <2>3. ASSUME NEW i \in 0 .. Len(chan)
        PROVE  h[i] = IF i = 0 THEN Now ELSE L!Ingest(h[i - 1], chan[i])
    <3>1. CASE i = 0
      BY <2>2, <3>1
    <3>2. CASE i # 0
      <4>1. i \in 1 .. Len(chan) /\ i - 1 \in 0 .. Len(chan)
        BY <1>3, <3>2
      <4>2. step[<<i, h[i - 1]>>] = L!Ingest(h[i - 1], chan[i])
        <5>1. h[i - 1] \in World
          BY <2>2, <4>1
        <5> QED
          BY <4>1, <5>1 DEF step
      <4> QED
        BY <2>2, <3>2, <4>2
    <3> QED
      BY <3>1, <3>2
  <2>4. h = [n \in 0 .. Len(chan) |-> IF n = 0 THEN Now ELSE L!Ingest(h[n - 1], chan[n])]
    BY <2>2, <2>3
  <2>5. f = CHOOSE g : g = [n \in 0 .. Len(chan) |-> IF n = 0 THEN Now ELSE L!Ingest(g[n - 1], chan[n])]
    BY DEF Now
  <2> HIDE DEF f
  <2> QED
    BY <2>4, <2>5
<1> HIDE DEF f, step
<1>8. f[0] = Now /\ \A i \in 1 .. Len(chan) : f[i] = L!Ingest(f[i - 1], chan[i])
  <2>1. 0 \in 0 .. Len(chan) /\ \A i \in 1 .. Len(chan) : i \in 0 .. Len(chan) /\ i # 0
    BY <1>3
  <2> QED
    BY <1>7, <2>1
<1>9. <<0, f[0]>> \in P
  BY <1>3, <1>4, <1>8
<1>10. ASSUME NEW i \in 1 .. Len(chan), <<i - 1, f[i - 1]>> \in P PROVE <<i, f[i]>> \in P
  <2> DEFINE x == f[i - 1]
             y == f[i]
  <2>1. PumpedTo(Now, x) /\ x \in World /\ chan[i] \in Chunk /\ i \in 0 .. Len(chan)
    BY <1>3, <1>10
  <2>2. y = L!Ingest(x, chan[i])
    BY <1>8
  <2> HIDE DEF x, y
  <2>3. PumpedTo(x, y)
    BY <1>2, <2>1, <2>2, IngestGives
  <2>4. /\ Now.e.screen \in Nat /\ x.e.screen \in Nat /\ y.e.screen \in Nat
    BY <1>4, <2>1, <2>3 DEF PumpedTo, World, L!Engine
  <2>5. Moved(Now.e, y.e)
    BY <2>1, <2>3, <2>4 DEF PumpedTo, Moved
  <2>6. PumpedTo(Now, y)
    BY <2>1, <2>3, <2>5 DEF PumpedTo, Moved
  <2>7. y \in World
    BY <2>3 DEF PumpedTo
  <2> QED
    BY <2>1, <2>6, <2>7 DEF y
<1> HIDE DEF P
<1>11. \A i \in 0 .. Len(chan) : <<i, f[i]>> \in P
  BY ONLY <1>3, <1>9, <1>10, ScanHolds, Zenon
<1>12. Len(chan) \in 0 .. Len(chan)
  BY <1>3
<1> QED
  BY <1>1, <1>11, <1>12 DEF P

-----------------------------------------------------------------------------
(* The steps.                                                              *)

\* The line engine's ring has the latest edges, as long as it has had one
\* child only.
RingInv == eng.kind = "line" /\ proc.gen = 1 => Edges(snaps, eng.screen)

\* What holds of every state of the engine and its child.
LineInv == L!TypeOK /\ RingInv

\* At first.
LEMMA LineInit ==
  ASSUME LineBounds, L!Init
  PROVE  LineInv
<1>1. PICK kind \in {"line", "pipe"} : eng = L!NewEngine(kind)
  BY DEF L!Init
<1>2. /\ eng \in L!Engine /\ eng.lines = <<>> /\ eng.screen = 0
      /\ \A s \in L!Streams : eng.store[s] = <<>>
  BY <1>1 DEF L!NewEngine, L!Engine, L!Text
<1>3. L!NewProc(1) \in [gen : 1 .. MaxGen, alive : BOOLEAN, wrote : [L!Streams -> Seq(L!Bytes)]]
  BY DEF LineBounds, L!NewProc
<1>4. L!NoAsk \in [cond : L!Conds \cup {"none"}, anchor : Nat, bell : Nat]
  BY DEF L!NoAsk
<1>5. L!TypeOK
  BY <1>2, <1>3, <1>4 DEF LineBounds, L!TypeOK, L!Init, L!NoAnswer
<1>6. RingInv
  BY <1>2 DEF LineBounds, RingInv, Edges, L!Init
<1> QED
  BY <1>5, <1>6 DEF LineInv

\* A drain keeps what there is of the engine.
LEMMA PumpsKeeps ==
  ASSUME LineBounds, LineInv, L!Pumps
  PROVE  /\ eng' \in L!Engine /\ Capped(eng') /\ Moved(eng, eng')
         /\ snaps' \in Seq(L!Snapshot) /\ Len(snaps') <= SnapCap /\ chan' = <<>>
         /\ eng.kind = "line" /\ Edges(snaps, eng.screen) => Edges(snaps', eng'.screen)
<1>1. PumpedTo(Now, L!Pumped)
  BY PumpedGives DEF LineInv
<1>2. eng' = L!Pumped.e /\ snaps' = L!Pumped.snaps /\ chan' = <<>> /\ Len(snaps) <= SnapCap
  BY DEF L!Pumps, LineInv, L!TypeOK
<1>3. Now.e = eng /\ Now.snaps = snaps
  BY DEF Now
<1> QED
  BY <1>1, <1>2, <1>3 DEF PumpedTo, World

\* The type of the wait and of the answer, apart from the rest.
AskTypes ==
  /\ ask \in [cond : L!Conds \cup {"none"}, anchor : Nat, bell : Nat]
  /\ got.cond \in L!Conds \cup {"none"} /\ got.met \in BOOLEAN

ProcTypes ==
  /\ proc \in [gen : 1 .. MaxGen, alive : BOOLEAN, wrote : [L!Streams -> Seq(L!Bytes)]]
  /\ wire \in [L!Streams -> Seq(L!Bytes)]

ChanTypes == chan \in Seq(Chunk)

EngineTypes ==
  eng \in L!Engine /\ Capped(eng) /\ snaps \in Seq(L!Snapshot) /\ Len(snaps) <= SnapCap

\* The parts of the type invariant.
LEMMA LineTypeParts ==
  ASSUME TRUE
  PROVE  L!TypeOK <=> AskTypes /\ ProcTypes /\ ChanTypes /\ EngineTypes
BY DEF L!TypeOK, AskTypes, ProcTypes, ChanTypes, EngineTypes, Chunk, Capped

\* A step without an answer.
LEMMA NoAnswerTypes ==
  ASSUME L!NoAnswerYet
  PROVE  got'.cond \in L!Conds \cup {"none"} /\ got'.met \in BOOLEAN
BY DEF L!NoAnswerYet, L!NoAnswer

\* Each step keeps the types, moves the sequence with the viewport, and, when
\* the child is the first one, extends the ring by the edges it makes.
LineStep ==
  /\ AskTypes' /\ ProcTypes' /\ ChanTypes' /\ EngineTypes'
  /\ RingInv' /\ L!EdgeMoves

\* A step that leaves the engine alone.
LEMMA EngineLeft ==
  ASSUME LineInv, UNCHANGED <<eng, snaps>>, proc'.gen = proc.gen
  PROVE  EngineTypes' /\ RingInv' /\ L!EdgeMoves
<1>1. EngineTypes'
  BY LineTypeParts DEF LineInv, EngineTypes, Capped
<1>2. RingInv'
  BY DEF LineInv, RingInv
<1>3. L!View(eng') = L!View(eng)
  OBVIOUS
<1> QED
  BY <1>1, <1>2, <1>3 DEF L!EdgeMoves

\* A drain.
LEMMA EnginePumped ==
  ASSUME LineBounds, LineInv, L!Pumps, UNCHANGED proc
  PROVE  ChanTypes' /\ EngineTypes' /\ RingInv' /\ L!EdgeMoves
<1>1. /\ eng' \in L!Engine /\ Capped(eng') /\ Moved(eng, eng')
      /\ snaps' \in Seq(L!Snapshot) /\ Len(snaps') <= SnapCap /\ chan' = <<>>
      /\ eng.kind = "line" /\ Edges(snaps, eng.screen) => Edges(snaps', eng'.screen)
  BY PumpsKeeps
<1>2. EngineTypes'
  BY <1>1 DEF EngineTypes, Capped
<1>3. ChanTypes'
  BY <1>1 DEF ChanTypes
<1>4. RingInv'
  BY <1>1 DEF LineInv, RingInv, Moved
<1>5. L!EdgeMoves
  <2>1. eng.screen \in Nat /\ eng'.screen \in Nat
    BY <1>1 DEF LineInv, L!TypeOK, L!Engine
  <2>2. eng'.screen = eng.screen => L!View(eng') = L!View(eng)
    BY <1>1 DEF Moved, L!View
  <2> QED
    BY <1>1, <2>1, <2>2 DEF L!EdgeMoves, Moved
<1> QED
  BY <1>2, <1>3, <1>4, <1>5

\* The child and its readers.
LEMMA WriteStep ==
  ASSUME LineBounds, LineInv, L!Write
  PROVE  LineStep
<1>1. AskTypes /\ ProcTypes /\ ChanTypes /\ EngineTypes
  BY LineTypeParts DEF LineInv
<1>2. PICK s \in L!Streams, b \in L!Bytes :
        LET put == IF eng.kind = "line" /\ b = "nl" THEN <<"cr", "nl">> ELSE <<b>> IN
        /\ proc' = [proc EXCEPT !.wrote[s] = @ \o put]
        /\ wire' = [wire EXCEPT ![s] = @ \o put]
  BY DEF L!Write, L!Streams
<1> DEFINE put == IF eng.kind = "line" /\ b = "nl" THEN <<"cr", "nl">> ELSE <<b>>
           wrote == [proc.wrote EXCEPT ![s] = proc.wrote[s] \o put]
<1>3. put \in Seq(L!Bytes)
  <2>1. "cr" \in L!Bytes /\ "nl" \in L!Bytes
    BY DEF L!Bytes
  <2>2. ASSUME NEW x \in L!Bytes, NEW y \in L!Bytes PROVE <<x, y>> \in Seq(L!Bytes) /\ <<x>> \in Seq(L!Bytes)
    OBVIOUS
  <2> QED
    BY <2>1, <2>2
<1>4. proc' = [proc EXCEPT !.wrote = wrote] /\ wire' = [wire EXCEPT ![s] = wire[s] \o put]
  BY <1>1, <1>2 DEF ProcTypes
<1> HIDE DEF put
<1>5. wrote \in [L!Streams -> Seq(L!Bytes)] /\ wire' \in [L!Streams -> Seq(L!Bytes)]
  <2>1. proc.wrote \in [L!Streams -> Seq(L!Bytes)] /\ wire \in [L!Streams -> Seq(L!Bytes)]
    BY <1>1 DEF ProcTypes
  <2>2. proc.wrote[s] \o put \in Seq(L!Bytes) /\ wire[s] \o put \in Seq(L!Bytes)
    BY <1>3, <2>1
  <2> QED
    BY <1>4, <2>1, <2>2
<1> HIDE DEF wrote
<1>6. ProcTypes' /\ proc'.gen = proc.gen
  BY <1>1, <1>4, <1>5 DEF ProcTypes
<1>7. UNCHANGED <<chan, eng, snaps, ask>> /\ L!NoAnswerYet
  BY DEF L!Write
<1>8. AskTypes' /\ ChanTypes'
  BY <1>1, <1>7, NoAnswerTypes DEF AskTypes, ChanTypes
<1> QED
  BY <1>6, <1>7, <1>8, EngineLeft DEF LineStep

\* The child exits.
LEMMA ExitStep ==
  ASSUME LineBounds, LineInv, L!Exit
  PROVE  LineStep
<1>1. AskTypes /\ ProcTypes /\ ChanTypes /\ EngineTypes
  BY LineTypeParts DEF LineInv
<1>2. UNCHANGED <<wire, chan, eng, snaps, ask>> /\ L!NoAnswerYet /\ proc' = [proc EXCEPT !.alive = FALSE]
  BY DEF L!Exit
<1>3. ProcTypes' /\ proc'.gen = proc.gen
  BY <1>1, <1>2 DEF ProcTypes
<1>4. AskTypes' /\ ChanTypes'
  BY <1>1, <1>2, NoAnswerTypes DEF AskTypes, ChanTypes
<1> QED
  BY <1>2, <1>3, <1>4, EngineLeft DEF LineStep

\* A reader thread reads a chunk.
LEMMA ReadStep ==
  ASSUME LineBounds, LineInv, NEW s \in L!Streams, L!Read(s)
  PROVE  LineStep
<1>1. AskTypes /\ ProcTypes /\ ChanTypes /\ EngineTypes
  BY LineTypeParts DEF LineInv
<1>2. PICK n \in 1 .. Len(wire[s]) :
        /\ chan' = Append(chan, [from |-> s, bytes |-> SubSeq(wire[s], 1, n)])
        /\ wire' = [wire EXCEPT ![s] = SubSeq(wire[s], n + 1, Len(wire[s]))]
  BY <1>1 DEF L!Read
<1>3. UNCHANGED <<proc, eng, snaps, ask>> /\ L!NoAnswerYet
  BY DEF L!Read
<1> DEFINE bytes == wire[s]
<1>4. bytes \in Seq(L!Bytes) /\ wire \in [L!Streams -> Seq(L!Bytes)] /\ Len(bytes) \in Nat
  BY <1>1 DEF ProcTypes
<1>5. SubSeq(bytes, 1, n) \in Seq(L!Bytes) /\ SubSeq(bytes, n + 1, Len(bytes)) \in Seq(L!Bytes)
  <2> HIDE DEF bytes
  <2>1. n \in Nat /\ n <= Len(bytes) /\ n >= 1
    BY <1>2, <1>4 DEF bytes
  <2> QED
    BY <1>4, <2>1
<1>6. ChanTypes'
  <2>1. [from |-> s, bytes |-> SubSeq(bytes, 1, n)] \in Chunk
    BY <1>5 DEF Chunk
  <2> QED
    BY <1>1, <1>2, <2>1 DEF ChanTypes
<1>7. ProcTypes'
  BY <1>1, <1>2, <1>3, <1>4, <1>5 DEF ProcTypes
<1>8. AskTypes'
  BY <1>1, <1>3, NoAnswerTypes DEF AskTypes
<1>9. EngineTypes' /\ RingInv' /\ L!EdgeMoves
  BY <1>3, EngineLeft
<1> QED
  BY <1>6, <1>7, <1>8, <1>9 DEF LineStep

\* A wait begins.
LEMMA BeginWaitStep ==
  ASSUME LineBounds, LineInv, L!BeginWait
  PROVE  LineStep
<1>1. AskTypes /\ ProcTypes /\ ChanTypes /\ EngineTypes
  BY LineTypeParts DEF LineInv
<1>2. UNCHANGED <<proc, wire, chan, eng, snaps>> /\ L!NoAnswerYet
  BY DEF L!BeginWait
<1>3. eng.screen \in Nat /\ eng.bell \in Nat
  BY <1>1 DEF EngineTypes, L!Engine
<1>4. ask' \in [cond : L!Conds \cup {"none"}, anchor : Nat, bell : Nat]
  <2>1. CASE \E cond \in {"Text", "ProcessExit"} : ask' = [L!NoAsk EXCEPT !.cond = cond]
    BY <2>1 DEF L!NoAsk, L!Conds
  <2>2. CASE ask' = [L!NoAsk EXCEPT !.cond = "Bell", !.bell = eng.bell]
    BY <1>3, <2>2 DEF L!NoAsk, L!Conds
  <2>3. CASE ask' = [L!NoAsk EXCEPT !.cond = "ScreenChange", !.anchor = eng.screen]
    BY <1>3, <2>3 DEF L!NoAsk, L!Conds
  <2>4. CASE \E anchor \in 0 .. eng.screen :
               ask' = [L!NoAsk EXCEPT !.cond = "ScreenStable", !.anchor = anchor]
    <3>1. PICK anchor \in 0 .. eng.screen :
            ask' = [L!NoAsk EXCEPT !.cond = "ScreenStable", !.anchor = anchor]
      BY <2>4
    <3>2. anchor \in Nat /\ "ScreenStable" \in L!Conds
      BY <1>3, <3>1 DEF L!Conds
    <3> QED
      BY <3>1, <3>2 DEF L!NoAsk
  <2> QED
    BY <2>1, <2>2, <2>3, <2>4 DEF L!BeginWait
<1>5. AskTypes' /\ ProcTypes' /\ ChanTypes'
  BY <1>1, <1>2, <1>4, NoAnswerTypes DEF AskTypes, ProcTypes, ChanTypes
<1> QED
  BY <1>2, <1>5, EngineLeft DEF LineStep

\* A round of a wait.
LEMMA PollStep ==
  ASSUME LineBounds, LineInv, L!Poll
  PROVE  LineStep
<1>1. AskTypes /\ ProcTypes /\ ChanTypes /\ EngineTypes
  BY LineTypeParts DEF LineInv
<1>2. L!Pumps /\ UNCHANGED <<proc, wire>>
  BY DEF L!Poll
<1>3. ChanTypes' /\ EngineTypes' /\ RingInv' /\ L!EdgeMoves
  BY <1>2, EnginePumped
<1>4. ProcTypes'
  BY <1>1, <1>2 DEF ProcTypes
<1>5. /\ ask.cond \in L!Conds \cup {"none"}
      /\ L!NoAsk \in [cond : L!Conds \cup {"none"}, anchor : Nat, bell : Nat]
  BY <1>1 DEF AskTypes, L!NoAsk
<1>6. AskTypes'
  <2>1. CASE got' = L!Answer(L!Pumped.e, L!Pumped.snaps) /\ ask' = L!NoAsk
    <3>1. got'.cond = ask.cond /\ got'.met = TRUE
      BY <2>1 DEF L!Answer
    <3> QED
      BY <1>5, <2>1, <3>1 DEF AskTypes
  <2>2. CASE UNCHANGED ask /\ L!NoAnswerYet
    BY <1>1, <2>2, NoAnswerTypes DEF AskTypes
  <2>3. CASE ask' = L!NoAsk /\ got' = [L!NoAnswer EXCEPT !.cond = ask.cond]
    BY <1>5, <2>3 DEF AskTypes, L!NoAnswer
  <2> QED
    BY <2>1, <2>2, <2>3 DEF L!Poll
<1> QED
  BY <1>3, <1>4, <1>6 DEF LineStep

\* Any other question.
LEMMA LookStep ==
  ASSUME LineBounds, LineInv, L!Look
  PROVE  LineStep
<1>1. AskTypes /\ ProcTypes /\ ChanTypes /\ EngineTypes
  BY LineTypeParts DEF LineInv
<1>2. L!Pumps /\ UNCHANGED <<proc, wire, ask>> /\ L!NoAnswerYet
  BY DEF L!Look
<1>3. ChanTypes' /\ EngineTypes' /\ RingInv' /\ L!EdgeMoves
  BY <1>2, EnginePumped
<1>4. AskTypes' /\ ProcTypes'
  BY <1>1, <1>2, NoAnswerTypes DEF AskTypes, ProcTypes
<1> QED
  BY <1>3, <1>4 DEF LineStep

\* The next child, in the same engine.
LEMMA RestartStep ==
  ASSUME LineBounds, LineInv, L!Restart
  PROVE  LineStep
<1>1. AskTypes /\ ProcTypes /\ ChanTypes /\ EngineTypes
  BY LineTypeParts DEF LineInv
<1>2. /\ proc.gen < MaxGen /\ proc' = L!NewProc(proc.gen + 1)
      /\ wire' = [s \in L!Streams |-> <<>>] /\ chan' = <<>>
      /\ eng' = L!Started /\ UNCHANGED <<snaps, ask>> /\ L!NoAnswerYet
  BY DEF L!Restart
<1>3. proc.gen \in Nat /\ proc.gen >= 1 /\ MaxGen \in Nat
  BY <1>1 DEF ProcTypes, LineBounds
<1>4. proc'.gen = proc.gen + 1 /\ proc'.gen \in 1 .. MaxGen /\ proc'.gen # 1 /\ proc'.gen # proc.gen
  BY <1>2, <1>3 DEF L!NewProc
<1>5. ProcTypes'
  <2>1. proc.gen + 1 \in 1 .. MaxGen
    BY <1>2, <1>3
  <2> QED
    BY <1>2, <2>1 DEF ProcTypes, L!NewProc
<1>6. L!Started \in L!Engine /\ Capped(L!Started)
  <2>1. eng.kind \in {"line", "pipe"} /\ eng.open \in [L!Streams -> BOOLEAN] /\ MaxLines \in Nat
    BY <1>1 DEF EngineTypes, L!Engine, LineBounds
  <2> QED
    <3>1. <<>> \in L!Text /\ <<>> \in Seq(L!Text) /\ Len(<<>>) <= MaxLines
      BY <2>1 DEF L!Text
    <3>2. [s \in L!Streams |-> <<>>] \in [L!Streams -> Seq(L!Text)]
      BY <3>1
    <3>3. /\ L!Started = [L!NewEngine(eng.kind) EXCEPT !.open = eng.open]
          /\ L!NewEngine(eng.kind) \in L!Engine
      BY <2>1, <3>1, <3>2 DEF L!Started, L!NewEngine, L!Engine
    <3>4. L!Started \in L!Engine
      BY <2>1, <3>3 DEF L!Engine
    <3>5. L!Started.lines = <<>> /\ L!Started.store = [s \in L!Streams |-> <<>>]
      BY <3>3 DEF L!NewEngine
    <3> QED
      BY <3>1, <3>4, <3>5 DEF Capped
<1>7. EngineTypes'
  BY <1>1, <1>2, <1>6 DEF EngineTypes, Capped
<1>8. AskTypes' /\ ChanTypes'
  BY <1>1, <1>2, NoAnswerTypes DEF AskTypes, ChanTypes
<1> QED
  BY <1>4, <1>5, <1>7, <1>8 DEF LineStep, RingInv, L!EdgeMoves

\* Every step of the engine and its child.
LEMMA LineNext ==
  ASSUME LineBounds, LineInv, L!Next
  PROVE  LineStep
BY WriteStep, ExitStep, ReadStep, BeginWaitStep, PollStep, LookStep, RestartStep DEF L!Next

\* So the invariant is one, and what changes the viewport moves the sequence.
LEMMA LineSteps ==
  ASSUME LineBounds, LineInv, [L!Next]_L!lineVars
  PROVE  LineInv' /\ L!EdgeMoves
<1>1. CASE L!Next
  <2>1. LineStep
    BY <1>1, LineNext
  <2>2. L!TypeOK'
    BY <2>1, LineTypeParts DEF LineStep, L!TypeOK, AskTypes, ProcTypes, ChanTypes, EngineTypes, Chunk, Capped
  <2> QED
    BY <2>1, <2>2 DEF LineStep, LineInv
<1>2. CASE UNCHANGED L!lineVars
  <2>1. L!TypeOK' /\ RingInv'
    BY <1>2 DEF L!lineVars, LineInv, L!TypeOK, RingInv
  <2>2. L!View(eng') = L!View(eng)
    BY <1>2 DEF L!lineVars
  <2> QED
    BY <2>1, <2>2 DEF LineInv, L!EdgeMoves
<1> QED
  BY <1>1, <1>2

\* The ring has each of the edges a collector may still ask for.
LEMMA RingWalkable ==
  ASSUME LineBounds, LineInv
  PROVE  L!EdgesWalkable
<1>1. eng.screen \in Nat /\ SnapCap \in Nat /\ snaps \in Seq(L!Snapshot) /\ Len(snaps) \in Nat
  BY DEF LineInv, L!TypeOK, L!Engine, LineBounds
<1>2. ASSUME eng.kind = "line", proc.gen = 1, NEW k \in 1 .. eng.screen, eng.screen - k < SnapCap
      PROVE  \E n \in DOMAIN snaps : snaps[n].seq = k
  <2>1. /\ Len(snaps) = IF eng.screen < SnapCap THEN eng.screen ELSE SnapCap
        /\ \A i \in 1 .. Len(snaps) : snaps[i].seq = eng.screen - Len(snaps) + i
    BY <1>2 DEF LineInv, RingInv, Edges
  <2> DEFINE n == k - (eng.screen - Len(snaps))
  <2>2. n \in 1 .. Len(snaps) /\ eng.screen - Len(snaps) + n = k
    BY <1>1, <1>2, <2>1
  <2>3. n \in DOMAIN snaps
    BY <1>1, <2>2
  <2> QED
    BY <2>1, <2>2, <2>3
<1> QED
  BY <1>2 DEF L!EdgesWalkable

\* For every viewport, cap, child and cut of its output: the engines keep
\* their types and caps, a viewport never changes without its sequence, and the
\* line engine has a snapshot of each of its latest edges.
THEOREM LineEnginesSafe ==
  ASSUME LineBounds
  PROVE  L!Spec => [](L!TypeOK /\ L!EdgesWalkable) /\ [][L!EdgeMoves]_L!lineVars
<1>1. L!Init => LineInv
  BY LineInit
<1>2. LineInv /\ [L!Next]_L!lineVars => LineInv' /\ L!EdgeMoves
  BY LineSteps
<1>3. LineInv => L!TypeOK /\ L!EdgesWalkable
  BY RingWalkable DEF LineInv
<1> QED
  BY <1>1, <1>2, <1>3, PTL DEF L!Spec

-----------------------------------------------------------------------------
(* The drivers of the audit.                                               *)

CONSTANTS Controls, MaxTabs, Sizes, MaxOps, RingOps
VARIABLES drv, tui, seen, graph, said

D == INSTANCE AuditDrivers

DriverBounds ==
  /\ Controls \in Nat \ {0} /\ MaxTabs \in Nat /\ RingOps \in Nat \ {0}
  /\ Sizes \in Seq(Nat)

\* The application, and where each driver may be.
Tui ==
  [honest : BOOLEAN, twins : BOOLEAN, focus : D!Focus, start : D!Focus, size : D!AllSizes,
   ops : Seq(BOOLEAN), dropped : BOOLEAN, on : BOOLEAN]
PlacesOf ==
  [keyboard |-> {"start", "tab", "back", "done"}, resize |-> {"start", "walk", "done"},
   reflow |-> {"start", "shrunk", "restore", "done"}, exit |-> {"start", "exited", "done"}]
PlaceInv == drv.pc \in PlacesOf[drv.kind]

\* The way of the focus over N Tabs, of which n are not taken back, and the
\* edges it has left.
WayOf(N, p, n) ==
  /\ \A i \in 1 .. N : p[i] = D!Turn("tab", p[i - 1])
  /\ p[0] = tui.start /\ p[n] = tui.focus
  /\ \A e : e \in graph <=> \/ \E i \in 1 .. N : e = <<p[i - 1], p[i], "tab">>
                            \/ \E i \in n + 1 .. N : e = <<p[i], p[i - 1], "shift+tab">>

HasWay(N, p) == drv.n <= N /\ (drv.pc = "tab" => drv.n = N) /\ WayOf(N, p, drv.n)

TabInv ==
  (drv.kind = "keyboard" /\ tui.honest) =>
    /\ drv.pc = "start" => drv.n = 0 /\ tui.focus = tui.start /\ graph = {}
    /\ drv.pc \in {"tab", "back"} =>
         \E N \in Nat : \E p \in [0 .. N -> D!Focus] : HasWay(N, p)
    /\ drv.pc = "done" /\ drv.clean => tui.focus = tui.start
    /\ "KB-REVERSE-GAP" \notin said /\ ("KB-TRAP" \in said => tui.twins)

SizeInv ==
  drv.kind \in {"resize", "reflow"} =>
    ((drv.pc = "start" \/ (drv.pc = "done" /\ drv.clean)) => tui.size = D!Original)

\* What the stream ends with is what the mode is.
EndInv == IF tui.ops = <<>> THEN ~tui.on ELSE tui.on = tui.ops[Len(tui.ops)]
ExitInv ==
  drv.kind = "exit" =>
    /\ EndInv /\ (drv.pc \in {"start", "exited"} => said = {})
    /\ drv.pc = "start" => ~drv.engaged
    /\ drv.engaged => tui.ops # <<>>
    /\ (drv.pc = "done" /\ "TEARDOWN-WINDOW-UNREADABLE" \notin said) =>
         ("LCX-TEARDOWN-MISSING" \in said => tui.on)

DrvInv == D!TypeOK /\ tui \in Tui /\ PlaceInv /\ TabInv /\ SizeInv /\ ExitInv

-----------------------------------------------------------------------------

\* Tab and Shift+Tab stay among the controls, and undo each other.
LEMMA TurnFacts ==
  ASSUME DriverBounds, NEW f \in D!Focus
  PROVE  /\ D!Turn("tab", f) \in D!Focus /\ D!Turn("shift+tab", f) \in D!Focus
         /\ D!Turn("shift+tab", D!Turn("tab", f)) = f
         /\ Controls > 1 => D!Turn("tab", f) # f
<1>1. Controls \in Nat /\ Controls # 0 /\ f \in 0 .. Controls - 1
  BY DEF DriverBounds, D!Focus
<1>2. CASE f + 1 = Controls
  <2>1. (f + 1) % Controls = 0
    BY <1>1, <1>2
  <2>2. (0 + Controls - 1) % Controls = f
    BY <1>1, <1>2
  <2>3. (f + Controls - 1) % Controls \in 0 .. Controls - 1
    BY <1>1
  <2> QED
    BY <1>1, <1>2, <2>1, <2>2, <2>3 DEF D!Turn, D!Focus
<1>3. CASE f + 1 # Controls
  <2>1. (f + 1) % Controls = f + 1
    BY <1>1, <1>3
  <2>2. ((f + 1) + Controls - 1) % Controls = f
    BY <1>1, <1>3
  <2>3. (f + Controls - 1) % Controls \in 0 .. Controls - 1
    BY <1>1
  <2> QED
    BY <1>1, <1>3, <2>1, <2>2, <2>3 DEF D!Turn, D!Focus
<1> QED
  BY <1>2, <1>3

\* What the invariant says of the fields.
LEMMA DrvFacts ==
  ASSUME DriverBounds, DrvInv
  PROVE  /\ drv = [kind |-> drv.kind, pc |-> drv.pc, n |-> drv.n, clean |-> drv.clean,
                   engaged |-> drv.engaged]
         /\ drv.kind \in D!DriverKinds /\ drv.n \in Nat /\ drv.clean \in BOOLEAN /\ drv.engaged \in BOOLEAN
         /\ tui = [honest |-> tui.honest, twins |-> tui.twins, focus |-> tui.focus, start |-> tui.start,
                   size |-> tui.size, ops |-> tui.ops, dropped |-> tui.dropped, on |-> tui.on]
         /\ tui.honest \in BOOLEAN /\ tui.twins \in BOOLEAN /\ tui.focus \in D!Focus
         /\ tui.start \in D!Focus /\ tui.size \in D!AllSizes /\ tui.ops \in Seq(BOOLEAN)
         /\ tui.dropped \in BOOLEAN /\ tui.on \in BOOLEAN
         /\ seen \subseteq D!Focus /\ graph \subseteq D!Focus \X D!Focus \X {"tab", "shift+tab"}
         /\ Len(tui.ops) <= RingOps
BY DEF DrvInv, D!TypeOK, Tui

\* The ring.
LEMMA RingKeepsLast ==
  ASSUME DriverBounds, NEW ops \in Seq(BOOLEAN), Len(ops) <= RingOps, NEW b \in BOOLEAN
  PROVE  /\ D!Ringed(Append(ops, b)) \in Seq(BOOLEAN) /\ Len(D!Ringed(Append(ops, b))) <= RingOps
         /\ D!Ringed(Append(ops, b)) # <<>>
         /\ D!Ringed(Append(ops, b))[Len(D!Ringed(Append(ops, b)))] = b
<1> DEFINE all == Append(ops, b)
<1>1. all \in Seq(BOOLEAN) /\ Len(all) = Len(ops) + 1 /\ all[Len(ops) + 1] = b /\ all # <<>>
  BY AppendProperties
<1>2. RingOps \in Nat /\ RingOps # 0 /\ Len(ops) \in Nat /\ Len(<<>>) = 0
  BY DEF DriverBounds
<1> HIDE DEF all
<1>3. CASE Len(all) > RingOps
  <2>1. /\ Tail(all) \in Seq(BOOLEAN) /\ Len(Tail(all)) = Len(all) - 1
        /\ \A i \in 1 .. Len(Tail(all)) : Tail(all)[i] = all[i + 1]
    BY <1>1, HeadTailProperties
  <2>2. Len(Tail(all)) = Len(ops) /\ Len(ops) >= 1
    BY <1>1, <1>2, <1>3, <2>1
  <2>3. Tail(all)[Len(Tail(all))] = b
    BY <1>1, <1>2, <2>1, <2>2
  <2>4. D!Ringed(all) = Tail(all)
    BY <1>3 DEF D!Ringed
  <2>5. Tail(all) # <<>>
    BY <1>2, <2>2
  <2> QED
    BY <2>1, <2>2, <2>3, <2>4, <2>5 DEF all
<1>4. CASE ~(Len(all) > RingOps)
  <2>1. D!Ringed(all) = all
    BY <1>4 DEF D!Ringed
  <2> QED
    BY <1>1, <1>2, <1>4, <2>1 DEF all
<1> QED
  BY <1>3, <1>4

\* Before a driver.
LEMMA DrvInit ==
  ASSUME DriverBounds, D!Init
  PROVE  DrvInv
<1>1. PICK honest \in BOOLEAN, twins \in BOOLEAN, f \in D!Focus :
        tui = [honest |-> honest, twins |-> twins, focus |-> f, start |-> f, size |-> D!Original,
               ops |-> <<>>, dropped |-> FALSE, on |-> FALSE]
  BY DEF D!Init
<1>2. /\ drv \in [kind : D!DriverKinds, pc : {"start"}, n : {0}, clean : {TRUE}, engaged : {FALSE}]
      /\ seen = {} /\ graph = {} /\ said = {}
  BY DEF D!Init
<1>3. <<>> \in Seq(BOOLEAN) /\ Len(<<>>) = 0 /\ D!Original \in D!AllSizes /\ RingOps \in Nat
  BY DEF D!AllSizes, DriverBounds
<1>4. tui \in Tui /\ tui.ops = <<>>
  BY <1>1, <1>3, Zenon DEF Tui
<1>5. D!TypeOK
  <2>1. drv \in [kind : D!DriverKinds, pc : {"start", "tab", "back", "judge", "walk", "restore", "shrunk",
                                          "exited", "done"},
                n : Nat, clean : BOOLEAN, engaged : BOOLEAN]
    <3>1. PICK kind \in D!DriverKinds :
            drv = [kind |-> kind, pc |-> "start", n |-> 0, clean |-> TRUE, engaged |-> FALSE]
      BY <1>2
    <3> QED
      BY <3>1
  <2>2. /\ tui.focus \in D!Focus /\ tui.start \in D!Focus /\ tui.size \in D!AllSizes
        /\ tui.honest \in BOOLEAN /\ tui.twins \in BOOLEAN /\ tui.ops \in Seq(BOOLEAN)
        /\ tui.dropped \in BOOLEAN
    BY <1>4 DEF Tui
  <2>3. Len(tui.ops) <= RingOps
    BY <1>3, <1>4
  <2> QED
    BY <1>2, <2>1, <2>2, <2>3 DEF D!TypeOK
<1>6. PlaceInv
  BY <1>2 DEF PlaceInv, PlacesOf, D!DriverKinds
<1>7. TabInv /\ SizeInv
  BY <1>1, <1>2 DEF TabInv, SizeInv
<1>8. ExitInv
  <2>1. EndInv
    BY <1>1 DEF EndInv
  <2> QED
    BY <1>2, <2>1 DEF ExitInv
<1> QED
  BY <1>4, <1>5, <1>6, <1>7, <1>8 DEF DrvInv

-----------------------------------------------------------------------------
(* The traversal.                                                          *)

\* A Tab extends it.
LEMMA TabExtends ==
  ASSUME DriverBounds, DrvInv, tui.honest, drv.kind = "keyboard", drv.pc = "tab",
         tui'.focus = D!Turn("tab", tui.focus), tui'.start = tui.start,
         graph' = graph \cup {<<tui.focus, tui'.focus, "tab">>}
  PROVE  \E M \in Nat : \E q \in [0 .. M -> D!Focus] : drv.n + 1 = M /\ WayOf(M, q, M)'
<1>1. PICK N \in Nat : \E p \in [0 .. N -> D!Focus] : HasWay(N, p)
  BY DEF DrvInv, TabInv
<1>2. PICK p \in [0 .. N -> D!Focus] : HasWay(N, p)
  BY <1>1
<1> DEFINE n == drv.n
<1>3. n \in Nat /\ tui.focus \in D!Focus
  BY DrvFacts
<1>4. /\ n <= N
      /\ \A i \in 1 .. N : p[i] = D!Turn("tab", p[i - 1])
      /\ p[0] = tui.start /\ p[n] = tui.focus
      /\ \A e : e \in graph <=> \/ \E i \in 1 .. N : e = <<p[i - 1], p[i], "tab">>
                                \/ \E i \in n + 1 .. N : e = <<p[i], p[i - 1], "shift+tab">>
  BY <1>2 DEF HasWay, WayOf
<1>5. n = N
  BY <1>2 DEF HasWay
<1>6. PICK g \in D!Focus : g = tui'.focus
  BY <1>3, TurnFacts
<1> DEFINE M == N + 1
           q == [i \in 0 .. M |-> IF i = M THEN g ELSE p[i]]
<1> HIDE DEF n
<1>7. q \in [0 .. M -> D!Focus] /\ M \in Nat
  BY <1>6
<1>8. /\ q[M] = g /\ \A i \in 0 .. N : q[i] = p[i] /\ i # M
      /\ \A i \in 1 .. N : q[i] = p[i] /\ q[i - 1] = p[i - 1]
  OBVIOUS
<1> HIDE DEF q
<1>9. q[M - 1] = tui.focus /\ M - 1 = N
  BY <1>4, <1>5, <1>8
<1>10. \A i \in 1 .. M : q[i] = D!Turn("tab", q[i - 1])
  <2>1. ASSUME NEW i \in 1 .. M, i # M PROVE q[i] = D!Turn("tab", q[i - 1])
    BY <1>4, <1>8, <2>1
  <2>2. q[M] = D!Turn("tab", q[M - 1])
    BY <1>6, <1>8, <1>9
  <2> QED
    BY <2>1, <2>2
<1>11. ASSUME NEW e
      PROVE  e \in graph' <=> \/ \E i \in 1 .. M : e = <<q[i - 1], q[i], "tab">>
                              \/ \E i \in M + 1 .. M : e = <<q[i], q[i - 1], "shift+tab">>
  <2>1. e \in graph' <=> e \in graph \/ e = <<q[M - 1], q[M], "tab">>
    BY <1>6, <1>8, <1>9
  <2>2. e \in graph <=> \E i \in 1 .. N : e = <<q[i - 1], q[i], "tab">>
    <3>1. n + 1 .. N = {}
      BY <1>3, <1>5
    <3> QED
      BY <1>4, <1>8, <3>1
  <2>3. M + 1 .. M = {} /\ (\A i : i \in 1 .. M <=> i \in 1 .. N \/ i = M)
    BY <1>7
  <2> QED
    BY <2>1, <2>2, <2>3
<1>12. q[0] = tui'.start /\ q[M] = tui'.focus
  BY <1>4, <1>6, <1>8
<1>13. WayOf(M, q, M)'
  BY <1>10, <1>11, <1>12 DEF WayOf
<1> QED
  BY <1>5, <1>7, <1>13 DEF n

\* A Shift+Tab takes its last step back.
LEMMA BackReturns ==
  ASSUME DriverBounds, DrvInv, tui.honest, drv.kind = "keyboard", drv.pc = "back", drv.n > 0,
         tui'.focus = D!Turn("shift+tab", tui.focus), tui'.start = tui.start,
         graph' = graph \cup {<<tui.focus, tui'.focus, "shift+tab">>}
  PROVE  \E M, k \in Nat : \E q \in [0 .. M -> D!Focus] : k = drv.n - 1 /\ k <= M /\ WayOf(M, q, k)'
<1>1. PICK N \in Nat : \E p \in [0 .. N -> D!Focus] : HasWay(N, p)
  BY DEF DrvInv, TabInv
<1>2. PICK p \in [0 .. N -> D!Focus] : HasWay(N, p)
  BY <1>1
<1> DEFINE n == drv.n
<1>3. n \in Nat /\ tui.focus \in D!Focus
  BY DrvFacts
<1>4. /\ n <= N
      /\ \A i \in 1 .. N : p[i] = D!Turn("tab", p[i - 1])
      /\ p[0] = tui.start /\ p[n] = tui.focus
      /\ \A e : e \in graph <=> \/ \E i \in 1 .. N : e = <<p[i - 1], p[i], "tab">>
                                \/ \E i \in n + 1 .. N : e = <<p[i], p[i - 1], "shift+tab">>
  BY <1>2 DEF HasWay, WayOf
<1>5. n \in 1 .. N /\ n - 1 \in 0 .. N /\ n - 1 + 1 = n /\ n - 1 <= N
  BY <1>3, <1>4
<1> HIDE DEF n
<1>6. p[n] = D!Turn("tab", p[n - 1]) /\ p[n - 1] \in D!Focus
  BY <1>2, <1>4, <1>5
<1>7. tui'.focus = p[n - 1]
  BY <1>4, <1>6, TurnFacts
<1>8. ASSUME NEW e
      PROVE  e \in graph' <=> \/ \E i \in 1 .. N : e = <<p[i - 1], p[i], "tab">>
                              \/ \E i \in n - 1 + 1 .. N : e = <<p[i], p[i - 1], "shift+tab">>
  <2>1. e \in graph' <=> e \in graph \/ e = <<p[n], p[n - 1], "shift+tab">>
    BY <1>4, <1>7
  <2>2. \A i : i \in n - 1 + 1 .. N <=> i \in n + 1 .. N \/ i = n
    BY <1>3, <1>5
  <2> QED
    BY <1>4, <2>1, <2>2
<1>9. PICK k \in Nat : k = n - 1
  BY <1>5
<1>10. WayOf(N, p, k)'
  BY <1>4, <1>7, <1>8, <1>9 DEF WayOf
<1> QED
  BY <1>2, <1>5, <1>9, <1>10 DEF n

\* A way that is taken back has the reverse of each of its edges.
LEMMA WayBack ==
  ASSUME NEW N \in Nat, NEW p \in [0 .. N -> D!Focus], WayOf(N, p, 0)
  PROVE  D!ReverseTabGaps = {} /\ tui.focus = tui.start
<1>1. \A i : i \in 0 + 1 .. N <=> i \in 1 .. N
  OBVIOUS
<1>2. ASSUME NEW i \in 1 .. N
      PROVE  /\ <<p[i - 1], p[i], "tab">> \in graph
             /\ <<p[i], p[i - 1], "shift+tab">> \in graph
  BY <1>1 DEF WayOf
<1>3. ASSUME NEW a, NEW b, NEW via, <<a, b, via>> \in graph
      PROVE  <<b, a, D!Opposite(via)>> \in graph
  <2>1. PICK i \in 1 .. N : \/ a = p[i - 1] /\ b = p[i] /\ via = "tab"
                            \/ a = p[i] /\ b = p[i - 1] /\ via = "shift+tab"
    BY <1>1, <1>3 DEF WayOf
  <2> QED
    BY <1>2, <2>1 DEF D!Opposite
<1>4. ASSUME NEW e \in graph
      PROVE  e = <<e[1], e[2], e[3]>>
  BY <1>1 DEF WayOf
<1>5. D!ReverseTabGaps = {}
  <2>1. ASSUME NEW e \in graph PROVE <<e[2], e[1], D!Opposite(e[3])>> \in graph
    <3> DEFINE a == e[1]
               b == e[2]
               via == e[3]
    <3>1. <<a, b, via>> \in graph
      BY <1>4
    <3> HIDE DEF a, b, via
    <3>2. <<b, a, D!Opposite(via)>> \in graph
      BY <1>3, <3>1
    <3> QED
      BY <3>2 DEF a, b, via
  <2> QED
    BY <2>1 DEF D!ReverseTabGaps
<1> QED
  BY <1>5 DEF WayOf

\* What every step keeps of the types.
LEMMA DrvTypes ==
  ASSUME DriverBounds, DrvInv,
         NEW P \in PlacesOf[drv.kind], NEW N \in Nat, NEW C \in BOOLEAN, NEW E \in BOOLEAN,
         drv' = [kind |-> drv.kind, pc |-> P, n |-> N, clean |-> C, engaged |-> E],
         tui' \in Tui, Len(tui'.ops) <= RingOps, seen' \subseteq D!Focus,
         graph' \subseteq D!Focus \X D!Focus \X {"tab", "shift+tab"}
  PROVE  (D!TypeOK /\ tui \in Tui /\ PlaceInv)'
<1>1. drv.kind \in D!DriverKinds
  BY DrvFacts
<1>2. P \in {"start", "tab", "back", "judge", "walk", "restore", "shrunk", "exited", "done"}
  BY <1>1 DEF PlacesOf, D!DriverKinds
<1>3. drv' \in [kind : D!DriverKinds, pc : {"start", "tab", "back", "judge", "walk", "restore", "shrunk",
                                         "exited", "done"},
                n : Nat, clean : BOOLEAN, engaged : BOOLEAN]
  BY <1>1, <1>2
<1>4. /\ tui'.focus \in D!Focus /\ tui'.start \in D!Focus /\ tui'.size \in D!AllSizes
      /\ tui'.honest \in BOOLEAN /\ tui'.twins \in BOOLEAN /\ tui'.ops \in Seq(BOOLEAN)
      /\ tui'.dropped \in BOOLEAN
  BY DEF Tui
<1>5. D!TypeOK'
  BY <1>3, <1>4 DEF D!TypeOK
<1>6. (tui \in Tui)'
  BY DEF Tui, D!AllSizes, D!Focus
<1>7. PlaceInv'
  BY DEF PlaceInv, PlacesOf
<1> QED
  BY <1>5, <1>6, <1>7

\* The traversal starts, or does not.
LEMMA StartTabsKeeps ==
  ASSUME DriverBounds, DrvInv, D!StartTabs
  PROVE  DrvInv'
<1>1. /\ drv.kind = "keyboard" /\ drv.pc = "start" /\ tui' = tui /\ seen' = seen /\ graph' = graph
      /\ \/ drv' = [drv EXCEPT !.pc = "tab"] /\ said' = said
         \/ drv' = [drv EXCEPT !.pc = "done"] /\ said' = said \cup {"KB-ERR"}
  BY DEF D!StartTabs, D!Goes, D!Stops, D!Says
<1>2. PICK P \in {"tab", "done"} :
        /\ drv' = [kind |-> drv.kind, pc |-> P, n |-> drv.n, clean |-> drv.clean, engaged |-> drv.engaged]
        /\ said' = said \/ said' = said \cup {"KB-ERR"}
  BY <1>1, DrvFacts
<1>3. P \in PlacesOf[drv.kind]
  BY <1>1 DEF PlacesOf
<1>4. tui' \in Tui /\ Len(tui'.ops) <= RingOps
  BY <1>1, DrvFacts DEF DrvInv
<1>5. (D!TypeOK /\ tui \in Tui /\ PlaceInv)'
  BY <1>1, <1>2, <1>3, <1>4, DrvFacts, DrvTypes
<1>6. TabInv'
  <2> SUFFICES ASSUME tui.honest PROVE TabInv'
    BY <1>1 DEF TabInv
  <2>1. /\ drv.n = 0 /\ tui.focus = tui.start /\ graph = {}
        /\ "KB-REVERSE-GAP" \notin said /\ ("KB-TRAP" \in said => tui.twins)
    BY <1>1 DEF DrvInv, TabInv
  <2>2. PICK f \in D!Focus : f = tui.start
    BY DrvFacts
  <2>3. PICK p \in [0 .. 0 -> D!Focus] : p[0] = f
    <3>1. [i \in 0 .. 0 |-> f] \in [0 .. 0 -> D!Focus]
      OBVIOUS
    <3>2. [i \in 0 .. 0 |-> f][0] = f
      OBVIOUS
    <3> QED
      BY <3>1, <3>2
  <2>4. WayOf(0, p, 0)'
    BY <1>1, <2>1, <2>2, <2>3 DEF WayOf
  <2>5. drv'.n = 0 /\ drv'.pc = P /\ drv'.kind = "keyboard"
    BY <1>1, <1>2, <2>1
  <2>6. HasWay(0, p)'
    BY <2>4, <2>5 DEF HasWay
  <2>7. (\E N \in Nat : \E q \in [0 .. N -> D!Focus] : HasWay(N, q))'
    BY <2>6
  <2> QED
    BY <1>1, <1>2, <2>1, <2>5, <2>7 DEF TabInv
<1>7. SizeInv' /\ ExitInv'
  BY <1>1, <1>2 DEF SizeInv, ExitInv
<1> QED
  BY <1>5, <1>6, <1>7 DEF DrvInv

\* A Tab.
LEMMA TabKeeps ==
  ASSUME DriverBounds, DrvInv, D!Tab
  PROVE  DrvInv'
<1>1. PICK f \in D!Lands("tab") :
        /\ tui' = [tui EXCEPT !.focus = f]
        /\ graph' = graph \cup {<<tui.focus, f, "tab">>}
        /\ seen' = seen \cup {D!Label(f)}
        /\ said' = said \cup
             (IF D!Label(f) # D!Label(tui.focus) THEN {}
              ELSE IF Controls > 1 THEN {"KB-TRAP"} ELSE {"KB-SINGLE-FOCUSABLE"})
             \cup (IF D!Label(f) \in seen THEN {"KB-CYCLE"} ELSE {})
        /\ drv' = [drv EXCEPT !.n = @ + 1, !.pc = IF D!Label(f) \in seen THEN "back" ELSE "tab"]
  BY DEF D!Tab
<1>2. drv.pc = "tab" /\ drv.kind = "keyboard"
  <2>1. drv.pc = "tab" /\ PlaceInv /\ drv.kind \in D!DriverKinds
    BY DrvFacts DEF D!Tab, DrvInv
  <2> QED
    BY <2>1 DEF PlaceInv, PlacesOf, D!DriverKinds
<1>3. f \in D!Focus /\ (tui.honest => f = D!Turn("tab", tui.focus))
  <2>1. tui.focus \in D!Focus
    BY DrvFacts
  <2> QED
    BY <2>1, TurnFacts DEF D!Lands
<1>4. D!Label(f) \in D!Focus
  BY <1>3 DEF D!Label, D!Focus, DriverBounds
<1>5. PICK P \in {"tab", "back"} :
        drv' = [kind |-> drv.kind, pc |-> P, n |-> drv.n + 1, clean |-> drv.clean, engaged |-> drv.engaged]
  BY <1>1, DrvFacts
<1>6. P \in PlacesOf[drv.kind]
  BY <1>2 DEF PlacesOf
<1>7. tui' = [honest |-> tui.honest, twins |-> tui.twins, focus |-> f, start |-> tui.start,
              size |-> tui.size, ops |-> tui.ops, dropped |-> tui.dropped, on |-> tui.on]
  BY <1>1, DrvFacts
<1>8. tui' \in Tui /\ Len(tui'.ops) <= RingOps
  BY <1>3, <1>7, DrvFacts DEF Tui
<1>9. seen' \subseteq D!Focus /\ graph' \subseteq D!Focus \X D!Focus \X {"tab", "shift+tab"}
  BY <1>1, <1>3, <1>4, DrvFacts
<1>10. drv.n + 1 \in Nat /\ drv.clean \in BOOLEAN /\ drv.engaged \in BOOLEAN
  BY DrvFacts
<1>11. (D!TypeOK /\ tui \in Tui /\ PlaceInv)'
  BY <1>5, <1>6, <1>8, <1>9, <1>10, DrvTypes
<1>12. TabInv'
  <2> SUFFICES ASSUME tui.honest PROVE TabInv'
    BY <1>7 DEF TabInv
  <2>1. "KB-REVERSE-GAP" \notin said /\ ("KB-TRAP" \in said => tui.twins)
    BY <1>2 DEF DrvInv, TabInv
  <2>2. "KB-REVERSE-GAP" \notin said'
    BY <1>1, <2>1
  <2>3. "KB-TRAP" \in said' => tui.twins
    <3> SUFFICES ASSUME ~tui.twins, "KB-TRAP" \in said' PROVE FALSE
      OBVIOUS
    <3>1. D!Label(f) = f /\ D!Label(tui.focus) = tui.focus
      BY DEF D!Label
    <3>2. Controls > 1 /\ f = tui.focus
      BY <1>1, <2>1, <3>1
    <3> QED
      BY <1>3, <3>2, TurnFacts
  <2>4. tui'.focus = D!Turn("tab", tui.focus) /\ tui'.start = tui.start /\ tui'.twins = tui.twins
    BY <1>3, <1>7
  <2>5. PICK M \in Nat : \E q \in [0 .. M -> D!Focus] : drv.n + 1 = M /\ WayOf(M, q, M)'
    BY <1>1, <1>2, <1>3, <1>7, <2>4, TabExtends
  <2>6. PICK q \in [0 .. M -> D!Focus] : drv.n + 1 = M /\ WayOf(M, q, M)'
    BY <2>5
  <2>7. drv'.n = M /\ drv'.pc = P /\ drv'.kind = "keyboard"
    BY <1>2, <1>5, <2>6
  <2>8. HasWay(M, q)'
    BY <2>6, <2>7 DEF HasWay
  <2>9. (\E N \in Nat : \E p \in [0 .. N -> D!Focus] : HasWay(N, p))'
    BY <2>8
  <2> QED
    BY <2>2, <2>3, <2>4, <2>7, <2>9 DEF TabInv
<1>13. SizeInv' /\ ExitInv'
  BY <1>2, <1>5 DEF SizeInv, ExitInv
<1> QED
  BY <1>11, <1>12, <1>13 DEF DrvInv

\* What a step that leaves the way alone keeps of it.
LEMMA WayStays ==
  ASSUME DriverBounds, DrvInv, drv.kind = "keyboard", tui.honest, drv.pc \in {"tab", "back"},
         tui' = tui, graph' = graph, drv'.n = drv.n, drv'.pc = "back"
  PROVE  (\E N \in Nat : \E p \in [0 .. N -> D!Focus] : HasWay(N, p))'
<1>1. PICK N \in Nat : \E p \in [0 .. N -> D!Focus] : HasWay(N, p)
  BY DEF DrvInv, TabInv
<1>2. PICK p \in [0 .. N -> D!Focus] : HasWay(N, p)
  BY <1>1
<1>3. HasWay(N, p)'
  BY <1>2 DEF HasWay, WayOf
<1> QED
  BY <1>3

\* The Tabs end: one fails, or all are sent.
LEMMA TabsEndKeeps ==
  ASSUME DriverBounds, DrvInv, D!TabFails \/ D!TabsDone
  PROVE  DrvInv'
<1>1. /\ drv.pc = "tab" /\ drv' = [drv EXCEPT !.pc = "back"]
      /\ said' = said \/ said' = said \cup {"KB-ERR"}
      /\ tui' = tui /\ seen' = seen /\ graph' = graph
  BY DEF D!TabFails, D!TabsDone, D!Goes
<1>2. drv.kind = "keyboard"
  <2>1. PlaceInv /\ drv.kind \in D!DriverKinds
    BY DrvFacts DEF DrvInv
  <2> QED
    BY <1>1, <2>1 DEF PlaceInv, PlacesOf, D!DriverKinds
<1>3. drv' = [kind |-> drv.kind, pc |-> "back", n |-> drv.n, clean |-> drv.clean, engaged |-> drv.engaged]
  BY <1>1, DrvFacts
<1>4. "back" \in PlacesOf[drv.kind]
  BY <1>2 DEF PlacesOf
<1>5. tui' \in Tui /\ Len(tui'.ops) <= RingOps
  BY <1>1, DrvFacts DEF DrvInv
<1>6. (D!TypeOK /\ tui \in Tui /\ PlaceInv)'
  BY <1>1, <1>3, <1>4, <1>5, DrvFacts, DrvTypes
<1>7. TabInv'
  <2> SUFFICES ASSUME tui.honest PROVE TabInv'
    BY <1>1 DEF TabInv
  <2>1. "KB-REVERSE-GAP" \notin said' /\ ("KB-TRAP" \in said' => tui.twins)
    BY <1>1, <1>2 DEF DrvInv, TabInv
  <2>2. drv'.n = drv.n /\ drv'.pc = "back"
    BY <1>3
  <2>3. (\E N \in Nat : \E p \in [0 .. N -> D!Focus] : HasWay(N, p))'
    BY <1>1, <1>2, <2>2, WayStays
  <2> QED
    BY <1>1, <2>1, <2>2, <2>3 DEF TabInv
<1>8. SizeInv' /\ ExitInv'
  BY <1>2, <1>3 DEF SizeInv, ExitInv
<1> QED
  BY <1>6, <1>7, <1>8 DEF DrvInv

\* A Shift+Tab.
LEMMA BackKeeps ==
  ASSUME DriverBounds, DrvInv, D!Back
  PROVE  DrvInv'
<1>1. drv.pc = "back" /\ drv.n > 0 /\ seen' = seen /\ said' = said /\ drv.n \in Nat
  BY DrvFacts DEF D!Back, D!BackCount
<1>2. drv.kind = "keyboard"
  <2>1. PlaceInv /\ drv.kind \in D!DriverKinds
    BY DrvFacts DEF DrvInv
  <2> QED
    BY <1>1, <2>1 DEF PlaceInv, PlacesOf, D!DriverKinds
<1>3. "back" \in PlacesOf[drv.kind] /\ "done" \in PlacesOf[drv.kind]
  BY <1>2 DEF PlacesOf
<1>4. CASE \E f \in D!Lands("shift+tab") :
             /\ tui' = [tui EXCEPT !.focus = f]
             /\ graph' = graph \cup {<<tui.focus, f, "shift+tab">>}
             /\ drv' = [drv EXCEPT !.n = @ - 1]
  <2>1. PICK f \in D!Lands("shift+tab") :
             /\ tui' = [tui EXCEPT !.focus = f]
             /\ graph' = graph \cup {<<tui.focus, f, "shift+tab">>}
             /\ drv' = [drv EXCEPT !.n = @ - 1]
    BY <1>4
  <2>2. f \in D!Focus /\ (tui.honest => f = D!Turn("shift+tab", tui.focus))
    <3>1. tui.focus \in D!Focus
      BY DrvFacts
    <3> QED
      BY <2>1, <3>1, TurnFacts DEF D!Lands
  <2>3. /\ drv' = [kind |-> drv.kind, pc |-> "back", n |-> drv.n - 1, clean |-> drv.clean,
                   engaged |-> drv.engaged]
        /\ drv.n - 1 \in Nat
    BY <1>1, <2>1, DrvFacts
  <2>4. tui' = [honest |-> tui.honest, twins |-> tui.twins, focus |-> f, start |-> tui.start,
                size |-> tui.size, ops |-> tui.ops, dropped |-> tui.dropped, on |-> tui.on]
    BY <2>1, DrvFacts
  <2>5. tui' \in Tui /\ Len(tui'.ops) <= RingOps
    BY <2>2, <2>4, DrvFacts DEF Tui
  <2>6. graph' \subseteq D!Focus \X D!Focus \X {"tab", "shift+tab"}
    BY <2>1, <2>2, DrvFacts
  <2>7. (D!TypeOK /\ tui \in Tui /\ PlaceInv)'
    BY <1>1, <1>3, <2>3, <2>5, <2>6, DrvFacts, DrvTypes
  <2>8. TabInv'
    <3> SUFFICES ASSUME tui.honest PROVE TabInv'
      BY <2>4 DEF TabInv
    <3>1. "KB-REVERSE-GAP" \notin said' /\ ("KB-TRAP" \in said' => tui.twins)
      BY <1>1, <1>2 DEF DrvInv, TabInv
    <3>2. /\ tui'.focus = D!Turn("shift+tab", tui.focus) /\ tui'.start = tui.start /\ tui'.twins = tui.twins
          /\ graph' = graph \cup {<<tui.focus, tui'.focus, "shift+tab">>}
      BY <2>1, <2>2, <2>4
    <3>3. PICK M \in Nat, k \in Nat :
            \E q \in [0 .. M -> D!Focus] : k = drv.n - 1 /\ k <= M /\ WayOf(M, q, k)'
      BY <1>1, <1>2, <3>2, BackReturns
    <3>4. PICK q \in [0 .. M -> D!Focus] : k = drv.n - 1 /\ k <= M /\ WayOf(M, q, k)'
      BY <3>3
    <3>5. drv'.n = k /\ drv'.pc = "back" /\ drv'.kind = "keyboard"
      BY <1>2, <2>3, <3>4
    <3>6. HasWay(M, q)'
      BY <3>4, <3>5 DEF HasWay
    <3>7. (\E N \in Nat : \E p \in [0 .. N -> D!Focus] : HasWay(N, p))'
      BY <3>6
    <3> QED
      BY <3>1, <3>2, <3>5, <3>7 DEF TabInv
  <2>9. SizeInv' /\ ExitInv'
    BY <1>2, <2>3 DEF SizeInv, ExitInv
  <2> QED
    BY <2>7, <2>8, <2>9 DEF DrvInv
<1>5. CASE drv' = [drv EXCEPT !.clean = FALSE, !.pc = "done"] /\ tui' = tui /\ graph' = graph
  <2>1. drv' = [kind |-> drv.kind, pc |-> "done", n |-> drv.n, clean |-> FALSE, engaged |-> drv.engaged]
    BY <1>5, DrvFacts
  <2>2. tui' \in Tui /\ Len(tui'.ops) <= RingOps
    BY <1>5, DrvFacts DEF DrvInv
  <2>3. (D!TypeOK /\ tui \in Tui /\ PlaceInv)'
    BY <1>1, <1>3, <1>5, <2>1, <2>2, DrvFacts, DrvTypes
  <2>4. TabInv'
    BY <1>1, <1>2, <1>5, <2>1 DEF DrvInv, TabInv
  <2>5. SizeInv' /\ ExitInv'
    BY <1>2, <2>1 DEF SizeInv, ExitInv
  <2> QED
    BY <2>3, <2>4, <2>5 DEF DrvInv
<1> QED
  BY <1>4, <1>5 DEF D!Back

\* The traversal is judged.
LEMMA JudgeTabsKeeps ==
  ASSUME DriverBounds, DrvInv, D!JudgeTabs
  PROVE  DrvInv'
<1>1. /\ drv.pc = "back" /\ drv.n = 0
      /\ said' = said \cup (IF D!ReverseTabGaps # {} THEN {"KB-REVERSE-GAP"} ELSE {})
                      \cup (IF graph # {} THEN {"KB-OK"} ELSE {})
      /\ drv' = [drv EXCEPT !.pc = "done"] /\ tui' = tui /\ seen' = seen /\ graph' = graph
  BY DrvFacts DEF D!JudgeTabs, D!BackCount, D!Goes
<1>2. drv.kind = "keyboard"
  <2>1. PlaceInv /\ drv.kind \in D!DriverKinds
    BY DrvFacts DEF DrvInv
  <2> QED
    BY <1>1, <2>1 DEF PlaceInv, PlacesOf, D!DriverKinds
<1>3. "done" \in PlacesOf[drv.kind]
  BY <1>2 DEF PlacesOf
<1>4. drv' = [kind |-> drv.kind, pc |-> "done", n |-> drv.n, clean |-> drv.clean, engaged |-> drv.engaged]
  BY <1>1, DrvFacts
<1>5. tui' \in Tui /\ Len(tui'.ops) <= RingOps
  BY <1>1, DrvFacts DEF DrvInv
<1>6. (D!TypeOK /\ tui \in Tui /\ PlaceInv)'
  BY <1>1, <1>3, <1>4, <1>5, DrvFacts, DrvTypes
<1>7. TabInv'
  <2> SUFFICES ASSUME tui.honest PROVE TabInv'
    BY <1>1 DEF TabInv
  <2>1. PICK N \in Nat : \E p \in [0 .. N -> D!Focus] : HasWay(N, p)
    BY <1>1, <1>2 DEF DrvInv, TabInv
  <2>2. PICK p \in [0 .. N -> D!Focus] : HasWay(N, p)
    BY <2>1
  <2>3. D!ReverseTabGaps = {} /\ tui.focus = tui.start
    <3>1. WayOf(N, p, 0)
      BY <1>1, <2>2 DEF HasWay
    <3> QED
      BY <3>1, WayBack
  <2>4. "KB-REVERSE-GAP" \notin said /\ ("KB-TRAP" \in said => tui.twins)
    BY <1>2 DEF DrvInv, TabInv
  <2>5. "KB-REVERSE-GAP" \notin said' /\ ("KB-TRAP" \in said' => tui'.twins)
    BY <1>1, <2>3, <2>4
  <2> QED
    BY <1>1, <1>4, <2>3, <2>5 DEF TabInv
<1>8. SizeInv' /\ ExitInv'
  BY <1>2, <1>4 DEF SizeInv, ExitInv
<1> QED
  BY <1>6, <1>7, <1>8 DEF DrvInv

-----------------------------------------------------------------------------
(* The resize drivers.                                                     *)

\* What a step of theirs shows: it says nothing of the graph, and the size
\* it leaves is the one it asked for.
LEMMA SizeStep ==
  ASSUME DriverBounds, DrvInv, drv.kind \in {"resize", "reflow"},
         NEW P \in PlacesOf[drv.kind], NEW N \in Nat, NEW C \in BOOLEAN,
         drv' = [kind |-> drv.kind, pc |-> P, n |-> N, clean |-> C, engaged |-> drv.engaged],
         NEW wide \in D!AllSizes, tui' = [tui EXCEPT !.size = wide],
         P # "start", P = "done" /\ C => wide = D!Original,
         seen' = seen, graph' = graph
  PROVE  DrvInv'
<1>1. tui' = [honest |-> tui.honest, twins |-> tui.twins, focus |-> tui.focus, start |-> tui.start,
              size |-> wide, ops |-> tui.ops, dropped |-> tui.dropped, on |-> tui.on]
  BY DrvFacts
<1>2. tui' \in Tui /\ Len(tui'.ops) <= RingOps
  BY <1>1, DrvFacts DEF Tui
<1>3. (D!TypeOK /\ tui \in Tui /\ PlaceInv)'
  BY <1>2, DrvFacts, DrvTypes
<1>4. drv'.kind = drv.kind /\ drv'.pc = P /\ drv'.clean = C /\ tui'.size = wide
  BY <1>1
<1>5. TabInv' /\ ExitInv'
  BY <1>4 DEF TabInv, ExitInv
<1>6. SizeInv'
  BY <1>4 DEF SizeInv
<1> QED
  BY <1>3, <1>5, <1>6 DEF DrvInv

\* The next size.
LEMMA ResizeKeeps ==
  ASSUME DriverBounds, DrvInv, D!Resize
  PROVE  DrvInv'
<1>1. /\ drv.kind = "resize" /\ drv.pc \in {"start", "walk"} /\ drv.n < Len(Sizes)
      /\ drv' = [drv EXCEPT !.n = @ + 1, !.pc = "walk"] /\ seen' = seen /\ graph' = graph
      /\ tui' = [tui EXCEPT !.size = Sizes[drv.n + 1]] \/ tui' = tui
  BY DEF D!Resize, D!ResizeTo
<1>2. drv.n \in Nat /\ Len(Sizes) \in Nat /\ DOMAIN Sizes = 1 .. Len(Sizes)
  BY DrvFacts DEF DriverBounds
<1>3. PICK wide \in D!AllSizes : tui' = [tui EXCEPT !.size = wide]
  <2>1. Sizes[drv.n + 1] \in D!AllSizes
    <3>1. drv.n + 1 \in DOMAIN Sizes
      BY <1>1, <1>2
    <3> QED
      BY <3>1 DEF D!AllSizes
  <2>2. tui = [tui EXCEPT !.size = tui.size] /\ tui.size \in D!AllSizes
    BY DrvFacts
  <2> QED
    BY <1>1, <2>1, <2>2
<1>4. /\ drv' = [kind |-> drv.kind, pc |-> "walk", n |-> drv.n + 1, clean |-> drv.clean,
                 engaged |-> drv.engaged]
      /\ drv.clean \in BOOLEAN /\ drv.n + 1 \in Nat
  <2>1. drv.clean \in BOOLEAN /\ drv.n + 1 \in Nat
    BY DrvFacts
  <2>2. drv = [kind |-> drv.kind, pc |-> drv.pc, n |-> drv.n, clean |-> drv.clean, engaged |-> drv.engaged]
    BY DrvFacts
  <2>3. PICK m : m = drv.n + 1
    OBVIOUS
  <2>4. drv' = [drv EXCEPT !.n = m, !.pc = "walk"]
    BY <1>1, <2>3
  <2>5. drv' = [kind |-> drv.kind, pc |-> "walk", n |-> m, clean |-> drv.clean, engaged |-> drv.engaged]
    BY <2>2, <2>4
  <2> QED
    BY <2>1, <2>3, <2>5
<1>5. "walk" \in PlacesOf[drv.kind]
  BY <1>1 DEF PlacesOf
<1> QED
  BY <1>1, <1>3, <1>4, <1>5, SizeStep

\* Back to the original size.
LEMMA RestoreKeeps ==
  ASSUME DriverBounds, DrvInv, D!Restore
  PROVE  DrvInv'
<1>1. /\ drv.pc \in {"restore", "walk"} /\ seen' = seen /\ graph' = graph
      /\ \/ tui' = [tui EXCEPT !.size = D!Original] /\ drv' = [drv EXCEPT !.pc = "done"]
         \/ drv' = [drv EXCEPT !.pc = "done", !.clean = FALSE] /\ tui' = tui
  BY DEF D!Restore, D!ResizeTo, D!Goes
<1>2. drv.kind \in {"resize", "reflow"}
  <2>1. PlaceInv /\ drv.kind \in D!DriverKinds
    BY DrvFacts DEF DrvInv
  <2> QED
    BY <1>1, <2>1 DEF PlaceInv, PlacesOf, D!DriverKinds
<1>3. PICK wide \in D!AllSizes, C \in BOOLEAN :
        /\ tui' = [tui EXCEPT !.size = wide] /\ (C => wide = D!Original)
        /\ drv' = [kind |-> drv.kind, pc |-> "done", n |-> drv.n, clean |-> C, engaged |-> drv.engaged]
  <2>1. tui = [tui EXCEPT !.size = tui.size] /\ tui.size \in D!AllSizes /\ D!Original \in D!AllSizes
    BY DrvFacts DEF D!AllSizes
  <2>2. CASE tui' = [tui EXCEPT !.size = D!Original] /\ drv' = [drv EXCEPT !.pc = "done"]
    <3>1. /\ drv' = [kind |-> drv.kind, pc |-> "done", n |-> drv.n, clean |-> drv.clean,
                     engaged |-> drv.engaged]
          /\ drv.clean \in BOOLEAN
      BY <2>2, DrvFacts
    <3> QED
      BY <2>1, <2>2, <3>1
  <2>3. CASE drv' = [drv EXCEPT !.pc = "done", !.clean = FALSE] /\ tui' = tui
    <3>1. drv' = [kind |-> drv.kind, pc |-> "done", n |-> drv.n, clean |-> FALSE, engaged |-> drv.engaged]
      BY <2>3, DrvFacts
    <3> QED
      BY <2>1, <2>3, <3>1
  <2> QED
    BY <1>1, <2>2, <2>3
<1>4. "done" \in PlacesOf[drv.kind] /\ drv.n \in Nat
  BY <1>2, DrvFacts DEF PlacesOf
<1> QED
  BY <1>1, <1>2, <1>3, <1>4, SizeStep

\* Half the width.
LEMMA ShrinkKeeps ==
  ASSUME DriverBounds, DrvInv, D!Shrink
  PROVE  DrvInv'
<1>1. drv.kind = "reflow" /\ drv.pc = "start" /\ seen' = seen /\ graph' = graph
  BY DEF D!Shrink
<1>2. tui = [tui EXCEPT !.size = D!Original] /\ D!Original \in D!AllSizes /\ D!Half \in D!AllSizes
  <2>1. tui.size = D!Original
    BY <1>1 DEF DrvInv, SizeInv
  <2> QED
    BY <2>1, DrvFacts DEF D!AllSizes
<1>3. PICK wide \in D!AllSizes, P \in {"done", "shrunk", "restore"} :
        /\ tui' = [tui EXCEPT !.size = wide] /\ (P = "done" => wide = D!Original)
        /\ drv' = [drv EXCEPT !.pc = P]
  <2>1. \/ tui' = tui /\ drv' = [drv EXCEPT !.pc = "done"]
        \/ tui' = [tui EXCEPT !.size = D!Half] /\ drv' = [drv EXCEPT !.pc = "shrunk"]
        \/ tui' = tui /\ drv' = [drv EXCEPT !.pc = "restore"]
    BY DEF D!Shrink, D!Stops, D!Goes, D!ResizeTo
  <2> QED
    BY <1>2, <2>1
<1>4. /\ drv' = [kind |-> drv.kind, pc |-> P, n |-> drv.n, clean |-> drv.clean, engaged |-> drv.engaged]
      /\ drv.clean \in BOOLEAN /\ drv.n \in Nat
  BY <1>3, DrvFacts
<1>5. P \in PlacesOf[drv.kind] /\ P # "start"
  BY <1>1 DEF PlacesOf
<1> QED
  BY <1>1, <1>3, <1>4, <1>5, SizeStep

\* What is shown at half the width is judged.
LEMMA ShrunkKeeps ==
  ASSUME DriverBounds, DrvInv, D!Shrunk
  PROVE  DrvInv'
<1>1. /\ drv.pc = "shrunk" /\ seen' = seen /\ graph' = graph /\ tui' = tui
      /\ drv' = [drv EXCEPT !.pc = "restore"]
  BY DEF D!Shrunk, D!ShrunkUnseen, D!Goes
<1>2. drv.kind = "reflow"
  <2>1. PlaceInv /\ drv.kind \in D!DriverKinds
    BY DrvFacts DEF DrvInv
  <2> QED
    BY <1>1, <2>1 DEF PlaceInv, PlacesOf, D!DriverKinds
<1>3. PICK wide \in D!AllSizes : tui' = [tui EXCEPT !.size = wide]
  <2>1. tui = [tui EXCEPT !.size = tui.size] /\ tui.size \in D!AllSizes
    BY DrvFacts
  <2> QED
    BY <1>1, <2>1
<1>4. /\ drv' = [kind |-> drv.kind, pc |-> "restore", n |-> drv.n, clean |-> drv.clean,
                 engaged |-> drv.engaged]
      /\ drv.clean \in BOOLEAN /\ drv.n \in Nat
  BY <1>1, DrvFacts
<1>5. "restore" \in PlacesOf[drv.kind]
  BY <1>2 DEF PlacesOf
<1> QED
  BY <1>1, <1>2, <1>3, <1>4, <1>5, SizeStep, ZenonT(30)

-----------------------------------------------------------------------------
(* The exit driver.                                                        *)

\* One more operation of the stream.
LEMMA StreamStep ==
  ASSUME DriverBounds, DrvInv, NEW b \in BOOLEAN,
         tui' = [tui EXCEPT !.ops = D!Ringed(Append(@, b)), !.on = b, !.dropped = @ \/ Len(tui.ops) = RingOps]
  PROVE  tui' \in Tui /\ Len(tui'.ops) <= RingOps /\ EndInv' /\ tui'.ops # <<>>
<1> DEFINE ring == D!Ringed(Append(tui.ops, b))
           gone == tui.dropped \/ Len(tui.ops) = RingOps
<1>1. ring \in Seq(BOOLEAN) /\ Len(ring) <= RingOps /\ ring # <<>> /\ ring[Len(ring)] = b
  <2>1. tui.ops \in Seq(BOOLEAN) /\ Len(tui.ops) <= RingOps
    BY DrvFacts
  <2> QED
    BY <2>1, RingKeepsLast
<1>2. gone \in BOOLEAN
  BY DrvFacts
<1> HIDE DEF ring
<1>3. tui' = [tui EXCEPT !.ops = ring, !.on = b, !.dropped = gone]
  BY DrvFacts DEF ring
<1>4. PICK h \in BOOLEAN : h = gone
  BY <1>2
<1> HIDE DEF gone
<1>5. tui' = [honest |-> tui.honest, twins |-> tui.twins, focus |-> tui.focus, start |-> tui.start,
              size |-> tui.size, ops |-> ring, dropped |-> h, on |-> b]
  BY <1>3, <1>4, DrvFacts
<1>6. tui' \in Tui
  BY <1>1, <1>5, DrvFacts DEF Tui
<1>7. tui'.ops = ring
  BY ONLY <1>5
<1>8. tui'.on = b
  BY <1>5, Zenon
<1> QED
  BY <1>1, <1>6, <1>7, <1>8 DEF EndInv

\* The application switches a mode on or off.
LEMMA EmitKeeps ==
  ASSUME DriverBounds, DrvInv, D!Emit
  PROVE  DrvInv'
<1>1. /\ drv.kind = "exit" /\ drv.pc = "start" /\ drv' = [drv EXCEPT !.n = @ + 1]
      /\ seen' = seen /\ graph' = graph /\ said' = said
  BY DEF D!Emit
<1>2. PICK b \in BOOLEAN :
        tui' = [tui EXCEPT !.ops = D!Ringed(Append(@, b)), !.on = b, !.dropped = @ \/ Len(tui.ops) = RingOps]
  BY DEF D!Emit
<1>3. tui' \in Tui /\ Len(tui'.ops) <= RingOps /\ EndInv' /\ tui'.ops # <<>>
  BY <1>2, StreamStep
<1>4. /\ drv' = [kind |-> drv.kind, pc |-> "start", n |-> drv.n + 1, clean |-> drv.clean,
                 engaged |-> drv.engaged]
      /\ drv.clean \in BOOLEAN /\ drv.engaged \in BOOLEAN /\ drv.n + 1 \in Nat
  BY <1>1, DrvFacts
<1>5. "start" \in PlacesOf[drv.kind]
  BY <1>1 DEF PlacesOf
<1>6. (D!TypeOK /\ tui \in Tui /\ PlaceInv)'
  BY <1>1, <1>3, <1>4, <1>5, DrvFacts, DrvTypes
<1>7. ExitInv'
  BY <1>1, <1>3, <1>4 DEF DrvInv, ExitInv
<1>8. TabInv' /\ SizeInv'
  BY <1>1, <1>4 DEF TabInv, SizeInv
<1> QED
  BY <1>6, <1>7, <1>8 DEF DrvInv

\* The application is told to quit.
LEMMA QuitKeeps ==
  ASSUME DriverBounds, DrvInv, D!Quit
  PROVE  DrvInv'
<1>1. /\ drv.kind = "exit" /\ drv.pc = "start" /\ seen' = seen /\ graph' = graph
      /\ said = {} /\ ~drv.engaged /\ EndInv
  BY DEF D!Quit, DrvInv, ExitInv
<1>2. {"exited", "done"} \subseteq PlacesOf[drv.kind]
  BY <1>1 DEF PlacesOf
<1>3. CASE /\ drv' = [drv EXCEPT !.pc = "done"] /\ tui' = tui
           /\ said' = said \cup {"LCX-NOSRC"} \/ said' = said \cup {"LCX-NOEXIT"}
  <2>1. drv' = [kind |-> drv.kind, pc |-> "done", n |-> drv.n, clean |-> drv.clean, engaged |-> drv.engaged]
    BY <1>3, DrvFacts
  <2>2. tui' \in Tui /\ Len(tui'.ops) <= RingOps
    BY <1>3, DrvFacts DEF DrvInv
  <2>3. (D!TypeOK /\ tui \in Tui /\ PlaceInv)'
    BY <1>1, <1>2, <2>1, <2>2, DrvFacts, DrvTypes
  <2>4. "LCX-TEARDOWN-MISSING" \notin said'
    BY <1>1, <1>3
  <2>5. ExitInv'
    BY <1>1, <1>3, <2>1, <2>4 DEF ExitInv, EndInv
  <2>6. TabInv' /\ SizeInv'
    BY <1>1, <2>1 DEF TabInv, SizeInv
  <2> QED
    BY <2>3, <2>5, <2>6 DEF DrvInv
<1>4. CASE /\ drv' = [drv EXCEPT !.pc = "exited", !.engaged = D!Has(tui.ops, TRUE)] /\ said' = said
           /\ \/ tui' = [tui EXCEPT !.ops = D!Ringed(Append(@, FALSE)), !.on = FALSE,
                               !.dropped = @ \/ Len(tui.ops) = RingOps]
              \/ tui' = tui
  <2>1. PICK E \in BOOLEAN : E = D!Has(tui.ops, TRUE)
    BY DEF D!Has
  <2>2. drv' = [kind |-> drv.kind, pc |-> "exited", n |-> drv.n, clean |-> drv.clean, engaged |-> E]
    BY <1>4, <2>1, DrvFacts
  <2>3. E => tui.ops # <<>>
    <3>1. DOMAIN <<>> = {}
      OBVIOUS
    <3> QED
      BY <2>1, <3>1 DEF D!Has
  <2>4. tui' \in Tui /\ Len(tui'.ops) <= RingOps /\ EndInv' /\ (E => tui'.ops # <<>>)
    <3>1. CASE tui' = tui
      BY <1>1, <2>3, <3>1, DrvFacts DEF DrvInv, EndInv
    <3>2. CASE tui' = [tui EXCEPT !.ops = D!Ringed(Append(@, FALSE)), !.on = FALSE,
                         !.dropped = @ \/ Len(tui.ops) = RingOps]
      BY <3>2, StreamStep
    <3> QED
      BY <1>4, <3>1, <3>2
  <2>5. (D!TypeOK /\ tui \in Tui /\ PlaceInv)'
    BY <1>1, <1>2, <2>2, <2>4, DrvFacts, DrvTypes
  <2>6. ExitInv'
    <3>1. drv'.pc = "exited" /\ said' = {}
      BY <1>1, <1>4, <2>2
    <3>2. drv'.engaged = E
      BY <2>2, Zenon
    <3>3. drv'.engaged => tui'.ops # <<>>
      BY <2>4, <3>2
    <3> QED
      BY <2>4, <3>1, <3>3 DEF ExitInv
  <2>7. TabInv' /\ SizeInv'
    BY <1>1, <2>2 DEF TabInv, SizeInv
  <2> QED
    BY <2>5, <2>6, <2>7 DEF DrvInv
<1> QED
  BY <1>3, <1>4 DEF D!Quit, D!Stops, D!Goes, D!Says

\* A mode that is off, or was never on, is not reported as left on.
LEMMA JudgeKeeps ==
  ASSUME DriverBounds, DrvInv, D!Judge
  PROVE  DrvInv'
<1>1. /\ drv.pc = "exited" /\ drv' = [drv EXCEPT !.pc = "done"] /\ tui' = tui
      /\ seen' = seen /\ graph' = graph
  BY DEF D!Judge, D!Goes
<1>2. drv.kind = "exit"
  <2>1. PlaceInv /\ drv.kind \in D!DriverKinds
    BY DrvFacts DEF DrvInv
  <2> QED
    BY <1>1, <2>1 DEF PlaceInv, PlacesOf, D!DriverKinds
<1>3. said = {} /\ EndInv /\ (drv.engaged => tui.ops # <<>>)
  BY <1>1, <1>2 DEF DrvInv, ExitInv
<1>4. "done" \in PlacesOf[drv.kind]
  BY <1>2 DEF PlacesOf
<1>5. drv' = [kind |-> drv.kind, pc |-> "done", n |-> drv.n, clean |-> drv.clean, engaged |-> drv.engaged]
  BY <1>1, DrvFacts
<1>6. tui' \in Tui /\ Len(tui'.ops) <= RingOps
  BY <1>1, DrvFacts DEF DrvInv
<1>7. (D!TypeOK /\ tui \in Tui /\ PlaceInv)'
  BY <1>1, <1>4, <1>5, <1>6, DrvFacts, DrvTypes
<1>8. ~tui.on => ~drv.engaged \/ D!Restored
  <2> SUFFICES ASSUME ~tui.on, drv.engaged PROVE D!Restored
    OBVIOUS
  <2>1. tui.ops[Len(tui.ops)] = FALSE
    <3>1. tui.ops[Len(tui.ops)] = tui.on
      BY <1>3 DEF EndInv
    <3>2. tui.on = FALSE
      BY DrvFacts
    <3> QED
      BY <3>1, <3>2
  <2>2. Len(tui.ops) \in DOMAIN tui.ops
    <3>1. tui.ops \in Seq(BOOLEAN) /\ tui.ops # <<>>
      BY <1>3, DrvFacts
    <3> QED
      BY <3>1
  <2> QED
    BY <2>1, <2>2 DEF D!Restored, D!Has
<1>9. "TEARDOWN-WINDOW-UNREADABLE" \notin said' => ("LCX-TEARDOWN-MISSING" \in said' => tui.on)
  <2>1. CASE D!Says(IF ~drv.engaged THEN "LCX-NOTHING-ENGAGED"
                  ELSE IF D!Restored THEN "LCX-TEARDOWN-OK" ELSE "LCX-TEARDOWN-MISSING")
    BY <1>3, <1>8, <2>1 DEF D!Says
  <2>2. CASE said' = said \cup {"TEARDOWN-WINDOW-UNREADABLE",
                                IF drv.engaged THEN "LCX-TEARDOWN-MISSING" ELSE "LCX-NOTHING-ENGAGED"}
    BY <2>2
  <2> QED
    BY <2>1, <2>2 DEF D!Judge
<1>10. ExitInv'
  BY <1>1, <1>3, <1>5, <1>9 DEF ExitInv, EndInv
<1>11. TabInv' /\ SizeInv'
  BY <1>2, <1>5 DEF TabInv, SizeInv
<1> QED
  BY <1>7, <1>10, <1>11 DEF DrvInv

\* A step of a driver.
LEMMA DrvNext ==
  ASSUME DriverBounds, DrvInv, [D!Next]_D!driverVars
  PROVE  DrvInv'
<1>1. CASE UNCHANGED D!driverVars
  <2>1. (D!TypeOK /\ tui \in Tui /\ PlaceInv)'
    BY <1>1 DEF D!driverVars, DrvInv, D!TypeOK, PlaceInv
  <2>2. TabInv'
    BY <1>1, SMTT(30) DEF D!driverVars, DrvInv, TabInv, HasWay, WayOf
  <2>3. SizeInv' /\ ExitInv'
    BY <1>1 DEF D!driverVars, DrvInv, SizeInv, ExitInv, EndInv
  <2> QED
    BY <2>1, <2>2, <2>3 DEF DrvInv
<1>2. CASE D!Next
  BY <1>2, StartTabsKeeps, TabKeeps, TabsEndKeeps, BackKeeps, JudgeTabsKeeps, ResizeKeeps,
     RestoreKeeps, ShrinkKeeps, ShrunkKeeps, EmitKeeps, QuitKeeps, JudgeKeeps DEF D!Next
<1> QED
  BY <1>1, <1>2

\* What the drivers promise follows.
LEMMA DrvSafe ==
  ASSUME DriverBounds, DrvInv
  PROVE  D!TypeOK /\ D!HonestTabs /\ D!SizeRestored /\ D!TeardownJudged
<1>1. D!TypeOK
  BY DEF DrvInv
<1>2. D!HonestTabs
  BY DEF DrvInv, TabInv, D!HonestTabs, D!Done
<1>3. D!SizeRestored
  BY DEF DrvInv, SizeInv, D!SizeRestored, D!Done
<1>4. D!TeardownJudged
  BY DEF DrvInv, ExitInv, D!TeardownJudged, D!Done
<1> QED
  BY <1>1, <1>2, <1>3, <1>4

-----------------------------------------------------------------------------
(* The audit.                                                              *)

CONSTANTS Table, Contract, Asked
VARIABLES audit, todo, target, before, found, ran

A == INSTANCE AuditOrchestrator

\* The table: ids are its own, and of the drivers of full each has its group,
\* later ones a later one.
AuditBounds ==
  /\ Len(Table) \in Nat /\ DOMAIN Table = 1 .. Len(Table)
  /\ \A n \in DOMAIN Table : Table[n].group \in Nat
  /\ \A m, n \in DOMAIN Table : Table[m].id = Table[n].id => m = n
  /\ \A m, n \in DOMAIN Table :
       m < n /\ Table[m].inFull /\ Table[m].group > 0 /\ Table[n].inFull /\ Table[n].group > 0
         => Table[m].group < Table[n].group
  /\ \A id \in Asked : id = "full" \/ id \in A!Ids

Group(id) == A!Row(id).group
Mutates(id) == A!Row(id).risk = "mutating"
Isolated == audit.policy = "RestartBetweenMutations"
AsksFull == audit.ask = "full"
Touched == \E id \in target.left : A!InTransaction(id)
Told == found \cap {"AUDIT-RESIDUE", "AUDIT-UNVERIFIED"} # {}

\* What is still to run comes in the order of its groups.
Ordered(s) ==
  /\ \A i, j \in DOMAIN s : i < j => Group(s[i]) < Group(s[j])
  /\ \A i \in DOMAIN s : Group(s[i]) > 0

StageInv ==
  /\ audit.pc = "gate" => audit.group = 0 /\ target.left = {}
  /\ audit.pc \in {"driver", "verify"} => todo # <<>>
  /\ audit.pc = "driver" => before = target.left

\* Under isolation the groups of full go up, and one that has begun before
\* its driver begins with nothing left.
FullInv ==
  (Isolated /\ AsksFull /\ audit.pc \in {"next", "driver", "verify"}) =>
    /\ Ordered(todo)
    /\ todo # <<>> => audit.group <= Group(todo[1])
    /\ audit.pc \in {"driver", "verify"} => audit.group = Group(todo[1])
    /\ audit.pc = "next" /\ todo # <<>> /\ audit.group = Group(todo[1]) => target.left = {}
    /\ audit.pc = "driver" /\ Mutates(todo[1]) => target.left = {}

\* A profile of one driver is alone.
SingleInv ==
  (Isolated /\ ~AsksFull /\ audit.pc \in {"next", "driver", "verify"}) =>
    /\ Len(todo) <= 1
    /\ audit.pc = "driver" \/ (audit.pc = "next" /\ todo # <<>>) => target.left = {}

MetInv == Isolated => \A r \in ran : Mutates(r.id) => r.met = {}

ResidueInv ==
  Touched => Told \/ (audit.pc = "verify" /\ \A id \in before : ~A!InTransaction(id))

AuditPcs == {"gate", "next", "driver", "verify", "done"}
AuditModes == {"none", "Partial", "Withheld", "Refused", "Composite", "Driving", "ObservationalLive"}
Audit ==
  [ask : Asked, policy : A!Policies, spec : BOOLEAN, checked : BOOLEAN, pc : AuditPcs, mode : AuditModes,
   group : Nat, restarts : Nat]
AudInv ==
  /\ A!TypeOK /\ audit \in Audit
  /\ StageInv /\ FullInv /\ SingleInv /\ MetInv /\ ResidueInv

-----------------------------------------------------------------------------

\* An id has its row.
LEMMA RowFacts ==
  ASSUME AuditBounds, NEW id \in A!Ids
  PROVE  \E n \in DOMAIN Table : A!Row(id) = Table[n] /\ Table[n].id = id
<1>1. \E n \in DOMAIN Table : Table[n].id = id
  BY DEF A!Ids
<1> QED
  BY <1>1 DEF A!Row

\* Its group is a number.
LEMMA GroupNat ==
  ASSUME AuditBounds, NEW id \in A!Ids
  PROVE  Group(id) \in Nat /\ A!Row(id).id = id
BY RowFacts DEF Group, AuditBounds

\* Of the rows of a driver that mutates.
LEMMA MutatesIsRisky ==
  ASSUME NEW row, row.risk = "mutating"
  PROVE  A!RiskOf(row) > 2 /\ A!RiskOf(row) > 1
<1> DEFINE k == A!RiskOf(row)
<1>1. DOMAIN A!Risks = 1 .. 4 /\ A!Risks[1] # "mutating" /\ A!Risks[2] # "mutating" /\ A!Risks[3] # "mutating"
      /\ A!Risks[4] = "mutating"
  BY DEF A!Risks
<1>2. k \in DOMAIN A!Risks /\ A!Risks[k] = "mutating"
  BY <1>1 DEF A!RiskOf
<1> HIDE DEF k
<1>3. k = 4
  BY <1>1, <1>2
<1> QED
  BY <1>3 DEF k

\* The ids of some rows, in table order.
Place(id) == CHOOSE n \in DOMAIN Table : Table[n].id = id
ListsTo(rows, n) ==
  {q \in Seq(A!Ids) :
     /\ \A i \in DOMAIN q : A!Row(q[i]) \in rows /\ Place(q[i]) <= n
     /\ \A i, j \in DOMAIN q : i < j => Place(q[i]) < Place(q[j])}

\* A row has its place.
LEMMA PlaceFacts ==
  ASSUME AuditBounds, NEW n \in DOMAIN Table
  PROVE  Place(Table[n].id) = n /\ A!Row(Table[n].id) = Table[n] /\ Table[n].id \in A!Ids
<1>1. /\ Place(Table[n].id) \in DOMAIN Table
      /\ Table[Place(Table[n].id)].id = Table[n].id
  BY DEF Place
<1>2. Place(Table[n].id) = n
  BY <1>1 DEF AuditBounds
<1>3. A!Row(Table[n].id) = Table[Place(Table[n].id)]
  BY DEF A!Row, Place
<1> QED
  BY <1>2, <1>3 DEF A!Ids

\* The ids of some rows, in the order of the table.
LEMMA ListedGives ==
  ASSUME AuditBounds, NEW rows
  PROVE  A!Listed(rows) \in ListsTo(rows, Len(Table))
<1> DEFINE f == CHOOSE g : g = [n \in 0 .. Len(Table) |->
                  IF n = 0 THEN <<>>
                  ELSE IF Table[n] \in rows THEN Append(g[n - 1], Table[n].id) ELSE g[n - 1]]
           step == [p \in (1 .. Len(Table)) \X Seq(A!Ids) |->
                      IF Table[p[1]] \in rows THEN Append(p[2], Table[p[1]].id) ELSE p[2]]
           P == {p \in (0 .. Len(Table)) \X Seq(A!Ids) : p[2] \in ListsTo(rows, p[1])}
<1>1. A!Listed(rows) = f[Len(Table)]
  BY DEF A!Listed
<1>2. Len(Table) \in Nat /\ DOMAIN Table = 1 .. Len(Table)
  BY DEF AuditBounds
<1>3. \A i \in 1 .. Len(Table), q \in Seq(A!Ids) :
        step[<<i, q>>] = IF Table[i] \in rows THEN Append(q, Table[i].id) ELSE q
  OBVIOUS
<1>4. step \in [(1 .. Len(Table)) \X Seq(A!Ids) -> Seq(A!Ids)]
  <2>1. \A i \in 1 .. Len(Table), q \in Seq(A!Ids) :
          (IF Table[i] \in rows THEN Append(q, Table[i].id) ELSE q) \in Seq(A!Ids)
    BY <1>2, PlaceFacts, AppendProperties, SMTT(30)
  <2> QED
    BY <2>1
<1> HIDE DEF step
<1>5. f = [n \in 0 .. Len(Table) |->
             IF n = 0 THEN <<>>
             ELSE IF Table[n] \in rows THEN Append(f[n - 1], Table[n].id) ELSE f[n - 1]]
  <2>1. PICK g \in [0 .. Len(Table) -> Seq(A!Ids)] :
          \A i \in 0 .. Len(Table) : g[i] = IF i = 0 THEN <<>> ELSE step[<<i, g[i - 1]>>]
    <3>1. <<>> \in Seq(A!Ids)
      OBVIOUS
    <3>2. Scans(Len(Table), Seq(A!Ids), <<>>, step)
      BY <1>2, <1>4, <3>1, ScanExists
    <3> QED
      BY <3>2 DEF Scans, IsScan
  <2>2. \A i \in 1 .. Len(Table) :
          g[i] = IF Table[i] \in rows THEN Append(g[i - 1], Table[i].id) ELSE g[i - 1]
    <3>1. \A i \in 1 .. Len(Table) : i \in 0 .. Len(Table) /\ i # 0 /\ i - 1 \in 0 .. Len(Table)
      BY <1>2
    <3> QED
      BY <1>3, <2>1, <3>1
  <2>3. g = [n \in 0 .. Len(Table) |->
               IF n = 0 THEN <<>>
               ELSE IF Table[n] \in rows THEN Append(g[n - 1], Table[n].id) ELSE g[n - 1]]
    <3>1. ASSUME NEW i \in 0 .. Len(Table)
          PROVE  g[i] = IF i = 0 THEN <<>>
                        ELSE IF Table[i] \in rows THEN Append(g[i - 1], Table[i].id) ELSE g[i - 1]
      <4>1. i # 0 => i \in 1 .. Len(Table)
        BY <1>2
      <4> QED
        BY <2>1, <2>2, <4>1
    <3> QED
      BY <3>1
  <2> QED
    BY <2>3
<1> HIDE DEF f
<1>6. /\ f[0] = <<>>
      /\ \A i \in 1 .. Len(Table) :
           f[i] = IF Table[i] \in rows THEN Append(f[i - 1], Table[i].id) ELSE f[i - 1]
  <2>1. 0 \in 0 .. Len(Table) /\ \A i \in 1 .. Len(Table) : i \in 0 .. Len(Table) /\ i # 0
    BY <1>2
  <2> QED
    BY <1>5, <2>1
<1>7. <<0, f[0]>> \in P
  <2>1. <<>> \in Seq(A!Ids) /\ DOMAIN <<>> = {}
    OBVIOUS
  <2>2. <<>> \in ListsTo(rows, 0)
    BY <2>1, Zenon DEF ListsTo
  <2>3. 0 \in 0 .. Len(Table)
    BY <1>2
  <2>4. f[0] \in Seq(A!Ids) /\ f[0] \in ListsTo(rows, 0)
    BY ONLY <1>6, <2>1, <2>2, Zenon
  <2> QED
    BY <2>3, <2>4
<1>8. ASSUME NEW n \in 1 .. Len(Table), <<n - 1, f[n - 1]>> \in P PROVE <<n, f[n]>> \in P
  <2> DEFINE q == f[n - 1]
             id == Table[n].id
             r == IF Table[n] \in rows THEN Append(q, id) ELSE q
  <2>1. q \in Seq(A!Ids) /\ q \in ListsTo(rows, n - 1)
    BY <1>8
  <2>2. Place(id) = n /\ A!Row(id) = Table[n] /\ id \in A!Ids
    BY <1>2, PlaceFacts
  <2>3. f[n] = r /\ n \in Nat
    BY <1>2, <1>6
  <2> HIDE DEF q, id
  <2>4. /\ \A i \in DOMAIN q : A!Row(q[i]) \in rows /\ Place(q[i]) <= n - 1 /\ Place(q[i]) \in Nat
        /\ \A i, j \in DOMAIN q : i < j => Place(q[i]) < Place(q[j])
    <3>1. \A i \in DOMAIN q : q[i] \in A!Ids
      BY <2>1
    <3>2. \A x \in A!Ids : Place(x) \in Nat
      BY <1>2 DEF Place, A!Ids
    <3> QED
      BY <2>1, <3>1, <3>2 DEF ListsTo
  <2>5. CASE Table[n] \in rows
    <3>1. /\ Append(q, id) \in Seq(A!Ids) /\ Len(Append(q, id)) = Len(q) + 1 /\ Len(q) \in Nat
          /\ \A i \in 1 .. Len(q) : Append(q, id)[i] = q[i]
          /\ Append(q, id)[Len(q) + 1] = id
          /\ DOMAIN q = 1 .. Len(q) /\ DOMAIN Append(q, id) = 1 .. Len(q) + 1
      BY <2>1, <2>2, AppendProperties
    <3> DEFINE a == Append(q, id)
    <3> HIDE DEF a
    <3>2. ASSUME NEW i \in DOMAIN a PROVE A!Row(a[i]) \in rows /\ Place(a[i]) <= n
      BY <2>2, <2>3, <2>4, <2>5, <3>1 DEF a
    <3>3. ASSUME NEW i \in DOMAIN a, NEW j \in DOMAIN a, i < j PROVE Place(a[i]) < Place(a[j])
      <4>1. i \in 1 .. Len(q) /\ (j \in 1 .. Len(q) \/ j = Len(q) + 1)
        BY <3>1, <3>3 DEF a
      <4> QED
        BY <2>2, <2>3, <2>4, <3>1, <3>3, <4>1 DEF a
    <3>4. a \in ListsTo(rows, n)
      BY <3>1, <3>2, <3>3 DEF ListsTo, a
    <3> QED
      <4>1. f[n] = a /\ a \in Seq(A!Ids) /\ n \in 0 .. Len(Table)
        BY <2>3, <2>5, <3>1 DEF a
      <4> QED
        BY <3>4, <4>1
  <2>6. CASE Table[n] \notin rows
    <3>1. q \in ListsTo(rows, n)
      BY <2>1, <2>3, <2>4 DEF ListsTo
    <3> QED
      BY <2>1, <2>3, <2>6, <3>1
  <2> QED
    BY <2>5, <2>6
<1> HIDE DEF P
<1>9. \A i \in 0 .. Len(Table) : <<i, f[i]>> \in P
  BY <1>2, <1>7, <1>8, ScanHolds
<1>10. <<Len(Table), f[Len(Table)]>> \in P
  BY <1>2, <1>9
<1> QED
  BY <1>1, <1>10 DEF P

\* What full runs comes in the order of its groups.
LEMMA MembersOrdered ==
  ASSUME AuditBounds
  PROVE  A!Members \in Seq(A!Ids) /\ Ordered(A!Members) /\ A!SafeMembers \in Seq(A!Ids)
<1> DEFINE rows == {r \in A!Range(Table) : r.inFull /\ r.group > 0}
           q == A!Members
<1>1. q \in ListsTo(rows, Len(Table))
  BY ListedGives DEF A!Members
<1>2. A!SafeMembers \in Seq(A!Ids)
  <2>1. A!SafeMembers \in ListsTo({r \in A!Range(Table) : r.inFull /\ ~A!Invasive(r)}, Len(Table))
    BY ListedGives DEF A!SafeMembers
  <2> QED
    BY <2>1 DEF ListsTo
<1> HIDE DEF q, rows
<1>3. /\ q \in Seq(A!Ids) /\ \A i \in DOMAIN q : A!Row(q[i]) \in rows /\ q[i] \in A!Ids
      /\ \A i, j \in DOMAIN q : i < j => Place(q[i]) < Place(q[j])
  BY <1>1 DEF ListsTo
<1>4. \A i \in DOMAIN q : /\ Place(q[i]) \in DOMAIN Table /\ A!Row(q[i]) = Table[Place(q[i])]
                          /\ A!Row(q[i]).inFull /\ A!Row(q[i]).group > 0
  <2>1. \A id \in A!Ids : Place(id) \in DOMAIN Table /\ A!Row(id) = Table[Place(id)]
    BY DEF Place, A!Row, A!Ids
  <2> QED
    BY <1>3, <2>1 DEF rows
<1>5. ASSUME NEW i \in DOMAIN q, NEW j \in DOMAIN q, i < j PROVE Group(q[i]) < Group(q[j])
  <2>1. Place(q[i]) < Place(q[j])
    BY <1>3, <1>5
  <2> QED
    BY <1>4, <2>1 DEF AuditBounds, Group
<1>6. Ordered(q)
  BY <1>4, <1>5 DEF Ordered, Group
<1> QED
  BY <1>2, <1>3, <1>6 DEF q

-----------------------------------------------------------------------------

\* The rest of a queue.
LEMMA TodoTail ==
  ASSUME AuditBounds, todo \in Seq(A!Ids), todo # <<>>
  PROVE  /\ Head(todo) = todo[1] /\ todo[1] \in A!Ids /\ Tail(todo) \in Seq(A!Ids)
         /\ Len(todo) <= 1 => Tail(todo) = <<>> /\ Len(Tail(todo)) <= 1
         /\ Ordered(todo) => /\ Ordered(Tail(todo))
                             /\ Tail(todo) # <<>> => Group(todo[1]) < Group(Tail(todo)[1])
         /\ Group(todo[1]) \in Nat
<1> DEFINE t == Tail(todo)
<1>1. /\ t \in Seq(A!Ids) /\ Len(t) = Len(todo) - 1 /\ Head(todo) = todo[1] /\ todo[1] \in A!Ids
      /\ \A i \in 1 .. Len(t) : t[i] = todo[i + 1]
      /\ Len(todo) \in Nat /\ Len(todo) # 0 /\ DOMAIN todo = 1 .. Len(todo) /\ DOMAIN t = 1 .. Len(t)
  BY HeadTailProperties
<1> HIDE DEF t
<1>2. Group(todo[1]) \in Nat
  BY <1>1, GroupNat
<1>3. Len(t) = 0 => t = <<>>
  BY <1>1
<1>4. ASSUME Ordered(todo) PROVE Ordered(t) /\ (t # <<>> => Group(todo[1]) < Group(t[1]))
  <2>1. \A i \in 1 .. Len(t) : i + 1 \in DOMAIN todo
    BY <1>1
  <2>2. Ordered(t)
    <3>1. \A i \in DOMAIN t : Group(t[i]) > 0
      BY <1>1, <1>4, <2>1 DEF Ordered
    <3>2. ASSUME NEW i \in DOMAIN t, NEW j \in DOMAIN t, i < j PROVE Group(t[i]) < Group(t[j])
      <4>1. i + 1 \in DOMAIN todo /\ j + 1 \in DOMAIN todo /\ i + 1 < j + 1
            /\ t[i] = todo[i + 1] /\ t[j] = todo[j + 1]
        BY <1>1, <2>1, <3>2
      <4> QED
        BY <1>4, <4>1 DEF Ordered
    <3> QED
      BY <3>1, <3>2 DEF Ordered
  <2>3. t # <<>> => 1 \in 1 .. Len(t) /\ 1 \in DOMAIN todo /\ 2 \in DOMAIN todo /\ t[1] = todo[2]
    BY <1>1
  <2> QED
    BY <1>4, <2>2, <2>3 DEF Ordered
<1>5. Len(todo) <= 1 => t = <<>> /\ Len(t) <= 1
  BY <1>1, <1>3
<1> QED
  BY <1>1, <1>2, <1>4, <1>5 DEF t

\* Before an audit.
LEMMA AudInit ==
  ASSUME AuditBounds, A!Init
  PROVE  AudInv
<1>1. PICK wish \in Asked, policy \in A!Policies, spec \in BOOLEAN, checked \in BOOLEAN :
        audit = [ask |-> wish, policy |-> policy, spec |-> spec, checked |-> checked, pc |-> "gate",
                 mode |-> "none", group |-> 0, restarts |-> 0]
  BY DEF A!Init
<1>2. /\ todo = <<>> /\ target = [alive |-> TRUE, left |-> {}] /\ before = {} /\ found = {} /\ ran = {}
  BY DEF A!Init
<1>3. audit \in Audit /\ audit.pc = "gate" /\ audit.group = 0
  BY <1>1 DEF Audit, AuditPcs, AuditModes
<1>4. todo \in Seq(A!Ids)
  <2>1. <<>> \in Seq(A!Ids)
    OBVIOUS
  <2> QED
    BY <1>2, <2>1
<1>5. target \in [alive : BOOLEAN, left : SUBSET A!Ids] /\ target.left = {}
  BY <1>2
<1>6. A!TypeOK
  BY <1>2, <1>3, <1>4, <1>5 DEF A!TypeOK, Audit, AuditPcs, AuditModes
<1>7. StageInv /\ FullInv /\ SingleInv /\ MetInv /\ ResidueInv
  BY <1>2, <1>3, <1>5 DEF StageInv, FullInv, SingleInv, MetInv, ResidueInv, Touched
<1> QED
  BY <1>3, <1>6, <1>7 DEF AudInv

\* What a step has to show of the types.
LEMMA AudTypes ==
  ASSUME (audit \in Audit)', (todo \in Seq(A!Ids))', (target \in [alive : BOOLEAN, left : SUBSET A!Ids])',
         (before \subseteq A!Ids)', (\A r \in ran : r.id \in A!Ids /\ r.met \subseteq A!Ids)'
  PROVE  A!TypeOK' /\ (audit \in Audit)'
BY DEF A!TypeOK, Audit, AuditPcs, AuditModes

\* What the invariant says of the fields.
LEMMA AudFacts ==
  ASSUME AudInv
  PROVE  /\ audit \in Audit /\ audit.pc \in AuditPcs /\ audit.group \in Nat /\ audit.restarts \in Nat
         /\ audit.ask \in Asked /\ todo \in Seq(A!Ids) /\ target \in [alive : BOOLEAN, left : SUBSET A!Ids]
         /\ before \subseteq A!Ids /\ target.left \subseteq A!Ids /\ target.alive \in BOOLEAN
         /\ \A r \in ran : r.id \in A!Ids /\ r.met \subseteq A!Ids
BY DEF AudInv, A!TypeOK, Audit

\* An audit that ends.
LEMMA EndKeeps ==
  ASSUME AudInv, audit' \in Audit, audit'.pc = "done", audit'.policy = audit.policy,
         UNCHANGED <<todo, before, ran>>, audit.pc # "verify", found \subseteq found',
         target' \in [alive : BOOLEAN, left : SUBSET A!Ids], target'.left = target.left
  PROVE  AudInv'
<1>1. A!TypeOK' /\ (audit \in Audit)'
  <2>1. audit' \in Audit' /\ A!Ids' = A!Ids
    BY DEF Audit
  <2> QED
    BY <2>1, AudFacts, AudTypes
<1>2. StageInv' /\ FullInv' /\ SingleInv' /\ MetInv'
  BY DEF AudInv, StageInv, FullInv, SingleInv, MetInv, Isolated
<1>3. ResidueInv'
  BY DEF AudInv, ResidueInv, Touched, Told
<1> QED
  BY <1>1, <1>2, <1>3 DEF AudInv

\* The gates.
LEMMA GateKeeps ==
  ASSUME AuditBounds, AudInv, A!Gated \/ A!RefuseDeep \/ A!Run
  PROVE  AudInv'
<1>1. audit.pc = "gate"
  BY DEF A!Gated, A!RefuseDeep, A!Run
<1>2. CASE \E mode \in {"Withheld", "Refused"} : \E finding : A!Ends(mode, finding)
  <2>0. PICK mode \in {"Withheld", "Refused"} : \E finding : A!Ends(mode, finding)
    BY <1>2
  <2>1. PICK finding : A!Ends(mode, finding)
    BY <2>0
  <2>2. /\ audit' = [audit EXCEPT !.pc = "done", !.mode = mode] /\ found \subseteq found'
        /\ UNCHANGED <<todo, target, before, ran>>
    BY <2>1 DEF A!Ends
  <2>3. audit' \in Audit /\ audit'.pc = "done" /\ audit'.policy = audit.policy
    BY <2>2, AudFacts DEF Audit, AuditPcs, AuditModes
  <2> QED
    BY <1>1, <2>2, <2>3, AudFacts, EndKeeps
<1>3. CASE \E mode \in {"Partial", "Composite", "Driving", "ObservationalLive"}, drivers \in Seq(A!Ids) :
             /\ audit' = [audit EXCEPT !.pc = "next", !.mode = mode] /\ todo' = drivers
             /\ found \subseteq found' /\ UNCHANGED <<target, before, ran>>
             /\ Isolated /\ AsksFull => Ordered(drivers)
             /\ ~AsksFull => Len(drivers) <= 1
  <2>1. PICK mode \in {"Partial", "Composite", "Driving", "ObservationalLive"}, drivers \in Seq(A!Ids) :
             /\ audit' = [audit EXCEPT !.pc = "next", !.mode = mode] /\ todo' = drivers
             /\ found \subseteq found' /\ UNCHANGED <<target, before, ran>>
             /\ Isolated /\ AsksFull => Ordered(drivers)
             /\ ~AsksFull => Len(drivers) <= 1
    BY <1>3
  <2>2. /\ audit' \in Audit /\ audit'.pc = "next" /\ audit'.policy = audit.policy
        /\ audit'.ask = audit.ask /\ audit'.group = audit.group
    BY <2>1, AudFacts DEF Audit, AuditPcs, AuditModes
  <2>3. audit.group = 0 /\ target'.left = {} /\ target' = target
    BY <1>1, <2>1 DEF AudInv, StageInv
  <2>4. A!TypeOK' /\ (audit \in Audit)'
    <3>1. audit' \in Audit' /\ A!Ids' = A!Ids
      BY <2>2 DEF Audit
    <3> QED
      BY <2>1, <3>1, AudFacts, AudTypes
  <2>5. StageInv'
    BY <2>2 DEF StageInv
  <2>6. FullInv'
    <3> SUFFICES ASSUME Isolated, AsksFull PROVE FullInv'
      BY <2>2 DEF FullInv, Isolated, AsksFull
    <3>1. Ordered(todo')
      BY <2>1
    <3>2. todo' # <<>> => Group(todo'[1]) \in Nat /\ Group(todo'[1]) > 0
      <4>1. todo' \in Seq(A!Ids)
        BY <2>1
      <4>2. todo' # <<>> => 1 \in DOMAIN todo' /\ todo'[1] \in A!Ids
        BY <4>1
      <4> QED
        BY <3>1, <4>2, GroupNat DEF Ordered
    <3> QED
      BY <2>2, <2>3, <3>1, <3>2 DEF FullInv, Ordered, Group, Mutates
  <2>7. SingleInv'
    BY <2>1, <2>2, <2>3 DEF SingleInv, Isolated, AsksFull
  <2>8. MetInv'
    BY <2>1, <2>2 DEF AudInv, MetInv, Isolated
  <2>9. ResidueInv'
    BY <2>3 DEF ResidueInv, Touched
  <2> QED
    BY <2>4, <2>5, <2>6, <2>7, <2>8, <2>9 DEF AudInv
<1>4. ASSUME A!Run PROVE AudInv'
  <2>1. CASE AsksFull
    <3>1. A!Starts(A!Members, "Composite")
      BY <1>4, <2>1 DEF A!Run, AsksFull
    <3>2. A!Members \in Seq(A!Ids) /\ Ordered(A!Members)
      BY MembersOrdered
    <3> QED
      BY <1>3, <2>1, <3>1, <3>2 DEF A!Starts
  <2>2. CASE ~AsksFull
    <3>1. A!Starts(<<audit.ask>>, IF audit.ask = Contract THEN "Composite"
                                ELSE IF A!Row(audit.ask).tx THEN "Driving" ELSE "ObservationalLive")
      BY <1>4, <2>2 DEF A!Run, AsksFull
    <3>2. audit.ask \in A!Ids
      BY <2>2, AudFacts DEF AsksFull, AuditBounds
    <3>3. <<audit.ask>> \in Seq(A!Ids) /\ Len(<<audit.ask>>) <= 1
      BY <3>2
    <3> QED
      BY <1>3, <2>2, <3>1, <3>3 DEF A!Starts
  <2> QED
    BY <2>1, <2>2
<1>5. ASSUME A!Gated PROVE AudInv'
  <2>1. audit.policy = "SafeOnly"
    BY <1>5 DEF A!Gated
  <2>2. CASE AsksFull
    <3>1. /\ audit' = [audit EXCEPT !.pc = "next", !.mode = "Partial"]
          /\ todo' = A!SafeMembers /\ UNCHANGED <<target, before, ran>> /\ found' = {"ORCH-GATED"}
      BY <1>5, <2>2 DEF A!Gated, AsksFull
    <3>2. A!SafeMembers \in Seq(A!Ids)
      BY MembersOrdered
    <3>3. /\ audit' \in Audit /\ audit'.pc = "next" /\ audit'.policy = audit.policy
          /\ audit'.ask = audit.ask
      BY <3>1, AudFacts DEF Audit, AuditPcs, AuditModes
    <3>4. A!TypeOK' /\ (audit \in Audit)'
      <4>1. audit' \in Audit' /\ A!Ids' = A!Ids
        BY <3>3 DEF Audit
      <4> QED
        BY <3>1, <3>2, <4>1, AudFacts, AudTypes
    <3>5. FullInv' /\ SingleInv' /\ MetInv' /\ StageInv'
      BY <2>1, <3>3 DEF FullInv, SingleInv, MetInv, StageInv, Isolated
    <3>6. ResidueInv'
      BY <1>1, <3>1 DEF AudInv, StageInv, ResidueInv, Touched
    <3> QED
      BY <3>4, <3>5, <3>6 DEF AudInv
  <2>3. CASE ~AsksFull
    BY <1>2, <1>5, <2>3 DEF A!Gated, AsksFull
  <2> QED
    BY <2>2, <2>3
<1>6. ASSUME A!RefuseDeep PROVE AudInv'
  BY <1>2, <1>6 DEF A!RefuseDeep
<1> QED
  BY <1>4, <1>5, <1>6

\* A restart leaves nothing, or the audit ends.
LEMMA RestartKeeps ==
  ASSUME AuditBounds, AudInv, A!Restart
  PROVE  AudInv'
<1>1. audit.pc = "next" /\ todo # <<>> /\ AsksFull /\ Isolated /\ UNCHANGED <<todo, before, ran>>
  BY DEF A!Restart, A!NeedsRestart, AsksFull, Isolated
<1>2. Head(todo) = todo[1] /\ Group(todo[1]) \in Nat
  BY <1>1, AudFacts, TodoTail
<1>0. PICK m \in Nat : m = audit.restarts + 1
  BY AudFacts
<1>3. CASE /\ target' = [alive |-> TRUE, left |-> {}]
           /\ audit' = [audit EXCEPT !.restarts = @ + 1, !.group = A!Row(Head(todo)).group]
           /\ found' = found \cup {"ORCH-RESTART"}
  <2>1. audit' = [audit EXCEPT !.restarts = m, !.group = Group(todo[1])]
    BY <1>0, <1>2, <1>3 DEF Group
  <2>2. /\ audit' \in Audit /\ audit'.pc = "next" /\ audit'.policy = audit.policy
        /\ audit'.ask = audit.ask /\ audit'.group = Group(todo[1])
    BY <1>1, <1>2, <2>1, AudFacts DEF Audit
  <2>3. target' \in [alive : BOOLEAN, left : SUBSET A!Ids] /\ target'.left = {}
    BY <1>3
  <2>4. A!TypeOK' /\ (audit \in Audit)'
    <3>1. audit' \in Audit' /\ A!Ids' = A!Ids
      BY <2>2 DEF Audit
    <3> QED
      BY <1>1, <2>3, <3>1, AudFacts, AudTypes
  <2>5. StageInv' /\ ResidueInv'
    BY <2>2, <2>3 DEF StageInv, ResidueInv, Touched
  <2>6. FullInv'
    <3>1. Ordered(todo)
      BY <1>1 DEF AudInv, FullInv
    <3> QED
      BY <1>1, <1>2, <2>2, <2>3, <3>1 DEF FullInv, Ordered, Group, Mutates
  <2>7. SingleInv' /\ MetInv'
    BY <1>1, <2>2 DEF AudInv, SingleInv, MetInv, AsksFull, Isolated
  <2> QED
    BY <2>4, <2>5, <2>6, <2>7 DEF AudInv
<1>4. CASE /\ target' = [target EXCEPT !.alive = FALSE]
           /\ audit' = [audit EXCEPT !.restarts = @ + 1, !.pc = "done"]
           /\ found' = found \cup {"ORCH-RESTART-FAILED", "ORCH-DEEP-ABORTED"}
  <2>1. audit' \in Audit /\ audit'.pc = "done" /\ audit'.policy = audit.policy
    <3>1. audit' = [audit EXCEPT !.restarts = m, !.pc = "done"]
      BY <1>0, <1>4
    <3> QED
      BY <3>1, AudFacts DEF Audit, AuditPcs
  <2>2. target' \in [alive : BOOLEAN, left : SUBSET A!Ids] /\ target'.left = target.left
    BY <1>4, AudFacts
  <2> QED
    BY <1>1, <1>4, <2>1, <2>2, EndKeeps
<1> QED
  BY <1>3, <1>4 DEF A!Restart

\* A transaction is entered, or its driver is passed over.
LEMMA EnterKeeps ==
  ASSUME AuditBounds, AudInv, A!Enter
  PROVE  AudInv'
<1>1. /\ audit.pc = "next" /\ todo # <<>> /\ ~A!NeedsRestart /\ UNCHANGED <<target, ran>>
      /\ found \subseteq found'
  BY DEF A!Enter
<1>2. /\ Head(todo) = todo[1] /\ todo[1] \in A!Ids /\ Tail(todo) \in Seq(A!Ids)
      /\ Len(todo) <= 1 => Tail(todo) = <<>> /\ Len(Tail(todo)) <= 1
      /\ Ordered(todo) => /\ Ordered(Tail(todo))
                          /\ Tail(todo) # <<>> => Group(todo[1]) < Group(Tail(todo)[1])
      /\ Group(todo[1]) \in Nat
  BY <1>1, AudFacts, TodoTail
<1>3. Tail(todo) # <<>> => Group(Tail(todo)[1]) \in Nat
  <2>1. Tail(todo) # <<>> => Tail(todo)[1] \in A!Ids
    BY <1>2
  <2> QED
    BY <2>1, GroupNat
<1>4. audit.group \in Nat /\ MetInv
  BY AudFacts DEF AudInv
<1>5. ASSUME NEW stage \in {"driver", "next"}, audit' = [audit EXCEPT !.pc = stage, !.group = Group(todo[1])]
      PROVE  /\ audit' \in Audit /\ audit'.pc = stage /\ audit'.policy = audit.policy
             /\ audit'.ask = audit.ask /\ audit'.group = Group(todo[1]) /\ audit' \in Audit'
  BY <1>2, <1>5, AudFacts DEF Audit, AuditPcs
<1>6. CASE /\ audit' = [audit EXCEPT !.pc = "driver", !.group = Group(todo[1])]
           /\ before' = target.left /\ UNCHANGED <<todo, found>>
  <2>1. /\ audit' \in Audit /\ audit'.pc = "driver" /\ audit'.policy = audit.policy
        /\ audit'.ask = audit.ask /\ audit'.group = Group(todo[1]) /\ audit' \in Audit'
    BY <1>5, <1>6
  <2>2. A!TypeOK' /\ (audit \in Audit)'
    BY <1>1, <1>6, <2>1, AudFacts, AudTypes DEF A!Ids
  <2>3. StageInv'
    BY <1>1, <1>6, <2>1 DEF StageInv
  <2>4. FullInv'
    <3> SUFFICES ASSUME AsksFull, Isolated PROVE FullInv'
      BY <2>1 DEF FullInv, AsksFull, Isolated
    <3>1. Ordered(todo) /\ (audit.group = Group(todo[1]) => target.left = {})
      BY <1>1 DEF AudInv, FullInv
    <3>2. Mutates(todo[1]) => target.left = {}
      <4> SUFFICES ASSUME Mutates(todo[1]) PROVE target.left = {}
        OBVIOUS
      <4>1. A!RiskOf(A!Row(todo[1])) > 2 /\ A!RiskOf(A!Row(todo[1])) > 1
        BY MutatesIsRisky DEF Mutates
      <4>2. A!Row(todo[1]).group = audit.group
        BY <1>1, <1>2, <4>1 DEF A!NeedsRestart, AsksFull, Isolated
      <4> QED
        BY <3>1, <4>2 DEF Group
    <3>3. Ordered(todo)' /\ todo' = todo /\ target' = target
      BY <1>1, <1>6, <3>1 DEF Ordered, Group
    <3> QED
      BY <1>2, <2>1, <3>2, <3>3 DEF FullInv, Group, Mutates
  <2>5. SingleInv'
    BY <1>1, <1>6, <2>1 DEF AudInv, SingleInv, AsksFull, Isolated
  <2>6. MetInv'
    BY <1>1, <1>4, <2>1 DEF MetInv, Isolated
  <2>7. ResidueInv'
    BY <1>1, <1>6 DEF AudInv, ResidueInv, Touched, Told
  <2> QED
    BY <2>2, <2>3, <2>4, <2>5, <2>6, <2>7 DEF AudInv
<1>7. CASE /\ audit' = [audit EXCEPT !.group = Group(todo[1])]
           /\ todo' = Tail(todo) /\ UNCHANGED before
  <2>0. audit' = [audit EXCEPT !.pc = "next", !.group = Group(todo[1])]
    BY <1>1, <1>7, AudFacts DEF Audit
  <2>1. /\ audit' \in Audit /\ audit'.pc = "next" /\ audit'.policy = audit.policy
        /\ audit'.ask = audit.ask /\ audit'.group = Group(todo[1]) /\ audit' \in Audit'
    BY <1>5, <2>0
  <2>2. A!TypeOK' /\ (audit \in Audit)'
    BY <1>1, <1>2, <1>7, <2>1, AudFacts, AudTypes DEF A!Ids
  <2>3. StageInv'
    BY <2>1 DEF StageInv
  <2>4. FullInv'
    <3> SUFFICES ASSUME AsksFull, Isolated PROVE FullInv'
      BY <2>1 DEF FullInv, AsksFull, Isolated
    <3>1. Ordered(todo)
      BY <1>1 DEF AudInv, FullInv
    <3>2. Ordered(todo)' /\ (todo' # <<>> => Group(todo[1]) < Group(todo'[1]) /\ Group(todo'[1]) \in Nat)
      BY <1>2, <1>3, <1>7, <3>1 DEF Ordered, Group
    <3> QED
      BY <1>2, <2>1, <3>2 DEF FullInv, Group, Mutates
  <2>5. SingleInv'
    BY <1>1, <1>2, <1>7, <2>1 DEF AudInv, SingleInv, AsksFull, Isolated
  <2>6. MetInv'
    BY <1>1, <1>4, <2>1 DEF MetInv, Isolated
  <2>7. ResidueInv'
    BY <1>1 DEF AudInv, ResidueInv, Touched, Told
  <2> QED
    BY <2>2, <2>3, <2>4, <2>5, <2>6, <2>7 DEF AudInv
<1>8. \/ /\ audit' = [audit EXCEPT !.pc = "driver", !.group = Group(todo[1])]
         /\ before' = target.left /\ UNCHANGED <<todo, found>>
      \/ /\ audit' = [audit EXCEPT !.group = Group(todo[1])]
         /\ todo' = Tail(todo) /\ UNCHANGED before
  BY <1>2 DEF A!Enter, Group
<1> QED
  BY <1>6, <1>7, <1>8

\* A driver runs.
LEMMA DriverKeeps ==
  ASSUME AuditBounds, AudInv, A!Driver
  PROVE  AudInv'
<1>1. audit.pc = "driver" /\ todo # <<>> /\ before = target.left /\ UNCHANGED <<before, found>>
  BY DEF A!Driver, AudInv, StageInv
<1>2. /\ Head(todo) = todo[1] /\ todo[1] \in A!Ids /\ Tail(todo) \in Seq(A!Ids)
      /\ Len(todo) <= 1 => Tail(todo) = <<>> /\ Len(Tail(todo)) <= 1
      /\ Ordered(todo) => /\ Ordered(Tail(todo))
                          /\ Tail(todo) # <<>> => Group(todo[1]) < Group(Tail(todo)[1])
      /\ Group(todo[1]) \in Nat
  BY <1>1, AudFacts, TodoTail
<1> DEFINE id == todo[1]
<1>3. A!Row(id).id = id
  BY <1>2, GroupNat
<1>4. PICK left \in {{}, {id}}, alive \in BOOLEAN :
        target' = [alive |-> alive, left |-> target.left \cup left]
  <2>1. PICK left \in {{}, {id}}, alive \in {target.alive, FALSE} :
          target' = [alive |-> alive, left |-> target.left \cup left]
    BY <1>2, <1>3 DEF A!Driver
  <2> QED
    BY <2>1, AudFacts
<1>5. /\ ran' = ran \cup {[id |-> id, met |-> target.left]}
      /\ IF A!InTransaction(id) THEN audit' = [audit EXCEPT !.pc = "verify"] /\ UNCHANGED todo
         ELSE audit' = [audit EXCEPT !.pc = "next"] /\ todo' = Tail(todo)
  BY <1>2, <1>3 DEF A!Driver
<1>6. PICK stage \in {"verify", "next"} :
        /\ audit' = [audit EXCEPT !.pc = stage]
        /\ stage = "verify" => A!InTransaction(id) /\ todo' = todo
        /\ stage = "next" => ~A!InTransaction(id) /\ todo' = Tail(todo)
  BY <1>5
<1>7. /\ audit' \in Audit /\ audit'.pc = stage /\ audit'.policy = audit.policy
      /\ audit'.ask = audit.ask /\ audit'.group = audit.group /\ audit' \in Audit'
  BY <1>6, AudFacts DEF Audit, AuditPcs
<1>8. target' \in [alive : BOOLEAN, left : SUBSET A!Ids] /\ target'.left = target.left \cup left
  <2>1. target.left \cup left \subseteq A!Ids
    BY <1>2, AudFacts
  <2> QED
    BY <1>4, <2>1
<1>9. A!TypeOK' /\ (audit \in Audit)'
  <2>1. todo' \in Seq(A!Ids)
    BY <1>2, <1>6, AudFacts
  <2>2. \A r \in ran' : r.id \in A!Ids /\ r.met \subseteq A!Ids
    BY <1>2, <1>5, AudFacts
  <2>3. A!Ids' = A!Ids
    BY DEF A!Ids
  <2> QED
    BY <1>1, <1>7, <1>8, <2>1, <2>2, <2>3, AudFacts, AudTypes
<1>10. StageInv'
  BY <1>1, <1>6, <1>7 DEF StageInv
<1>11. FullInv'
  <2> SUFFICES ASSUME AsksFull, Isolated PROVE FullInv'
    BY <1>7 DEF FullInv, AsksFull, Isolated
  <2>1. Ordered(todo) /\ audit.group = Group(id)
    BY <1>1 DEF AudInv, FullInv
  <2>2. CASE stage = "verify"
    <3>1. Ordered(todo)' /\ todo' = todo
      BY <1>6, <2>1, <2>2 DEF Ordered, Group
    <3> QED
      BY <1>2, <1>7, <2>1, <2>2, <3>1 DEF FullInv, Group, Mutates
  <2>3. CASE stage = "next"
    <3>1. Ordered(todo)' /\ (todo' # <<>> => audit.group < Group(todo'[1]) /\ Group(todo'[1]) \in Nat)
      <4>1. Tail(todo) # <<>> => Tail(todo)[1] \in A!Ids
        BY <1>2
      <4> QED
        BY <1>2, <1>6, <2>1, <2>3, <4>1, GroupNat DEF Ordered, Group
    <3> QED
      BY <1>2, <1>7, <2>1, <2>3, <3>1 DEF FullInv, Group, Mutates
  <2> QED
    BY <2>2, <2>3
<1>12. SingleInv'
  BY <1>1, <1>2, <1>6, <1>7 DEF AudInv, SingleInv, AsksFull, Isolated
<1>13. MetInv'
  <2> SUFFICES ASSUME Isolated PROVE MetInv'
    BY <1>7 DEF MetInv, Isolated
  <2>1. Mutates(id) => target.left = {}
    BY <1>1 DEF AudInv, FullInv, SingleInv
  <2>2. \A r \in ran : Mutates(r.id) => r.met = {}
    BY DEF AudInv, MetInv
  <2> QED
    BY <1>5, <2>1, <2>2 DEF MetInv, Mutates
<1>14. ResidueInv'
  <2> SUFFICES ASSUME Touched', ~Told PROVE stage = "verify" /\ \A x \in before : ~A!InTransaction(x)
    BY <1>1, <1>7 DEF ResidueInv, Told
  <2>1. ~Touched
    BY <1>1 DEF AudInv, ResidueInv
  <2>2. \A x \in target.left : ~A!InTransaction(x)
    BY <2>1 DEF Touched
  <2>3. A!InTransaction(id)
    BY <1>8, <2>2 DEF Touched
  <2> QED
    BY <1>1, <1>6, <2>2, <2>3
<1> QED
  BY <1>9, <1>10, <1>11, <1>12, <1>13, <1>14 DEF AudInv

\* What it left is looked at.
LEMMA VerifyKeeps ==
  ASSUME AuditBounds, AudInv, A!Verify
  PROVE  AudInv'
<1>1. /\ audit.pc = "verify" /\ todo # <<>> /\ todo' = Tail(todo) /\ audit' = [audit EXCEPT !.pc = "next"]
      /\ UNCHANGED <<target, before, ran>>
  BY DEF A!Verify, AudInv, StageInv
<1>2. /\ Head(todo) = todo[1] /\ todo[1] \in A!Ids /\ Tail(todo) \in Seq(A!Ids)
      /\ Len(todo) <= 1 => Tail(todo) = <<>> /\ Len(Tail(todo)) <= 1
      /\ Ordered(todo) => /\ Ordered(Tail(todo))
                          /\ Tail(todo) # <<>> => Group(todo[1]) < Group(Tail(todo)[1])
      /\ Group(todo[1]) \in Nat
  BY <1>1, AudFacts, TodoTail
<1>3. PICK observed \in BOOLEAN : found' = found \cup A!Reported(observed)
  BY AudFacts DEF A!Verify
<1>4. /\ audit' \in Audit /\ audit'.pc = "next" /\ audit'.policy = audit.policy
      /\ audit'.ask = audit.ask /\ audit'.group = audit.group /\ audit' \in Audit'
  BY <1>1, AudFacts DEF Audit, AuditPcs
<1>5. A!TypeOK' /\ (audit \in Audit)'
  BY <1>1, <1>2, <1>4, AudFacts, AudTypes DEF A!Ids
<1>6. StageInv'
  BY <1>4 DEF StageInv
<1>7. FullInv'
  <2> SUFFICES ASSUME AsksFull, Isolated PROVE FullInv'
    BY <1>4 DEF FullInv, AsksFull, Isolated
  <2>1. Ordered(todo) /\ audit.group = Group(todo[1])
    BY <1>1 DEF AudInv, FullInv
  <2>2. Ordered(todo)' /\ (todo' # <<>> => audit.group < Group(todo'[1]) /\ Group(todo'[1]) \in Nat)
    <3>1. Tail(todo) # <<>> => Tail(todo)[1] \in A!Ids
      BY <1>2
    <3> QED
      BY <1>1, <1>2, <2>1, <3>1, GroupNat DEF Ordered, Group
  <2> QED
    BY <1>2, <1>4, <2>1, <2>2 DEF FullInv, Group, Mutates
<1>8. SingleInv'
  BY <1>1, <1>2, <1>4 DEF AudInv, SingleInv, AsksFull, Isolated
<1>9. MetInv'
  BY <1>1, <1>4 DEF AudInv, MetInv, Isolated
<1>10. ResidueInv'
  <2> SUFFICES ASSUME Touched PROVE Told'
    BY <1>1 DEF ResidueInv, Touched
  <2>1. CASE Told
    BY <1>3, <2>1 DEF Told
  <2>2. CASE ~Told
    <3>1. \A id \in before : ~A!InTransaction(id)
      BY <2>2 DEF AudInv, ResidueInv
    <3>2. target.left # before
      BY <3>1 DEF Touched
    <3>3. A!Reported(observed) \cap {"AUDIT-RESIDUE", "AUDIT-UNVERIFIED"} # {}
      BY <3>2 DEF A!Reported
    <3> QED
      BY <1>3, <3>3 DEF Told
  <2> QED
    BY <2>1, <2>2
<1> QED
  BY <1>5, <1>6, <1>7, <1>8, <1>9, <1>10 DEF AudInv

\* The audit ends.
LEMMA FinishKeeps ==
  ASSUME AudInv, A!Finish
  PROVE  AudInv'
<1>1. /\ audit.pc = "next" /\ audit' = [audit EXCEPT !.pc = "done"] /\ found \subseteq found'
      /\ UNCHANGED <<todo, target, before, ran>>
  BY DEF A!Finish
<1>2. audit' \in Audit /\ audit'.pc = "done" /\ audit'.policy = audit.policy
  BY <1>1, AudFacts DEF Audit, AuditPcs
<1> QED
  BY <1>1, <1>2, AudFacts, EndKeeps

\* A step of an audit.
LEMMA AudNext ==
  ASSUME AuditBounds, AudInv, [A!Next]_A!auditVars
  PROVE  AudInv'
<1>1. CASE UNCHANGED A!auditVars
  <2>1. A!TypeOK' /\ (audit \in Audit)'
    BY <1>1, AudFacts, AudTypes DEF A!auditVars, A!Ids, Audit
  <2>2. StageInv' /\ SingleInv' /\ MetInv'
    BY <1>1 DEF A!auditVars, AudInv, StageInv, SingleInv, MetInv, AsksFull, Isolated
  <2>3. FullInv'
    BY <1>1 DEF A!auditVars, AudInv, FullInv, AsksFull, Isolated, Ordered, Group, Mutates
  <2>4. ResidueInv'
    BY <1>1 DEF A!auditVars, AudInv, ResidueInv, Touched, Told
  <2> QED
    BY <2>1, <2>2, <2>3, <2>4 DEF AudInv
<1>2. CASE A!Next
  BY <1>2, GateKeeps, RestartKeeps, EnterKeeps, DriverKeeps, VerifyKeeps, FinishKeeps DEF A!Next
<1> QED
  BY <1>1, <1>2

\* What an audit promises follows.
LEMMA AudSafe ==
  ASSUME AudInv
  PROVE  A!TypeOK /\ A!IsolationKept /\ A!ResidueIsReported
<1>1. A!IsolationKept
  BY DEF AudInv, MetInv, A!IsolationKept, Isolated, Mutates
<1>2. A!ResidueIsReported
  BY DEF AudInv, ResidueInv, A!ResidueIsReported, Touched, Told
<1> QED
  BY <1>1, <1>2 DEF AudInv

-----------------------------------------------------------------------------
(* Exploration and the minimiser.                                          *)

CONSTANTS Keys, Mutating, Unread, Quits, Faults, MaxActions, MaxRelaunches, MaxStates
VARIABLES quest, kid, walk, known, mini, saved

X == INSTANCE Exploration

\* The one constant an invariant bounds something by.
ExploreBounds == MaxRelaunches \in Nat

\* The child, the walk and the minimiser.
Kid == [end : X!Ends, got : SUBSET Keys]
Walk ==
  [pc : {"walk", "dead", "over", "repro", "done"}, steps : Seq([key : Keys, end : X!Ends]),
   seen : SUBSET (SUBSET Keys), relaunches : Nat, reason : X!Reasons, crash : Nat]
Mini ==
  [pc : {"off", "full", "chunks", "singles", "confirm"}, trace : Seq(Keys), best : Seq(Keys),
   n : Nat \ {0}, i : Nat, flaked : BOOLEAN]

\* A candidate crashes a fresh child when its first m keys do not quit and
\* hold the fault, for some m.
KeysTo(c, m) == {c[k] : k \in 1 .. m}
KeysBut(c, m, j) == {c[k] : k \in (1 .. m) \ {j}}
Free(c, m) == \A k \in 1 .. m : c[k] \notin Quits
Holds(F, c, m) == m \in 1 .. Len(c) /\ Free(c, m) /\ F \subseteq KeysTo(c, m)
Crashes(F, c) == \E m \in 1 .. Len(c) : Holds(F, c, m)
Minimal(F, c) == \A j \in 1 .. Len(c) : ~Crashes(F, X!Without(c, j, j))

\* What a replay is after the first n keys.
AfterOf(c, n) ==
  {kd \in Kid :
     /\ kd.end = "crash" <=> \E m \in 1 .. n : Holds(quest.fault, c, m)
     /\ kd.end = "none" => Free(c, n) /\ kd.got = KeysTo(c, n)
     /\ kd.end = "exit" => \E q \in 1 .. n : c[q] \in Quits}

-----------------------------------------------------------------------------
(* Replays.                                                                *)

\* A key leaves a child.
LEMMA PressedIsKid ==
  ASSUME NEW kd \in Kid, NEW key \in Keys
  PROVE  X!Pressed(kd, key) \in Kid
BY DEF X!Pressed, Kid, X!Ends

\* One key more.
LEMMA AfterStep ==
  ASSUME NEW c \in Seq(Keys), NEW n \in 1 .. Len(c), NEW kd \in AfterOf(c, n - 1)
  PROVE  (IF kd.end = "none" THEN X!Pressed(kd, c[n]) ELSE kd) \in AfterOf(c, n)
<1>1. n \in Nat /\ n - 1 \in Nat /\ Len(c) \in Nat /\ c[n] \in Keys
  OBVIOUS
<1>2. /\ kd \in Kid
      /\ kd.end = "crash" <=> \E m \in 1 .. n - 1 : Holds(quest.fault, c, m)
      /\ kd.end = "none" => Free(c, n - 1) /\ kd.got = KeysTo(c, n - 1)
      /\ kd.end = "exit" => \E q \in 1 .. n - 1 : c[q] \in Quits
  BY DEF AfterOf
<1>3. \A m : m \in 1 .. n <=> m \in 1 .. n - 1 \/ m = n
  BY <1>1
<1>4. CASE kd.end = "none"
  <2> DEFINE next == X!Pressed(kd, c[n])
  <2>1. next \in Kid
    BY <1>1, <1>2, PressedIsKid
  <2>2. KeysTo(c, n) = kd.got \cup {c[n]}
    BY <1>2, <1>3, <1>4 DEF KeysTo
  <2>3. Free(c, n) <=> c[n] \notin Quits
    BY <1>2, <1>3, <1>4 DEF Free
  <2>4. Holds(quest.fault, c, n) <=> c[n] \notin Quits /\ quest.fault \subseteq kd.got \cup {c[n]}
    BY <2>2, <2>3 DEF Holds
  <2>5. ~\E m \in 1 .. n - 1 : Holds(quest.fault, c, m)
    BY <1>2, <1>4
  <2>6. /\ next.got = kd.got \cup {c[n]}
        /\ next.end = IF c[n] \in Quits THEN "exit"
                      ELSE IF quest.fault \subseteq kd.got \cup {c[n]} THEN "crash" ELSE "none"
    BY DEF X!Pressed
  <2> HIDE DEF next
  <2>7. next.end = "crash" <=> \E m \in 1 .. n : Holds(quest.fault, c, m)
    BY <1>3, <2>4, <2>5, <2>6
  <2>8. next.end = "none" => Free(c, n) /\ next.got = KeysTo(c, n)
    BY <2>2, <2>3, <2>6
  <2>9. next.end = "exit" => \E q \in 1 .. n : c[q] \in Quits
    BY <1>3, <2>6
  <2>10. next \in AfterOf(c, n)
    BY <2>1, <2>7, <2>8, <2>9 DEF AfterOf
  <2> QED
    BY <1>4, <2>10 DEF next
<1>5. CASE kd.end # "none"
  <2>1. ~(kd.end = "crash") => ~Holds(quest.fault, c, n)
    <3>1. kd.end \in X!Ends
      BY <1>2 DEF Kid
    <3>2. kd.end = "exit" => ~Free(c, n)
      BY <1>2, <1>3 DEF Free
    <3> QED
      BY <1>5, <3>1, <3>2 DEF X!Ends, Holds
  <2>2. kd.end = "crash" <=> \E m \in 1 .. n : Holds(quest.fault, c, m)
    BY <1>2, <1>3, <2>1
  <2>3. kd.end = "exit" => \E q \in 1 .. n : c[q] \in Quits
    BY <1>2, <1>3
  <2>4. kd \in AfterOf(c, n)
    BY <1>2, <1>5, <2>2, <2>3 DEF AfterOf
  <2> QED
    BY <1>5, <2>4
<1> QED
  BY <1>4, <1>5

\* A replay crashes as the candidate says.
LEMMA ReplayedIs ==
  ASSUME NEW c \in Seq(Keys)
  PROVE  X!Replayed(c) \in AfterOf(c, Len(c))
<1> DEFINE f == CHOOSE g : g = [n \in 0 .. Len(c) |->
                  IF n = 0 THEN X!FreshKid
                  ELSE IF g[n - 1].end = "none" THEN X!Pressed(g[n - 1], c[n])
                  ELSE g[n - 1]]
           step == [p \in (1 .. Len(c)) \X Kid |->
                      IF p[2].end = "none" THEN X!Pressed(p[2], c[p[1]]) ELSE p[2]]
           P == {p \in (0 .. Len(c)) \X Kid : p[2] \in AfterOf(c, p[1])}
<1>1. X!Replayed(c) = f[Len(c)]
  BY DEF X!Replayed
<1>2. Len(c) \in Nat /\ \A i \in 1 .. Len(c) : c[i] \in Keys
  OBVIOUS
<1>3. \A i \in 1 .. Len(c), kd \in Kid :
        step[<<i, kd>>] = IF kd.end = "none" THEN X!Pressed(kd, c[i]) ELSE kd
  OBVIOUS
<1>4. step \in [(1 .. Len(c)) \X Kid -> Kid]
  <2>1. \A i \in 1 .. Len(c), kd \in Kid : (IF kd.end = "none" THEN X!Pressed(kd, c[i]) ELSE kd) \in Kid
    BY <1>2, PressedIsKid
  <2> QED
    BY <2>1
<1>5. X!FreshKid \in Kid /\ X!FreshKid.end = "none" /\ X!FreshKid.got = {}
  BY SMTT(30) DEF X!FreshKid, Kid, X!Ends
<1> HIDE DEF step
<1>6. f = [n \in 0 .. Len(c) |->
             IF n = 0 THEN X!FreshKid
             ELSE IF f[n - 1].end = "none" THEN X!Pressed(f[n - 1], c[n]) ELSE f[n - 1]]
  <2>1. PICK g \in [0 .. Len(c) -> Kid] :
          \A i \in 0 .. Len(c) : g[i] = IF i = 0 THEN X!FreshKid ELSE step[<<i, g[i - 1]>>]
    <3>1. Scans(Len(c), Kid, X!FreshKid, step)
      BY <1>2, <1>4, <1>5, ScanExists
    <3> QED
      BY <3>1 DEF Scans, IsScan
  <2>2. \A i \in 1 .. Len(c) :
          g[i] = IF g[i - 1].end = "none" THEN X!Pressed(g[i - 1], c[i]) ELSE g[i - 1]
    <3>1. \A i \in 1 .. Len(c) : i \in 0 .. Len(c) /\ i # 0 /\ i - 1 \in 0 .. Len(c)
      BY <1>2
    <3> QED
      BY <1>3, <2>1, <3>1
  <2>3. g = [n \in 0 .. Len(c) |->
               IF n = 0 THEN X!FreshKid
               ELSE IF g[n - 1].end = "none" THEN X!Pressed(g[n - 1], c[n]) ELSE g[n - 1]]
    <3>1. ASSUME NEW i \in 0 .. Len(c)
          PROVE  g[i] = IF i = 0 THEN X!FreshKid
                        ELSE IF g[i - 1].end = "none" THEN X!Pressed(g[i - 1], c[i]) ELSE g[i - 1]
      <4>1. i # 0 => i \in 1 .. Len(c)
        BY <1>2
      <4> QED
        BY <2>1, <2>2, <4>1
    <3> QED
      BY <3>1
  <2> QED
    BY <2>3
<1> HIDE DEF f
<1>7. /\ f[0] = X!FreshKid
      /\ \A i \in 1 .. Len(c) :
           f[i] = IF f[i - 1].end = "none" THEN X!Pressed(f[i - 1], c[i]) ELSE f[i - 1]
  <2>1. 0 \in 0 .. Len(c) /\ \A i \in 1 .. Len(c) : i \in 0 .. Len(c) /\ i # 0
    BY <1>2
  <2> QED
    BY <1>6, <2>1
<1>8. <<0, f[0]>> \in P
  <2>1. X!FreshKid \in AfterOf(c, 0)
    BY <1>5 DEF AfterOf, Free, KeysTo
  <2>2. 0 \in 0 .. Len(c)
    BY <1>2
  <2> QED
    BY <1>5, <1>7, <2>1, <2>2
<1>9. ASSUME NEW n \in 1 .. Len(c), <<n - 1, f[n - 1]>> \in P PROVE <<n, f[n]>> \in P
  <2> DEFINE kd == f[n - 1]
  <2>1. kd \in AfterOf(c, n - 1)
    BY <1>9
  <2>2. f[n] = IF kd.end = "none" THEN X!Pressed(kd, c[n]) ELSE kd
    BY <1>7
  <2> HIDE DEF kd
  <2>3. f[n] \in AfterOf(c, n)
    BY <2>1, <2>2, AfterStep
  <2>4. n \in 0 .. Len(c)
    OBVIOUS
  <2>5. f[n] \in Kid
    BY <2>3 DEF AfterOf
  <2> QED
    BY <2>3, <2>4, <2>5
<1> HIDE DEF P
<1>10. \A i \in 0 .. Len(c) : <<i, f[i]>> \in P
  BY <1>2, <1>8, <1>9, ScanHolds
<1>11. <<Len(c), f[Len(c)]>> \in P
  BY <1>2, <1>10
<1> QED
  BY <1>1, <1>11 DEF P

\* In one line.
LEMMA ReplayedCrashes ==
  ASSUME NEW c \in Seq(Keys)
  PROVE  X!Replayed(c) \in Kid /\ (X!Replayed(c).end = "crash" <=> Crashes(quest.fault, c))
<1>1. X!Replayed(c) \in AfterOf(c, Len(c))
  BY ReplayedIs
<1> QED
  BY <1>1 DEF AfterOf, Crashes

-----------------------------------------------------------------------------
(* Candidates.                                                             *)

\* What is left without a part of a sequence.
LEMMA WithoutPart ==
  ASSUME NEW s \in Seq(Keys), NEW a \in 1 .. Len(s) + 1, NEW b \in 0 .. Len(s)
  PROVE  /\ X!Without(s, a, b) \in Seq(Keys)
         /\ \A k \in 1 .. Len(X!Without(s, a, b)) : \E m \in 1 .. Len(s) : X!Without(s, a, b)[k] = s[m]
<1> DEFINE l == SubSeq(s, 1, a - 1)
           r == SubSeq(s, b + 1, Len(s))
<1>1. Len(s) \in Nat /\ a - 1 \in 0 .. Len(s) /\ a - 1 \in Nat /\ b + 1 \in 1 .. Len(s) + 1
  OBVIOUS
<1>2. /\ l \in Seq(Keys) /\ Len(l) = a - 1
      /\ \A k \in 1 .. a - 1 : l[k] = s[k]
  BY <1>1, SubSeqProperties
<1>3. /\ r \in Seq(Keys) /\ Len(r) = Len(s) - b
      /\ \A k \in 1 .. Len(s) - b : r[k] = s[b + k]
  BY <1>1, SubSeqProperties
<1>4. X!Without(s, a, b) = l \o r
  BY DEF X!Without
<1> HIDE DEF l, r
<1>5. /\ l \o r \in Seq(Keys) /\ Len(l \o r) = Len(l) + Len(r)
      /\ \A k \in 1 .. Len(l) + Len(r) : (l \o r)[k] = IF k <= Len(l) THEN l[k] ELSE r[k - Len(l)]
  BY <1>2, <1>3, ConcatProperties
<1>6. ASSUME NEW k \in 1 .. Len(l) + Len(r) PROVE \E m \in 1 .. Len(s) : (l \o r)[k] = s[m]
  <2>1. CASE k <= Len(l)
    BY <1>1, <1>2, <1>5, <2>1, SMTT(30)
  <2>2. CASE ~(k <= Len(l))
    <3>1. k - Len(l) \in 1 .. Len(s) - b /\ b + (k - Len(l)) \in 1 .. Len(s)
      BY <1>1, <1>2, <1>3, <2>2
    <3> QED
      BY <1>3, <1>5, <2>2, <3>1
  <2> QED
    BY <2>1, <2>2
<1> QED
  BY <1>4, <1>5, <1>6

\* What is left without one element.
LEMMA WithoutOne ==
  ASSUME NEW s \in Seq(Keys), NEW i \in 1 .. Len(s)
  PROVE  /\ X!Without(s, i, i) \in Seq(Keys) /\ Len(X!Without(s, i, i)) = Len(s) - 1
         /\ \A k \in 1 .. Len(s) - 1 : X!Without(s, i, i)[k] = IF k < i THEN s[k] ELSE s[k + 1]
<1> DEFINE l == SubSeq(s, 1, i - 1)
           r == SubSeq(s, i + 1, Len(s))
<1>1. Len(s) \in Nat /\ i - 1 \in 0 .. Len(s) /\ i - 1 \in Nat /\ i + 1 \in 1 .. Len(s) + 1
  OBVIOUS
<1>2. /\ l \in Seq(Keys) /\ Len(l) = i - 1
      /\ \A k \in 1 .. i - 1 : l[k] = s[k]
  BY <1>1, SubSeqProperties
<1>3. /\ r \in Seq(Keys) /\ Len(r) = Len(s) - i
      /\ \A k \in 1 .. Len(s) - i : r[k] = s[i + k]
  BY <1>1, SubSeqProperties
<1>4. X!Without(s, i, i) = l \o r
  BY DEF X!Without
<1> HIDE DEF l, r
<1>5. /\ l \o r \in Seq(Keys) /\ Len(l \o r) = Len(l) + Len(r)
      /\ \A k \in 1 .. Len(l) + Len(r) : (l \o r)[k] = IF k <= Len(l) THEN l[k] ELSE r[k - Len(l)]
  BY <1>2, <1>3, ConcatProperties
<1>6. Len(l) + Len(r) = Len(s) - 1
  BY <1>1, <1>2, <1>3
<1>7. ASSUME NEW k \in 1 .. Len(s) - 1 PROVE (l \o r)[k] = IF k < i THEN s[k] ELSE s[k + 1]
  <2>1. CASE k < i
    BY <1>1, <1>2, <1>5, <1>6, <2>1
  <2>2. CASE ~(k < i)
    <3>1. k - Len(l) \in 1 .. Len(s) - i /\ i + (k - Len(l)) = k + 1 /\ ~(k <= Len(l))
      BY <1>1, <1>2, <2>2
    <3> QED
      BY <1>3, <1>5, <1>6, <2>2, <3>1
  <2> QED
    BY <2>1, <2>2
<1> QED
  BY <1>4, <1>5, <1>6, <1>7

-----------------------------------------------------------------------------
(* One key at a time.                                                      *)

\* The first i - 1 keys of a crashing candidate have been tried: they are
\* among its first m, which crash, and the fault misses the others without
\* any of them.  While one of the m is still to be tried, a key that quits,
\* or the end, comes after them.
CoreOf(F, c, i, m) ==
  /\ Holds(F, c, m) /\ i - 1 <= m
  /\ i > m \/ m = Len(c) \/ c[m + 1] \in Quits
  /\ m > 1 => \A j \in 1 .. i - 1 : ~(F \subseteq KeysBut(c, m, j))
Core(F, c, i) == \E m \in 1 .. Len(c) : CoreOf(F, c, i, m)

\* Before the first.
LEMMA CoreStarts ==
  ASSUME NEW F, NEW c \in Seq(Keys), Crashes(F, c)
  PROVE  Core(F, c, 1)
<1>1. PICK m0 \in 1 .. Len(c) : Holds(F, c, m0)
  BY DEF Crashes
<1> DEFINE Stop == {k \in 1 .. Len(c) + 1 : k > m0 /\ (k = Len(c) + 1 \/ c[k] \in Quits)}
<1>2. Len(c) \in Nat /\ m0 \in Nat /\ Len(c) + 1 \in Stop /\ Stop \in SUBSET Nat
  OBVIOUS
<1>3. PICK x \in Stop : \A y \in Stop : x <= y
  <2> HIDE DEF Stop
  <2>1. Stop # {}
    BY <1>2
  <2> QED
    BY <1>2, <2>1, LeastNat
<1> DEFINE m == x - 1
<1>4. m \in 1 .. Len(c) /\ m0 <= m /\ (m = Len(c) \/ c[m + 1] \in Quits)
  BY <1>2, <1>3
<1>5. \A k \in 1 .. m : k > m0 => c[k] \notin Quits
  BY <1>2, <1>3
<1> HIDE DEF m
<1>6. Free(c, m)
  BY <1>1, <1>2, <1>4, <1>5 DEF Holds, Free
<1>7. KeysTo(c, m0) \subseteq KeysTo(c, m)
  BY <1>2, <1>4 DEF KeysTo
<1>8. Holds(F, c, m)
  BY <1>1, <1>4, <1>6, <1>7 DEF Holds
<1>9. CoreOf(F, c, 1, m)
  BY <1>4, <1>8 DEF CoreOf
<1> QED
  BY <1>4, <1>9 DEF Core

\* Without the key at i.
LEMMA CutFacts ==
  ASSUME NEW F, NEW c \in Seq(Keys), NEW i \in 1 .. Len(c), NEW m \in 1 .. Len(c), Holds(F, c, m)
  PROVE  /\ i > m => /\ Holds(F, X!Without(c, i, i), m)
                     /\ \A j : KeysBut(X!Without(c, i, i), m, j) = KeysBut(c, m, j)
         /\ i <= m => /\ Free(X!Without(c, i, i), m - 1)
                      /\ KeysTo(X!Without(c, i, i), m - 1) = KeysBut(c, m, i)
                      /\ \A j \in 1 .. i - 1 :
                           KeysBut(X!Without(c, i, i), m - 1, j) \subseteq KeysBut(c, m, j)
<1> DEFINE w == X!Without(c, i, i)
<1>1. /\ w \in Seq(Keys) /\ Len(w) = Len(c) - 1
      /\ \A k \in 1 .. Len(c) - 1 : w[k] = IF k < i THEN c[k] ELSE c[k + 1]
  BY WithoutOne
<1> HIDE DEF w
<1>2. Len(c) \in Nat /\ i \in Nat /\ m \in Nat
  OBVIOUS
<1>3. Free(c, m) /\ F \subseteq KeysTo(c, m)
  BY DEF Holds
<1>4. ASSUME i > m PROVE Holds(F, w, m) /\ \A j : KeysBut(w, m, j) = KeysBut(c, m, j)
  <2>1. \A k \in 1 .. m : w[k] = c[k]
    BY <1>1, <1>2, <1>4
  <2>2. m \in 1 .. Len(w)
    BY <1>1, <1>2, <1>4
  <2>3. Free(w, m) /\ KeysTo(w, m) = KeysTo(c, m)
    BY <1>3, <2>1 DEF Free, KeysTo
  <2>4. \A j : KeysBut(w, m, j) = KeysBut(c, m, j)
    BY <2>1 DEF KeysBut
  <2> QED
    BY <1>3, <2>2, <2>3, <2>4 DEF Holds
<1>5. ASSUME i <= m
      PROVE  /\ Free(w, m - 1) /\ KeysTo(w, m - 1) = KeysBut(c, m, i)
             /\ \A j \in 1 .. i - 1 : KeysBut(w, m - 1, j) \subseteq KeysBut(c, m, j)
  <2>1. \A k \in 1 .. m - 1 : /\ w[k] = IF k < i THEN c[k] ELSE c[k + 1]
                              /\ k \in 1 .. m /\ k + 1 \in 1 .. m
                              /\ k < i => k # i
                              /\ ~(k < i) => k + 1 # i
    BY <1>1, <1>2, <1>5
  <2>2. Free(w, m - 1)
    BY <1>3, <2>1 DEF Free
  <2>3. KeysTo(w, m - 1) \subseteq KeysBut(c, m, i)
    BY <2>1 DEF KeysTo, KeysBut
  <2>4. ASSUME NEW k \in (1 .. m) \ {i} PROVE c[k] \in KeysTo(w, m - 1)
    <3>1. CASE k < i
      <4>1. k \in 1 .. m - 1 /\ w[k] = c[k]
        BY <1>2, <1>5, <2>1, <3>1
      <4> QED
        BY <4>1 DEF KeysTo
    <3>2. CASE ~(k < i)
      <4>1. PICK x \in 1 .. m - 1 : x = k - 1
        BY <1>2, <2>4, <3>2
      <4>2. ~(x < i) /\ x + 1 = k
        BY <1>2, <2>4, <3>2, <4>1
      <4>3. w[x] = c[k]
        BY <2>1, <4>2
      <4> QED
        BY <4>1, <4>3 DEF KeysTo
    <3> QED
      BY <3>1, <3>2
  <2>5. KeysTo(w, m - 1) = KeysBut(c, m, i)
    BY <2>3, <2>4 DEF KeysBut
  <2>6. ASSUME NEW j \in 1 .. i - 1, NEW k \in (1 .. m - 1) \ {j} PROVE w[k] \in KeysBut(c, m, j)
    <3>1. CASE k < i
      BY <2>1, <2>6, <3>1 DEF KeysBut
    <3>2. CASE ~(k < i)
      <4>1. k + 1 # j /\ k + 1 \in 1 .. m /\ w[k] = c[k + 1]
        BY <1>2, <2>1, <2>6, <3>2
      <4> QED
        BY <4>1 DEF KeysBut
    <3> QED
      BY <3>1, <3>2
  <2>7. \A j \in 1 .. i - 1 : KeysBut(w, m - 1, j) \subseteq KeysBut(c, m, j)
    BY <2>6 DEF KeysBut
  <2> QED
    BY <2>2, <2>5, <2>7
<1> QED
  BY <1>4, <1>5 DEF w

\* A key that cannot go has been tried.
LEMMA CoreSkips ==
  ASSUME NEW F, NEW c \in Seq(Keys), NEW i \in 1 .. Len(c), Core(F, c, i), ~Crashes(F, X!Without(c, i, i))
  PROVE  Core(F, c, i + 1)
<1>1. PICK m \in 1 .. Len(c) : CoreOf(F, c, i, m)
  BY DEF Core
<1>2. Holds(F, c, m) /\ i - 1 <= m /\ Len(c) \in Nat
  BY <1>1 DEF CoreOf
<1>3. Len(X!Without(c, i, i)) = Len(c) - 1
  BY WithoutOne
<1>4. CASE i > m
  <2>1. Holds(F, X!Without(c, i, i), m)
    BY <1>2, <1>4, CutFacts
  <2>2. m \in 1 .. Len(X!Without(c, i, i))
    BY <1>2, <1>3, <1>4
  <2> QED
    BY <2>1, <2>2 DEF Crashes
<1>5. CASE i <= m
  <2>1. /\ Free(X!Without(c, i, i), m - 1)
        /\ KeysTo(X!Without(c, i, i), m - 1) = KeysBut(c, m, i)
    BY <1>2, <1>5, CutFacts
  <2>2. m > 1 => ~(F \subseteq KeysBut(c, m, i))
    <3> SUFFICES ASSUME m > 1, F \subseteq KeysBut(c, m, i) PROVE FALSE
      OBVIOUS
    <3>1. m - 1 \in 1 .. Len(X!Without(c, i, i))
      BY <1>2, <1>3
    <3>2. Holds(F, X!Without(c, i, i), m - 1)
      BY <2>1, <3>1 DEF Holds
    <3> QED
      BY <3>1, <3>2 DEF Crashes
  <2>3. m > 1 => \A j \in 1 .. i + 1 - 1 : ~(F \subseteq KeysBut(c, m, j))
    <3>1. \A j \in 1 .. i + 1 - 1 : j \in 1 .. i - 1 \/ j = i
      OBVIOUS
    <3> QED
      BY <1>1, <2>2, <3>1 DEF CoreOf
  <2>4. m = Len(c) \/ c[m + 1] \in Quits
    BY <1>1, <1>5 DEF CoreOf
  <2>5. i + 1 - 1 <= m
    BY <1>5
  <2>6. CoreOf(F, c, i + 1, m)
    BY <1>2, <2>3, <2>4, <2>5 DEF CoreOf
  <2> QED
    BY <2>6 DEF Core
<1> QED
  BY <1>2, <1>4, <1>5

\* A key that can goes.
LEMMA CoreRemoves ==
  ASSUME NEW F, NEW c \in Seq(Keys), NEW i \in 1 .. Len(c), Core(F, c, i), Crashes(F, X!Without(c, i, i))
  PROVE  Core(F, X!Without(c, i, i), i)
<1> DEFINE w == X!Without(c, i, i)
<1>1. PICK m \in 1 .. Len(c) : CoreOf(F, c, i, m)
  BY DEF Core
<1>2. Holds(F, c, m) /\ i - 1 <= m /\ Len(c) \in Nat /\ m \in Nat /\ i \in Nat
  BY <1>1 DEF CoreOf
<1>3. /\ Len(w) = Len(c) - 1
      /\ \A k \in 1 .. Len(c) - 1 : w[k] = IF k < i THEN c[k] ELSE c[k + 1]
  BY WithoutOne
<1>4. /\ i > m => Holds(F, w, m) /\ \A j : KeysBut(w, m, j) = KeysBut(c, m, j)
      /\ i <= m => /\ Free(w, m - 1)
                   /\ KeysTo(w, m - 1) = KeysBut(c, m, i)
                   /\ \A j \in 1 .. i - 1 : KeysBut(w, m - 1, j) \subseteq KeysBut(c, m, j)
  BY <1>2, CutFacts
<1>5. Crashes(F, w)
  OBVIOUS
<1> HIDE DEF w
<1>6. CASE i > m
  <2>1. m \in 1 .. Len(w)
    BY <1>2, <1>3, <1>6
  <2>2. CoreOf(F, w, i, m)
    BY <1>1, <1>4, <1>6 DEF CoreOf
  <2>3. Core(F, w, i)
    BY <2>1, <2>2 DEF Core
  <2> QED
    BY <2>3 DEF w
<1>7. CASE i <= m
  <2>1. PICK m2 \in 1 .. Len(w) : Holds(F, w, m2)
    BY <1>5 DEF Crashes
  <2>2. m = Len(c) \/ c[m + 1] \in Quits
    BY <1>1, <1>7 DEF CoreOf
  <2>3. m # Len(c) => m \in 1 .. Len(w) /\ w[m] = c[m + 1]
    BY <1>2, <1>3, <1>7
  <2>4. m2 <= m - 1
    <3> SUFFICES ASSUME m2 >= m PROVE FALSE
      BY <1>2
    <3>1. m # Len(c)
      BY <1>2, <1>3
    <3>2. m \in 1 .. m2 /\ w[m] \in Quits
      BY <1>2, <2>2, <2>3, <3>1
    <3> QED
      BY <2>1, <3>2 DEF Holds, Free
  <2>5. m - 1 \in 1 .. Len(w) /\ m - 1 + 1 = m
    BY <1>2, <1>3, <2>4
  <2>6. KeysTo(w, m2) \subseteq KeysTo(w, m - 1)
    BY <1>2, <2>4 DEF KeysTo
  <2>7. Holds(F, w, m - 1)
    BY <1>4, <1>7, <2>1, <2>5, <2>6 DEF Holds
  <2>8. m - 1 = Len(w) \/ w[m - 1 + 1] \in Quits
    BY <1>2, <1>3, <2>2, <2>3, <2>5
  <2>9. m - 1 > 1 => \A j \in 1 .. i - 1 : ~(F \subseteq KeysBut(w, m - 1, j))
    <3>1. m - 1 > 1 => m > 1
      BY <1>2
    <3> QED
      BY <1>1, <1>4, <1>7, <3>1 DEF CoreOf
  <2>10. i - 1 <= m - 1
    BY <1>2, <1>7
  <2>11. CoreOf(F, w, i, m - 1)
    BY <2>7, <2>8, <2>9, <2>10 DEF CoreOf
  <2>12. Core(F, w, i)
    BY <2>5, <2>11 DEF Core
  <2> QED
    BY <2>12 DEF w
<1> QED
  BY <1>2, <1>6, <1>7

\* When every key has been tried none can go.
LEMMA CoreEnds ==
  ASSUME NEW F, NEW c \in Seq(Keys), NEW i \in Nat, Core(F, c, i), i > Len(c) \/ Len(c) = 1
  PROVE  Minimal(F, c)
<1>1. PICK m \in 1 .. Len(c) : CoreOf(F, c, i, m)
  BY DEF Core
<1>2. Holds(F, c, m) /\ i - 1 <= m /\ Len(c) \in Nat /\ m \in Nat
  BY <1>1 DEF CoreOf
<1>3. ASSUME NEW j \in 1 .. Len(c), Crashes(F, X!Without(c, j, j)) PROVE FALSE
  <2>1. PICK m2 \in 1 .. Len(X!Without(c, j, j)) : Holds(F, X!Without(c, j, j), m2)
    BY <1>3 DEF Crashes
  <2>2. Len(X!Without(c, j, j)) = Len(c) - 1
    BY WithoutOne
  <2>3. Len(c) # 1 /\ i > Len(c)
    BY <1>2, <2>1, <2>2
  <2>4. m = Len(c) /\ j \in 1 .. i - 1 /\ j <= m /\ m > 1 /\ m2 <= m - 1
    BY <1>2, <2>1, <2>2, <2>3
  <2>5. KeysTo(X!Without(c, j, j), m2) \subseteq KeysTo(X!Without(c, j, j), m - 1)
    BY <2>1, <2>4 DEF KeysTo
  <2>6. KeysTo(X!Without(c, j, j), m - 1) = KeysBut(c, m, j)
    BY <1>2, <2>4, CutFacts
  <2>7. F \subseteq KeysBut(c, m, j)
    BY <2>1, <2>5, <2>6 DEF Holds
  <2> QED
    BY <1>1, <2>4, <2>7 DEF CoreOf
<1> QED
  BY <1>3 DEF Minimal

-----------------------------------------------------------------------------
(* The trace of a walk.                                                    *)

Steps == [key : Keys, end : X!Ends]

\* Every key of c is one of the walk.
From(st, c) == \A n \in DOMAIN c : \E m \in DOMAIN st : c[n] = st[m].key

\* One key of the walk more.
LEMMA FromAppend ==
  ASSUME NEW st \in Seq(Steps), NEW c \in Seq(Keys), From(st, c), NEW m \in 1 .. Len(st)
  PROVE  Append(c, st[m].key) \in Seq(Keys) /\ From(st, Append(c, st[m].key))
<1> DEFINE key == st[m].key
           d == Append(c, key)
<1>1. key \in Keys /\ m \in DOMAIN st
  <2>1. st[m] \in Steps
    OBVIOUS
  <2> QED
    BY <2>1 DEF Steps
<1>2. /\ d \in Seq(Keys) /\ Len(d) = Len(c) + 1
      /\ \A k \in 1 .. Len(c) : d[k] = c[k]
      /\ d[Len(c) + 1] = key
  <2> HIDE DEF key
  <2> QED
    BY <1>1, AppendProperties
<1> HIDE DEF d
<1>3. ASSUME NEW n \in DOMAIN d PROVE \E x \in DOMAIN st : d[n] = st[x].key
  <2>1. n \in 1 .. Len(c) \/ n = Len(c) + 1
    BY <1>2
  <2>2. CASE n \in 1 .. Len(c)
    <3>1. n \in DOMAIN c
      BY <2>2
    <3> QED
      BY <1>2, <2>2, <3>1 DEF From
  <2>3. CASE n = Len(c) + 1
    BY <1>1, <1>2, <2>3
  <2> QED
    BY <2>1, <2>2, <2>3
<1>4. From(st, d)
  BY <1>3 DEF From
<1> QED
  BY <1>2, <1>4 DEF d

\* The trace has keys of the walk.
LEMMA TraceGives ==
  ASSUME walk.steps \in Seq(Steps), walk.crash \in 0 .. Len(walk.steps)
  PROVE  X!Trace \in Seq(Keys) /\ From(walk.steps, X!Trace)
<1> DEFINE st == walk.steps
           upto == walk.crash
           f == CHOOSE g : g = [n \in 0 .. upto |->
                  IF n = 0 THEN <<>>
                  ELSE IF st[n].key \in Unread THEN g[n - 1]
                  ELSE Append(g[n - 1], st[n].key)]
           step == [p \in (1 .. upto) \X Seq(Keys) |->
                      IF st[p[1]].key \in Unread THEN p[2] ELSE Append(p[2], st[p[1]].key)]
           P == {p \in (0 .. upto) \X Seq(Keys) : From(st, p[2])}
<1>1. X!Trace = f[upto]
  BY DEF X!Trace
<1>2. /\ upto \in Nat /\ Len(st) \in Nat /\ st \in Seq(Steps)
      /\ \A n \in 1 .. upto : n \in 1 .. Len(st) /\ st[n] \in Steps
  OBVIOUS
<1>3. \A n \in 1 .. upto : st[n].key \in Keys
  BY <1>2 DEF Steps
<1> HIDE DEF st, upto
<1>4. \A n \in 1 .. upto, c \in Seq(Keys) :
        step[<<n, c>>] = IF st[n].key \in Unread THEN c ELSE Append(c, st[n].key)
  OBVIOUS
<1>5. step \in [(1 .. upto) \X Seq(Keys) -> Seq(Keys)]
  <2>1. \A n \in 1 .. upto, c \in Seq(Keys) :
          (IF st[n].key \in Unread THEN c ELSE Append(c, st[n].key)) \in Seq(Keys)
    BY <1>3, SMTT(30)
  <2> QED
    BY <2>1
<1> HIDE DEF step
<1>6. f = [n \in 0 .. upto |->
             IF n = 0 THEN <<>>
             ELSE IF st[n].key \in Unread THEN f[n - 1] ELSE Append(f[n - 1], st[n].key)]
  <2>1. PICK g \in [0 .. upto -> Seq(Keys)] :
          \A i \in 0 .. upto : g[i] = IF i = 0 THEN <<>> ELSE step[<<i, g[i - 1]>>]
    <3>1. <<>> \in Seq(Keys)
      OBVIOUS
    <3>2. Scans(upto, Seq(Keys), <<>>, step)
      BY <1>2, <1>5, <3>1, ScanExists
    <3> QED
      BY <3>2 DEF Scans, IsScan
  <2>2. \A i \in 1 .. upto :
          g[i] = IF st[i].key \in Unread THEN g[i - 1] ELSE Append(g[i - 1], st[i].key)
    <3>1. \A i \in 1 .. upto : i \in 0 .. upto /\ i # 0 /\ i - 1 \in 0 .. upto
      BY <1>2
    <3> QED
      BY <1>4, <2>1, <3>1
  <2>3. g = [n \in 0 .. upto |->
               IF n = 0 THEN <<>>
               ELSE IF st[n].key \in Unread THEN g[n - 1] ELSE Append(g[n - 1], st[n].key)]
    <3>1. ASSUME NEW i \in 0 .. upto
          PROVE  g[i] = IF i = 0 THEN <<>>
                        ELSE IF st[i].key \in Unread THEN g[i - 1] ELSE Append(g[i - 1], st[i].key)
      <4>1. i # 0 => i \in 1 .. upto
        BY <1>2
      <4> QED
        BY <2>1, <2>2, <4>1
    <3> QED
      BY <3>1
  <2> QED
    BY <2>3
<1> HIDE DEF f
<1>7. /\ f[0] = <<>>
      /\ \A i \in 1 .. upto :
           f[i] = IF st[i].key \in Unread THEN f[i - 1] ELSE Append(f[i - 1], st[i].key)
  <2>1. 0 \in 0 .. upto /\ \A i \in 1 .. upto : i \in 0 .. upto /\ i # 0
    BY <1>2
  <2> QED
    BY <1>6, <2>1
<1>8. <<0, f[0]>> \in P
  <2>1. <<>> \in Seq(Keys) /\ From(st, <<>>)
    BY DEF From
  <2>2. 0 \in 0 .. upto
    BY <1>2
  <2> QED
    BY <1>7, <2>1, <2>2
<1>9. ASSUME NEW n \in 1 .. upto, <<n - 1, f[n - 1]>> \in P PROVE <<n, f[n]>> \in P
  <2> DEFINE c == f[n - 1]
  <2>1. c \in Seq(Keys) /\ From(st, c)
    BY <1>9
  <2>2. f[n] = IF st[n].key \in Unread THEN c ELSE Append(c, st[n].key)
    BY <1>7
  <2> HIDE DEF c
  <2>3. Append(c, st[n].key) \in Seq(Keys) /\ From(st, Append(c, st[n].key))
    BY <1>2, <2>1, FromAppend
  <2>4. f[n] \in Seq(Keys) /\ From(st, f[n])
    BY <2>1, <2>2, <2>3
  <2>5. n \in 0 .. upto
    BY <1>2
  <2> QED
    BY <2>4, <2>5
<1> HIDE DEF P
<1>10. \A i \in 0 .. upto : <<i, f[i]>> \in P
  BY <1>2, <1>8, <1>9, ScanHolds
<1>11. <<upto, f[upto]>> \in P
  BY <1>2, <1>10
<1> QED
  BY <1>1, <1>11 DEF P, st

\* A part of keys of the walk.
LEMMA FromPart ==
  ASSUME NEW st, NEW s \in Seq(Keys), From(st, s), NEW a \in 1 .. Len(s) + 1, NEW b \in 0 .. Len(s)
  PROVE  X!Without(s, a, b) \in Seq(Keys) /\ From(st, X!Without(s, a, b))
<1>1. /\ X!Without(s, a, b) \in Seq(Keys)
      /\ \A k \in 1 .. Len(X!Without(s, a, b)) : \E m \in 1 .. Len(s) : X!Without(s, a, b)[k] = s[m]
  BY WithoutPart
<1> DEFINE w == X!Without(s, a, b)
<1> HIDE DEF w
<1>2. w \in Seq(Keys) /\ \A k \in 1 .. Len(w) : \E m \in 1 .. Len(s) : w[k] = s[m]
  BY <1>1 DEF w
<1>3. From(st, w)
  BY <1>2 DEF From
<1> QED
  BY <1>2, <1>3 DEF w

-----------------------------------------------------------------------------
(* The invariant.                                                          *)

\* What the minimiser has at its place.
Good(F, st, m) ==
  /\ From(st, m.best)
  /\ m.pc = "full" => m.trace = m.best
  /\ m.pc \in {"chunks", "singles"} => Crashes(F, m.best)
  /\ m.pc = "singles" => m.i >= 1 /\ (m.flaked \/ Core(F, m.best, m.i))
  /\ m.pc = "confirm" => m.flaked \/ ~Crashes(F, m.best) \/ Minimal(F, m.best)

\* What is saved.
Kept(F, st, c, flaked) == Crashes(F, c) /\ From(st, c) /\ (flaked \/ Minimal(F, c))

ExpInv ==
  /\ quest \in [mode : {"random", "semantic"}, mutate : BOOLEAN, fault : Faults]
  /\ kid \in Kid /\ walk \in Walk /\ mini \in Mini /\ saved \in Seq(Keys)
  /\ known \subseteq (SUBSET Keys) \X Keys
  /\ walk.crash <= Len(walk.steps) /\ walk.relaunches <= MaxRelaunches
  /\ walk.pc = "dead" => walk.relaunches < MaxRelaunches
  /\ mini.pc # "off" => walk.pc = "repro" /\ Good(quest.fault, walk.steps, mini)
  /\ saved # <<>> => walk.pc = "done" /\ Kept(quest.fault, walk.steps, saved, mini.flaked)

\* The invariant has what the runs check.
LEMMA ExpSafe ==
  ASSUME ExploreBounds, ExpInv
  PROVE  X!TypeOK /\ X!ReproductionMinimal
<1>1. X!TypeOK
  <2>1. walk \in Walk /\ mini \in Mini /\ kid \in Kid
    BY DEF ExpInv
  <2>2. /\ walk.pc \in {"walk", "dead", "over", "repro", "done"} /\ walk.reason \in X!Reasons
        /\ walk.steps \in Seq([key : Keys, end : X!Ends])
        /\ walk.seen \subseteq SUBSET Keys /\ walk.relaunches \in Nat
    BY <2>1 DEF Walk
  <2>3. /\ mini.pc \in {"off", "full", "chunks", "singles", "confirm"}
        /\ mini.trace \in Seq(Keys) /\ mini.best \in Seq(Keys) /\ mini.flaked \in BOOLEAN
    BY <2>1 DEF Mini
  <2>4. walk.relaunches \in 0 .. MaxRelaunches
    BY <2>2 DEF ExpInv, ExploreBounds
  <2>5. /\ quest \in [mode : {"random", "semantic"}, mutate : BOOLEAN, fault : Faults]
        /\ kid \in [end : X!Ends, got : SUBSET Keys]
        /\ known \subseteq (SUBSET Keys) \X Keys /\ saved \in Seq(Keys)
    BY DEF ExpInv, Kid
  <2> QED
    BY <2>2, <2>3, <2>4, <2>5 DEF X!TypeOK
<1>2. ASSUME saved # <<>>
      PROVE  /\ X!Replayed(saved).end = "crash"
             /\ \A n \in DOMAIN saved : \E m \in DOMAIN walk.steps : saved[n] = walk.steps[m].key
             /\ mini.flaked \/ \A n \in DOMAIN saved : X!Replayed(X!Without(saved, n, n)).end # "crash"
  <2>1. /\ saved \in Seq(Keys) /\ Crashes(quest.fault, saved) /\ From(walk.steps, saved)
        /\ mini.flaked \/ Minimal(quest.fault, saved)
    BY <1>2 DEF ExpInv, Kept
  <2>2. X!Replayed(saved).end = "crash"
    BY <2>1, ReplayedCrashes
  <2>3. ASSUME Minimal(quest.fault, saved), NEW n \in DOMAIN saved
        PROVE  X!Replayed(X!Without(saved, n, n)).end # "crash"
    <3>1. n \in 1 .. Len(saved)
      BY <2>1
    <3>2. X!Without(saved, n, n) \in Seq(Keys)
      BY <2>1, <3>1, WithoutOne
    <3>3. ~Crashes(quest.fault, X!Without(saved, n, n))
      BY <2>3, <3>1 DEF Minimal
    <3> QED
      BY <3>2, <3>3, ReplayedCrashes
  <2> QED
    BY <2>1, <2>2, <2>3 DEF From
<1>3. X!ReproductionMinimal
  BY <1>2 DEF X!ReproductionMinimal
<1> QED
  BY <1>1, <1>3

\* At first.
LEMMA ExpInit ==
  ASSUME ExploreBounds, X!Init
  PROVE  ExpInv
<1>1. X!FreshKid \in Kid
  BY DEF X!FreshKid, Kid, X!Ends
<1>2. <<>> \in Seq(Keys) /\ <<>> \in Seq(Steps)
  OBVIOUS
<1>3. walk \in Walk /\ walk.crash = 0 /\ walk.relaunches = 0 /\ walk.steps = <<>> /\ walk.pc = "walk"
  BY <1>2 DEF X!Init, Walk, X!Reasons, Steps
<1>4. mini \in Mini /\ mini.pc = "off"
  BY <1>2 DEF X!Init, Mini, X!NoMini
<1>5. walk.crash <= Len(walk.steps) /\ walk.relaunches <= MaxRelaunches
  BY <1>3 DEF ExploreBounds
<1> QED
  BY <1>1, <1>2, <1>3, <1>4, <1>5 DEF X!Init, ExpInv

\* While nothing is minimised or saved, a step that keeps it so has little to
\* show.
LEMMA WalkKeeps ==
  ASSUME ExpInv, walk.pc # "repro", walk.pc # "done", quest' = quest, mini' = mini, saved' = saved,
         kid' \in Kid, known' \subseteq (SUBSET Keys) \X Keys, walk' \in Walk,
         walk'.crash <= Len(walk'.steps), walk'.relaunches <= MaxRelaunches,
         walk'.pc = "dead" => walk'.relaunches < MaxRelaunches
  PROVE  ExpInv'
<1>1. mini.pc = "off" /\ saved = <<>>
  BY DEF ExpInv
<1> QED
  BY <1>1 DEF ExpInv, Kid, Walk, Mini

-----------------------------------------------------------------------------
(* The walk.                                                               *)

\* What the walk is made of.
LEMMA WalkFacts ==
  ASSUME ExpInv
  PROVE  /\ quest.fault \in Faults /\ kid \in Kid /\ kid.got \in SUBSET Keys
         /\ walk \in Walk /\ walk.steps \in Seq(Steps) /\ Len(walk.steps) \in Nat
         /\ walk.seen \in SUBSET (SUBSET Keys) /\ walk.relaunches \in Nat /\ walk.crash \in Nat
         /\ walk.crash \in 0 .. Len(walk.steps)
BY DEF ExpInv, Walk, Kid, Steps

\* A budget is used up.
LEMMA OverBudgetKeeps ==
  ASSUME ExpInv, X!OverBudget
  PROVE  ExpInv'
<1>1. PICK r \in X!Exceeded : walk' = [walk EXCEPT !.pc = "over", !.reason = r]
  BY DEF X!OverBudget
<1>2. r \in X!Reasons
  BY <1>1 DEF X!Exceeded, X!Reasons
<1>3. walk' \in Walk
  BY <1>1, <1>2, WalkFacts DEF Walk
<1>4. walk'.pc = "over" /\ walk'.crash = walk.crash /\ walk'.steps = walk.steps
      /\ walk'.relaunches = walk.relaunches
  BY <1>1, WalkFacts DEF Walk
<1>5. /\ walk.pc = "walk" /\ quest' = quest /\ mini' = mini /\ saved' = saved
      /\ kid' = kid /\ known' = known
  BY DEF X!OverBudget
<1>6. kid' \in Kid /\ known' \subseteq (SUBSET Keys) \X Keys
      /\ walk'.crash <= Len(walk'.steps) /\ walk'.relaunches <= MaxRelaunches
  BY <1>4, <1>5 DEF ExpInv
<1> QED
  BY <1>3, <1>4, <1>5, <1>6, WalkKeeps

\* One key more.
LEMMA PressKeeps ==
  ASSUME ExploreBounds, ExpInv, X!Press
  PROVE  ExpInv'
<1>1. PICK k \in IF quest.mode = "random" THEN X!Admitted ELSE X!Candidates :
        LET after == X!Pressed(kid, k)
            n == Len(walk.steps) + 1 IN
        /\ kid' = after
        /\ known' = known \cup {<<kid.got, k>>}
        /\ walk' = [walk EXCEPT
             !.steps = Append(@, [key |-> k, end |-> after.end]),
             !.seen = @ \cup {IF quest.mode = "random" THEN after.got ELSE kid.got},
             !.pc = IF after.end = "none" THEN "walk"
                    ELSE IF quest.mode = "random" THEN "dead" ELSE "over",
             !.crash = IF @ = 0 /\ after.end = "crash" THEN n ELSE @]
  BY DEF X!Press
<1>2. k \in Keys
  BY <1>1 DEF X!Admitted, X!Candidates
<1>3. PICK after \in Kid : after = X!Pressed(kid, k)
  BY <1>2, PressedIsKid, WalkFacts
<1>4. PICK steps \in Seq(Steps) :
        steps = Append(walk.steps, [key |-> k, end |-> after.end]) /\ Len(steps) = Len(walk.steps) + 1
  <2>1. PICK one \in Steps : one = [key |-> k, end |-> after.end]
    BY <1>2 DEF Steps, Kid
  <2>2. walk.steps \in Seq(Steps)
    BY WalkFacts
  <2>3. Append(walk.steps, one) \in Seq(Steps) /\ Len(Append(walk.steps, one)) = Len(walk.steps) + 1
    BY <2>2, AppendProperties
  <2> QED
    BY <2>1, <2>3
<1>5. PICK states \in SUBSET (SUBSET Keys) :
        states = walk.seen \cup {IF quest.mode = "random" THEN after.got ELSE kid.got}
  BY WalkFacts DEF Kid
<1>6. PICK to \in {"walk", "dead", "over"} :
        /\ to = IF after.end = "none" THEN "walk"
                ELSE IF quest.mode = "random" THEN "dead" ELSE "over"
        /\ to = "dead" => quest.mode = "random"
  OBVIOUS
<1>7. PICK crash \in 0 .. Len(walk.steps) + 1 :
        crash = IF walk.crash = 0 /\ after.end = "crash" THEN Len(walk.steps) + 1 ELSE walk.crash
  BY WalkFacts
<1>8. walk' = [walk EXCEPT !.steps = steps, !.seen = states, !.pc = to, !.crash = crash]
  BY <1>1, <1>3, <1>4, <1>5, <1>6, <1>7
<1>9. /\ walk' \in Walk /\ walk'.pc = to /\ walk'.crash = crash /\ walk'.steps = steps
      /\ walk'.relaunches = walk.relaunches
  <2>1. crash \in Nat
    BY <1>7, WalkFacts
  <2> QED
    BY <1>8, <2>1, WalkFacts DEF Walk, Steps
<1>10. quest.mode = "random" => walk.relaunches < MaxRelaunches
  <2>1. X!Exceeded = {"TimeBudget"}
    BY DEF X!Press
  <2>2. "RelaunchBudget" \notin X!Exceeded
    BY <2>1
  <2>3. quest.mode = "random" => ~(walk.relaunches >= MaxRelaunches)
    BY <2>2 DEF X!Exceeded
  <2> QED
    BY <2>3, WalkFacts DEF ExploreBounds
<1>11. kid' \in Kid /\ known' \subseteq (SUBSET Keys) \X Keys
  BY <1>1, <1>2, <1>3, WalkFacts DEF ExpInv
<1>12. walk.pc = "walk" /\ quest' = quest /\ mini' = mini /\ saved' = saved
  BY DEF X!Press
<1>13. walk'.crash <= Len(walk'.steps)
  BY <1>4, <1>7, <1>9, WalkFacts
<1>14. walk'.relaunches <= MaxRelaunches
  BY <1>9 DEF ExpInv
<1> QED
  BY <1>6, <1>9, <1>10, <1>11, <1>12, <1>13, <1>14, WalkKeeps

\* The executor fails.
LEMMA PressFailsKeeps ==
  ASSUME ExpInv, X!PressFails
  PROVE  ExpInv'
<1>1. /\ walk.pc = "walk" /\ quest' = quest /\ mini' = mini /\ saved' = saved
      /\ kid' = kid /\ known' = known
      /\ walk' = [walk EXCEPT !.pc = "over", !.reason = "Failure"]
  BY DEF X!PressFails
<1>2. walk' \in Walk /\ walk'.pc = "over" /\ walk'.crash = walk.crash /\ walk'.steps = walk.steps
      /\ walk'.relaunches = walk.relaunches
  BY <1>1, WalkFacts DEF Walk, X!Reasons
<1>3. kid' \in Kid /\ known' \subseteq (SUBSET Keys) \X Keys
      /\ walk'.crash <= Len(walk'.steps) /\ walk'.relaunches <= MaxRelaunches
  BY <1>1, <1>2 DEF ExpInv
<1> QED
  BY <1>1, <1>2, <1>3, WalkKeeps

\* A child that died is started again: there was budget when it was pressed.
LEMMA RelaunchKeeps ==
  ASSUME ExploreBounds, ExpInv, X!Relaunch
  PROVE  ExpInv'
<1>1. /\ walk.pc = "dead" /\ quest' = quest /\ mini' = mini /\ saved' = saved /\ known' = known
  BY DEF X!Relaunch
<1>2. walk.relaunches < MaxRelaunches /\ MaxRelaunches \in Nat
  BY <1>1 DEF ExpInv, ExploreBounds
<1>3. X!FreshKid \in Kid
  BY DEF X!FreshKid, Kid, X!Ends
<1>4. /\ walk' \in Walk /\ walk'.pc # "dead" /\ walk'.crash = walk.crash /\ walk'.steps = walk.steps
      /\ walk'.relaunches <= MaxRelaunches /\ kid' \in Kid
  <2>1. CASE kid' = X!FreshKid /\ walk' = [walk EXCEPT !.pc = "walk", !.relaunches = @ + 1]
    <3>1. PICK m \in Nat : m = walk.relaunches + 1
      BY WalkFacts
    <3>2. walk' = [walk EXCEPT !.pc = "walk", !.relaunches = m]
      BY <2>1, <3>1
    <3>3. /\ walk' \in Walk /\ walk'.pc = "walk" /\ walk'.crash = walk.crash
          /\ walk'.steps = walk.steps /\ walk'.relaunches = m
      BY <3>2, WalkFacts DEF Walk
    <3>4. m <= MaxRelaunches
      BY <1>2, <3>1, WalkFacts
    <3> QED
      BY <1>3, <2>1, <3>3, <3>4
  <2>2. CASE walk' = [walk EXCEPT !.pc = "over", !.reason = "Failure"] /\ kid' = kid
    <3>1. /\ walk' \in Walk /\ walk'.pc = "over" /\ walk'.crash = walk.crash
          /\ walk'.steps = walk.steps /\ walk'.relaunches = walk.relaunches
      BY <2>2, WalkFacts DEF Walk, X!Reasons
    <3> QED
      BY <1>2, <2>2, <3>1, WalkFacts
  <2> QED
    BY <2>1, <2>2 DEF X!Relaunch
<1>5. walk'.crash <= Len(walk'.steps)
  BY <1>4 DEF ExpInv
<1>6. known' \subseteq (SUBSET Keys) \X Keys
  BY <1>1 DEF ExpInv
<1> QED
  BY <1>1, <1>4, <1>5, <1>6, WalkKeeps

\* Nothing is left to try.
LEMMA WalkEndsKeeps ==
  ASSUME ExpInv, X!WalkEnds
  PROVE  ExpInv'
<1>1. /\ walk.pc = "walk" /\ quest' = quest /\ mini' = mini /\ saved' = saved
      /\ kid' = kid /\ known' = known
      /\ walk' = [walk EXCEPT !.pc = "over"]
  BY DEF X!WalkEnds
<1>2. walk' \in Walk /\ walk'.pc = "over" /\ walk'.crash = walk.crash /\ walk'.steps = walk.steps
      /\ walk'.relaunches = walk.relaunches
  BY <1>1, WalkFacts DEF Walk
<1>3. kid' \in Kid /\ known' \subseteq (SUBSET Keys) \X Keys
      /\ walk'.crash <= Len(walk'.steps) /\ walk'.relaunches <= MaxRelaunches
  BY <1>1, <1>2 DEF ExpInv
<1> QED
  BY <1>1, <1>2, <1>3, WalkKeeps

\* The trace goes to the minimiser.
LEMMA ReportKeeps ==
  ASSUME ExpInv, X!Report
  PROVE  ExpInv'
<1>1. /\ walk.pc = "over" /\ quest' = quest /\ kid' = kid /\ known' = known /\ saved' = saved
      /\ mini.pc = "off" /\ saved = <<>>
  BY DEF X!Report, ExpInv
<1>2. PICK reason \in X!Reasons :
        reason = IF Len(walk.steps) = MaxActions /\ walk.reason = "CleanExit"
                 THEN "ActionBudget" ELSE walk.reason
  BY WalkFacts DEF Walk, X!Reasons
<1>3. CASE /\ walk' = [walk EXCEPT !.pc = "repro", !.reason = reason]
           /\ mini' = [X!NoMini EXCEPT !.pc = "full", !.trace = X!Trace, !.best = X!Trace]
  <2>1. PICK trace \in Seq(Keys) : trace = X!Trace /\ From(walk.steps, trace)
    BY TraceGives, WalkFacts
  <2>2. /\ mini' \in Mini /\ mini'.pc = "full" /\ mini'.trace = trace /\ mini'.best = trace
    <3>1. mini' = [X!NoMini EXCEPT !.pc = "full", !.trace = trace, !.best = trace]
      BY <1>3, <2>1
    <3>2. X!NoMini \in Mini
      <4>1. <<>> \in Seq(Keys)
        OBVIOUS
      <4> QED
        BY <4>1 DEF X!NoMini, Mini
    <3> HIDE DEF X!NoMini
    <3> QED
      BY <2>1, <3>1, <3>2 DEF Mini
  <2>3. /\ walk' \in Walk /\ walk'.pc = "repro" /\ walk'.crash = walk.crash /\ walk'.steps = walk.steps
        /\ walk'.relaunches = walk.relaunches
    BY <1>3, WalkFacts DEF Walk
  <2>4. Good(quest'.fault, walk'.steps, mini')
    BY <2>1, <2>2, <2>3 DEF Good
  <2> QED
    BY <1>1, <2>2, <2>3, <2>4 DEF ExpInv, Kid
<1>4. CASE walk' = [walk EXCEPT !.pc = "done", !.reason = reason] /\ mini' = mini
  <2>1. /\ walk' \in Walk /\ walk'.pc = "done" /\ walk'.crash = walk.crash /\ walk'.steps = walk.steps
        /\ walk'.relaunches = walk.relaunches
    BY <1>4, WalkFacts DEF Walk
  <2> QED
    BY <1>1, <1>4, <2>1 DEF ExpInv, Kid, Mini
<1>5. \/ /\ walk' = [walk EXCEPT !.pc = "repro", !.reason = reason]
         /\ mini' = [X!NoMini EXCEPT !.pc = "full", !.trace = X!Trace, !.best = X!Trace]
      \/ walk' = [walk EXCEPT !.pc = "done", !.reason = reason] /\ mini' = mini
  BY <1>2 DEF X!Report
<1> QED
  BY <1>3, <1>4, <1>5

-----------------------------------------------------------------------------
(* The minimiser.                                                          *)

\* What a step of the minimiser leaves to show.
LEMMA MiniKeeps ==
  ASSUME ExpInv, X!StillMini, kid' \in Kid, mini' \in Mini,
         Good(quest.fault, walk.steps, mini')
  PROVE  ExpInv'
<1>1. /\ walk.pc = "repro" /\ quest' = quest /\ walk' = walk /\ known' = known /\ saved' = saved
      /\ saved = <<>>
  BY DEF X!StillMini, ExpInv
<1>2. Good(quest'.fault, walk'.steps, mini')
  BY <1>1
<1> QED
  BY <1>1, <1>2 DEF ExpInv, Kid, Walk, Mini

\* What one attempt comes to.
LEMMA AttemptGives ==
  ASSUME NEW c \in Seq(Keys), NEW next, X!Attempt(c, next), mini \in Mini
  PROVE  /\ kid' \in Kid
         /\ \/ Crashes(quest.fault, c) /\ kid'.end = "crash" /\ mini' = next[TRUE]
            \/ ~Crashes(quest.fault, c) /\ kid'.end # "crash" /\ mini' = next[FALSE]
            \/ kid'.end # "crash" /\ ~mini.flaked /\ mini' = [next[FALSE] EXCEPT !.flaked = TRUE]
<1>1. PICK kd \in Kid : kd = X!Replayed(c) /\ (kd.end = "crash" <=> Crashes(quest.fault, c))
  BY ReplayedCrashes
<1>2. CASE kid' = X!Replayed(c) /\ mini' = next[X!SameFailure(X!Replayed(c).end)]
  <2>1. kid' = kd /\ mini' = next[kd.end = "crash"]
    BY <1>1, <1>2 DEF X!SameFailure
  <2>2. CASE kd.end = "crash"
    <3>1. (kd.end = "crash") = TRUE
      BY <2>2
    <3> QED
      BY <1>1, <2>1, <2>2, <3>1
  <2>3. CASE kd.end # "crash"
    <3>1. (kd.end = "crash") = FALSE
      BY <2>3
    <3> QED
      BY <1>1, <2>1, <2>3, <3>1
  <2> QED
    BY <2>2, <2>3
<1>3. CASE /\ ~mini.flaked /\ kid' = [X!FreshKid EXCEPT !.end = "exit"]
           /\ mini' = [next[FALSE] EXCEPT !.flaked = TRUE]
  <2>1. kid' \in Kid /\ kid'.end # "crash"
    BY <1>3 DEF X!FreshKid, Kid, X!Ends
  <2> QED
    BY <1>3, <2>1
<1> QED
  BY <1>2, <1>3 DEF X!Attempt

\* What the minimiser is made of.
LEMMA MiniFacts ==
  ASSUME ExpInv
  PROVE  /\ mini \in Mini /\ mini.trace \in Seq(Keys) /\ mini.best \in Seq(Keys) /\ Len(mini.best) \in Nat
         /\ mini.n \in Nat \ {0} /\ mini.i \in Nat /\ mini.flaked \in BOOLEAN
         /\ mini.pc # "off" => Good(quest.fault, walk.steps, mini)
BY DEF ExpInv, Mini

\* The whole trace.
LEMMA FullTestKeeps ==
  ASSUME ExpInv, X!FullTest
  PROVE  ExpInv'
<1> DEFINE next == [ok \in BOOLEAN |-> [mini EXCEPT !.pc = IF ok THEN "chunks" ELSE "confirm"]]
           best == mini.best
<1>1. mini.pc = "full" /\ X!StillMini /\ X!Attempt(mini.trace, next)
  BY DEF X!FullTest
<1>2. /\ mini \in Mini /\ best \in Seq(Keys) /\ mini.trace = best /\ From(walk.steps, best)
  BY <1>1, MiniFacts DEF Good
<1>3. next[TRUE] = [mini EXCEPT !.pc = "chunks"] /\ next[FALSE] = [mini EXCEPT !.pc = "confirm"]
  OBVIOUS
<1> HIDE DEF next
<1>4. /\ kid' \in Kid
      /\ \/ Crashes(quest.fault, best) /\ mini' = [mini EXCEPT !.pc = "chunks"]
         \/ ~Crashes(quest.fault, best) /\ mini' = [mini EXCEPT !.pc = "confirm"]
         \/ mini' = [[mini EXCEPT !.pc = "confirm"] EXCEPT !.flaked = TRUE]
  <2>1. X!Attempt(best, next)
    BY <1>1, <1>2
  <2> HIDE DEF best
  <2>2. best \in Seq(Keys) /\ mini \in Mini
    BY <1>2
  <2> QED
    BY <1>3, <2>1, <2>2, AttemptGives, ZenonT(30)
<1>5. mini' \in Mini /\ Good(quest.fault, walk.steps, mini')
  <2>1. CASE Crashes(quest.fault, best) /\ mini' = [mini EXCEPT !.pc = "chunks"]
    <3>1. mini' \in Mini /\ mini'.pc = "chunks" /\ mini'.best = best
      BY <1>2, <2>1 DEF Mini
    <3> QED
      BY <1>2, <2>1, <3>1 DEF Good
  <2>2. CASE ~Crashes(quest.fault, best) /\ mini' = [mini EXCEPT !.pc = "confirm"]
    <3>1. mini' \in Mini /\ mini'.pc = "confirm" /\ mini'.best = best
      BY <1>2, <2>2 DEF Mini
    <3> QED
      BY <1>2, <2>2, <3>1 DEF Good
  <2>3. CASE mini' = [[mini EXCEPT !.pc = "confirm"] EXCEPT !.flaked = TRUE]
    <3>1. mini' \in Mini /\ mini'.pc = "confirm" /\ mini'.best = best /\ mini'.flaked
      BY <1>2, <2>3 DEF Mini
    <3> QED
      BY <1>2, <3>1 DEF Good
  <2> QED
    BY <1>4, <2>1, <2>2, <2>3
<1> QED
  BY <1>1, <1>4, <1>5, MiniKeeps

\* The chunks of a best one.
LEMMA ChunkGives ==
  ASSUME NEW len \in Nat, NEW n \in Nat \ {0}, NEW i \in Nat, NEW chunk,
         chunk = (len + n - 1) \div n, i * chunk < len
  PROVE  i * chunk + 1 \in 1 .. len + 1 /\ X!SmallerOf((i + 1) * chunk, len) \in 0 .. len
<1>1. PICK top \in Nat : top = len + n - 1
  OBVIOUS
<1>2. chunk \in Nat
  BY <1>1
<1>3. i * chunk \in Nat /\ (i + 1) * chunk \in Nat
  BY <1>2
<1>4. PICK x \in Nat, y \in Nat : x = i * chunk /\ y = (i + 1) * chunk
  BY <1>3
<1>5. x + 1 \in 1 .. len + 1 /\ X!SmallerOf(y, len) \in 0 .. len
  BY <1>4 DEF X!SmallerOf
<1> QED
  BY <1>4, <1>5

\* One complement.
LEMMA TryChunkKeeps ==
  ASSUME ExpInv, X!TryChunk
  PROVE  ExpInv'
<1> DEFINE best == mini.best
           candidate == X!Without(best, mini.i * X!Chunk + 1,
                                  X!SmallerOf((mini.i + 1) * X!Chunk, Len(best)))
           next == [ok \in BOOLEAN |->
                      IF ok THEN [mini EXCEPT !.best = candidate, !.n = X!LargerOf(@ - 1, 2), !.i = 0]
                      ELSE [mini EXCEPT !.i = @ + 1]]
<1>1. X!StillMini /\ mini.pc = "chunks" /\ mini.i * X!Chunk < Len(best) /\ X!Attempt(candidate, next)
  BY DEF X!TryChunk
<1>2. /\ mini \in Mini /\ best \in Seq(Keys) /\ Len(best) \in Nat /\ mini.n \in Nat \ {0} /\ mini.i \in Nat
      /\ From(walk.steps, best) /\ Crashes(quest.fault, best)
  BY <1>1, MiniFacts DEF Good
<1>3. candidate \in Seq(Keys) /\ From(walk.steps, candidate)
  <2>1. /\ mini.i * X!Chunk + 1 \in 1 .. Len(best) + 1
        /\ X!SmallerOf((mini.i + 1) * X!Chunk, Len(best)) \in 0 .. Len(best)
    BY <1>1, <1>2, ChunkGives DEF X!Chunk
  <2> QED
    BY <1>2, <2>1, FromPart
<1>4. PICK m \in Nat \ {0} : m = X!LargerOf(mini.n - 1, 2)
  BY <1>2 DEF X!LargerOf
<1>5. PICK j \in Nat : j = mini.i + 1
  BY <1>2
<1> HIDE DEF candidate
<1>6. /\ next[TRUE] = [mini EXCEPT !.best = candidate, !.n = m, !.i = 0]
      /\ next[FALSE] = [mini EXCEPT !.i = j]
  BY <1>4, <1>5
<1> HIDE DEF next
<1>7. /\ kid' \in Kid
      /\ \/ Crashes(quest.fault, candidate) /\ mini' = [mini EXCEPT !.best = candidate, !.n = m, !.i = 0]
         \/ mini' = [mini EXCEPT !.i = j]
         \/ mini' = [[mini EXCEPT !.i = j] EXCEPT !.flaked = TRUE]
  BY <1>1, <1>2, <1>3, <1>6, AttemptGives
<1>8. mini' \in Mini /\ Good(quest.fault, walk.steps, mini')
  <2>1. CASE Crashes(quest.fault, candidate) /\ mini' = [mini EXCEPT !.best = candidate, !.n = m, !.i = 0]
    <3>1. mini' \in Mini /\ mini'.pc = "chunks" /\ mini'.best = candidate
      BY <1>1, <1>2, <1>3, <2>1 DEF Mini
    <3> QED
      BY <1>3, <2>1, <3>1 DEF Good
  <2>2. CASE mini' = [mini EXCEPT !.i = j]
    <3>1. mini' \in Mini /\ mini'.pc = "chunks" /\ mini'.best = best
      BY <1>1, <1>2, <2>2 DEF Mini
    <3> QED
      BY <1>2, <3>1 DEF Good
  <2>3. CASE mini' = [[mini EXCEPT !.i = j] EXCEPT !.flaked = TRUE]
    <3>1. mini' \in Mini /\ mini'.pc = "chunks" /\ mini'.best = best
      BY <1>1, <1>2, <2>3 DEF Mini
    <3> QED
      BY <1>2, <3>1 DEF Good
  <2> QED
    BY <1>7, <2>1, <2>2, <2>3
<1> QED
  BY <1>1, <1>7, <1>8, MiniKeeps

\* Finer chunks, or single keys.
LEMMA RefineKeeps ==
  ASSUME ExpInv, X!Refine
  PROVE  ExpInv'
<1> DEFINE best == mini.best
<1>1. X!StillMini /\ mini.pc = "chunks" /\ kid' = kid
  BY DEF X!Refine
<1>2. /\ mini \in Mini /\ best \in Seq(Keys) /\ Len(best) \in Nat /\ mini.n \in Nat \ {0} /\ kid' \in Kid
      /\ From(walk.steps, best) /\ Crashes(quest.fault, best)
  BY <1>1, MiniFacts DEF Good, ExpInv
<1>3. PICK finer \in Nat : finer = X!SmallerOf(2 * mini.n, Len(best))
  BY <1>2 DEF X!SmallerOf
<1>4. \/ mini.n < Len(best) /\ finer < Len(best) /\ mini' = [mini EXCEPT !.n = finer, !.i = 0]
      \/ mini' = [mini EXCEPT !.pc = "singles", !.i = 1]
  BY <1>3 DEF X!Refine
<1>5. mini' \in Mini /\ Good(quest.fault, walk.steps, mini')
  <2>1. CASE mini.n < Len(best) /\ mini' = [mini EXCEPT !.n = finer, !.i = 0]
    <3>1. finer # 0
      BY <1>2, <1>3, <2>1 DEF X!SmallerOf
    <3>2. mini' \in Mini /\ mini'.pc = "chunks" /\ mini'.best = best
      BY <1>1, <1>2, <2>1, <3>1 DEF Mini
    <3> QED
      BY <1>2, <3>2 DEF Good
  <2>2. CASE mini' = [mini EXCEPT !.pc = "singles", !.i = 1]
    <3>1. mini' \in Mini /\ mini'.pc = "singles" /\ mini'.best = best /\ mini'.i = 1
      BY <1>2, <2>2 DEF Mini
    <3>2. Core(quest.fault, best, 1)
      BY <1>2, CoreStarts
    <3> QED
      BY <1>2, <3>1, <3>2 DEF Good
  <2> QED
    BY <1>4, <2>1, <2>2
<1> QED
  BY <1>1, <1>2, <1>5, MiniKeeps

\* One key: it goes, or it cannot.
LEMMA TrySingleKeeps ==
  ASSUME ExpInv, X!TrySingle
  PROVE  ExpInv'
<1> DEFINE best == mini.best
           candidate == X!Without(best, mini.i, mini.i)
           next == [ok \in BOOLEAN |->
                      [mini EXCEPT !.best = IF ok THEN candidate ELSE @, !.i = X!NextSingle(@, ok)]]
<1>1. X!StillMini /\ mini.pc = "singles" /\ mini.i <= Len(best) /\ X!Attempt(candidate, next)
  BY DEF X!TrySingle
<1> HIDE DEF candidate, next
<1>2. /\ mini \in Mini /\ best \in Seq(Keys) /\ Len(best) \in Nat /\ mini.i \in 1 .. Len(best)
      /\ From(walk.steps, best) /\ Crashes(quest.fault, best)
      /\ mini.flaked \/ Core(quest.fault, best, mini.i)
  <2>1. /\ mini.i \in Nat /\ Len(best) \in Nat /\ mini \in Mini /\ best \in Seq(Keys)
        /\ Good(quest.fault, walk.steps, mini)
    BY <1>1, MiniFacts
  <2> QED
    BY <1>1, <2>1 DEF Good
<1>3. candidate \in Seq(Keys) /\ From(walk.steps, candidate)
  <2>1. mini.i \in 1 .. Len(best) + 1 /\ mini.i \in 0 .. Len(best)
    BY <1>2
  <2> QED
    BY <1>2, <2>1, FromPart DEF candidate
<1>4. /\ Crashes(quest.fault, candidate) => mini.flaked \/ Core(quest.fault, candidate, mini.i)
      /\ ~Crashes(quest.fault, candidate) => mini.flaked \/ Core(quest.fault, best, mini.i + 1)
  BY <1>2, CoreRemoves, CoreSkips DEF candidate
<1>5. PICK j \in Nat : j = mini.i + 1
  BY <1>2
<1>6. /\ next[TRUE] = [mini EXCEPT !.best = candidate]
      /\ next[FALSE] = [mini EXCEPT !.i = j]
  <2>1. next[TRUE] = [mini EXCEPT !.best = candidate, !.i = mini.i]
    BY DEF next, X!NextSingle
  <2>2. [mini EXCEPT !.best = candidate, !.i = mini.i] = [mini EXCEPT !.best = candidate]
    <3> HIDE DEF best
    <3> QED
      BY <1>2 DEF Mini
  <2>3. next[FALSE] = [mini EXCEPT !.best = best, !.i = j]
    BY <1>5 DEF next, X!NextSingle
  <2>4. [mini EXCEPT !.best = mini.best, !.i = j] = [mini EXCEPT !.i = j]
    <3> HIDE DEF best
    <3> QED
      BY <1>2 DEF Mini
  <2> QED
    BY <2>1, <2>2, <2>3, <2>4
<1>7. /\ kid' \in Kid
      /\ \/ Crashes(quest.fault, candidate) /\ mini' = [mini EXCEPT !.best = candidate]
         \/ ~Crashes(quest.fault, candidate) /\ mini' = [mini EXCEPT !.i = j]
         \/ mini' = [[mini EXCEPT !.i = j] EXCEPT !.flaked = TRUE]
  BY <1>1, <1>2, <1>3, <1>6, AttemptGives, ZenonT(30)
<1>8. mini' \in Mini /\ Good(quest.fault, walk.steps, mini')
  <2>1. CASE Crashes(quest.fault, candidate) /\ mini' = [mini EXCEPT !.best = candidate]
    <3>1. /\ mini' \in Mini /\ mini'.pc = "singles" /\ mini'.best = candidate /\ mini'.i = mini.i
          /\ mini'.i >= 1
      BY <1>1, <1>2, <1>3, <2>1 DEF Mini
    <3>2. mini'.flaked = mini.flaked
      BY <1>2, <2>1 DEF Mini
    <3> QED
      BY <1>3, <1>4, <2>1, <3>1, <3>2 DEF Good
  <2>2. CASE ~Crashes(quest.fault, candidate) /\ mini' = [mini EXCEPT !.i = j]
    <3>1. mini' \in Mini /\ mini'.pc = "singles" /\ mini'.best = best /\ mini'.i = j /\ j >= 1
      BY <1>1, <1>2, <1>5, <2>2 DEF Mini
    <3>2. mini'.flaked = mini.flaked
      BY <1>2, <2>2 DEF Mini
    <3> QED
      BY <1>2, <1>4, <1>5, <2>2, <3>1, <3>2 DEF Good
  <2>3. CASE mini' = [[mini EXCEPT !.i = j] EXCEPT !.flaked = TRUE]
    <3>1. mini' \in Mini /\ mini'.pc = "singles" /\ mini'.best = best /\ mini'.i = j
      BY <1>1, <1>2, <2>3 DEF Mini
    <3>2. mini'.flaked /\ j >= 1
      BY <1>2, <1>5, <2>3 DEF Mini
    <3> QED
      BY <1>2, <3>1, <3>2 DEF Good
  <2> QED
    BY <1>7, <2>1, <2>2, <2>3
<1> QED
  BY <1>1, <1>7, <1>8, MiniKeeps

\* Every key has been tried.
LEMMA SinglesDoneKeeps ==
  ASSUME ExpInv, X!SinglesDone
  PROVE  ExpInv'
<1> DEFINE best == mini.best
<1>1. /\ X!StillMini /\ mini.pc = "singles" /\ kid' = kid /\ mini' = [mini EXCEPT !.pc = "confirm"]
      /\ mini.i > Len(best) \/ Len(best) = 1
  BY DEF X!SinglesDone
<1>2. /\ mini \in Mini /\ best \in Seq(Keys) /\ mini.i \in Nat /\ kid' \in Kid
      /\ From(walk.steps, best)
      /\ mini.flaked \/ Core(quest.fault, best, mini.i)
  BY <1>1, MiniFacts DEF Good, ExpInv
<1>3. mini.flaked \/ Minimal(quest.fault, best)
  BY <1>1, <1>2, CoreEnds
<1>4. mini' \in Mini /\ mini'.pc = "confirm" /\ mini'.best = best
  BY <1>1, <1>2 DEF Mini
<1>5. mini'.flaked = mini.flaked
  BY <1>1, <1>2 DEF Mini
<1>6. Good(quest.fault, walk.steps, mini')
  BY <1>2, <1>3, <1>4, <1>5 DEF Good
<1> QED
  BY <1>1, <1>2, <1>4, <1>6, MiniKeeps

\* What is confirmed is saved.
LEMMA ConfirmKeeps ==
  ASSUME ExpInv, X!Confirm
  PROVE  ExpInv'
<1> DEFINE best == mini.best
           next == [ok \in BOOLEAN |-> [mini EXCEPT !.pc = "off"]]
<1>1. /\ walk.pc = "repro" /\ mini.pc = "confirm" /\ X!Attempt(best, next)
      /\ saved' = IF mini'.flaked = mini.flaked /\ X!SameFailure(kid'.end) THEN best ELSE <<>>
      /\ walk' = [walk EXCEPT !.pc = "done"] /\ quest' = quest /\ known' = known
  BY DEF X!Confirm
<1>2. /\ mini \in Mini /\ best \in Seq(Keys) /\ From(walk.steps, best)
      /\ mini.flaked \/ ~Crashes(quest.fault, best) \/ Minimal(quest.fault, best)
  BY <1>1, MiniFacts DEF Good
<1>3. next[TRUE] = [mini EXCEPT !.pc = "off"] /\ next[FALSE] = [mini EXCEPT !.pc = "off"]
  OBVIOUS
<1> HIDE DEF next
<1>4. /\ kid' \in Kid
      /\ \/ Crashes(quest.fault, best) /\ mini' = [mini EXCEPT !.pc = "off"]
         \/ kid'.end # "crash" /\ mini' = [mini EXCEPT !.pc = "off"]
         \/ kid'.end # "crash" /\ mini' = [[mini EXCEPT !.pc = "off"] EXCEPT !.flaked = TRUE]
  BY <1>1, <1>2, <1>3, AttemptGives
<1>5. mini' \in Mini /\ mini'.pc = "off"
  BY <1>2, <1>4 DEF Mini
<1>6. saved' \in Seq(Keys)
  <2>1. <<>> \in Seq(Keys)
    OBVIOUS
  <2> QED
    BY <1>1, <1>2, <2>1
<1>7. /\ walk' \in Walk /\ walk'.pc = "done" /\ walk'.crash = walk.crash /\ walk'.steps = walk.steps
      /\ walk'.relaunches = walk.relaunches
  BY <1>1, WalkFacts DEF Walk
<1>8. saved' # <<>> => Kept(quest.fault, walk.steps, saved', mini'.flaked)
  <2> SUFFICES ASSUME saved' # <<>> PROVE Kept(quest.fault, walk.steps, saved', mini'.flaked)
    OBVIOUS
  <2>1. saved' = best /\ kid'.end = "crash"
    BY <1>1 DEF X!SameFailure
  <2>2. Crashes(quest.fault, best) /\ mini' = [mini EXCEPT !.pc = "off"]
    BY <1>4, <2>1
  <2>3. mini'.flaked = mini.flaked
    BY <1>2, <2>2 DEF Mini
  <2> QED
    BY <1>2, <2>1, <2>2, <2>3 DEF Kept
<1>9. saved' # <<>> => Kept(quest'.fault, walk'.steps, saved', mini'.flaked)
  BY <1>1, <1>7, <1>8
<1> QED
  BY <1>1, <1>4, <1>5, <1>6, <1>7, <1>9 DEF ExpInv, Kid

\* Every step keeps the invariant.
LEMMA ExpNext ==
  ASSUME ExploreBounds, ExpInv, [X!Next]_X!exploreVars
  PROVE  ExpInv'
<1>1. CASE UNCHANGED X!exploreVars
  BY <1>1 DEF X!exploreVars, ExpInv, Kid, Walk, Mini
<1>2. CASE X!Next
  BY <1>2, OverBudgetKeeps, PressKeeps, PressFailsKeeps, RelaunchKeeps, WalkEndsKeeps, ReportKeeps,
     FullTestKeeps, TryChunkKeeps, RefineKeeps, TrySingleKeeps, SinglesDoneKeeps, ConfirmKeeps DEF X!Next
<1> QED
  BY <1>1, <1>2

\* Exploration: the random walk relaunches its child no more often than its
\* budget, and a saved reproduction crashes a fresh child, has only keys of
\* the walk and, unless a restart failed, none that can be left out.
THEOREM ExplorationSafe ==
  ASSUME ExploreBounds
  PROVE  X!Spec => [](X!TypeOK /\ X!ReproductionMinimal)
<1>1. X!Init => ExpInv
  BY ExpInit
<1>2. ExpInv /\ [X!Next]_X!exploreVars => ExpInv'
  BY ExpNext
<1>3. ExpInv => X!TypeOK /\ X!ReproductionMinimal
  BY ExpSafe
<1> QED
  BY <1>1, <1>2, <1>3, PTL DEF X!Spec
=============================================================================
