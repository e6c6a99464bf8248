--------------------------- MODULE RunStoreProofs ---------------------------
(***************************************************************************)
(* For any bounds, capacity and water marks, with write errors, torn lines *)
(* and crashes: whatever goes live does so under an epoch greater than     *)
(* every earlier one; the store's state has its type, a closed ledger      *)
(* stays as it is, what a persist or close called durable is readable      *)
(* unless it was lost in a named way, losses are declared, and (as long as *)
(* nobody resumes a run that is still open) a sequence number names one    *)
(* line.                                                                   *)
(***************************************************************************)
EXTENDS RunStore, SequenceTheorems, ScanLemmas, TLAPS

\* The live context and the manifest never disagree on the epoch, a restored
\* context is exactly one ahead, and a closed manifest belongs to a closed run
\* that nobody is closing (so no rolled-back close can reopen it).
EpochInv ==
  /\ {"up", "closed", "epoch"} \subseteq DOMAIN mem
  /\ "manifest" \in DOMAIN disk
  /\ lived \in Nat
  /\ mem.up => mem.epoch = lived
  /\ ~mem.up => stage = "idle" /\ job = "none"
  /\ disk.manifest # None => disk.manifest.epoch = lived
  /\ disk.manifest # None /\ disk.manifest.closed /\ mem.up
       => mem.closed /\ job # "close"
  /\ job = "resume" => /\ back.epoch = lived + 1 /\ back.up
                       /\ {"up", "closed", "epoch"} \subseteq DOMAIN back


\* A step that leaves the epochs alone, reopens nothing and starts neither a
\* close nor a resume.
Still ==
  /\ DOMAIN mem' = DOMAIN mem /\ DOMAIN disk' = DOMAIN disk
  /\ mem'.up = mem.up /\ mem'.epoch = mem.epoch /\ mem'.closed = mem.closed
  /\ disk'.manifest = disk.manifest /\ lived' = lived
  /\ \/ job' = job /\ back' = back
     \/ job' \notin {"close", "resume"}
  /\ mem.up \/ UNCHANGED <<job, stage>>

\* What such a step owes: the invariant, and what EpochAdvances asks of it.
LEMMA StillKeeps == EpochInv /\ Still => EpochInv' /\ EpochStep
  BY DEF EpochInv, Still, EpochStep

\* Pushing a record changes the window only (TransactionLedger::push).
LEMMA PushKeeps ==
  ASSUME NEW n
  PROVE  LET c == Push(n) IN
         /\ DOMAIN c = DOMAIN mem
         /\ "up" \in DOMAIN mem => c.up = mem.up
         /\ "epoch" \in DOMAIN mem => c.epoch = mem.epoch
         /\ "closed" \in DOMAIN mem => c.closed = mem.closed
  BY DEF Push

\* Writing a line changes the ledger only (write_all of the writer thread).
LEMMA AppendKeeps ==
  ASSUME NEW n, "manifest" \in DOMAIN disk
  PROVE  \A d \in {disk, Appended(n)} \cup AppendedPart(n) :
           DOMAIN d = DOMAIN disk /\ d.manifest = disk.manifest
<1>1. DOMAIN Appended(n) = DOMAIN disk /\ Appended(n).manifest = disk.manifest
  BY DEF Appended
<1>2. ASSUME NEW d \in AppendedPart(n)
      PROVE  DOMAIN d = DOMAIN disk /\ d.manifest = disk.manifest
  BY <1>1, <1>2 DEF AppendedPart
<1> QED
  BY <1>1, <1>2

\* The invariant holds of a fresh run (RunContext::ephemeral).
LEMMA EpochInvInit == Init => EpochInv
  BY DEF Init, EpochInv, NoRun

\* Recording, submitting and the writer thread leave the epochs alone.
LEMMA RecordingStill ==
  ASSUME EpochInv, Record \/ Submit \/ Writer
  PROVE  Still
<1> USE DEF EpochInv, Still
<1>1. CASE Record
  BY <1>1, PushKeeps DEF Record, Idle
<1>2. CASE Submit
  BY <1>2 DEF Submit, SubmitRefused, SubmitAttempt, TrySend, SubmitWait,
              SubmitRetry, SubmitTimeout, GiveUp, hist
<1>3. CASE Writer
  <2>1. CASE WriterTake
    BY <2>1 DEF WriterTake, hist
  <2>2. CASE WriterOk \/ WriterFail
    BY <2>2, AppendKeeps DEF WriterOk, WriterFail
  <2> QED
    BY <1>3, <2>1, <2>2 DEF Writer
<1> QED
  BY <1>1, <1>2, <1>3

\* Every step of the store preserves the invariant and is an EpochStep.
LEMMA EpochInvNext == EpochInv /\ [Next]_vars => EpochInv' /\ [EpochStep]_vars
<1> SUFFICES ASSUME EpochInv, [Next]_vars
             PROVE  EpochInv' /\ [EpochStep]_vars
  OBVIOUS
<1>1. CASE Record \/ Submit \/ Writer
  BY <1>1, RecordingStill, StillKeeps
<1>2. CASE PersistBegin
  <2>1. Still
    BY <1>2 DEF PersistBegin, Idle, Still, EpochInv, hist
  <2> QED
    BY <2>1, StillKeeps
<1>3. CASE CloseBegin
  BY <1>3 DEF CloseBegin, Idle, EpochInv, EpochStep, hist
<1>4. CASE PromoteLedger
  <2>1. Still
    BY <1>4 DEF PromoteLedger, Fails, Still, EpochInv, hist
  <2> QED
    BY <2>1, StillKeeps
<1>5. CASE FlushFiles
  BY <1>5 DEF FlushFiles, Fails, Succeeds, Reopened, EpochInv, EpochStep, hist
<1>6. CASE FlushDrain
  BY <1>6 DEF FlushDrain, Fails, Reopened, EpochInv, EpochStep, hist
<1>7. CASE WriteManifest
  <2>1. mem.up
    BY <1>7 DEF WriteManifest, EpochInv
  <2>2. CASE disk' = [disk EXCEPT !.manifest = CurrentManifest] /\ Succeeds
             /\ UNCHANGED mem
    <3>1. disk'.manifest.closed = mem.closed /\ disk'.manifest.epoch = mem.epoch
          /\ "manifest" \in DOMAIN disk'
      BY <2>2 DEF CurrentManifest, EpochInv
    <3> QED
      BY <2>1, <2>2, <3>1 DEF Succeeds, EpochInv, EpochStep
  <2>3. CASE Fails /\ mem' = Reopened /\ UNCHANGED <<disk, excused>>
    BY <2>1, <2>3 DEF Fails, Reopened, EpochInv, EpochStep
  <2> QED
    BY <1>7, <2>2, <2>3 DEF WriteManifest
<1>8. CASE RecordLaunch
  BY <1>8 DEF RecordLaunch, Idle, CurrentManifest, EpochInv, EpochStep, hist
<1>9. CASE Crash
  <2>1. DOMAIN disk' = DOMAIN disk /\ disk'.manifest = disk.manifest
    BY <1>9, AppendKeeps DEF Crash, EpochInv
  <2> QED
    BY <1>9, <2>1 DEF Crash, NoRun, EpochInv, EpochStep
<1>10. CASE Resume
  <2>1. Restored.epoch = lived + 1 /\ Restored.up
        /\ {"up", "closed", "epoch"} \subseteq DOMAIN Restored
    BY <1>10 DEF Resume, Restored, EpochInv
  <2> QED
    BY <1>10, <2>1 DEF Resume, Swap, ReopenedManifest, EpochInv, EpochStep
<1>11. CASE ResumeBegin
  <2>1. Restored.epoch = lived + 1 /\ Restored.up
        /\ {"up", "closed", "epoch"} \subseteq DOMAIN Restored
    BY <1>11 DEF ResumeBegin, Restored, EpochInv
  <2> QED
    BY <1>11, <2>1 DEF ResumeBegin, Idle, EpochInv, EpochStep, hist
<1>12. CASE Reopen
  BY <1>12 DEF Reopen, Swap, ReopenedManifest, EpochInv, EpochStep
<1>13. CASE UNCHANGED vars
  BY <1>13 DEF vars, hist, EpochInv
<1> QED
  BY <1>1, <1>2, <1>3, <1>4, <1>5, <1>6, <1>7, <1>8, <1>9, <1>10, <1>11,
     <1>12, <1>13 DEF Next, Persisting

\* The resume epoch only moves forward, and a closed manifest reopens only
\* with a later one (restore, reopen, write_manifest).
THEOREM StoreEpochAdvances == Spec => EpochAdvances
  BY EpochInvInit, EpochInvNext, PTL DEF Spec, EpochAdvances

-----------------------------------------------------------------------------
(* Reading the ledger back.  What a scan of the lines returns is known by  *)
(* induction on the lines, which is stated here for sets of naturals.      *)

Lines == Seq(Seqs \cup {Torn})

\* What the scan has after i lines, when g is what it had before.
Scanned(l, g, i) ==
  IF i = 0 THEN <<>>
  ELSE IF l[i] # Torn THEN Append(g[i - 1], l[i]) ELSE g[i - 1]

\* The scan of the first n lines exists.
Scannable(l, n) == \E g \in [0 .. n -> Seq(Seqs)] : \A i \in 0 .. n : g[i] = Scanned(l, g, i)

\* What it returns: the readable ones of the first n lines.
Reads(l, n, s) ==
  /\ s \in Seq(Seqs) /\ Len(s) <= n
  /\ Readable(s) = {l[j] : j \in 1 .. n} \ {Torn}

\* The lines of a sequence with a line more.
LEMMA ReadableAppend ==
  ASSUME NEW T, NEW s \in Seq(T), NEW x
  PROVE  Readable(Append(s, x)) = Readable(s) \cup ({x} \ {Torn})
<1>1. /\ DOMAIN Append(s, x) = DOMAIN s \cup {Len(s) + 1}
      /\ \A i \in DOMAIN s : Append(s, x)[i] = s[i]
      /\ Append(s, x)[Len(s) + 1] = x
  OBVIOUS
<1> QED
  BY <1>1 DEF Readable

\* Every line can be scanned.
LEMMA LinesScan ==
  ASSUME NEW l \in Lines PROVE Scannable(l, Len(l))
<1>1. Scannable(l, 0)
  <2>1. [i \in 0 .. 0 |-> <<>>] \in [0 .. 0 -> Seq(Seqs)]
    OBVIOUS
  <2>2. \A i \in 0 .. 0 : [j \in 0 .. 0 |-> <<>>][i] = Scanned(l, [j \in 0 .. 0 |-> <<>>], i)
    BY DEF Scanned
  <2> QED
    BY <2>1, <2>2 DEF Scannable
<1>2. ASSUME NEW n \in 0 .. Len(l) - 1, Scannable(l, n) PROVE Scannable(l, n + 1)
  <2>1. PICK g \in [0 .. n -> Seq(Seqs)] : \A i \in 0 .. n : g[i] = Scanned(l, g, i)
    BY <1>2 DEF Scannable
  <2> DEFINE new == IF l[n + 1] # Torn THEN Append(g[n], l[n + 1]) ELSE g[n]
             h == [i \in 0 .. n + 1 |-> IF i = n + 1 THEN new ELSE g[i]]
  <2>2. new \in Seq(Seqs)
    BY <1>2 DEF Lines
  <2>3. h \in [0 .. n + 1 -> Seq(Seqs)]
    BY <2>2
  <2>4. ASSUME NEW i \in 0 .. n + 1 PROVE h[i] = Scanned(l, h, i)
    <3>1. CASE i = n + 1
      BY <3>1 DEF Scanned
    <3>2. CASE i \in 0 .. n
      <4>1. h[i] = g[i] /\ (i # 0 => h[i - 1] = g[i - 1])
        BY <3>2
      <4> QED
        BY <2>1, <3>2, <4>1 DEF Scanned
    <3> QED
      BY <3>1, <3>2
  <2> HIDE DEF h
  <2> QED
    BY <2>3, <2>4 DEF Scannable
<1> DEFINE Good == {n \in Nat : Scannable(l, n)}
<1>3. Len(l) \in Nat
  BY DEF Lines
<1>4. 0 \in Good /\ \A n \in 0 .. Len(l) - 1 : n \in Good => n + 1 \in Good
  BY <1>1, <1>2
<1> HIDE DEF Good
<1>5. Len(l) \in Good
  BY <1>3, <1>4, CountsTo
<1> QED
  BY <1>5 DEF Good

\* A scan of the lines returns the readable ones (RunContext::restore).
LEMMA ParsedReads ==
  ASSUME NEW l \in Lines
  PROVE  /\ Parsed(l) \in Seq(Seqs)
         /\ Len(Parsed(l)) <= Len(l)
         /\ Readable(Parsed(l)) = Readable(l)
<1> DEFINE first == CHOOSE g : g = [i \in 0 .. Len(l) |-> Scanned(l, g, i)]
<1>1. Parsed(l) = first[Len(l)]
  BY DEF Parsed, Scanned
<1>2. Len(l) \in Nat /\ \A i \in 1 .. Len(l) : l[i] # Torn => l[i] \in Seqs
  BY DEF Lines
<1>3. first = [i \in 0 .. Len(l) |-> Scanned(l, first, i)]
  <2>1. PICK g \in [0 .. Len(l) -> Seq(Seqs)] : \A i \in 0 .. Len(l) : g[i] = Scanned(l, g, i)
    BY LinesScan DEF Scannable
  <2>2. g = [i \in 0 .. Len(l) |-> Scanned(l, g, i)]
    BY <2>1
  <2> QED
    BY <2>2
<1> HIDE DEF first
<1>4. Reads(l, 0, first[0])
  <2>1. first[0] = <<>>
    BY <1>2, <1>3 DEF Scanned
  <2> QED
    BY <2>1 DEF Reads, Readable
<1>5. ASSUME NEW n \in 0 .. Len(l) - 1, Reads(l, n, first[n]) PROVE Reads(l, n + 1, first[n + 1])
  <2>1. first[n + 1] = IF l[n + 1] # Torn THEN Append(first[n], l[n + 1]) ELSE first[n]
    <3>1. n + 1 \in 0 .. Len(l) /\ n + 1 # 0 /\ n + 1 - 1 = n
      BY <1>2
    <3>2. first[n + 1] = Scanned(l, first, n + 1)
      BY <1>3, <3>1
    <3> QED
      BY <3>1, <3>2 DEF Scanned
  <2>2. {l[j] : j \in 1 .. n + 1} = {l[j] : j \in 1 .. n} \cup {l[n + 1]}
    OBVIOUS
  <2>3. CASE l[n + 1] = Torn
    BY <1>5, <2>1, <2>2, <2>3 DEF Reads
  <2>4. CASE l[n + 1] # Torn
    <3>1. l[n + 1] \in Seqs
      BY <1>2, <2>4
    <3>2. Readable(first[n + 1]) = Readable(first[n]) \cup {l[n + 1]}
      BY <1>5, <2>1, <2>4, ReadableAppend DEF Reads
    <3>3. first[n + 1] \in Seq(Seqs) /\ Len(first[n + 1]) <= n + 1
      BY <1>5, <2>1, <2>4, <3>1 DEF Reads
    <3> QED
      BY <1>5, <2>2, <2>4, <3>2, <3>3 DEF Reads
  <2> QED
    BY <2>3, <2>4
<1> DEFINE Good == {n \in Nat : Reads(l, n, first[n])}
<1>6. 0 \in Good /\ \A n \in 0 .. Len(l) - 1 : n \in Good => n + 1 \in Good
  BY <1>4, <1>5
<1> HIDE DEF Good
<1>7. Len(l) \in Good
  BY <1>2, <1>6, CountsTo
<1>8. Reads(l, Len(l), first[Len(l)])
  BY <1>7 DEF Good
<1>9. Readable(l) = {l[j] : j \in 1 .. Len(l)} \ {Torn}
  BY DEF Readable, Lines
<1> QED
  BY <1>1, <1>8, <1>9 DEF Reads

\* The number after the highest there is (numbering of RunContext::restore).
LEMMA NextNumber ==
  ASSUME NEW S \in SUBSET Seqs
  PROVE  \E t \in 0 .. MaxRecords : (\A n \in S : n < t) /\ (t = 0 \/ t - 1 \in S)
<1> DEFINE Above == {t \in Nat : \A n \in S : n < t}
<1>1. MaxRecords \in Above
  BY StoreAssumption DEF Seqs
<1>2. PICK t \in Above : \A y \in Above : t <= y
  BY <1>1, LeastNat
<1>3. CASE t # 0
  <2>1. t - 1 \in Nat /\ t - 1 \notin Above
    BY <1>2, <1>3
  <2>2. PICK n \in S : ~(n < t - 1)
    BY <2>1
  <2>3. n = t - 1
    BY <1>2, <2>2, StoreAssumption DEF Seqs
  <2> QED
    BY <1>1, <1>2, <2>2, <2>3, StoreAssumption
<1>4. CASE t = 0
  BY <1>2, <1>4, StoreAssumption
<1> QED
  BY <1>3, <1>4

\* What a resume takes from the directory (RunContext::restore).
LEMMA RestoredReads ==
  ASSUME disk \in Directory, disk.manifest # None, disk.manifest.epoch < MaxEpoch
  PROVE  /\ Restored \in Context
         /\ Restored.up /\ Restored.dir /\ ~Restored.closed
         /\ Readable(Restored.window) = Readable(disk.ledger)
         /\ \A n \in Readable(disk.ledger) : n < Restored.total
         /\ Restored.gone >= disk.manifest.gone
<1> DEFINE good == Parsed(disk.ledger)
           torn == Len(disk.ledger) - Len(good)
           total == CHOOSE t \in 0 .. MaxRecords :
                      (\A n \in Readable(good) : n < t) /\ (t = 0 \/ t - 1 \in Readable(good))
           first == IF torn = 0 THEN disk.manifest.first
                    ELSE IF good = <<>> THEN None ELSE good[1]
<1> USE DEF Directory, Lines
<1>1. good \in Seq(Seqs) /\ torn \in Nat /\ Readable(good) = Readable(disk.ledger)
  BY ParsedReads
<1>2. Readable(good) \subseteq Seqs
  BY <1>1 DEF Readable
<1>3. total \in 0 .. MaxRecords /\ \A n \in Readable(good) : n < total
  BY <1>2, NextNumber
<1>4. first \in Seqs \cup {None}
  BY <1>1 DEF Manifest
<1>5. Restored = [up |-> TRUE, dir |-> TRUE, closed |-> FALSE,
                  epoch |-> disk.manifest.epoch + 1,
                  total |-> total, window |-> good, gone |-> disk.manifest.gone + torn,
                  first |-> first, flushed |-> total, unhealthy |-> FALSE]
  BY DEF Restored
<1> HIDE DEF good, torn, total, first
<1>6. disk.manifest.epoch + 1 \in 0 .. MaxEpoch /\ disk.manifest.gone \in Nat
  BY StoreAssumption DEF Manifest
<1> QED
  BY <1>1, <1>3, <1>4, <1>5, <1>6 DEF Context

-----------------------------------------------------------------------------
(* Types.                                                                  *)

\* The types alone are not inductive: the writer needs a line to write and an
\* unterminated line a line, a resume a context to put in place, and the process
\* that died must have left an epoch to go on with.
TypeInv ==
  /\ TypeOK
  /\ send.step # "idle" => send.seq \in Seqs
  /\ job = "resume" => back \in Context
  /\ ~mem.up => lived < MaxEpoch
  /\ disk.open => disk.ledger # <<>>

\* Nothing is left of a record but what the disk has.
Drained == journal.queue = <<>> /\ journal.hand = None /\ send.step = "idle"

\* A run without a directory has written nothing and started no writer, and a
\* persist or a close that is past the drain, or done, has left the writer idle
\* (which is what lets close write a last manifest).
DrainInv ==
  /\ ~journal.armed => journal = NoJournal /\ send.step = "idle"
  /\ mem.up /\ ~mem.dir => /\ ~journal.armed /\ job = "none"
                           /\ disk.ledger = <<>> /\ ~disk.open /\ disk.manifest = None
  /\ ~mem.up => ~journal.armed
  /\ stage = "ledger" => /\ mem.up /\ mem.dir /\ ~journal.armed /\ job = "promote"
                         /\ disk.ledger = <<>> /\ ~disk.open /\ disk.manifest = None
  /\ (job = "none") = (stage = "idle")
  /\ job # "none" => mem.up /\ mem.dir /\ send.step = "idle"
  /\ stage \in {"tail", "manifest"} => Drained
  /\ mem.closed /\ job # "close" => Drained
  /\ job = "resume" => back.dir /\ ~back.closed

Elems(s) == {s[i] : i \in DOMAIN s}
Rising(s) == \A i, j \in DOMAIN s : i < j => s[i] < s[j]

\* Handed to the channel but not written, and on its way into it.
Waiting == ({journal.hand} \ {None}) \cup Elems(journal.queue)
Sent == IF send.step = "idle" THEN {} ELSE {send.seq}
Pending == Waiting \cup Sent

\* The numbers reach the writer in order: whatever is pending is neither below
\* the watermark nor above what was handed out, so a watermark that has caught
\* up means that nothing is pending (JournalHandle::flush).
QueueInv ==
  /\ Rising(journal.queue)
  /\ journal.hand # None => \A n \in Elems(journal.queue) : journal.hand < n
  /\ send.step # "idle" => \A n \in Waiting : n < send.seq
  /\ \A n \in Pending : journal.mark <= n /\ n < mem.total
  /\ journal.mark <= mem.total

\* Lines of numbers are not torn.
LEMMA WindowReadable ==
  ASSUME NEW w \in Seq(Seqs)
  PROVE  Readable(w) \subseteq Seqs /\ \A i \in DOMAIN w : w[i] \in Readable(w)
<1>1. \A i \in DOMAIN w : w[i] \in Seqs
  OBVIOUS
<1>2. Torn \notin Seqs
  BY StoreAssumption DEF Seqs
<1> QED
  BY <1>1, <1>2 DEF Readable

\* Pushing a record keeps the context's type (TransactionLedger::push).
LEMMA PushTyped ==
  ASSUME mem \in Context, mem.total < MaxRecords
  PROVE  /\ Push(mem.total) \in Context
         /\ Push(mem.total).gone >= mem.gone
         /\ Push(mem.total).total = mem.total + 1
         /\ Push(mem.total).dir = mem.dir /\ Push(mem.total).up = mem.up
         /\ Push(mem.total).closed = mem.closed
<1> DEFINE w == Append(mem.window, mem.total)
           excess == Len(w) - Low
<1>1. /\ mem.total \in Seqs /\ mem.total + 1 \in 0 .. MaxRecords
      /\ mem.window \in Seq(Seqs) /\ mem.gone \in Nat
  BY StoreAssumption DEF Context, Seqs
<1>2. w \in Seq(Seqs) /\ Len(w) \in Nat
  BY <1>1
<1> HIDE DEF w
<1>3. CASE Len(w) < High
  <2>1. Push(mem.total) = [mem EXCEPT !.total = mem.total + 1, !.window = w]
    BY <1>3 DEF Push, w
  <2>2. Push(mem.total) \in Context
    BY <1>1, <1>2, <2>1 DEF Context
  <2> QED
    BY <1>1, <2>1, <2>2 DEF Context
<1>4. CASE ~(Len(w) < High)
  <2>1. Push(mem.total) = [mem EXCEPT !.total = mem.total + 1,
                                      !.window = SubSeq(w, excess + 1, Len(w)),
                                      !.gone = mem.gone + excess,
                                      !.first = w[excess + 1]]
    BY <1>4 DEF Push, w
  <2>2. excess \in Nat /\ excess + 1 \in 1 .. Len(w)
    BY <1>2, <1>4, StoreAssumption
  <2>3. SubSeq(w, excess + 1, Len(w)) \in Seq(Seqs) /\ w[excess + 1] \in Seqs
    BY <1>2, <2>2
  <2>4. mem.gone + excess \in Nat /\ mem.gone + excess >= mem.gone
    BY <1>1, <2>2
  <2> HIDE DEF excess
  <2> QED
    BY <1>1, <2>1, <2>3, <2>4 DEF Context
<1> QED
  BY <1>3, <1>4

\* Writing a line, or part of it, keeps the directory's type.
LEMMA AppendTyped ==
  ASSUME disk \in Directory, disk.open => disk.ledger # <<>>, NEW n \in Seqs
  PROVE  \A d \in {disk, Appended(n)} \cup AppendedPart(n) :
           d \in Directory /\ (d.open => d.ledger # <<>>)
<1> USE DEF Lines
<1>1. disk.ledger \in Lines
  BY DEF Directory
<1>2. disk.open => [disk.ledger EXCEPT ![Len(disk.ledger)] = Torn] \in Lines \ {<<>>}
  BY <1>1, ExceptSeq
<1>3. ASSUME NEW x \in Seqs \cup {Torn} PROVE Append(disk.ledger, x) \in Lines \ {<<>>}
  BY <1>1, <1>3, AppendProperties
<1>4. Appended(n) \in Directory /\ Appended(n).ledger # <<>>
  <2>1. CASE disk.open
    BY <1>2, <2>1 DEF Appended, Directory
  <2>2. CASE ~disk.open
    BY <1>3, <2>2 DEF Appended, Directory
  <2> QED
    BY <2>1, <2>2
<1>5. /\ [Appended(n) EXCEPT !.open = TRUE] \in Directory
      /\ [Appended(n) EXCEPT !.open = TRUE].ledger # <<>>
  BY <1>4 DEF Directory
<1> DEFINE cut == IF disk.open THEN Appended(n).ledger ELSE Append(disk.ledger, Torn)
<1>6. cut \in Lines \ {<<>>}
  BY <1>3, <1>4 DEF Directory
<1> HIDE DEF cut
<1>7. /\ [disk EXCEPT !.ledger = cut, !.open = TRUE] \in Directory
      /\ [disk EXCEPT !.ledger = cut, !.open = TRUE].ledger # <<>>
  BY <1>6 DEF Directory
<1> QED
  BY <1>4, <1>5, <1>7 DEF AppendedPart, cut

\* The health of a journal is recomputed from its counters.
LEMMA RecomputedTyped ==
  ASSUME NEW j \in Handle
  PROVE  /\ Recomputed(j) \in Handle
         /\ Recomputed(j).queue = j.queue /\ Recomputed(j).hand = j.hand
         /\ Recomputed(j).mark = j.mark /\ Recomputed(j).failed = j.failed
         /\ Recomputed(j).armed = j.armed
  BY DEF Recomputed, Handle

\* Recording and submitting.
LEMMA SubmitTyped ==
  ASSUME TypeInv, Record \/ Submit
  PROVE  TypeInv'
<1> USE DEF hist
<1>1. /\ TypeOK /\ mem \in Context /\ journal \in Handle
      /\ send \in [step : Steps, seq : Seqs \cup {None}]
      /\ send.step # "idle" => send.seq \in Seqs
  BY DEF TypeInv, TypeOK
<1>2. NoJournal \in Handle /\ [NoJournal EXCEPT !.armed = TRUE] \in Handle
      /\ Len(NoJournal.queue) <= Capacity
  <2>1. 0 \in 0 .. MaxRecords /\ <<>> \in Seq(Seqs) /\ Len(<<>>) <= Capacity
    BY StoreAssumption
  <2>2. NoJournal \in Handle
    BY <2>1 DEF NoJournal, Handle
  <2> QED
    BY <2>1, <2>2 DEF NoJournal, Handle
<1>5. Len(journal.queue) <= Capacity
  BY <1>1 DEF TypeOK
<1>3. CASE Record
  <2>1. mem.total \in Seqs /\ mem.total < MaxRecords /\ Push(mem.total) \in Context
        /\ Push(mem.total).up /\ mem.up
    <3>1. mem.total \in 0 .. MaxRecords /\ mem.total < MaxRecords /\ mem.up
      BY <1>1, <1>3 DEF Record, Idle, Context
    <3>2. mem.total \in Seqs
      BY <3>1, StoreAssumption DEF Seqs
    <3> QED
      BY <1>1, <3>1, <3>2, PushTyped
  <2>2. mem' \in Context /\ mem'.up
    BY <1>3, <2>1 DEF Record, Context
  <2>3. journal' \in Handle /\ Len(journal'.queue) <= Capacity
    BY <1>1, <1>2, <1>3 DEF Record, TypeOK, NoJournal
  <2>4. send' \in [step : Steps, seq : Seqs \cup {None}] /\ (send'.step # "idle" => send'.seq \in Seqs)
    BY <1>1, <1>3, <2>1 DEF Record, Steps
  <2>5. held' \subseteq Seqs /\ certified' \subseteq Seqs /\ excused' \subseteq Seqs /\ evicted' \subseteq Seqs
    <3>1. Trimmed(mem.total) \subseteq Seqs
      <4>1. mem.window \in Seq(Seqs)
        BY <1>1 DEF Context
      <4> QED
        BY <2>1, <4>1, WindowReadable DEF Trimmed
    <3> QED
      BY <1>1, <1>3, <2>1, <3>1 DEF Record, TypeOK
  <2> QED
    BY <1>1, <1>3, <2>2, <2>3, <2>4, <2>5 DEF Record, TypeInv, TypeOK
<1>4. CASE Submit
  <2>1. UNCHANGED <<mem, job, stage, back, disk, held, certified, evicted, lived>>
    BY <1>4 DEF Submit, SubmitRefused, SubmitAttempt, TrySend, SubmitWait, SubmitRetry,
                SubmitTimeout, GiveUp
  <2>2. send' \in [step : Steps, seq : Seqs \cup {None}] /\ (send'.step # "idle" => send'.seq \in Seqs)
    BY <1>1, <1>4 DEF Submit, SubmitRefused, SubmitAttempt, TrySend, SubmitWait, SubmitRetry,
                SubmitTimeout, GiveUp, NoSend, Steps
  <2>3. excused' \subseteq Seqs
    BY <1>1, <1>4 DEF Submit, SubmitRefused, SubmitAttempt, TrySend, SubmitWait, SubmitRetry,
                SubmitTimeout, GiveUp, TypeOK
  <2>4. journal' \in Handle /\ Len(journal'.queue) <= Capacity
    <3>1. \A d \in Nat : Less(d) \in Nat
      BY DEF Less
    <3>2. ASSUME NEW health \in {"failed", "backpressure"}, GiveUp(health)
          PROVE  journal' \in Handle /\ Len(journal'.queue) <= Capacity
      <4>1. journal.drops \in Nat /\ journal.depth \in Nat
        BY <1>1 DEF Handle
      <4>2. journal.drops + 1 \in Nat /\ Less(journal.depth) \in Nat
        BY <3>1, <4>1
      <4> QED
        BY <1>1, <1>5, <3>2, <4>2 DEF GiveUp, Handle
    <3>3. CASE SubmitAttempt
      <4>1. journal.depth + 1 \in Nat
        BY <1>1 DEF Handle
      <4>2. /\ [journal EXCEPT !.depth = @ + 1] \in Handle
            /\ [journal EXCEPT !.depth = @ + 1].queue = journal.queue
        BY <1>1, <4>1 DEF Handle
      <4> QED
        BY <1>5, <3>3, <4>2, RecomputedTyped DEF SubmitAttempt
    <3>4. CASE TrySend
      <4>1. Len(journal.queue) < Capacity => Append(journal.queue, send.seq) \in Seq(Seqs)
                                          /\ Len(Append(journal.queue, send.seq)) <= Capacity
        BY <1>1, <3>4, StoreAssumption DEF TrySend, Handle
      <4> QED
        BY <1>1, <3>4, <4>1 DEF TrySend, Handle, TypeOK
    <3> QED
      BY <1>1, <1>4, <3>2, <3>3, <3>4
         DEF Submit, SubmitRefused, SubmitWait, SubmitRetry, SubmitTimeout, TypeOK
  <2> QED
    BY <1>1, <2>1, <2>2, <2>3, <2>4 DEF TypeInv, TypeOK
<1> QED
  BY <1>3, <1>4

\* The writer thread.
LEMMA WriterTyped ==
  ASSUME TypeInv, Writer
  PROVE  TypeInv'
<1> USE DEF hist
<1>1. /\ TypeOK /\ journal \in Handle /\ disk \in Directory /\ (disk.open => disk.ledger # <<>>)
      /\ Len(journal.queue) <= Capacity /\ excused \subseteq Seqs
  BY DEF TypeInv, TypeOK
<1>2. \A d \in Nat : Less(d) \in Nat
  BY DEF Less
<1>3. CASE WriterTake
  <2>1. /\ Tail(journal.queue) \in Seq(Seqs) /\ Head(journal.queue) \in Seqs
        /\ Len(Tail(journal.queue)) <= Capacity
    BY <1>1, <1>3, HeadTailProperties, StoreAssumption DEF WriterTake, Handle
  <2>2. journal' \in Handle /\ Len(journal'.queue) <= Capacity
    BY <1>1, <1>3, <2>1 DEF WriterTake, Handle
  <2> QED
    BY <1>3, <2>2 DEF WriterTake, TypeInv, TypeOK
<1>4. ASSUME journal.hand # None PROVE journal.hand \in Seqs
  BY <1>1, <1>4 DEF Handle
<1>5. CASE WriterOk
  <2> DEFINE j == [journal EXCEPT
                     !.mark = IF @ > journal.hand THEN @ ELSE journal.hand + 1,
                     !.hand = None, !.depth = Less(@)]
  <2>1. journal.hand \in Seqs /\ Less(journal.depth) \in Nat
    BY <1>1, <1>2, <1>4, <1>5 DEF WriterOk, Handle
  <2>2. j \in Handle /\ j.queue = journal.queue
    <3>1. journal.hand + 1 \in 0 .. MaxRecords
      BY <2>1, StoreAssumption DEF Seqs
    <3> QED
      BY <1>1, <2>1, <3>1 DEF Handle
  <2>3. journal' \in Handle /\ Len(journal'.queue) <= Capacity
    <3>1. journal' = Recomputed(j)
      BY <1>5 DEF WriterOk
    <3> QED
      BY <1>1, <2>2, <3>1, RecomputedTyped
  <2>4. disk' \in Directory /\ (disk'.open => disk'.ledger # <<>>)
    BY <1>1, <1>5, <2>1, AppendTyped DEF WriterOk
  <2>5. excused' \subseteq Seqs
    <3>1. Readable(disk.ledger) \subseteq Seqs
      BY <1>1 DEF Readable, Directory
    <3> QED
      BY <1>1, <1>5, <2>1, <3>1 DEF WriterOk, Merged
  <2> QED
    BY <1>5, <2>3, <2>4, <2>5 DEF WriterOk, TypeInv, TypeOK
<1>6. CASE WriterFail
  <2>1. journal.hand \in Seqs
    BY <1>4, <1>6 DEF WriterFail
  <2>2. journal' \in Handle /\ Len(journal'.queue) <= Capacity
    BY <1>1, <1>6 DEF WriterFail, Handle
  <2>3. disk' \in Directory /\ (disk'.open => disk'.ledger # <<>>)
    BY <1>1, <1>6, <2>1, AppendTyped DEF WriterFail
  <2>4. excused' \subseteq Seqs
    <3>1. Readable(disk.ledger) \subseteq Seqs
      BY <1>1 DEF Readable, Directory
    <3> QED
      BY <1>1, <1>6, <3>1 DEF WriterFail
  <2> QED
    BY <1>6, <2>2, <2>3, <2>4 DEF WriterFail, TypeInv, TypeOK
<1> QED
  BY <1>3, <1>5, <1>6 DEF Writer

\* The context with some of its flags and marks changed.
LEMMA ContextTyped ==
  ASSUME mem \in Context, NEW f \in 0 .. MaxRecords, NEW a \in BOOLEAN, NEW b \in BOOLEAN
  PROVE  /\ [mem EXCEPT !.dir = a] \in Context
         /\ [mem EXCEPT !.flushed = f] \in Context /\ [mem EXCEPT !.flushed = f].up = mem.up
         /\ [mem EXCEPT !.closed = a] \in Context
         /\ [Reopened EXCEPT !.unhealthy = b, !.flushed = f] \in Context
         /\ [Reopened EXCEPT !.unhealthy = b, !.flushed = f].up = mem.up
         /\ Reopened \in Context /\ Reopened.up = mem.up
         /\ mem.total \in 0 .. MaxRecords
<1>1. Reopened \in Context /\ Reopened.up = mem.up
  BY DEF Context, Reopened
<1>2. /\ [Reopened EXCEPT !.unhealthy = b, !.flushed = f] \in Context
      /\ [Reopened EXCEPT !.unhealthy = b, !.flushed = f].up = mem.up
  BY <1>1 DEF Context
<1> QED
  BY <1>1, <1>2 DEF Context

\* Persisting and closing.
LEMMA PersistTyped ==
  ASSUME TypeInv, EpochInv, DrainInv,
         PersistBegin \/ CloseBegin \/ Persisting \/ RecordLaunch
  PROVE  TypeInv'
<1> USE DEF hist
<1>1. /\ TypeOK /\ mem \in Context /\ disk \in Directory /\ job \in Jobs /\ stage \in Stages
      /\ held \subseteq Seqs /\ certified \subseteq Seqs /\ excused \subseteq Seqs
      /\ journal.mark \in 0 .. MaxRecords /\ (disk.open => disk.ledger # <<>>)
  BY DEF TypeInv, TypeOK, Handle
<1>2. CASE PersistBegin
  <2>1. mem' \in Context /\ mem'.up
    BY <1>1, <1>2, ContextTyped, ZenonT(30) DEF PersistBegin, Idle, Context
  <2> QED
    BY <1>1, <1>2, <2>1 DEF PersistBegin, TypeInv, TypeOK, Jobs, Stages
<1>3. CASE CloseBegin
  <2>1. mem' \in Context /\ mem'.up
    BY <1>1, <1>3, ContextTyped DEF CloseBegin, Idle, Context
  <2> QED
    BY <1>1, <1>3, <2>1 DEF CloseBegin, Idle, TypeInv, TypeOK, Jobs, Stages
<1>4. CASE PromoteLedger
  <2>6. mem' \in Context /\ mem'.up = mem.up
    BY <1>1, <1>4, ContextTyped DEF PromoteLedger
  <2>1. mem.window \in Seq(Seqs) /\ mem.up /\ ~disk.open
    BY <1>1, <1>4 DEF PromoteLedger, DrainInv, Context
  <2>2. Readable(mem.window) \subseteq Seqs
    BY <2>1, WindowReadable
  <2>3. disk' \in Directory /\ (disk'.open => disk'.ledger # <<>>)
    <3>1. ASSUME NEW k \in 0 .. Len(mem.window) - 1
          PROVE  /\ SubSeq(mem.window, 1, k) \in Seq(Seqs \cup {Torn})
                 /\ Append(SubSeq(mem.window, 1, k), Torn) \in Seq(Seqs \cup {Torn}) \ {<<>>}
      <4>1. SubSeq(mem.window, 1, k) \in Seq(Seqs \cup {Torn})
        BY <2>1
      <4> QED
        BY <4>1, AppendProperties
    <3>2. mem.window \in Seq(Seqs \cup {Torn})
      BY <2>1
    <3> QED
      BY <1>1, <1>4, <2>1, <3>1, <3>2 DEF PromoteLedger, Directory
  <2>4. excused' \subseteq Seqs
    BY <1>1, <1>4, <2>2 DEF PromoteLedger
  <2>5. /\ job' \in Jobs /\ stage' \in Stages /\ (job' # "resume" \/ job' = job) /\ back' \in Context \cup {None}
        /\ job' = "resume" => back' = back
        /\ UNCHANGED <<send, journal, held, certified, evicted, lived>>
    BY <1>1, <1>4 DEF PromoteLedger, Fails, TypeOK, Jobs, Stages
  <2> QED
    BY <1>1, <2>6, <2>1, <2>3, <2>4, <2>5 DEF TypeInv, TypeOK
<1>5. CASE FlushFiles
  <2>1. mem' \in Context /\ mem'.up = mem.up
    BY <1>1, <1>5, ContextTyped DEF FlushFiles
  <2> QED
    BY <1>1, <1>5, <2>1 DEF FlushFiles, Fails, Succeeds, TypeInv, TypeOK, Jobs, Stages
<1>6. CASE FlushDrain
  <2>1. mem' \in Context /\ mem'.up = mem.up
    BY <1>1, <1>6, ContextTyped DEF FlushDrain
  <2> QED
    BY <1>1, <1>6, <2>1 DEF FlushDrain, Fails, Succeeds, TypeInv, TypeOK, Jobs, Stages
<1>7. CurrentManifest \in Manifest /\ [disk EXCEPT !.manifest = CurrentManifest] \in Directory
  BY <1>1 DEF CurrentManifest, Manifest, Context, Directory
<1>8. CASE WriteManifest
  <2>1. mem' \in Context /\ mem'.up = mem.up
    BY <1>1, <1>8, ContextTyped DEF WriteManifest
  <2>2. disk' \in Directory /\ (disk'.open => disk'.ledger # <<>>)
    BY <1>1, <1>7, <1>8 DEF WriteManifest, Directory
  <2> QED
    BY <1>1, <1>8, <2>1, <2>2 DEF WriteManifest, Fails, Succeeds, TypeInv, TypeOK, Jobs, Stages
<1>9. CASE RecordLaunch
  <2>1. disk' \in Directory /\ (disk'.open => disk'.ledger # <<>>)
    BY <1>1, <1>7, <1>9 DEF RecordLaunch, Directory
  <2> QED
    BY <1>1, <1>9, <2>1 DEF RecordLaunch, TypeInv, TypeOK
<1> QED
  BY <1>2, <1>3, <1>4, <1>5, <1>6, <1>8, <1>9 DEF Persisting

\* A fresh run, and no journal.
LEMMA NothingTyped ==
  NoRun \in Context /\ NoJournal \in Handle /\ Len(NoJournal.queue) <= Capacity
<1>1. 0 \in 0 .. MaxRecords /\ 0 \in 0 .. MaxEpoch /\ <<>> \in Seq(Seqs) /\ Len(<<>>) <= Capacity
  BY StoreAssumption
<1>2. NoJournal \in Handle /\ Len(NoJournal.queue) <= Capacity
  BY <1>1 DEF NoJournal, Handle
<1> QED
  BY <1>1, <1>2 DEF NoRun, Context

\* A restored context goes live.
LEMMA SwapTyped ==
  ASSUME TypeInv, NEW run \in Context, run.up, Swap(run), UNCHANGED send, send.step = "idle",
         job' \in Jobs \ {"resume"}, stage' \in Stages, back' \in Context \cup {None},
         certified' \subseteq Seqs, UNCHANGED <<excused, evicted>>
  PROVE  TypeInv'
<1>1. /\ TypeOK /\ disk \in Directory /\ lived \in 0 .. MaxEpoch /\ run.epoch \in 0 .. MaxEpoch
      /\ run.window \in Seq(Seqs) /\ (disk.open => disk.ledger # <<>>)
  BY DEF TypeInv, TypeOK, Context
<1>2. ReopenedManifest(run) \in Manifest
  BY DEF ReopenedManifest, Manifest, Context
<1>3. disk' \in Directory /\ (disk'.open => disk'.ledger # <<>>)
  BY <1>1, <1>2 DEF Swap, Directory
<1>4. held' \subseteq Seqs /\ lived' \in 0 .. MaxEpoch
  BY <1>1, WindowReadable DEF Swap
<1> QED
  BY <1>1, <1>3, <1>4, NothingTyped DEF Swap, TypeInv, TypeOK

\* Dying and resuming.
LEMMA ResumeTyped ==
  ASSUME TypeInv, EpochInv, DrainInv, Crash \/ Resume \/ ResumeBegin \/ Reopen
  PROVE  TypeInv'
<1>1. /\ TypeOK /\ mem \in Context /\ disk \in Directory /\ (disk.open => disk.ledger # <<>>)
      /\ excused \subseteq Seqs /\ held \subseteq Seqs /\ certified \subseteq Seqs
  BY DEF TypeInv, TypeOK
<1>2. CASE Crash
  <2>1. disk' \in Directory /\ (disk'.open => disk'.ledger # <<>>)
    <3>1. journal.hand # None => journal.hand \in Seqs
      BY <1>1 DEF TypeOK, Handle
    <3> QED
      BY <1>1, <1>2, <3>1, AppendTyped DEF Crash
  <2>2. excused' \subseteq Seqs
    <3>1. Readable(disk.ledger) \subseteq Seqs
      BY <1>1 DEF Readable, Directory
    <3> QED
      BY <1>1, <1>2, <3>1 DEF Crash
  <2>3. lived < MaxEpoch
    BY <1>2 DEF Crash, EpochInv
  <2>4. NoSend \in [step : Steps, seq : Seqs \cup {None}] /\ NoSend.step = "idle"
    BY DEF NoSend, Steps
  <2> QED
    BY <1>1, <1>2, <2>1, <2>2, <2>3, <2>4, NothingTyped
       DEF Crash, TypeInv, TypeOK, Jobs, Stages
<1>3. CASE Resume
  <2>1. Restored \in Context /\ Restored.up
    BY <1>1, <1>3, RestoredReads DEF Resume, TypeInv, EpochInv
  <2> QED
    BY <1>1, <1>3, <2>1, SwapTyped DEF Resume, EpochInv, DrainInv, TypeOK
<1>4. CASE ResumeBegin
  <2>1. Restored \in Context
    BY <1>1, <1>4, RestoredReads DEF ResumeBegin
  <2> QED
    BY <1>1, <1>4, <2>1 DEF ResumeBegin, Idle, TypeInv, TypeOK, Jobs, Stages, hist
<1>5. CASE Reopen
  <2>1. back \in Context /\ back.up /\ send.step = "idle"
    BY <1>5 DEF Reopen, TypeInv, EpochInv, DrainInv
  <2>2. certified' \subseteq Seqs /\ job' \in Jobs \ {"resume"} /\ stage' \in Stages
        /\ back' \in Context \cup {None}
    BY <1>1, <1>5 DEF Reopen, Jobs, Stages
  <2> QED
    BY <1>5, <2>1, <2>2, SwapTyped DEF Reopen
<1> QED
  BY <1>2, <1>3, <1>4, <1>5

\* Every step keeps the types.
LEMMA TypeInvNext == TypeInv /\ EpochInv /\ DrainInv /\ [Next]_vars => TypeInv'
<1> SUFFICES ASSUME TypeInv, EpochInv, DrainInv, [Next]_vars PROVE TypeInv'
  OBVIOUS
<1>1. CASE UNCHANGED vars
  BY <1>1 DEF vars, hist, TypeInv, TypeOK
<1>2. CASE Next
  BY <1>2, SubmitTyped, WriterTyped, PersistTyped, ResumeTyped DEF Next
<1> QED
  BY <1>1, <1>2

\* A submit changes the journal and the record being sent.
LEMMA SubmitSteps ==
  ASSUME journal \in Handle, Submit
  PROVE  /\ UNCHANGED <<mem, job, stage, back, disk, held, certified, evicted, lived>>
         /\ journal'.armed = journal.armed /\ journal'.hand = journal.hand
         /\ journal'.mark = journal.mark /\ journal'.failed = journal.failed
         /\ send.step # "idle"
<1>1. CASE SubmitAttempt
  BY <1>1 DEF SubmitAttempt, Recomputed, Handle, hist
<1>2. CASE SubmitRefused \/ TrySend \/ SubmitWait \/ SubmitRetry \/ SubmitTimeout
  BY <1>2 DEF SubmitRefused, TrySend, SubmitWait, SubmitRetry, SubmitTimeout, GiveUp, Handle, hist
<1> QED
  BY <1>1, <1>2 DEF Submit

\* The writer's steps change the journal and the ledger.
LEMMA WriterSteps ==
  ASSUME journal \in Handle, disk \in Directory, Writer
  PROVE  /\ UNCHANGED <<mem, send, job, stage, back, held, certified, evicted, lived>>
         /\ journal'.armed = journal.armed /\ disk'.manifest = disk.manifest
         /\ journal.queue # <<>> \/ journal.hand # None
<1> USE DEF hist
<1>1. CASE WriterTake
  BY <1>1 DEF WriterTake, Handle
<1>2. CASE WriterOk
  <2>1. journal'.armed = journal.armed
    BY <1>2 DEF WriterOk, Recomputed, Handle
  <2> QED
    BY <1>2, <2>1, AppendKeeps DEF WriterOk, Directory
<1>3. CASE WriterFail
  <2>1. journal'.armed = journal.armed
    BY <1>3 DEF WriterFail, Handle
  <2> QED
    BY <1>3, <2>1, AppendKeeps DEF WriterFail, Directory
<1> QED
  BY <1>1, <1>2, <1>3 DEF Writer

\* What is pending is pushed out by nothing but the writer and the sender.
LEMMA OtherSteps ==
  ASSUME TypeInv,
         PersistBegin \/ CloseBegin \/ Persisting \/ RecordLaunch \/ ResumeBegin
  PROVE  UNCHANGED <<journal, send>> /\ mem'.total = mem.total
<1>1. mem \in Context
  BY DEF TypeInv, TypeOK
<1>2. Reopened.total = mem.total /\ Reopened \in Context
  BY <1>1 DEF Reopened, Context
<1> QED
  BY <1>1, <1>2 DEF PersistBegin, CloseBegin, Persisting, RecordLaunch, ResumeBegin, PromoteLedger,
       FlushFiles, FlushDrain, WriteManifest, Fails, Succeeds, hist, Context

\* A watermark that has caught up means that nothing is pending.
LEMMA CaughtUp ==
  ASSUME TypeInv, DrainInv, QueueInv, send.step = "idle",
         journal.armed => journal.mark >= mem.total
  PROVE  Drained
<1>1. CASE ~journal.armed
  BY <1>1 DEF DrainInv, NoJournal, Drained
<1>2. CASE journal.mark >= mem.total
  <2>1. journal.mark \in Nat /\ mem.total \in Nat /\ journal.queue \in Seq(Seqs)
    BY StoreAssumption DEF TypeInv, TypeOK, Handle, Context
  <2>2. \A n \in Waiting : n \in Seqs
    BY DEF TypeInv, TypeOK, Handle, Waiting, Elems
  <2>3. \A n \in Waiting : n \notin Seqs
    BY <1>2, <2>1 DEF QueueInv, Pending, Seqs
  <2>4. journal.hand = None /\ Elems(journal.queue) = {}
    BY <2>2, <2>3 DEF Waiting
  <2>5. journal.queue = <<>>
    <3>1. ASSUME journal.queue # <<>> PROVE journal.queue[1] \in Elems(journal.queue)
      BY <2>1, <3>1 DEF Elems
    <3> QED
      BY <2>4, <3>1
  <2> QED
    BY <2>4, <2>5 DEF Drained
<1> QED
  BY <1>1, <1>2

\* Nothing is written before there is a directory, and nothing after a drain.
LEMMA DrainNext ==
  TypeInv /\ TypeInv' /\ EpochInv /\ DrainInv /\ QueueInv /\ [Next]_vars => DrainInv'
<1> SUFFICES ASSUME TypeInv, TypeInv', EpochInv, DrainInv, QueueInv, [Next]_vars PROVE DrainInv'
  OBVIOUS
<1> USE DEF hist
<1>1. mem \in Context /\ disk \in Directory /\ journal \in Handle
  BY DEF TypeInv, TypeOK
<1>2. CASE UNCHANGED vars
  BY <1>2 DEF vars, DrainInv, Drained
<1>3. CASE Record
  <2>1. mem.total < MaxRecords /\ job = "none" /\ stage = "idle" /\ ~mem.closed /\ mem.up
        /\ UNCHANGED <<job, stage, back, disk>>
    BY <1>3 DEF Record, Idle, DrainInv
  <2>2. mem'.up /\ mem'.dir = mem.dir /\ ~mem'.closed
    <3>1. Push(mem.total) \in Context /\ Push(mem.total).up /\ Push(mem.total).dir = mem.dir
          /\ ~Push(mem.total).closed
      BY <1>1, <2>1, PushTyped
    <3> QED
      BY <1>3, <3>1 DEF Record, Context
  <2>3. \/ UNCHANGED <<journal, send>>
        \/ mem.dir /\ journal'.armed
    BY <1>1, <1>3 DEF Record, NoJournal
  <2> QED
    BY <2>1, <2>2, <2>3 DEF DrainInv
<1>4. CASE Submit \/ Writer
  <2>1. journal.armed /\ ~Drained
    BY <1>4, <1>1, SubmitSteps, WriterSteps DEF DrainInv, Drained, NoJournal
  <2>2. UNCHANGED <<mem, job, stage, back>> /\ journal'.armed = journal.armed
        /\ disk'.manifest = disk.manifest
    BY <1>4, <1>1, SubmitSteps, WriterSteps
  <2>3. job # "none" => send'.step = "idle"
    BY <1>4, <1>1, SubmitSteps, WriterSteps DEF DrainInv
  <2> QED
    BY <1>4, <1>1, <2>1, <2>2, <2>3 DEF DrainInv
<1>5. CASE PersistBegin
  BY <1>5, <1>1 DEF PersistBegin, Idle, DrainInv, Drained, Context
<1>6. CASE CloseBegin
  BY <1>6, <1>1 DEF CloseBegin, Idle, DrainInv, Drained, Context, NoJournal
<1>7. CASE PromoteLedger
  BY <1>7, <1>1 DEF PromoteLedger, Fails, DrainInv, Drained, Context, NoJournal
<1>8. CASE FlushFiles
  BY <1>8, <1>1 DEF FlushFiles, Fails, Succeeds, Reopened, DrainInv, Drained, Context
<1>9. CASE FlushDrain
  <2>1. CASE /\ journal.armed => journal.mark >= mem.total /\ ~journal.failed
             /\ mem' = [mem EXCEPT !.flushed = mem.total]
             /\ stage' = "tail"
             /\ UNCHANGED <<job, back, send, journal, hist>>
             /\ UNCHANGED disk
    <3>1. Drained
      BY <1>9, <2>1, CaughtUp DEF FlushDrain, DrainInv
    <3>2. Drained'
      BY <2>1, <3>1 DEF Drained
    <3> QED
      BY <1>1, <1>9, <2>1, <3>2 DEF FlushDrain, DrainInv, Context
  <2>2. CASE Fails /\ mem' = [Reopened EXCEPT !.unhealthy = TRUE, !.flushed = journal.mark]
             /\ UNCHANGED disk
    BY <1>1, <1>9, <2>2 DEF FlushDrain, Fails, Reopened, DrainInv, Drained, Context
  <2> QED
    BY <1>9, <2>1, <2>2 DEF FlushDrain
<1>10. CASE WriteManifest
  BY <1>10, <1>1 DEF WriteManifest, Fails, Succeeds, Reopened, DrainInv, Drained, Context
<1>11. CASE RecordLaunch
  BY <1>11, <1>1 DEF RecordLaunch, Idle, DrainInv, Drained
<1>12. CASE Crash
  BY <1>12, <1>1 DEF Crash, NoRun, NoJournal, NoSend, DrainInv, Drained
<1>13. CASE Resume
  <2>1. Restored.up /\ Restored.dir /\ ~Restored.closed
    BY <1>1, <1>13, RestoredReads DEF Resume, TypeInv, EpochInv
  <2> QED
    BY <1>13, <2>1 DEF Resume, Swap, EpochInv, DrainInv, NoJournal
<1>14. CASE ResumeBegin
  <2>1. Restored.dir /\ ~Restored.closed
    BY <1>1, <1>14, RestoredReads DEF ResumeBegin
  <2> QED
    BY <1>14, <1>1, <2>1 DEF ResumeBegin, Idle, DrainInv, Drained
<1>15. CASE Reopen
  <2>1. back.up /\ back.dir /\ ~back.closed /\ send.step = "idle"
    BY <1>15 DEF Reopen, EpochInv, DrainInv
  <2> QED
    BY <1>15, <2>1 DEF Reopen, Swap, DrainInv, NoJournal
<1> QED
  BY <1>2, <1>3, <1>4, <1>5, <1>6, <1>7, <1>8, <1>9, <1>10, <1>11, <1>12, <1>13,
     <1>14, <1>15 DEF Next, Persisting

\* A sequence of numbers with one more behind them, or without the first.
LEMMA RisingAppend ==
  ASSUME NEW s \in Seq(Seqs), Rising(s), NEW x \in Seqs, \A n \in Elems(s) : n < x
  PROVE  Rising(Append(s, x)) /\ Elems(Append(s, x)) = Elems(s) \cup {x}
<1>1. /\ DOMAIN Append(s, x) = DOMAIN s \cup {Len(s) + 1} /\ DOMAIN s = 1 .. Len(s) /\ Len(s) \in Nat
      /\ \A i \in DOMAIN s : Append(s, x)[i] = s[i]
      /\ Append(s, x)[Len(s) + 1] = x
  OBVIOUS
<1> QED
  BY <1>1 DEF Rising, Elems

\* Without the first of them.
LEMMA RisingTail ==
  ASSUME NEW s \in Seq(Seqs), s # <<>>, Rising(s)
  PROVE  /\ Rising(Tail(s)) /\ Elems(s) = {Head(s)} \cup Elems(Tail(s))
         /\ \A n \in Elems(Tail(s)) : Head(s) < n
<1>1. /\ Len(s) \in Nat \ {0} /\ DOMAIN s = 1 .. Len(s) /\ DOMAIN Tail(s) = 1 .. Len(s) - 1
      /\ \A i \in 1 .. Len(s) - 1 : Tail(s)[i] = s[i + 1]
      /\ Head(s) = s[1]
  BY HeadTailProperties
<1>2. Rising(Tail(s))
  BY <1>1 DEF Rising
<1>3. Elems(s) = {Head(s)} \cup Elems(Tail(s))
  <2>1. \A i \in DOMAIN s : i = 1 \/ (i - 1 \in DOMAIN Tail(s) /\ Tail(s)[i - 1] = s[i])
    BY <1>1
  <2>2. \A i \in DOMAIN Tail(s) : i + 1 \in DOMAIN s
    BY <1>1
  <2> QED
    BY <1>1, <2>1, <2>2 DEF Elems
<1>4. \A n \in Elems(Tail(s)) : Head(s) < n
  BY <1>1 DEF Rising, Elems
<1> QED
  BY <1>2, <1>3, <1>4

\* No journal, nothing pending.
LEMMA EmptyQueue ==
  ASSUME mem' \in Context, journal' = NoJournal, send'.step = "idle"
  PROVE  QueueInv'
<1>1. mem'.total \in Nat
  BY StoreAssumption DEF Context
<1>2. (Elems(journal.queue) = {})' /\ (Pending = {})' /\ journal'.mark = 0 /\ journal'.queue = <<>>
  BY DEF NoJournal, Elems, Pending, Waiting, Sent
<1> QED
  BY <1>1, <1>2 DEF QueueInv, Rising, NoJournal

\* The queue stays in order, and the watermark below it.
LEMMA QueueNext ==
  TypeInv /\ TypeInv' /\ EpochInv /\ DrainInv /\ QueueInv /\ [Next]_vars => QueueInv'
<1> SUFFICES ASSUME TypeInv, TypeInv', EpochInv, DrainInv, QueueInv, [Next]_vars PROVE QueueInv'
  OBVIOUS
<1> USE DEF hist
<1>1. /\ mem \in Context /\ journal \in Handle /\ mem' \in Context /\ journal' \in Handle
      /\ mem.total \in Nat /\ journal.mark \in Nat /\ journal.queue \in Seq(Seqs)
      /\ send \in [step : Steps, seq : Seqs \cup {None}]
      /\ send.step # "idle" => send.seq \in Seqs
      /\ journal.hand # None => journal.hand \in Seqs
      /\ Elems(journal.queue) \subseteq Seqs
      /\ None \notin Seqs
  <2>1. /\ mem \in Context /\ journal \in Handle /\ mem' \in Context /\ journal' \in Handle
        /\ send \in [step : Steps, seq : Seqs \cup {None}]
        /\ send.step # "idle" => send.seq \in Seqs
    BY DEF TypeInv, TypeOK
  <2>2. /\ mem.total \in Nat /\ journal.mark \in Nat /\ journal.queue \in Seq(Seqs)
        /\ journal.hand # None => journal.hand \in Seqs
        /\ None \notin Seqs
    BY <2>1, StoreAssumption DEF Context, Handle, Seqs
  <2>3. Elems(journal.queue) \subseteq Seqs
    BY <2>2 DEF Elems
  <2> QED
    BY <2>1, <2>2, <2>3
<1>2. CASE /\ UNCHANGED <<journal, send>> /\ mem'.total = mem.total
  BY <1>2 DEF QueueInv, Pending, Waiting, Sent
<1>3. CASE Record
  <2>1. mem.total < MaxRecords /\ send.step = "idle" /\ mem.total \in Seqs
    BY <1>1, <1>3, StoreAssumption DEF Record, Idle, Seqs
  <2>2. mem'.total = mem.total + 1
    <3>1. Push(mem.total).total = mem.total + 1 /\ Push(mem.total) \in Context
      BY <1>1, <2>1, PushTyped
    <3> QED
      BY <1>3, <3>1 DEF Record, Context
  <2>3. Sent' \subseteq {mem.total} /\ (send'.step # "idle" => send'.seq = mem.total)
    BY <1>3, <2>1 DEF Record, Sent
  <2>4. CASE UNCHANGED journal
    <3>1. Waiting' = Waiting
      BY <2>4 DEF Waiting
    <3>2. Waiting \subseteq Seqs /\ \A n \in Waiting : journal.mark <= n /\ n < mem.total
      BY <1>1 DEF QueueInv, Pending, Waiting
    <3>3. \A n \in Pending' : journal.mark <= n /\ n < mem.total + 1
      BY <1>1, <2>1, <2>3, <3>1, <3>2 DEF Pending, QueueInv, Seqs
    <3> QED
      BY <1>1, <2>2, <2>3, <2>4, <3>1, <3>2, <3>3 DEF QueueInv
  <2>5. CASE journal' = [NoJournal EXCEPT !.armed = TRUE]
    <3>1. journal'.queue = <<>> /\ journal'.hand = None /\ journal'.mark = 0
      BY <2>5 DEF NoJournal
    <3>2. Waiting' = {}
      BY <3>1 DEF Waiting, Elems
    <3> QED
      BY <1>1, <2>2, <2>3, <3>1, <3>2 DEF QueueInv, Rising, Pending, Elems
  <2> QED
    BY <1>3, <2>4, <2>5 DEF Record
<1>4. CASE Submit
  <2>1. UNCHANGED mem /\ journal'.hand = journal.hand /\ journal'.mark = journal.mark
    BY <1>1, <1>4, SubmitSteps
  <2>2. CASE journal'.queue = journal.queue
    <3>2. send.step # "idle" /\ (send'.step = "idle" \/ send'.seq = send.seq)
      BY <1>1, <1>4 DEF Submit, SubmitRefused, SubmitAttempt, TrySend, SubmitWait,
                        SubmitRetry, SubmitTimeout, GiveUp, NoSend
    <3>1. Waiting' = Waiting /\ Sent' \subseteq Sent
      BY <2>1, <2>2, <3>2 DEF Waiting, Sent
    <3> QED
      BY <2>1, <2>2, <3>1, <3>2 DEF QueueInv, Pending
  <2>3. CASE TrySend /\ journal' = [journal EXCEPT !.queue = Append(@, send.seq)] /\ send' = NoSend
    <3>1. send.step # "idle" /\ send.seq \in Seqs /\ send'.step = "idle"
      BY <1>1, <2>3 DEF TrySend, NoSend
    <3>2. journal'.queue = Append(journal.queue, send.seq)
      BY <1>1, <2>3 DEF Handle
    <3>3. Rising(journal'.queue) /\ Elems(journal'.queue) = Elems(journal.queue) \cup {send.seq}
      BY <1>1, <3>1, <3>2, RisingAppend DEF QueueInv, Waiting
    <3>4. Pending' = Pending
      BY <2>1, <3>1, <3>3 DEF Pending, Waiting, Sent
    <3>5. journal.hand # None => journal.hand < send.seq
      BY <3>1 DEF QueueInv, Waiting
    <3> QED
      BY <2>1, <3>1, <3>3, <3>4, <3>5 DEF QueueInv
  <2> QED
    BY <1>1, <1>4, <2>2, <2>3
       DEF Submit, SubmitRefused, SubmitAttempt, TrySend, SubmitWait, SubmitRetry,
           SubmitTimeout, GiveUp, Recomputed, Handle
<1>5. CASE WriterTake
  <2>1. /\ journal'.queue = Tail(journal.queue) /\ journal'.hand = Head(journal.queue)
        /\ journal'.mark = journal.mark /\ journal.hand = None
        /\ UNCHANGED <<mem, send>> /\ journal.queue # <<>>
    BY <1>1, <1>5 DEF WriterTake, Handle
  <2>2. /\ Rising(journal'.queue) /\ Elems(journal.queue) = {journal'.hand} \cup Elems(journal'.queue)
        /\ \A n \in Elems(journal'.queue) : journal'.hand < n
    BY <1>1, <2>1, RisingTail DEF QueueInv
  <2>3. Waiting' = Waiting /\ Sent' = Sent
    <3>1. journal'.hand # None
      BY <1>1, <2>2
    <3> QED
      BY <2>1, <2>2, <3>1 DEF Waiting, Sent
  <2> QED
    BY <2>1, <2>2, <2>3 DEF QueueInv, Pending
<1>6. CASE WriterOk \/ WriterFail
  <2>1. /\ journal'.queue = journal.queue /\ journal'.hand = None /\ journal.hand # None
        /\ \/ journal'.mark = journal.mark
           \/ journal'.mark = journal.hand + 1
        /\ UNCHANGED <<mem, send>>
    BY <1>1, <1>6, ZenonT(30) DEF WriterOk, WriterFail, Recomputed, Handle
  <2>2. /\ Waiting' = Elems(journal.queue) /\ Sent' = Sent /\ Waiting = {journal.hand} \cup Elems(journal.queue)
    BY <1>1, <2>1 DEF Waiting, Sent
  <2>3. journal.hand \in Seqs /\ journal.hand < mem.total
    BY <1>1, <2>1, <2>2 DEF QueueInv, Pending
  <2>4. \A n \in Pending' : n \in Seqs /\ journal.hand < n /\ n \in Pending
    BY <1>1, <2>1, <2>2 DEF QueueInv, Pending, Sent
  <2>5. \A n \in Pending' : journal'.mark <= n /\ n < mem.total
    BY <1>1, <2>1, <2>3, <2>4 DEF QueueInv, Seqs
  <2>6. journal'.mark <= mem.total
    BY <1>1, <2>1, <2>3 DEF QueueInv, Seqs
  <2> QED
    BY <2>1, <2>2, <2>5, <2>6 DEF QueueInv
<1>7. CASE Crash \/ Resume \/ Reopen
  <2>1. journal' = NoJournal /\ send'.step = "idle"
    BY <1>7 DEF Crash, Resume, Reopen, Swap, NoSend, EpochInv, DrainInv
  <2> QED
    BY <1>1, <2>1, EmptyQueue
<1>8. CASE UNCHANGED vars
  BY <1>2, <1>8 DEF vars
<1>9. CASE PersistBegin \/ CloseBegin \/ Persisting \/ RecordLaunch \/ ResumeBegin
  BY <1>2, <1>9, OtherSteps
<1> QED
  BY <1>3, <1>4, <1>5, <1>6, <1>7, <1>8, <1>9 DEF Next, Writer

\* A fresh run satisfies all of it (RunContext::ephemeral).
LEMMA LedgerInvInit == Init => TypeInv /\ EpochInv /\ DrainInv /\ QueueInv
<1> SUFFICES ASSUME Init PROVE TypeInv /\ DrainInv /\ QueueInv
  BY EpochInvInit
<1>1. 0 \in 0 .. MaxRecords /\ 0 \in 0 .. MaxEpoch /\ <<>> \in Seq(Seqs) /\ Len(<<>>) <= Capacity
      /\ <<>> \in Seq(Seqs \cup {Torn})
  BY StoreAssumption
<1>2. mem \in Context /\ mem.up /\ ~mem.closed /\ mem.total = 0
  BY <1>1 DEF Init, NoRun, Context
<1>3. disk \in Directory
  BY <1>1 DEF Init, Directory
<1>4. TypeInv
  BY <1>1, <1>2, <1>3, NothingTyped
     DEF Init, TypeInv, TypeOK, NoSend, Steps, Jobs, Stages
<1>5. DrainInv
  BY <1>2 DEF Init, DrainInv, Drained, NoJournal, NoSend
<1>6. QueueInv
  <2>1. journal = NoJournal /\ send.step = "idle"
    BY DEF Init, NoSend
  <2> QED
    BY <1>2, <2>1 DEF QueueInv, Rising, Pending, Waiting, Sent, Elems, NoJournal
<1> QED
  BY <1>4, <1>5, <1>6

\* The four parts hold together.
LedgerInv == TypeInv /\ EpochInv /\ DrainInv /\ QueueInv

\* ... and every step preserves them.
LEMMA LedgerInvNext == LedgerInv /\ [Next]_vars => LedgerInv'
  BY TypeInvNext, EpochInvNext, DrainNext, QueueNext DEF LedgerInv

\* The store's invariant.
LEMMA LedgerInvHolds == Spec => []LedgerInv
<1>1. Init => LedgerInv
  BY LedgerInvInit DEF LedgerInv
<1> QED
  BY <1>1, LedgerInvNext, PTL DEF Spec

\* Every field of the store has its type and the journal's channel never holds
\* more than its slots, through write errors, crashes and resumes (RunContext,
\* JournalHandle::spawn_with_capacity).
THEOREM StoreTypesCorrect == Spec => []TypeOK
<1>1. LedgerInv => TypeOK
  BY DEF LedgerInv, TypeInv
<1> QED
  BY <1>1, LedgerInvHolds, PTL

\* What SealedStaysSealed asks of a step.
SealedStep ==
  disk.manifest # None /\ disk.manifest.closed /\ disk'.manifest = disk.manifest
    => disk'.ledger = disk.ledger

\* Under a closed manifest nothing is left to write: not the writer's queue and
\* not a promotion.
LEMMA SealedNext == LedgerInv /\ [Next]_vars => [SealedStep]_vars
<1> SUFFICES ASSUME LedgerInv, Next, disk.manifest # None, disk.manifest.closed
             PROVE  disk'.ledger = disk.ledger
  BY DEF SealedStep
<1> USE DEF hist
<1>1. disk \in Directory /\ journal \in Handle
  BY DEF LedgerInv, TypeInv, TypeOK
<1>2. Drained
  BY DEF LedgerInv, EpochInv, DrainInv, Drained, NoJournal
<1>3. ~Submit /\ ~Writer
  BY <1>1, <1>2, SubmitSteps, WriterSteps DEF Drained
<1>4. ~PromoteLedger
  BY DEF PromoteLedger, LedgerInv, DrainInv
<1>5. CASE Record \/ PersistBegin \/ CloseBegin \/ FlushFiles \/ FlushDrain \/ ResumeBegin
  BY <1>5 DEF Record, PersistBegin, CloseBegin, FlushFiles, FlushDrain, ResumeBegin
<1>6. CASE WriteManifest \/ RecordLaunch \/ Resume \/ Reopen
  BY <1>1, <1>6 DEF WriteManifest, RecordLaunch, Resume, Reopen, Swap, Directory
<1>7. CASE Crash
  BY <1>2, <1>7 DEF Crash, Drained
<1> QED
  BY <1>3, <1>4, <1>5, <1>6, <1>7 DEF Next, Persisting

\* Once the manifest says closed, the ledger under it does not change, whatever
\* the writer thread had still to do (close, flush, reopen).
THEOREM StoreSealedStays == Spec => SealedStaysSealed
<1>1. LedgerInv /\ [Next]_vars => [SealedStep]_vars
  BY SealedNext
<1> QED
  BY <1>1, LedgerInvHolds, PTL DEF Spec, SealedStaysSealed, SealedStep

-----------------------------------------------------------------------------
(* What was called durable.                                                *)

\* Where a record may be: readable on disk, or lost in a named way; and, as
\* long as the run has no directory, in the window.
Safe == Readable(disk.ledger) \cup excused \cup evicted
Unwritten == IF ~mem.dir \/ stage = "ledger" THEN Readable(mem.window) ELSE {}

\* Certified records are safe; the held ones are on their way, unless the
\* writer has failed, and safe once a flush has drained; a resume in progress
\* has read safe ones only.
KeptInv ==
  /\ CertifiedKept
  /\ journal.failed \/ held \subseteq Safe \cup Pending \cup Unwritten
  /\ stage \in {"tail", "manifest"} => held \subseteq Safe
  /\ job = "resume" => Readable(back.window) \subseteq Safe
  /\ \A n \in Unwritten : n < mem.total

\* A line that is written, whole or in part, and what it spoils.
LEMMA WrittenSafe ==
  ASSUME LedgerInv, Writer
  PROVE  /\ Safe \subseteq Safe' /\ Pending' \subseteq Pending
         /\ journal'.failed \/ Pending \subseteq Pending' \cup Safe'
         /\ journal.failed => journal'.failed
<1> USE DEF hist
<1>1. journal \in Handle /\ disk \in Directory /\ None \notin Seqs /\ journal.queue \in Seq(Seqs)
      /\ Torn \notin Seqs
  BY StoreAssumption DEF LedgerInv, TypeInv, TypeOK, Handle, Seqs
<1>2. CASE WriterTake
  <2>1. /\ journal.queue # <<>> /\ journal.hand = None /\ journal'.queue = Tail(journal.queue)
        /\ journal'.hand = Head(journal.queue) /\ journal'.failed = journal.failed
        /\ UNCHANGED <<disk, excused, evicted, send>>
    BY <1>1, <1>2 DEF WriterTake, Handle
  <2>2. Elems(journal.queue) = {journal'.hand} \cup Elems(journal'.queue)
        /\ journal'.hand \in Seqs
    BY <1>1, <2>1, RisingTail, HeadTailProperties DEF LedgerInv, QueueInv
  <2>3. Pending' = Pending
    BY <1>1, <2>1, <2>2 DEF Pending, Waiting, Sent
  <2> QED
    BY <2>1, <2>3 DEF Safe
<1>3. CASE WriterOk
  <2>1. /\ journal.hand \in Seqs /\ journal'.hand = None /\ journal'.queue = journal.queue
        /\ journal'.failed = journal.failed
    BY <1>1, <1>3 DEF WriterOk, Recomputed, Handle
  <2>2. excused' = excused \cup ((Readable(disk.ledger) \cup {journal.hand}) \ Readable(disk'.ledger))
        /\ UNCHANGED <<evicted, send>>
    BY <1>3 DEF WriterOk, Merged
  <2>3. Safe' = Readable(disk'.ledger) \cup excused' \cup evicted'
    BY DEF Safe, Readable
  <2>4. Safe \cup {journal.hand} \subseteq Safe'
    BY <2>2, <2>3 DEF Safe
  <2>5. Pending = Pending' \cup {journal.hand}
    BY <1>1, <2>1, <2>2 DEF Pending, Waiting, Sent
  <2> QED
    BY <2>1, <2>4, <2>5
<1>4. CASE WriterFail
  <2>1. journal'.failed /\ journal'.hand = None /\ journal'.queue = journal.queue
    BY <1>1, <1>4 DEF WriterFail, Handle
  <2>2. excused' = excused \cup (Readable(disk.ledger) \ Readable(disk'.ledger))
        /\ UNCHANGED <<evicted, send>>
    BY <1>4 DEF WriterFail
  <2>3. Safe' = Readable(disk'.ledger) \cup excused' \cup evicted'
    BY DEF Safe, Readable
  <2> QED
    BY <2>1, <2>2, <2>3 DEF Safe, Pending, Waiting, Sent
<1> QED
  BY <1>2, <1>3, <1>4 DEF Writer

\* A line in submit is queued, given up, or still there.
LEMMA SubmittedSafe ==
  ASSUME LedgerInv, Submit
  PROVE  Safe \subseteq Safe' /\ Pending \subseteq Pending' \cup Safe'
<1> USE DEF hist
<1>1. journal \in Handle /\ send \in [step : Steps, seq : Seqs \cup {None}] /\ journal.queue \in Seq(Seqs)
      /\ send.seq \in Seqs /\ send.step # "idle" /\ UNCHANGED <<disk, evicted>>
      /\ journal'.hand = journal.hand
  BY SubmitSteps DEF LedgerInv, TypeInv, TypeOK, Handle
<1>2. Safe' = Readable(disk.ledger) \cup excused' \cup evicted
  BY <1>1 DEF Safe, Readable
<1>3. CASE excused' = excused \cup {send.seq} /\ journal'.queue = journal.queue
  BY <1>1, <1>2, <1>3 DEF Safe, Pending, Waiting, Sent
<1>4. CASE excused' = excused /\ journal'.queue = journal.queue /\ send'.seq = send.seq /\ send'.step # "idle"
  BY <1>1, <1>2, <1>4 DEF Safe, Pending, Waiting, Sent
<1>5. CASE excused' = excused /\ journal'.queue = Append(journal.queue, send.seq)
  <2>1. Elems(journal'.queue) = Elems(journal.queue) \cup {send.seq}
    BY <1>1, <1>5, RisingAppend DEF LedgerInv, QueueInv, Waiting
  <2> QED
    BY <1>1, <1>2, <1>5, <2>1 DEF Safe, Pending, Waiting, Sent
<1>6. CASE SubmitRefused \/ SubmitTimeout
  <2>1. excused' = excused \cup {send.seq} /\ journal'.queue = journal.queue
    BY <1>1, <1>6 DEF SubmitRefused, SubmitTimeout, GiveUp, Handle
  <2> QED
    BY <1>3, <2>1
<1>7. CASE SubmitAttempt \/ SubmitWait \/ SubmitRetry
  <2>1. excused' = excused /\ journal'.queue = journal.queue /\ send'.seq = send.seq /\ send'.step # "idle"
    BY <1>1, <1>7 DEF SubmitAttempt, SubmitWait, SubmitRetry, Recomputed, Handle
  <2> QED
    BY <1>4, <2>1
<1>8. CASE TrySend
  <2>1. \/ excused' = excused /\ journal'.queue = Append(journal.queue, send.seq)
        \/ excused' = excused /\ journal' = journal /\ send' = [send EXCEPT !.step = "full"]
    BY <1>1, <1>8 DEF TrySend, Handle
  <2> QED
    BY <1>1, <1>4, <1>5, <2>1
<1> QED
  BY <1>6, <1>7, <1>8 DEF Submit

\* What a record leaves of the others.
LEMMA RecordKept ==
  ASSUME LedgerInv, KeptInv, Record
  PROVE  KeptInv'
<1> DEFINE n == mem.total
<1>1. /\ mem \in Context /\ journal \in Handle /\ mem.total \in Seqs /\ mem.total < MaxRecords
      /\ mem.window \in Seq(Seqs) /\ send.step = "idle" /\ job = "none" /\ stage = "idle"
      /\ mem.total \in Nat /\ mem.up
  <2>1. mem \in Context /\ journal \in Handle /\ mem.total < MaxRecords
        /\ send.step = "idle" /\ job = "none" /\ stage = "idle" /\ mem.up
    BY DEF Record, Idle, LedgerInv, DrainInv, TypeInv, TypeOK
  <2> QED
    BY <2>1, StoreAssumption DEF Context, Seqs
<1>2. /\ held' = held \cup {n} /\ certified' = certified \ {n}
      /\ UNCHANGED <<job, stage, back, disk, lived>>
  BY DEF Record
<1>3. Safe' = Readable(disk.ledger) \cup excused' \cup evicted'
  BY <1>2 DEF Safe, Readable
<1>4. (~journal.armed => ~journal.failed) /\ Sent = {}
  BY <1>1 DEF LedgerInv, DrainInv, NoJournal, Sent
<1>5. /\ Push(n).dir = mem.dir /\ Push(n).window \in Seq(Seqs) /\ Push(n).total = n + 1
      /\ \A x \in Readable(Push(n).window) : x \in Readable(mem.window) \cup {n}
  <2>1. Push(n) \in Context /\ Push(n).dir = mem.dir /\ Push(n).total = n + 1
    BY <1>1, PushTyped
  <2>2. ASSUME NEW x \in Readable(Push(n).window) PROVE x \in Readable(mem.window) \cup {n}
    <3> DEFINE w == Append(mem.window, n)
               excess == Len(w) - Low
    <3>1. w \in Seq(Seqs) /\ Len(w) \in Nat /\ Readable(w) = Readable(mem.window) \cup ({n} \ {Torn})
      BY <1>1, ReadableAppend
    <3> HIDE DEF w
    <3>2. \/ Push(n).window = w
          \/ Len(w) >= High /\ Push(n).window = SubSeq(w, excess + 1, Len(w))
      <4>1. CASE Len(w) < High
        <5>1. Push(n) = [mem EXCEPT !.total = n + 1, !.window = w]
          BY <4>1 DEF Push, w
        <5> QED
          BY <1>1, <5>1 DEF Context
      <4>2. CASE ~(Len(w) < High)
        <5>1. Push(n) = [mem EXCEPT !.total = n + 1, !.window = SubSeq(w, excess + 1, Len(w)),
                                    !.gone = mem.gone + excess, !.first = w[excess + 1]]
          BY <4>2 DEF Push, w
        <5>2. Push(n).window = SubSeq(w, excess + 1, Len(w))
          BY <1>1, <5>1 DEF Context
        <5> QED
          BY <3>1, <4>2, <5>2, StoreAssumption
      <4> QED
        BY <4>1, <4>2
    <3>3. CASE Push(n).window = w
      BY <2>2, <3>1, <3>3
    <3>4. CASE Len(w) >= High /\ Push(n).window = SubSeq(w, excess + 1, Len(w))
      <4>1. excess \in Nat /\ excess + 1 \in 1 .. Len(w)
        BY <3>1, <3>4, StoreAssumption
      <4>2. DOMAIN SubSeq(w, excess + 1, Len(w)) = 1 .. Len(w) - excess
            /\ \A i \in 1 .. Len(w) - excess : SubSeq(w, excess + 1, Len(w))[i] = w[excess + i]
        BY <3>1, <4>1
      <4>3. PICK i \in 1 .. Len(w) - excess : x = w[excess + i] /\ x # Torn
        BY <2>2, <3>4, <4>2 DEF Readable
      <4>4. excess + i \in DOMAIN w
        BY <3>1, <4>1
      <4>5. x \in Readable(w)
        BY <4>3, <4>4 DEF Readable
      <4> QED
        BY <3>1, <4>5
    <3> QED
      BY <3>2, <3>3, <3>4
  <2> QED
    BY <2>1, <2>2 DEF Context
<1>6. CASE ~mem.dir /\ mem' = Push(n) /\ evicted' = evicted \cup Trimmed(n)
           /\ UNCHANGED <<journal, send, excused>>
  <2>1. Unwritten = Readable(mem.window)
    BY <1>6 DEF Unwritten
  <2>2. Unwritten' = Readable(Push(n).window)
    BY <1>5, <1>6 DEF Unwritten, Readable
  <2>3. Pending' = Pending
    BY <1>6 DEF Pending, Waiting, Sent
  <2>4. evicted' = evicted \cup ((Readable(mem.window) \cup {n}) \ Readable(Push(n).window))
    BY <1>6 DEF Trimmed
  <2>5. Safe \subseteq Safe'
    BY <1>3, <1>6 DEF Safe
  <2>6. Unwritten \cup {n} \subseteq Unwritten' \cup Safe'
    BY <1>3, <2>1, <2>2, <2>4
  <2>7. mem'.total = n + 1 /\ \A x \in Unwritten' : x < n + 1
    <3>1. \A x \in Unwritten' : x \in Unwritten \cup {n}
      BY <1>5, <2>1, <2>2
    <3>2. \A x \in Unwritten : x < n
      BY DEF KeptInv
    <3>3. Unwritten \subseteq Nat
      BY <1>1, <2>1, WindowReadable DEF Seqs
    <3> QED
      <4>1. mem'.total = n + 1
        BY <1>5, <1>6
      <4>2. ASSUME NEW x \in Unwritten' PROVE x < n + 1
        <5>1. x = n \/ (x < n /\ x \in Nat)
          BY <3>1, <3>2, <3>3, <4>2
        <5> QED
          BY <1>1, <5>1
      <4> QED
        BY <4>1, <4>2
  <2>8. CertifiedKept'
    BY <1>2, <2>5 DEF KeptInv, CertifiedKept, Safe
  <2>9. journal'.failed \/ held' \subseteq Safe' \cup Pending' \cup Unwritten'
    BY <1>2, <1>6, <2>3, <2>5, <2>6 DEF KeptInv
  <2> QED
    BY <1>1, <1>2, <2>7, <2>8, <2>9 DEF KeptInv
<1>7. CASE mem.dir /\ mem'.total = n + 1 /\ mem'.dir
           /\ excused \ {n} \subseteq excused' /\ evicted \ {n} \subseteq evicted'
           /\ Pending \subseteq Pending' /\ (n \in Pending' \/ n \in Safe')
           /\ (journal.failed => journal'.failed)
  <2>1. Safe \ {n} \subseteq Safe'
    BY <1>3, <1>7 DEF Safe
  <2>2. Unwritten = {} /\ Unwritten' = {}
    BY <1>1, <1>2, <1>7 DEF Unwritten
  <2>3. CertifiedKept'
    BY <1>2, <2>1 DEF KeptInv, CertifiedKept, Safe
  <2>4. journal'.failed \/ held' \subseteq Safe' \cup Pending' \cup Unwritten'
    BY <1>2, <1>7, <2>1, <2>2 DEF KeptInv
  <2> QED
    BY <1>1, <1>2, <2>2, <2>3, <2>4 DEF KeptInv
<1>8. CASE mem.dir /\ mem' = Push(n) /\ send' = [step |-> "check", seq |-> n]
           /\ journal' = (IF journal.armed THEN journal ELSE [NoJournal EXCEPT !.armed = TRUE])
           /\ excused' = excused \ {n} /\ evicted' = evicted \ {n}
  <2>1. n \in Pending'
    BY <1>8 DEF Pending, Sent
  <2>2. Pending \subseteq Pending' /\ (journal.failed => journal'.failed)
    <3>1. CASE journal.armed
      BY <1>4, <1>8, <3>1 DEF Pending, Waiting, Sent
    <3>2. CASE ~journal.armed
      <4>1. Waiting = {}
        BY <3>2 DEF LedgerInv, DrainInv, NoJournal, Waiting, Elems
      <4> QED
        BY <1>4, <3>2, <4>1 DEF Pending
    <3> QED
      BY <3>1, <3>2
  <2> QED
    BY <1>5, <1>7, <1>8, <2>1, <2>2
<1>9. CASE mem.dir /\ ~journal.armed /\ mem' = [Push(n) EXCEPT !.unhealthy = TRUE]
           /\ excused' = excused \cup {n} /\ evicted' = evicted \ {n}
           /\ UNCHANGED <<journal, send>>
  <2>1. n \in Safe' /\ Pending' = Pending
    BY <1>3, <1>9 DEF Pending, Waiting, Sent
  <2>2. mem'.dir /\ mem'.total = n + 1
    <3>1. Push(n) \in Context
      BY <1>1, PushTyped
    <3> QED
      BY <1>5, <1>9, <3>1 DEF Context
  <2> QED
    BY <1>7, <1>9, <2>1, <2>2
<1> QED
  BY <1>6, <1>8, <1>9 DEF Record

\* Persisting certifies what is safe.
LEMMA PersistKept ==
  ASSUME LedgerInv, KeptInv,
         PersistBegin \/ CloseBegin \/ Persisting \/ RecordLaunch
  PROVE  KeptInv'
<1> USE DEF hist
<1>1. /\ mem \in Context /\ disk \in Directory /\ mem.window \in Seq(Seqs)
      /\ mem.total \in Nat
  BY StoreAssumption DEF LedgerInv, TypeInv, TypeOK, Context
<1>2. UNCHANGED <<journal, send, evicted, held>> /\ mem'.total = mem.total /\ Pending' = Pending
      /\ journal'.failed = journal.failed
  <2>1. UNCHANGED <<journal, send>> /\ mem'.total = mem.total
    BY OtherSteps DEF LedgerInv
  <2>2. UNCHANGED <<evicted, held>>
    BY DEF PersistBegin, CloseBegin, Persisting, RecordLaunch, PromoteLedger, FlushFiles, FlushDrain,
           WriteManifest, Fails, Succeeds
  <2> QED
    BY <2>1, <2>2 DEF Pending, Waiting, Sent
<1>3. Safe' = Readable(disk'.ledger) \cup excused' \cup evicted
  BY <1>2 DEF Safe, Readable
<1>4. CASE PersistBegin \/ CloseBegin
  <2>1. Safe' = Safe /\ UNCHANGED <<certified, back>> /\ mem'.window = mem.window
        /\ stage' \notin {"tail", "manifest"} /\ job' # "resume"
    BY <1>1, <1>3, <1>4 DEF PersistBegin, CloseBegin, Idle, Context, LedgerInv, DrainInv, Safe
  <2>2. Unwritten' = Unwritten
    <3>1. CASE mem.dir
      BY <1>1, <1>4, <3>1 DEF PersistBegin, CloseBegin, Idle, Context, LedgerInv, DrainInv, Unwritten
    <3>2. CASE ~mem.dir /\ mem.total > 0
      BY <1>1, <1>4, <2>1, <3>2
         DEF PersistBegin, CloseBegin, Idle, Context, LedgerInv, DrainInv, Unwritten, Readable
    <3>3. CASE ~mem.dir /\ mem.total = 0
      <4>1. Unwritten = Readable(mem.window)
        BY <3>3 DEF Unwritten
      <4>2. Unwritten = {}
        <5>1. \A x \in Unwritten : x < 0 /\ x \in Nat
          BY <1>1, <3>3, <4>1, WindowReadable DEF KeptInv, Seqs
        <5> QED
          BY <5>1
      <4>3. Unwritten' \subseteq Readable(mem.window)
        BY <2>1 DEF Unwritten, Readable
      <4> QED
        BY <4>1, <4>2, <4>3
    <3> QED
      BY <1>1, <3>1, <3>2, <3>3
  <2> QED
    BY <1>2, <2>1, <2>2 DEF KeptInv, CertifiedKept, Safe
<1>5. CASE PromoteLedger
  <2>1. stage = "ledger" /\ Readable(disk.ledger) = {} /\ Unwritten = Readable(mem.window) /\ mem.dir
        /\ mem'.dir
    <3>1. stage = "ledger" /\ disk.ledger = <<>> /\ mem.dir
      BY <1>5 DEF PromoteLedger, LedgerInv, DrainInv
    <3>2. mem'.dir = mem.dir
      BY <1>1, <1>5 DEF PromoteLedger, Context
    <3> QED
      BY <3>1, <3>2 DEF Readable, Unwritten
  <2>2. stage' \in {"files", "idle"} /\ certified' = certified /\ job' # "resume"
    BY <1>5 DEF PromoteLedger, Fails, LedgerInv, DrainInv
  <2>3. Safe \cup Unwritten \subseteq Safe'
    <3>1. CASE disk' = [disk EXCEPT !.ledger = mem.window] /\ excused' = excused
      <4>1. disk'.ledger = mem.window
        BY <1>1, <3>1 DEF Directory
      <4> QED
        BY <1>3, <2>1, <3>1, <4>1 DEF Safe
    <3>2. CASE excused' = excused \cup (Readable(mem.window) \ Readable(disk'.ledger))
      BY <1>3, <2>1, <3>2 DEF Safe
    <3> QED
      BY <1>5, <3>1, <3>2 DEF PromoteLedger
  <2>4. Unwritten' = {}
    BY <2>1, <2>2 DEF Unwritten
  <2>5. CertifiedKept'
    BY <1>3, <2>2, <2>3 DEF KeptInv, CertifiedKept, Safe
  <2> QED
    BY <1>2, <2>2, <2>3, <2>4, <2>5 DEF KeptInv
<1>6. ASSUME UNCHANGED <<excused>>, disk'.ledger = disk.ledger, mem'.dir = mem.dir, mem.dir,
             stage # "ledger", stage' # "ledger",
             certified' = certified \/ (certified' = certified \cup held /\ stage \in {"tail", "manifest"}),
             stage' \in {"tail", "manifest"} => stage \in {"tail", "manifest"} \/ held \subseteq Safe,
             job' = "resume" => job = "resume" /\ back' = back
      PROVE  KeptInv'
  <2>1. Safe' = Safe /\ Unwritten = {} /\ Unwritten' = {}
    BY <1>3, <1>6 DEF Unwritten, Safe
  <2>2. CertifiedKept'
    BY <1>6, <2>1 DEF KeptInv, CertifiedKept, Safe
  <2> QED
    BY <1>2, <1>6, <2>1, <2>2 DEF KeptInv
<1>7. CASE FlushFiles
  <2>1. mem'.dir = mem.dir /\ mem.dir
    BY <1>1, <1>7 DEF FlushFiles, Reopened, Context, LedgerInv, DrainInv
  <2>2. certified' = certified \/ (certified' = certified \cup held /\ stage \in {"tail", "manifest"})
    BY <1>7 DEF FlushFiles, Fails, Succeeds
  <2> QED
    BY <1>6, <1>7, <2>1, <2>2 DEF FlushFiles, Fails, Succeeds
<1>8. CASE FlushDrain
  <2>1. mem'.dir = mem.dir /\ mem.dir /\ UNCHANGED <<certified, excused, disk>>
    BY <1>1, <1>8 DEF FlushDrain, Reopened, Fails, Context, LedgerInv, DrainInv
  <2>2. CASE journal.armed => journal.mark >= mem.total /\ ~journal.failed
    <3>1. Drained
      BY <1>8, <2>2, CaughtUp DEF FlushDrain, LedgerInv, DrainInv
    <3>2. Pending = {}
      BY <3>1 DEF Drained, Pending, Waiting, Sent, Elems
    <3>3. ~journal.failed
      BY <2>2 DEF LedgerInv, DrainInv, NoJournal
    <3>4. Unwritten = {}
      BY <1>8, <2>1 DEF FlushDrain, Unwritten
    <3>5. held \subseteq Safe
      BY <3>2, <3>3, <3>4 DEF KeptInv
    <3> QED
      BY <1>6, <1>8, <2>1, <3>5 DEF FlushDrain, Fails
  <2>3. CASE ~(journal.armed => journal.mark >= mem.total /\ ~journal.failed)
    BY <1>6, <1>8, <2>1, <2>3 DEF FlushDrain, Fails
  <2> QED
    BY <2>2, <2>3
<1>9. CASE WriteManifest
  <2>1. mem'.dir = mem.dir /\ mem.dir
    BY <1>1, <1>9 DEF WriteManifest, Reopened, Context, LedgerInv, DrainInv
  <2>2. certified' = certified \/ (certified' = certified \cup held /\ stage \in {"tail", "manifest"})
    BY <1>9 DEF WriteManifest, Fails, Succeeds
  <2>3. disk'.ledger = disk.ledger /\ excused' = excused
    BY <1>1, <1>9 DEF WriteManifest, Succeeds, Directory
  <2> QED
    BY <1>6, <1>9, <2>1, <2>2, <2>3 DEF WriteManifest, Fails, Succeeds
<1>10. CASE RecordLaunch
  <2>1. disk'.ledger = disk.ledger
    BY <1>1, <1>10 DEF RecordLaunch, Directory
  <2>2. stage = "idle"
    BY <1>10 DEF RecordLaunch, Idle, LedgerInv, DrainInv
  <2> QED
    BY <1>6, <1>10, <2>1, <2>2 DEF RecordLaunch
<1> QED
  BY <1>4, <1>5, <1>7, <1>8, <1>9, <1>10 DEF Persisting

\* A crash keeps what is on disk, and a resume holds what it read there.
LEMMA ResumeKept ==
  ASSUME LedgerInv, KeptInv, Crash \/ Resume \/ ResumeBegin \/ Reopen
  PROVE  KeptInv'
<1>1. mem \in Context /\ disk \in Directory
  BY DEF LedgerInv, TypeInv, TypeOK
<1>2. Safe' = Readable(disk'.ledger) \cup excused' \cup evicted'
  BY DEF Safe, Readable
<1>3. CASE Crash
  <2>1. Safe \subseteq Safe' /\ UNCHANGED certified /\ held' = {} /\ stage' = "idle" /\ job' = "none"
    BY <1>2, <1>3 DEF Crash, Safe
  <2>2. Unwritten' = {}
    BY <1>3 DEF Crash, NoRun, Unwritten, Readable
  <2>3. CertifiedKept'
    BY <1>2, <2>1 DEF KeptInv, CertifiedKept, Safe
  <2> QED
    BY <2>1, <2>2, <2>3 DEF KeptInv
<1>4. ASSUME NEW run, Swap(run), run.dir, stage' = "idle", job' # "resume", UNCHANGED <<excused, evicted>>,
             Readable(run.window) \subseteq Safe, certified' \subseteq certified \cup held,
             certified' # certified => held \subseteq Safe
      PROVE  KeptInv'
  <2>1. Safe' = Safe
    BY <1>1, <1>2, <1>4 DEF Swap, Directory, Safe
  <2>2. Unwritten' = {}
    BY <1>4 DEF Swap, Unwritten
  <2>3. CertifiedKept'
    BY <1>4, <2>1 DEF KeptInv, CertifiedKept, Safe
  <2> QED
    BY <1>4, <2>1, <2>2, <2>3 DEF KeptInv, Swap
<1>5. CASE Resume
  <2>1. Restored.dir /\ Readable(Restored.window) = Readable(disk.ledger)
    BY <1>1, <1>5, RestoredReads DEF Resume, LedgerInv, TypeInv, EpochInv
  <2>2. stage = "idle" /\ job = "none"
    BY <1>5 DEF Resume, LedgerInv, EpochInv
  <2> QED
    BY <1>4, <1>5, <2>1, <2>2 DEF Resume, Safe
<1>6. CASE ResumeBegin
  <2>1. Readable(Restored.window) = Readable(disk.ledger)
    BY <1>1, <1>6, RestoredReads DEF ResumeBegin
  <2>2. Safe' = Safe /\ Pending' = Pending /\ UNCHANGED <<journal, certified, held, mem>>
        /\ back' = Restored /\ stage' = "files" /\ stage = "idle"
    BY <1>2, <1>6 DEF ResumeBegin, Idle, hist, Safe, Pending, Waiting, Sent, LedgerInv, DrainInv
  <2>3. Unwritten' = Unwritten
    BY <2>2 DEF Unwritten
  <2> QED
    BY <2>1, <2>2, <2>3 DEF KeptInv, CertifiedKept, Safe
<1>7. CASE Reopen
  <2>1. back.dir /\ Readable(back.window) \subseteq Safe /\ held \subseteq Safe
    BY <1>7 DEF Reopen, LedgerInv, DrainInv, KeptInv
  <2> QED
    BY <1>4, <1>7, <2>1 DEF Reopen
<1> QED
  BY <1>3, <1>5, <1>6, <1>7

\* Every step keeps what was certified.
LEMMA KeptNext == LedgerInv /\ LedgerInv' /\ KeptInv /\ [Next]_vars => KeptInv'
<1> SUFFICES ASSUME LedgerInv, KeptInv, [Next]_vars PROVE KeptInv'
  OBVIOUS
<1>1. journal \in Handle /\ disk \in Directory
  BY DEF LedgerInv, TypeInv, TypeOK
<1>2. CASE UNCHANGED vars
  BY <1>2 DEF vars, hist, KeptInv, CertifiedKept, Safe, Pending, Waiting, Sent, Unwritten
<1>3. CASE Submit \/ Writer
  <2>1. UNCHANGED <<mem, job, stage, back, held, certified, evicted, lived>>
    BY <1>1, <1>3, SubmitSteps, WriterSteps
  <2>2. Safe \subseteq Safe' /\ (journal'.failed \/ Pending \subseteq Pending' \cup Safe')
        /\ (journal.failed => journal'.failed)
    BY <1>1, <1>3, WrittenSafe, SubmittedSafe, SubmitSteps
  <2>3. Unwritten' = Unwritten
    BY <2>1 DEF Unwritten
  <2>4. CertifiedKept'
    BY <2>1, <2>2 DEF KeptInv, CertifiedKept, Safe
  <2> QED
    BY <2>1, <2>2, <2>3, <2>4 DEF KeptInv
<1> QED
  BY <1>2, <1>3, RecordKept, PersistKept, ResumeKept DEF Next

\* What a persist or a close reported durable can be read back, across write
\* errors, torn lines, crashes and resumes, unless it was lost in one of the
\* named ways (flush, close, promote, JournalHandle).
THEOREM StoreCertifiedKept == Spec => []CertifiedKept
<1>1. Init => KeptInv
  BY DEF Init, NoRun, NoJournal, KeptInv, CertifiedKept, Unwritten, Readable
<1>2. KeptInv => CertifiedKept
  BY DEF KeptInv
<1> QED
  BY <1>1, <1>2, LedgerInvHolds, KeptNext, PTL DEF Spec

-----------------------------------------------------------------------------
(* Losses are declared.                                                    *)

\* An eviction that the live run, a resume in progress and the manifest all
\* know of.
GapInv ==
  evicted # {} => /\ mem.up => mem.gone > 0
                  /\ job = "resume" => back.gone > 0
                  /\ disk.manifest # None => disk.manifest.gone > 0

\* A failed line leaves the health failed, until a drop says so in its place;
\* with a drop the journal is never healthy (JournalHealth::recompute_state).
HealthInv ==
  /\ journal.failed => journal.health = "failed" \/ journal.drops > 0
  /\ journal.drops > 0 => journal.health # "healthy"

\* An eviction is declared in the step that makes it (push_ledger).
LEMMA TrimDeclared ==
  ASSUME mem \in Context, mem.total < MaxRecords, Trimmed(mem.total) # {}
  PROVE  Push(mem.total).gone > 0
<1> DEFINE w == Append(mem.window, mem.total)
           excess == Len(w) - Low
<1>1. /\ mem.total \in Seqs /\ mem.window \in Seq(Seqs) /\ mem.gone \in Nat
  BY StoreAssumption DEF Context, Seqs
<1>2. Readable(w) = Readable(mem.window) \cup ({mem.total} \ {Torn}) /\ Len(w) \in Nat
      /\ mem.total # Torn
  BY <1>1, ReadableAppend, StoreAssumption DEF Seqs
<1> HIDE DEF w
<1>3. CASE Len(w) < High
  <2>1. Push(mem.total).window = w
    BY <1>3 DEF Push, w, Context
  <2> QED
    BY <1>2, <2>1 DEF Trimmed
<1>4. CASE ~(Len(w) < High)
  <2>1. Push(mem.total).gone = mem.gone + excess
    BY <1>4 DEF Push, w, Context
  <2>2. excess \in Nat /\ excess > 0
    BY <1>2, <1>4, StoreAssumption
  <2> QED
    BY <1>1, <2>1, <2>2
<1> QED
  BY <1>3, <1>4

\* Every step keeps evictions declared.
LEMMA GapNext == LedgerInv /\ LedgerInv' /\ GapInv /\ [Next]_vars => GapInv'
<1> SUFFICES ASSUME LedgerInv, LedgerInv', GapInv, [Next]_vars PROVE GapInv'
  OBVIOUS
<1> USE DEF hist
<1>1. /\ mem \in Context /\ journal \in Handle /\ disk \in Directory /\ mem.gone \in Nat
  BY DEF LedgerInv, TypeInv, TypeOK, Context
<1>2. CASE UNCHANGED vars
  BY <1>2 DEF vars, GapInv
<1>3. CASE Submit \/ Writer
  BY <1>1, <1>3, SubmitSteps, WriterSteps DEF GapInv, Submit, SubmitRefused, SubmitAttempt, TrySend,
     SubmitWait, SubmitRetry, SubmitTimeout, GiveUp
<1>4. CASE Record
  <2>1. mem.total < MaxRecords /\ job = "none" /\ mem.up /\ UNCHANGED <<job, back, disk>>
    BY <1>4 DEF Record, Idle
  <2>2. Push(mem.total) \in Context /\ Push(mem.total).gone >= mem.gone /\ Push(mem.total).gone \in Nat
    <3>1. Push(mem.total) \in Context /\ Push(mem.total).gone >= mem.gone
      BY <1>1, <2>1, PushTyped
    <3> QED
      BY <3>1 DEF Context
  <2>3. mem'.gone = Push(mem.total).gone
    BY <1>4, <2>2 DEF Record, Context
  <2>4. CASE ~mem.dir
    <3>1. disk.manifest = None
      BY <2>1, <2>4 DEF LedgerInv, DrainInv
    <3>2. evicted' = evicted \cup Trimmed(mem.total)
      BY <1>4, <2>4 DEF Record
    <3>3. evicted' # {} => mem'.gone > 0
      <4>1. CASE evicted # {}
        BY <1>1, <2>1, <2>2, <2>3, <4>1 DEF GapInv
      <4>2. CASE Trimmed(mem.total) # {}
        BY <1>1, <2>1, <2>3, <4>2, TrimDeclared
      <4> QED
        BY <3>2, <4>1, <4>2
    <3> QED
      BY <2>1, <3>1, <3>3 DEF GapInv
  <2>5. CASE mem.dir
    <3>1. evicted' \subseteq evicted
      BY <1>4, <2>5 DEF Record
    <3>2. evicted # {} => mem'.gone > 0
      BY <1>1, <2>1, <2>2, <2>3 DEF GapInv
    <3> QED
      BY <2>1, <3>1, <3>2 DEF GapInv
  <2> QED
    BY <1>1, <2>4, <2>5 DEF Context
<1>5. CASE PersistBegin \/ CloseBegin \/ PromoteLedger \/ FlushFiles \/ FlushDrain
  <2>1. Reopened.gone = mem.gone /\ Reopened \in Context
    BY <1>1 DEF Reopened, Context
  <2>2. mem'.gone = mem.gone
    BY <1>1, <1>5, <2>1 DEF PersistBegin, CloseBegin, PromoteLedger, FlushFiles, FlushDrain, Context
  <2>3. disk'.manifest = disk.manifest
    BY <1>1, <1>5 DEF PersistBegin, CloseBegin, PromoteLedger, FlushFiles, FlushDrain, Directory
  <2>4. evicted' = evicted /\ (job' # "resume" \/ UNCHANGED <<job, back>>)
    BY <1>5 DEF PersistBegin, CloseBegin, PromoteLedger, FlushFiles, FlushDrain, Fails, Succeeds, Idle
  <2>5. mem.up
    BY <1>5 DEF PersistBegin, CloseBegin, PromoteLedger, FlushFiles, FlushDrain, Idle, LedgerInv, EpochInv
  <2> QED
    BY <2>2, <2>3, <2>4, <2>5 DEF GapInv
<1>6. CASE WriteManifest \/ RecordLaunch
  <2>1. Reopened.gone = mem.gone /\ Reopened \in Context /\ CurrentManifest.gone = mem.gone
    BY <1>1 DEF Reopened, Context, CurrentManifest
  <2>2. mem'.gone = mem.gone /\ evicted' = evicted /\ (job' # "resume" \/ UNCHANGED <<job, back>>)
    BY <1>6, <2>1 DEF WriteManifest, RecordLaunch, Fails, Succeeds, Idle
  <2>3. disk'.manifest = disk.manifest \/ disk'.manifest.gone = mem.gone
    BY <1>1, <1>6, <2>1 DEF WriteManifest, RecordLaunch, Directory
  <2>4. mem.up
    BY <1>6 DEF WriteManifest, RecordLaunch, Idle, LedgerInv, EpochInv
  <2> QED
    BY <2>2, <2>3, <2>4 DEF GapInv
<1>7. CASE Crash
  <2>1. disk'.manifest = disk.manifest
    BY <1>1, <1>7, AppendKeeps DEF Crash, Directory
  <2> QED
    BY <1>7, <2>1 DEF Crash, NoRun, GapInv
<1>8. CASE Resume \/ ResumeBegin
  <2>1. /\ Restored.gone >= disk.manifest.gone /\ disk.manifest # None /\ disk.manifest.gone \in Nat
        /\ Restored.gone \in Nat
    <3>1. Restored.gone >= disk.manifest.gone /\ disk.manifest # None /\ Restored \in Context
      BY <1>1, <1>8, RestoredReads DEF Resume, ResumeBegin, LedgerInv, TypeInv, EpochInv
    <3> QED
      BY <1>1, <3>1 DEF Context, Directory, Manifest
  <2>2. evicted # {} => Restored.gone > 0
    BY <2>1 DEF GapInv
  <2>3. CASE Resume
    <3>1. disk'.manifest.gone = Restored.gone
      BY <1>1, <2>3 DEF Resume, Swap, ReopenedManifest, Directory
    <3> QED
      BY <2>2, <2>3, <3>1 DEF Resume, Swap, GapInv, LedgerInv, EpochInv
  <2>4. CASE ResumeBegin
    BY <2>2, <2>4 DEF ResumeBegin, GapInv
  <2> QED
    BY <1>8, <2>3, <2>4
<1>9. CASE Reopen
  <2>1. disk'.manifest.gone = back.gone
    BY <1>1, <1>9 DEF Reopen, Swap, ReopenedManifest, Directory
  <2> QED
    BY <1>9, <2>1 DEF Reopen, Swap, GapInv
<1> QED
  BY <1>2, <1>3, <1>4, <1>5, <1>6, <1>7, <1>8, <1>9 DEF Next, Persisting

\* Every step keeps the health honest.
LEMMA HealthNext == LedgerInv /\ HealthInv /\ [Next]_vars => HealthInv'
<1> SUFFICES ASSUME LedgerInv, HealthInv, [Next]_vars PROVE HealthInv'
  OBVIOUS
<1> USE DEF hist
<1>1. journal \in Handle /\ journal.drops \in Nat
  BY DEF LedgerInv, TypeInv, TypeOK, Handle
<1>2. CASE UNCHANGED journal
  BY <1>2 DEF HealthInv
<1>3. ASSUME NEW j \in Handle, journal' = Recomputed(j), j.health = journal.health,
             j.drops = journal.drops, j.failed = journal.failed
      PROVE  HealthInv'
  BY <1>1, <1>3 DEF HealthInv, Recomputed, Handle
<1>4. journal' = NoJournal \/ journal' = [NoJournal EXCEPT !.armed = TRUE] => HealthInv'
  BY DEF NoJournal, HealthInv
<1>5. CASE Submit
  <2>1. CASE SubmitAttempt
    <3>1. [journal EXCEPT !.depth = @ + 1] \in Handle
      BY <1>1 DEF Handle
    <3>2. /\ [journal EXCEPT !.depth = @ + 1].health = journal.health
          /\ [journal EXCEPT !.depth = @ + 1].drops = journal.drops
          /\ [journal EXCEPT !.depth = @ + 1].failed = journal.failed
      BY <1>1 DEF Handle
    <3> QED
      BY <1>3, <2>1, <3>1, <3>2 DEF SubmitAttempt
  <2>2. ASSUME NEW h \in {"failed", "backpressure"}, GiveUp(h) PROVE HealthInv'
    <3>1. journal'.drops = journal.drops + 1 /\ journal'.health = h
      BY <1>1, <2>2 DEF GiveUp, Handle
    <3> QED
      BY <1>1, <2>2, <3>1 DEF HealthInv
  <2>3. CASE TrySend
    <3>1. journal'.drops = journal.drops /\ journal'.health = journal.health
          /\ journal'.failed = journal.failed
      BY <1>1, <2>3 DEF TrySend, Handle
    <3> QED
      BY <3>1 DEF HealthInv
  <2> QED
    BY <1>2, <1>5, <2>1, <2>2, <2>3
       DEF Submit, SubmitRefused, SubmitWait, SubmitRetry, SubmitTimeout
<1>6. CASE Writer
  <2>1. CASE WriterTake
    <3>1. journal'.drops = journal.drops /\ journal'.health = journal.health
          /\ journal'.failed = journal.failed
      BY <1>1, <2>1 DEF WriterTake, Handle
    <3> QED
      BY <3>1 DEF HealthInv
  <2>2. CASE WriterOk
    <3> DEFINE j == [journal EXCEPT
                       !.mark = IF @ > journal.hand THEN @ ELSE journal.hand + 1,
                       !.hand = None, !.depth = Less(@)]
    <3>1. journal' = Recomputed(j)
      BY <2>2 DEF WriterOk
    <3>2. j.health = journal.health /\ j.drops = journal.drops /\ j.failed = journal.failed
      BY <1>1 DEF Handle
    <3>3. j \in Handle
      <4>1. journal.hand \in Seqs /\ journal.mark \in 0 .. MaxRecords /\ journal.depth \in Nat
        BY <1>1, <2>2 DEF WriterOk, Handle
      <4>2. journal.hand + 1 \in 0 .. MaxRecords /\ Less(journal.depth) \in Nat
        BY <4>1, StoreAssumption DEF Seqs, Less
      <4> QED
        BY <1>1, <4>1, <4>2 DEF Handle
    <3> HIDE DEF j
    <3> QED
      BY <1>3, <3>1, <3>2, <3>3
  <2>3. CASE WriterFail
    <3>1. journal'.drops = journal.drops /\ journal'.health = "failed"
      BY <1>1, <2>3 DEF WriterFail, Handle
    <3> QED
      BY <3>1 DEF HealthInv
  <2> QED
    BY <1>6, <2>1, <2>2, <2>3 DEF Writer
<1>7. CASE Record
  BY <1>2, <1>4, <1>7 DEF Record
<1>8. CASE PersistBegin \/ CloseBegin \/ Persisting \/ RecordLaunch \/ ResumeBegin
  BY <1>2, <1>8, OtherSteps DEF LedgerInv
<1>9. CASE Crash \/ Resume \/ Reopen
  BY <1>4, <1>9 DEF Crash, Resume, Reopen, Swap
<1>10. CASE UNCHANGED vars
  BY <1>2, <1>10 DEF vars
<1> QED
  BY <1>5, <1>6, <1>7, <1>8, <1>9, <1>10 DEF Next

\* Records evicted before there was a directory are a gap that every later
\* manifest declares, resumes included, and a journal that dropped or failed a
\* line is not healthy (push_ledger, write_manifest, JournalHealth).
THEOREM StoreLossTold == Spec => []LossTold
<1>1. Init => GapInv /\ HealthInv
  BY DEF Init, GapInv, HealthInv, NoJournal
<1>2. LedgerInv /\ GapInv /\ HealthInv => LossTold
  <2>1. LedgerInv => journal.drops \in Nat
    BY DEF LedgerInv, TypeInv, TypeOK, Handle
  <2> QED
    BY <2>1 DEF LossTold, GapDeclared, HealthHonest, GapInv, HealthInv
<1> QED
  BY <1>1, <1>2, LedgerInvHolds, GapNext, HealthNext, PTL DEF Spec

-----------------------------------------------------------------------------
(* A number names one line.                                                *)

InOrder(l) == \A i, j \in DOMAIN l : i < j /\ l[i] # Torn /\ l[j] # Torn => l[i] < l[j]

\* The readable lines rise, what is pending comes after them, and so does the
\* next number to be handed out: the live run's and that of a run that is read
\* back, which must not be writing.
OrderInv ==
  /\ InOrder(disk.ledger)
  /\ \A a \in Readable(disk.ledger) : \A b \in Pending : a < b
  /\ mem.up => \A a \in Readable(disk.ledger) : a < mem.total
  /\ job = "resume" => Drained /\ \A a \in Readable(disk.ledger) : a < back.total
  /\ ~mem.dir \/ stage = "ledger" => Rising(mem.window)

\* A line behind lines that are in order.
LEMMA OrderAppend ==
  ASSUME NEW l \in Lines, InOrder(l), NEW x \in Seqs \cup {Torn},
         x # Torn => \A a \in Readable(l) : a < x
  PROVE  InOrder(Append(l, x)) /\ Readable(Append(l, x)) = Readable(l) \cup ({x} \ {Torn})
<1>1. /\ DOMAIN Append(l, x) = DOMAIN l \cup {Len(l) + 1} /\ DOMAIN l = 1 .. Len(l) /\ Len(l) \in Nat
      /\ \A i \in DOMAIN l : Append(l, x)[i] = l[i]
      /\ Append(l, x)[Len(l) + 1] = x
  BY DEF Lines
<1>2. \A i \in DOMAIN l : l[i] # Torn => l[i] \in Readable(l)
  BY DEF Readable
<1>3. InOrder(Append(l, x))
  BY <1>1, <1>2 DEF InOrder
<1> QED
  BY <1>1, <1>3, ReadableAppend DEF Lines

\* A write leaves the lines in order, and adds at most the one it writes.
LEMMA WrittenInOrder ==
  ASSUME disk \in Directory, disk.open => disk.ledger # <<>>, NEW n \in Seqs,
         InOrder(disk.ledger), \A a \in Readable(disk.ledger) : a < n
  PROVE  \A d \in {disk, Appended(n)} \cup AppendedPart(n) :
           InOrder(d.ledger) /\ Readable(d.ledger) \subseteq Readable(disk.ledger) \cup {n}
<1> DEFINE Fine(l) == InOrder(l) /\ Readable(l) \subseteq Readable(disk.ledger) \cup {n}
           cut == [disk.ledger EXCEPT ![Len(disk.ledger)] = Torn]
<1>1. disk.ledger \in Lines
  BY DEF Directory, Lines
<1>2. Fine(Append(disk.ledger, n)) /\ Fine(Append(disk.ledger, Torn))
  BY <1>1, OrderAppend
<1>3. ASSUME disk.open PROVE Fine(cut)
  <2>1. /\ DOMAIN cut = DOMAIN disk.ledger
        /\ \A i \in DOMAIN cut : cut[i] # Torn => cut[i] = disk.ledger[i]
    BY <1>1, <1>3 DEF Lines
  <2> HIDE DEF cut
  <2> QED
    BY <2>1 DEF InOrder, Readable
<1> HIDE DEF Fine, cut
<1>4. Fine(disk.ledger)
  BY DEF Fine
<1>5. Fine(Appended(n).ledger) /\ Appended(n) \in Directory
  <2>1. Appended(n).ledger = IF disk.open THEN cut ELSE Append(disk.ledger, n)
    BY DEF Appended, cut, Directory
  <2> QED
    BY <1>2, <1>3, <2>1, AppendTyped
<1>6. [Appended(n) EXCEPT !.open = TRUE].ledger = Appended(n).ledger
  BY <1>5 DEF Directory
<1>7. \A c : [disk EXCEPT !.ledger = c, !.open = TRUE].ledger = c
  BY DEF Directory
<1>8. \A d \in AppendedPart(n) : Fine(d.ledger)
  BY <1>2, <1>5, <1>6, <1>7 DEF AppendedPart
<1> QED
  BY <1>4, <1>5, <1>8 DEF Fine

\* A window that rises still does when a record is pushed.
LEMMA PushRises ==
  ASSUME mem \in Context, mem.total < MaxRecords, Rising(mem.window),
         \A x \in Readable(mem.window) : x < mem.total
  PROVE  Rising(Push(mem.total).window)
<1> DEFINE w == Append(mem.window, mem.total)
           excess == Len(w) - Low
<1>1. /\ mem.total \in Seqs /\ mem.window \in Seq(Seqs)
  BY StoreAssumption DEF Context, Seqs
<1>2. Rising(w) /\ w \in Seq(Seqs) /\ Len(w) \in Nat
  <2>1. \A x \in Elems(mem.window) : x < mem.total
    BY <1>1, WindowReadable DEF Elems
  <2> QED
    BY <1>1, <2>1, RisingAppend
<1> HIDE DEF w
<1>3. CASE Len(w) < High
  <2>1. Push(mem.total).window = w
    BY <1>3 DEF Push, w, Context
  <2> QED
    BY <1>2, <2>1
<1>4. CASE ~(Len(w) < High)
  <2>1. Push(mem.total).window = SubSeq(w, excess + 1, Len(w))
    BY <1>4 DEF Push, w, Context
  <2>2. excess \in Nat /\ excess + 1 \in 1 .. Len(w)
    BY <1>2, <1>4, StoreAssumption
  <2>3. DOMAIN SubSeq(w, excess + 1, Len(w)) = 1 .. Len(w) - excess
        /\ \A i \in 1 .. Len(w) - excess : SubSeq(w, excess + 1, Len(w))[i] = w[excess + i]
    BY <1>2, <2>2
  <2> HIDE DEF excess
  <2> QED
    BY <1>2, <2>1, <2>2, <2>3 DEF Rising
<1> QED
  BY <1>3, <1>4

\* What the writer writes comes after what is there, and before what is next.
LEMMA WriterOrder ==
  ASSUME LedgerInv, OrderInv, Writer
  PROVE  OrderInv'
<1> USE DEF hist
<1>1. /\ journal \in Handle /\ disk \in Directory /\ (disk.open => disk.ledger # <<>>)
      /\ mem.total \in Nat /\ journal.queue \in Seq(Seqs) /\ Torn \notin Seqs /\ None \notin Seqs
      /\ send.step # "idle" => send.seq \in Seqs
  BY StoreAssumption DEF LedgerInv, TypeInv, TypeOK, Handle, Context, Seqs
<1>2. UNCHANGED <<mem, send, job, stage, back>> /\ ~Drained
  BY <1>1, WriterSteps DEF Drained
<1>3. mem.up /\ job # "resume"
  BY <1>2 DEF LedgerInv, DrainInv, OrderInv, Drained, NoJournal
<1>4. CASE WriterTake
  <2>1. /\ journal.queue # <<>> /\ journal.hand = None /\ journal'.queue = Tail(journal.queue)
        /\ journal'.hand = Head(journal.queue) /\ UNCHANGED disk
    BY <1>1, <1>4 DEF WriterTake, Handle
  <2>2. Elems(journal.queue) = {journal'.hand} \cup Elems(journal'.queue) /\ journal'.hand \in Seqs
    BY <1>1, <2>1, RisingTail, HeadTailProperties DEF LedgerInv, QueueInv
  <2>3. Pending' = Pending
    BY <1>1, <1>2, <2>1, <2>2 DEF Pending, Waiting, Sent
  <2> QED
    BY <1>2, <1>3, <2>1, <2>3 DEF OrderInv
<1>5. CASE WriterOk \/ WriterFail
  <2>1. /\ journal.hand \in Seqs /\ journal'.hand = None /\ journal'.queue = journal.queue
        /\ disk' \in {disk, Appended(journal.hand)} \cup AppendedPart(journal.hand)
    <3>1. CASE WriterOk
      BY <1>1, <3>1 DEF WriterOk, Recomputed, Handle
    <3>2. CASE WriterFail
      BY <1>1, <3>2 DEF WriterFail, Handle
    <3> QED
      BY <1>5, <3>1, <3>2
  <2>2. /\ Pending = Pending' \cup {journal.hand} /\ journal.hand < mem.total
        /\ \A b \in Pending' : journal.hand < b
        /\ \A a \in Readable(disk.ledger) : a < journal.hand
    <3>1. Waiting' = Elems(journal.queue) /\ Waiting = Elems(journal.queue) \cup {journal.hand} /\ Sent' = Sent
      BY <1>1, <1>2, <2>1 DEF Waiting, Sent
    <3>2. Pending = Pending' \cup {journal.hand}
      BY <3>1 DEF Pending
    <3>3. \A b \in Pending' : journal.hand < b
      BY <1>1, <2>1, <3>1 DEF Pending, Sent, LedgerInv, QueueInv
    <3> QED
      BY <3>2, <3>3 DEF LedgerInv, QueueInv, OrderInv
  <2>3. InOrder(disk'.ledger) /\ Readable(disk'.ledger) \subseteq Readable(disk.ledger) \cup {journal.hand}
    BY <1>1, <2>1, <2>2, WrittenInOrder DEF OrderInv
  <2>4. \A a \in Readable(disk'.ledger) : \A b \in Pending' : a < b
    BY <2>2, <2>3 DEF OrderInv
  <2>5. \A a \in Readable(disk'.ledger) : a < mem.total
    BY <1>3, <2>2, <2>3 DEF OrderInv
  <2>6. ~mem.dir \/ stage = "ledger" => Rising(mem.window)
    BY DEF OrderInv
  <2> QED
    BY <1>2, <1>3, <2>3, <2>4, <2>5, <2>6 DEF OrderInv
<1> QED
  BY <1>4, <1>5 DEF Writer

\* The new number comes after everything.
LEMMA RecordOrder ==
  ASSUME LedgerInv, LedgerInv', KeptInv, OrderInv, Record
  PROVE  OrderInv'
<1>1. /\ mem \in Context /\ journal \in Handle /\ disk \in Directory /\ mem.total < MaxRecords
      /\ send.step = "idle" /\ job = "none" /\ stage = "idle" /\ mem.up /\ mem.total \in Nat
      /\ UNCHANGED <<job, stage, disk>>
  BY StoreAssumption DEF Record, Idle, LedgerInv, DrainInv, TypeInv, TypeOK, Context
<1>2. Push(mem.total) \in Context /\ Push(mem.total).total = mem.total + 1 /\ Push(mem.total).dir = mem.dir
  BY <1>1, PushTyped
<1>3. mem'.total = mem.total + 1 /\ mem'.dir = mem.dir
      /\ (~mem.dir => mem'.window = Push(mem.total).window)
  BY <1>1, <1>2 DEF Record, Context
<1>4. Readable(disk.ledger) \subseteq Seqs
  BY <1>1 DEF Directory, Readable
<1>5. \A a \in Readable(disk.ledger) : a < mem.total + 1
  BY <1>1, <1>4 DEF OrderInv, Seqs
<1>6. Pending' \subseteq Pending \cup {mem.total}
  <2>1. Sent' \subseteq {mem.total}
    BY <1>1 DEF Record, Sent
  <2>2. Waiting' \subseteq Waiting
    <3>1. journal' = journal \/ journal' = [NoJournal EXCEPT !.armed = TRUE]
      BY DEF Record
    <3> QED
      BY <3>1 DEF NoJournal, Waiting, Elems
  <2> QED
    BY <2>1, <2>2 DEF Pending
<1>7. \A a \in Readable(disk.ledger) : \A b \in Pending' : a < b
  BY <1>1, <1>6 DEF OrderInv
<1>8. ~mem.dir => Rising(mem'.window)
  BY <1>1, <1>3, PushRises DEF OrderInv, KeptInv, Unwritten
<1> QED
  BY <1>1, <1>3, <1>5, <1>7, <1>8 DEF OrderInv

\* A promotion writes the window; the rest of persist and close writes no line.
LEMMA PersistOrder ==
  ASSUME LedgerInv, KeptInv, OrderInv, PersistBegin \/ CloseBegin \/ Persisting \/ RecordLaunch
  PROVE  OrderInv'
<1> USE DEF hist
<1>1. /\ mem \in Context /\ disk \in Directory /\ mem.window \in Seq(Seqs) /\ Torn \notin Seqs
  BY StoreAssumption DEF LedgerInv, TypeInv, TypeOK, Context, Seqs
<1>2. UNCHANGED <<journal, send>> /\ mem'.total = mem.total /\ Pending' = Pending
  <2>1. UNCHANGED <<journal, send>> /\ mem'.total = mem.total
    BY OtherSteps DEF LedgerInv
  <2> QED
    BY <2>1 DEF Pending, Waiting, Sent
<1>3. Drained' = Drained
  BY <1>2 DEF Drained
<1>4. mem.up /\ (job' = "resume" => job = "resume" /\ back' = back)
  BY DEF PersistBegin, CloseBegin, Persisting, PromoteLedger, FlushFiles, FlushDrain, WriteManifest,
         RecordLaunch, Fails, Succeeds, Idle, LedgerInv, EpochInv
<1>5. CASE PromoteLedger
  <2> DEFINE w == mem.window
  <2>1. /\ stage = "ledger" /\ Pending = {} /\ Rising(w) /\ \A x \in Readable(w) : x < mem.total
        /\ mem.dir /\ job = "promote" /\ stage' # "ledger" /\ job' # "resume"
    <3>1. stage = "ledger" /\ mem.dir /\ job = "promote" /\ journal = NoJournal /\ send.step = "idle"
      BY <1>5 DEF PromoteLedger, LedgerInv, DrainInv
    <3>2. Pending = {}
      BY <3>1 DEF Pending, Waiting, Sent, Elems, NoJournal
    <3> QED
      BY <1>5, <3>1, <3>2 DEF PromoteLedger, Fails, OrderInv, KeptInv, Unwritten
  <2>2. mem'.dir = mem.dir
    BY <1>1, <1>5 DEF PromoteLedger, Context
  <2>3. w \in Lines
    BY <1>1, SMTT(30) DEF Lines
  <2>4. InOrder(disk'.ledger) /\ Readable(disk'.ledger) \subseteq Readable(w)
    <3>1. CASE disk' = [disk EXCEPT !.ledger = w]
      <4>1. disk'.ledger = w
        BY <1>1, <3>1 DEF Directory
      <4> QED
        BY <2>1, <4>1 DEF InOrder, Rising
    <3>2. ASSUME NEW k \in 0 .. Len(w) - 1,
                 disk' \in {[disk EXCEPT !.ledger = SubSeq(w, 1, k)],
                            [disk EXCEPT !.ledger = Append(SubSeq(w, 1, k), Torn), !.open = TRUE]}
          PROVE  InOrder(disk'.ledger) /\ Readable(disk'.ledger) \subseteq Readable(w)
      <4> DEFINE v == SubSeq(w, 1, k)
      <4>1. v \in Lines /\ DOMAIN v = 1 .. k /\ DOMAIN v \subseteq DOMAIN w /\ \A i \in DOMAIN v : v[i] = w[i]
        BY <1>1 DEF Lines
      <4>2. disk'.ledger = v \/ disk'.ledger = Append(v, Torn)
        BY <1>1, <3>2 DEF Directory
      <4> HIDE DEF v
      <4>3. InOrder(v) /\ Readable(v) \subseteq Readable(w)
        BY <2>1, <4>1 DEF InOrder, Rising, Readable
      <4>4. InOrder(Append(v, Torn)) /\ Readable(Append(v, Torn)) \subseteq Readable(w)
        BY <4>1, <4>3, OrderAppend
      <4> QED
        BY <4>2, <4>3, <4>4
    <3> QED
      BY <1>5, <3>1, <3>2 DEF PromoteLedger
  <2> HIDE DEF w
  <2> QED
    BY <1>2, <2>1, <2>2, <2>4 DEF OrderInv
<1>6. CASE ~PromoteLedger
  <2>1. disk'.ledger = disk.ledger
    BY <1>1, <1>6
       DEF PersistBegin, CloseBegin, Persisting, FlushFiles, FlushDrain, WriteManifest,
           RecordLaunch, Succeeds, Directory
  <2>2. mem'.window = mem.window /\ (~mem'.dir \/ stage' = "ledger" => ~mem.dir \/ stage = "ledger")
    <3>1. Reopened \in Context /\ Reopened.window = mem.window /\ Reopened.dir = mem.dir
      BY <1>1 DEF Reopened, Context
    <3>2. CASE PersistBegin \/ CloseBegin \/ RecordLaunch
      BY <1>1, <3>2 DEF PersistBegin, CloseBegin, RecordLaunch, Context
    <3>3. CASE FlushFiles \/ WriteManifest
      BY <1>1, <3>1, <3>3 DEF FlushFiles, WriteManifest, Fails, Succeeds
    <3>4. CASE FlushDrain
      BY <1>1, <3>1, <3>4 DEF FlushDrain, Fails, Context
    <3> QED
      BY <1>6, <3>2, <3>3, <3>4 DEF Persisting
  <2> QED
    BY <1>2, <1>3, <1>4, <2>1, <2>2 DEF OrderInv
<1> QED
  BY <1>5, <1>6

\* A resumed run goes on after the highest number it read.
LEMMA ResumeOrder ==
  ASSUME ~OpenResume, LedgerInv, LedgerInv', OrderInv, Crash \/ Resume \/ ResumeBegin \/ Reopen
  PROVE  OrderInv'
<1> USE DEF hist
<1>1. mem \in Context /\ disk \in Directory /\ journal \in Handle /\ Readable(disk.ledger) \subseteq Seqs
      /\ (disk.open => disk.ledger # <<>>)
  BY DEF LedgerInv, TypeInv, TypeOK, Directory, Readable
<1>2. ASSUME journal' = NoJournal, send'.step = "idle" PROVE Pending' = {}
  BY <1>2 DEF Pending, Waiting, Sent, Elems, NoJournal
<1>3. CASE Crash
  <2>1. InOrder(disk'.ledger)
    <3>1. CASE journal.hand = None
      BY <1>3, <3>1 DEF Crash, OrderInv
    <3>2. CASE journal.hand # None
      <4>1. journal.hand \in Seqs /\ journal.hand \in Pending
        BY <1>1, <3>2 DEF Handle, Pending, Waiting
      <4> QED
        BY <1>1, <1>3, <4>1, WrittenInOrder DEF Crash, OrderInv
    <3> QED
      BY <3>1, <3>2
  <2>2. Pending' = {}
    BY <1>2, <1>3 DEF Crash, NoSend
  <2> QED
    BY <1>3, <2>1, <2>2 DEF Crash, NoRun, OrderInv, Rising
<1>4. ASSUME NEW run, Swap(run), run.up, run.dir, send.step = "idle", UNCHANGED send, stage' = "idle",
             job' # "resume", \A a \in Readable(disk.ledger) : a < run.total
      PROVE  OrderInv'
  <2>1. disk'.ledger = disk.ledger /\ Pending' = {} /\ mem' = run
    BY <1>1, <1>2, <1>4 DEF Swap, Directory
  <2> QED
    BY <1>4, <2>1 DEF OrderInv
<1>5. CASE Resume
  <2>1. Restored.up /\ Restored.dir /\ \A a \in Readable(disk.ledger) : a < Restored.total
    BY <1>1, <1>5, RestoredReads DEF Resume, LedgerInv, TypeInv, EpochInv
  <2>2. stage = "idle" /\ job = "none" /\ send.step = "idle"
    BY <1>5 DEF Resume, LedgerInv, EpochInv, DrainInv
  <2> QED
    BY <1>4, <1>5, <2>1, <2>2 DEF Resume
<1>6. CASE ResumeBegin
  <2>1. \A a \in Readable(disk.ledger) : a < Restored.total
    BY <1>1, <1>6, RestoredReads DEF ResumeBegin
  <2>2. Drained
    BY <1>6 DEF ResumeBegin, Idle, LedgerInv, DrainInv
  <2>3. Pending' = Pending /\ Drained' /\ mem.dir /\ UNCHANGED <<mem, disk>> /\ back' = Restored
        /\ stage' # "ledger"
    BY <1>6, <2>2 DEF ResumeBegin, Drained, Pending, Waiting, Sent
  <2> QED
    BY <2>1, <2>3 DEF OrderInv
<1>7. CASE Reopen
  <2>1. back.up /\ back.dir /\ send.step = "idle" /\ \A a \in Readable(disk.ledger) : a < back.total
    BY <1>7 DEF Reopen, LedgerInv, DrainInv, EpochInv, OrderInv
  <2> QED
    BY <1>4, <1>7, <2>1 DEF Reopen
<1> QED
  BY <1>3, <1>5, <1>6, <1>7

\* Every step keeps the order.
LEMMA OrderNext ==
  ASSUME ~OpenResume
  PROVE  LedgerInv /\ LedgerInv' /\ KeptInv /\ OrderInv /\ [Next]_vars => OrderInv'
<1> SUFFICES ASSUME LedgerInv, LedgerInv', KeptInv, OrderInv, [Next]_vars PROVE OrderInv'
  OBVIOUS
<1>1. CASE UNCHANGED vars
  BY <1>1 DEF vars, OrderInv, Pending, Waiting, Sent, Drained
<1>2. CASE Submit
  <2>1. journal \in Handle /\ send \in [step : Steps, seq : Seqs \cup {None}] /\ journal.queue \in Seq(Seqs)
        /\ (send.step # "idle" => send.seq \in Seqs)
    BY DEF LedgerInv, TypeInv, TypeOK, Handle
  <2>2. UNCHANGED <<mem, job, stage, back, disk>> /\ journal'.hand = journal.hand /\ send.step # "idle"
    BY <1>2, <2>1, SubmitSteps
  <2>3. Pending' \subseteq Pending
    <3>1. \/ journal'.queue = journal.queue /\ (send'.step = "idle" \/ send'.seq = send.seq)
          \/ journal'.queue = Append(journal.queue, send.seq) /\ send'.step = "idle"
      <4>1. CASE SubmitRefused \/ SubmitTimeout
        <5>1. journal'.queue = journal.queue
          BY <2>1, <4>1 DEF SubmitRefused, SubmitTimeout, GiveUp, Handle
        <5>2. send'.step = "idle"
          BY <4>1 DEF SubmitRefused, SubmitTimeout, GiveUp, NoSend
        <5> QED
          BY <5>1, <5>2
      <4>2. CASE SubmitAttempt
        BY <2>1, <4>2 DEF SubmitAttempt, Recomputed, Handle
      <4>3. CASE SubmitWait \/ SubmitRetry
        BY <2>1, <4>3 DEF SubmitWait, SubmitRetry
      <4>4. CASE TrySend
        BY <2>1, <4>4 DEF TrySend, NoSend, Handle
      <4> QED
        BY <1>2, <4>1, <4>2, <4>3, <4>4 DEF Submit
    <3>2. CASE journal'.queue = journal.queue /\ (send'.step = "idle" \/ send'.seq = send.seq)
      BY <2>2, <3>2 DEF Pending, Waiting, Sent
    <3>3. CASE journal'.queue = Append(journal.queue, send.seq) /\ send'.step = "idle"
      <4>1. Elems(journal'.queue) = Elems(journal.queue) \cup {send.seq}
        BY <2>1, <2>2, <3>3, RisingAppend DEF LedgerInv, QueueInv, Waiting
      <4> QED
        BY <2>2, <3>3, <4>1 DEF Pending, Waiting, Sent
    <3> QED
      BY <3>1, <3>2, <3>3
  <2>4. job # "resume"
    BY <2>2 DEF OrderInv, Drained
  <2> QED
    BY <2>2, <2>3, <2>4 DEF OrderInv
<1> QED
  BY <1>1, <1>2, WriterOrder, RecordOrder, PersistOrder, ResumeOrder DEF Next

\* As long as nobody resumes a run that is still open, no two readable lines of
\* a ledger carry the same sequence number, through write errors, torn lines,
\* crashes and resumes (the numbering of RunContext::restore).
THEOREM StoreSeqUnique == ASSUME ~OpenResume PROVE Spec => []SeqUnique
<1>1. Init => KeptInv /\ OrderInv
  BY DEF Init, NoRun, NoJournal, NoSend, KeptInv, CertifiedKept, Unwritten, Readable, OrderInv, InOrder,
         Rising
<1>2. LedgerInv /\ OrderInv => SeqUnique
  <2>1. LedgerInv => disk.ledger \in Seq(Seqs \cup {Torn})
    BY DEF LedgerInv, TypeInv, TypeOK, Directory
  <2>2. ASSUME LedgerInv, OrderInv, NEW i \in DOMAIN disk.ledger, NEW j \in DOMAIN disk.ledger,
               disk.ledger[i] = disk.ledger[j], disk.ledger[i] # Torn
        PROVE  i = j
    <3>1. i \in Nat /\ j \in Nat /\ disk.ledger[i] \in Nat
      BY <2>1, <2>2 DEF Seqs
    <3>2. ~(i < j) /\ ~(j < i)
      BY <2>2, <3>1 DEF OrderInv, InOrder
    <3> QED
      BY <3>1, <3>2
  <2> QED
    BY <2>2 DEF SeqUnique
<1> QED
  BY <1>1, <1>2, LedgerInvHolds, KeptNext, OrderNext, PTL DEF Spec
=============================================================================
