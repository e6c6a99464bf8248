------------------------------ MODULE RunStore ------------------------------
(***************************************************************************)
(* How the transactions of one run reach the disk: the bounded ledger      *)
(* window, the background journal writer (src/run/journal.rs), and the     *)
(* persist, close, launch and resume paths of src/run/persistence_impl.rs, *)
(* with write errors and process crashes.                                  *)
(*                                                                         *)
(* The run mutex is held from a record's sequence number to the end of its *)
(* submit, and through a whole persist or close, so those exclude each     *)
(* other; only the writer thread runs beside them.  A line is abstracted   *)
(* to its sequence number.  A crash is one of the process: what was handed *)
(* to the OS stays.  Terminal events have a module of their own.           *)
(***************************************************************************)
EXTENDS Naturals, Sequences, FiniteSets

CONSTANTS
  MaxRecords,  \* bound: sequence numbers handed out
  MaxEpoch,    \* bound: resumes
  Capacity,    \* journal queue slots (8192)
  High, Low,   \* ring water marks (1024, 512)
  OpenResume,  \* whether a client may resume the run that is live and open
  Torn,        \* a line that does not parse
  None

ASSUME StoreAssumption ==
  /\ MaxRecords \in Nat /\ MaxEpoch \in Nat
  /\ Capacity \in Nat \ {0}
  /\ Low \in Nat \ {0} /\ High \in Nat /\ Low < High
  /\ OpenResume \in BOOLEAN
  /\ Torn \notin Nat /\ None \notin Nat

VARIABLES
  mem,        \* RunContext in memory
  journal,    \* JournalHandle, its channel and its writer thread
  send,       \* the record inside submit
  job, stage, \* the persist or close in progress, and where it is
  back,       \* the restored context of a resume in progress
  disk,       \* the artifact directory
  held,       \* history: records this process accepted or restored
  certified,  \* history: records a success answer covered
  excused,    \* history: records lost in a way the code has no answer to
  evicted,    \* history: records evicted before the run had a directory
  lived       \* history: the highest resume epoch that was ever live

hist == <<held, certified, excused, evicted, lived>>
vars == <<mem, journal, send, job, stage, back, disk, hist>>

Seqs == 0 .. MaxRecords - 1
Steps == {"idle", "check", "send", "full", "late"}
Jobs == {"none", "persist", "promote", "close", "resume"}
Stages == {"idle", "ledger", "files", "drain", "tail", "manifest"}
Manifest == [closed : BOOLEAN, epoch : 0 .. MaxEpoch,
             gone : Nat, first : Seqs \cup {None}]

Context == [up : BOOLEAN, dir : BOOLEAN, closed : BOOLEAN,
            epoch : 0 .. MaxEpoch, total : 0 .. MaxRecords,
            window : Seq(Seqs), gone : Nat, first : Seqs \cup {None},
            flushed : 0 .. MaxRecords, unhealthy : BOOLEAN]

\* JournalHandle and its writer, and the artifact directory.
Handle == [armed : BOOLEAN, queue : Seq(Seqs), hand : Seqs \cup {None},
           mark : 0 .. MaxRecords, failed : BOOLEAN,
           health : {"healthy", "lagging", "backpressure", "failed"},
           depth : Nat, drops : Nat]
Directory == [manifest : Manifest \cup {None},
              ledger : Seq(Seqs \cup {Torn}), open : BOOLEAN]

\* Every field has its type, and the journal's channel never holds more lines
\* than it has slots (JournalHandle::spawn_with_capacity).
TypeOK ==
  /\ mem \in Context
  /\ back \in Context \cup {None}
  /\ journal \in Handle /\ Len(journal.queue) <= Capacity
  /\ send \in [step : Steps, seq : Seqs \cup {None}]
  /\ job \in Jobs /\ stage \in Stages
  /\ disk \in Directory
  /\ held \subseteq Seqs /\ certified \subseteq Seqs /\ excused \subseteq Seqs /\ evicted \subseteq Seqs
  /\ lived \in 0 .. MaxEpoch

NoJournal == [armed |-> FALSE, queue |-> <<>>, hand |-> None, mark |-> 0,
              failed |-> FALSE, health |-> "healthy", depth |-> 0, drops |-> 0]
NoSend == [step |-> "idle", seq |-> None]
NoRun == [up |-> FALSE, dir |-> FALSE, closed |-> FALSE, epoch |-> 0,
          total |-> 0, window |-> <<>>, gone |-> 0, first |-> None,
          flushed |-> 0, unhealthy |-> FALSE]

\* RunContext::ephemeral.
Init ==
  /\ mem = [NoRun EXCEPT !.up = TRUE]
  /\ journal = NoJournal
  /\ send = NoSend
  /\ job = "none" /\ stage = "idle" /\ back = None
  /\ disk = [manifest |-> None, ledger |-> <<>>, open |-> FALSE]
  /\ held = {} /\ certified = {} /\ excused = {} /\ evicted = {} /\ lived = 0

Idle == mem.up /\ job = "none" /\ send.step = "idle"

Readable(l) == {l[i] : i \in DOMAIN l} \ {Torn}

-----------------------------------------------------------------------------
(* record_interaction / record_event, and push_ledger.                     *)

\* Mutant: the trim forgets to declare what it evicted.
PushSilently(n) ==
  LET w == Append(mem.window, n)
      excess == Len(w) - Low IN
  IF Len(w) < High
  THEN [mem EXCEPT !.total = n + 1, !.window = w]
  ELSE [mem EXCEPT !.total = n + 1, !.window = SubSeq(w, excess + 1, Len(w))]

\* The window after pushing n: past High it is drained back to Low, declared.
Push(n) ==
  LET w == Append(mem.window, n)
      excess == Len(w) - Low IN
  IF Len(w) < High
  THEN [mem EXCEPT !.total = n + 1, !.window = w]
  ELSE [mem EXCEPT !.total = n + 1,
                   !.window = SubSeq(w, excess + 1, Len(w)),
                   !.gone = @ + excess,
                   !.first = w[excess + 1]]

\* Sequence numbers that leave the window when n is pushed.
Trimmed(n) == (Readable(mem.window) \cup {n}) \ Readable(Push(n).window)

\* An open run accepts a record.  A persistent one submits it to the journal,
\* spawning the writer on first use; a failed spawn keeps it in memory only.
\* (A number used before a crash now names the new record.)
Record ==
  LET n == mem.total IN
  /\ Idle /\ ~mem.closed /\ n < MaxRecords
  /\ \/ /\ ~mem.dir
        /\ mem' = Push(n)
        /\ evicted' = evicted \cup Trimmed(n)
        /\ UNCHANGED <<journal, send, excused>>
     \/ /\ mem.dir
        /\ mem' = Push(n)
        /\ send' = [step |-> "check", seq |-> n]
        /\ journal' = IF journal.armed THEN journal
                      ELSE [NoJournal EXCEPT !.armed = TRUE]
        /\ excused' = excused \ {n} /\ evicted' = evicted \ {n}
     \/ /\ mem.dir /\ ~journal.armed
        /\ mem' = [Push(n) EXCEPT !.unhealthy = TRUE]
        /\ excused' = excused \cup {n} /\ evicted' = evicted \ {n}
        /\ UNCHANGED <<journal, send>>
  /\ held' = held \cup {n} /\ certified' = certified \ {n}
  /\ UNCHANGED <<job, stage, back, disk, lived>>

-----------------------------------------------------------------------------
(* JournalHandle::submit and JournalHealth.                                *)

\* Mutant: a drop is forgotten as soon as the queue has drained.
RecomputedByDepth(j) ==
  [j EXCEPT !.health =
     IF j.health = "failed" THEN "failed"
     ELSE IF j.depth > Capacity \div 2 THEN "lagging" ELSE "healthy"]

\* recompute_state: failure is terminal, then half-full, then any drop.
Recomputed(j) ==
  [j EXCEPT !.health =
     IF j.health = "failed" THEN "failed"
     ELSE IF j.depth > Capacity \div 2 THEN "lagging"
     ELSE IF j.drops > 0 THEN "backpressure" ELSE "healthy"]

Less(d) == IF d > 0 THEN d - 1 ELSE 0

\* The sender gives the line up: on_drop, on_failed_shortcircuit.
GiveUp(health) ==
  /\ journal' = [journal EXCEPT !.drops = @ + 1, !.depth = Less(@), !.health = health]
  /\ excused' = excused \cup {send.seq}
  /\ send' = NoSend
  /\ UNCHANGED <<mem, job, stage, back, disk, held, certified, evicted, lived>>

SubmitRefused ==
  /\ send.step \in {"check", "full"}
  /\ journal.health = "failed"
  /\ GiveUp("failed")

SubmitAttempt ==
  /\ send.step = "check" /\ journal.health # "failed"
  /\ journal' = Recomputed([journal EXCEPT !.depth = @ + 1])
  /\ send' = [send EXCEPT !.step = "send"]
  /\ UNCHANGED <<mem, job, stage, back, disk, hist>>

\* Mutant: the channel is not bounded.
SendUnbounded ==
  /\ send.step = "send"
  /\ journal' = [journal EXCEPT !.queue = Append(@, send.seq)]
  /\ send' = NoSend
  /\ UNCHANGED <<mem, job, stage, back, disk, hist>>

TrySend ==
  /\ send.step = "send"
  /\ IF Len(journal.queue) < Capacity
     THEN /\ journal' = [journal EXCEPT !.queue = Append(@, send.seq)]
          /\ send' = NoSend
     ELSE send' = [send EXCEPT !.step = "full"] /\ UNCHANGED journal
  /\ UNCHANGED <<mem, job, stage, back, disk, hist>>

\* The queue is full and the writer alive: sleep and retry, or give up after
\* 500 ms, by when the writer may have failed.
SubmitWait ==
  /\ send.step = "full" /\ journal.health # "failed"
  /\ send' = [send EXCEPT !.step = "late"]
  /\ UNCHANGED <<mem, journal, job, stage, back, disk, hist>>

SubmitRetry ==
  /\ send.step = "late"
  /\ send' = [send EXCEPT !.step = "send"]
  /\ UNCHANGED <<mem, journal, job, stage, back, disk, hist>>

SubmitTimeout == send.step = "late" /\ GiveUp("backpressure")

-----------------------------------------------------------------------------
(* The writer thread (JournalHandle::spawn).                               *)

WriterTake ==
  /\ journal.queue # <<>> /\ journal.hand = None
  /\ journal' = [journal EXCEPT !.queue = Tail(@), !.hand = Head(journal.queue)]
  /\ UNCHANGED <<mem, send, job, stage, back, disk, hist>>

\* O_APPEND of the line and its newline.  Behind an unterminated line the two
\* become one line that does not parse.
Appended(n) ==
  IF disk.open
  THEN [disk EXCEPT !.ledger[Len(disk.ledger)] = Torn, !.open = FALSE]
  ELSE [disk EXCEPT !.ledger = Append(@, n)]

\* A line of which part was written, at most all of it but the newline.
AppendedPart(n) ==
  {[Appended(n) EXCEPT !.open = TRUE],
   [disk EXCEPT !.ledger = IF disk.open THEN Appended(n).ledger ELSE Append(@, Torn),
                !.open = TRUE]}

Merged(n, d) == (Readable(disk.ledger) \cup {n}) \ Readable(d.ledger)

\* Mutant: the writer thread counts a failed line as handled.
WriterFailUnnoticed ==
  /\ journal.hand # None
  /\ journal' = Recomputed([journal EXCEPT !.hand = None, !.depth = Less(@),
                              !.mark = IF @ > journal.hand THEN @ ELSE journal.hand + 1])
  /\ UNCHANGED <<mem, send, job, stage, back, disk, hist>>

WriterOk ==
  /\ journal.hand # None
  /\ disk' = Appended(journal.hand)
  /\ excused' = excused \cup Merged(journal.hand, disk')
  /\ journal' = Recomputed([journal EXCEPT
                  !.mark = IF @ > journal.hand THEN @ ELSE journal.hand + 1,
                  !.hand = None, !.depth = Less(@)])
  /\ UNCHANGED <<mem, send, job, stage, back, held, certified, evicted, lived>>

\* A write error: nothing or part of the line is in the file, the flag and
\* the health say so, and the next lines are still tried.
WriterFail ==
  /\ journal.hand # None
  /\ disk' \in {disk} \cup AppendedPart(journal.hand)
  /\ excused' = excused \cup (Readable(disk.ledger) \ Readable(disk'.ledger))
  /\ journal' = [journal EXCEPT !.hand = None, !.failed = TRUE, !.health = "failed"]
  /\ UNCHANGED <<mem, send, job, stage, back, held, certified, evicted, lived>>

-----------------------------------------------------------------------------
(* persist, promote, flush and close.                                      *)

\* The answer is an error; a close that fails is rolled back.
Fails ==
  /\ job' = "none" /\ stage' = "idle" /\ back' = None
  /\ UNCHANGED <<send, journal, held, certified, evicted, lived>>

Reopened == [mem EXCEPT !.closed = IF job = "close" THEN FALSE ELSE @]

\* The answer is a success: it covers every record the run holds.
Succeeds ==
  /\ job' = "none" /\ stage' = "idle" /\ back' = None
  /\ certified' = certified \cup held
  /\ UNCHANGED <<send, journal, held, excused, evicted, lived>>

\* tui_run persist, and the flushes of new and resume: flush a persistent run,
\* promote an ephemeral one (if its directory can be created).
PersistBegin ==
  /\ Idle
  /\ \/ mem.dir /\ job' = "persist" /\ stage' = "files" /\ UNCHANGED mem
     \/ /\ ~mem.dir
        /\ job' = "promote"
        /\ stage' = IF mem.total > 0 THEN "ledger" ELSE "files"
        /\ mem' = [mem EXCEPT !.dir = TRUE]
  /\ UNCHANGED <<send, journal, back, disk, hist>>

\* promote writes the window in one pass; an error leaves a prefix of it.
PromoteLedger ==
  /\ stage = "ledger"
  /\ \/ /\ disk' = [disk EXCEPT !.ledger = mem.window]
        /\ mem' = [mem EXCEPT !.flushed = mem.total]
        /\ stage' = "files"
        /\ UNCHANGED <<job, back, send, journal, hist>>
     \/ /\ \E k \in 0 .. Len(mem.window) - 1 :
             disk' \in {[disk EXCEPT !.ledger = SubSeq(mem.window, 1, k)],
                        [disk EXCEPT !.ledger = Append(SubSeq(mem.window, 1, k), Torn),
                                     !.open = TRUE]}
        /\ excused' = excused \cup (Readable(mem.window) \ Readable(disk'.ledger))
        /\ Fails
        /\ UNCHANGED mem

\* close moves the flag first; an ephemeral run has nothing to write.
CloseBegin ==
  /\ Idle /\ ~mem.closed
  /\ mem' = [mem EXCEPT !.closed = TRUE]
  /\ IF mem.dir THEN job' = "close" /\ stage' = "files" ELSE UNCHANGED <<job, stage>>
  /\ UNCHANGED <<send, journal, back, disk, hist>>

\* Directories, scenarios and graphs before the journal; events, recordings,
\* findings and coverage after it.
FlushFiles ==
  /\ stage \in {"files", "tail"}
  /\ \/ /\ stage = "files" /\ stage' = "drain"
        /\ UNCHANGED <<mem, job, back, send, journal, hist>>
     \/ /\ stage = "tail" /\ job # "persist" /\ stage' = "manifest"
        /\ UNCHANGED <<mem, job, back, send, journal, hist>>
     \/ stage = "tail" /\ job = "persist" /\ Succeeds /\ UNCHANGED mem
     \/ Fails /\ mem' = Reopened /\ UNCHANGED excused
  /\ UNCHANGED disk

\* Mutant: flush answers without waiting for the writer.
FlushNoDrain ==
  /\ stage = "drain"
  /\ mem' = [mem EXCEPT !.flushed = mem.total]
  /\ stage' = "tail"
  /\ UNCHANGED <<disk, job, back, send, journal, hist>>

\* Wait for the watermark, a failure or five seconds.  Without a writer the
\* file is taken to be authoritative.
FlushDrain ==
  /\ stage = "drain"
  /\ \/ /\ journal.armed => journal.mark >= mem.total /\ ~journal.failed
        /\ mem' = [mem EXCEPT !.flushed = mem.total]
        /\ stage' = "tail"
        /\ UNCHANGED <<job, back, send, journal, hist>>
     \/ /\ journal.armed /\ (journal.mark < mem.total \/ journal.failed)
        /\ mem' = [Reopened EXCEPT !.unhealthy = TRUE, !.flushed = journal.mark]
        /\ Fails
        /\ UNCHANGED excused
  /\ UNCHANGED disk

CurrentManifest == [closed |-> mem.closed, epoch |-> mem.epoch,
                    gone |-> mem.gone, first |-> mem.first]

WriteManifest ==
  /\ stage = "manifest"
  /\ \/ /\ job # "resume"
        /\ disk' = [disk EXCEPT !.manifest = CurrentManifest]
        /\ Succeeds
        /\ UNCHANGED mem
     \/ Fails /\ mem' = Reopened /\ UNCHANGED <<disk, excused>>

\* record_launch_spec: a session start writes the manifest too.
RecordLaunch ==
  /\ Idle /\ mem.dir
  /\ disk' = [disk EXCEPT !.manifest = CurrentManifest]
  /\ UNCHANGED <<mem, journal, send, job, stage, back, hist>>

-----------------------------------------------------------------------------
(* The process dies; another one resumes the run.                          *)

\* What is in memory, in the channel or in the writer's hand is gone; part of
\* the line being written may be in the file.
Crash ==
  /\ mem.up /\ mem.epoch < MaxEpoch
  /\ mem' = NoRun
  /\ journal' = NoJournal
  /\ send' = NoSend
  /\ job' = "none" /\ stage' = "idle" /\ back' = None
  /\ disk' \in {disk} \cup
       (IF journal.hand = None THEN {} ELSE AppendedPart(journal.hand))
  /\ excused' = excused \cup (Readable(disk.ledger) \ Readable(disk'.ledger))
  /\ held' = {}
  /\ UNCHANGED <<certified, evicted, lived>>

\* The lines of l that parse, in their order.
Parsed(l) ==
  LET first[i \in 0 .. Len(l)] ==
        IF i = 0 THEN <<>>
        ELSE IF l[i] # Torn THEN Append(first[i - 1], l[i]) ELSE first[i - 1]
  IN first[Len(l)]

\* Mutant: the next number is the number of lines that came back.
RestoredByCount ==
  LET good == Parsed(disk.ledger)
      torn == Len(disk.ledger) - Len(good)
      total == Len(good) IN
  [up |-> TRUE, dir |-> TRUE, closed |-> FALSE,
   epoch |-> disk.manifest.epoch + 1,
   total |-> total, window |-> good, gone |-> disk.manifest.gone + torn,
   first |-> IF torn = 0 THEN disk.manifest.first
             ELSE IF good = <<>> THEN None ELSE good[1],
   flushed |-> total, unhealthy |-> FALSE]

\* RunContext::restore: every line that parses comes back, the torn ones are
\* counted, and numbering continues after the highest.
Restored ==
  LET good == Parsed(disk.ledger)
      torn == Len(disk.ledger) - Len(good)
      total == CHOOSE t \in 0 .. MaxRecords :
                 /\ \A n \in Readable(good) : n < t
                 /\ t = 0 \/ t - 1 \in Readable(good) IN
  [up |-> TRUE, dir |-> TRUE, closed |-> FALSE,
   epoch |-> disk.manifest.epoch + 1,
   total |-> total, window |-> good, gone |-> disk.manifest.gone + torn,
   first |-> IF torn = 0 THEN disk.manifest.first
             ELSE IF good = <<>> THEN None ELSE good[1],
   flushed |-> total, unhealthy |-> FALSE]

\* reopen: the manifest of the next epoch, open again.
ReopenedManifest(run) == [closed |-> FALSE, epoch |-> run.epoch,
                          gone |-> run.gone, first |-> run.first]

\* The restored run is the live one, with no writer yet.
Swap(run) ==
  /\ mem' = run
  /\ journal' = NoJournal
  /\ disk' = [disk EXCEPT !.manifest = ReopenedManifest(run)]
  /\ held' = Readable(run.window)
  /\ lived' = IF run.epoch > lived THEN run.epoch ELSE lived

\* Mutant: the resumed run keeps the epoch of the process that died.
ResumeSameEpoch ==
  /\ ~mem.up /\ disk.manifest # None
  /\ Swap([Restored EXCEPT !.epoch = disk.manifest.epoch])
  /\ UNCHANGED <<send, job, stage, back, certified, excused, evicted>>

\* tui_run resume in a new process, whose own run is empty: restore and
\* reopen, or fail and leave everything as it was.
Resume ==
  /\ ~mem.up /\ disk.manifest # None
  /\ Swap(Restored)
  /\ UNCHANGED <<send, job, stage, back, certified, excused, evicted>>

\* tui_run resume of the run this process has live: what is on disk is read
\* first, then the live run is flushed.
ResumeBegin ==
  /\ Idle /\ mem.dir /\ (mem.closed \/ OpenResume)
  /\ disk.manifest # None /\ disk.manifest.epoch < MaxEpoch
  /\ job' = "resume" /\ stage' = "files" /\ back' = Restored
  /\ UNCHANGED <<mem, journal, send, disk, hist>>

\* ... and replaced by what was read; the old writer ends with its handle.
Reopen ==
  /\ stage = "manifest" /\ job = "resume"
  /\ job' = "none" /\ stage' = "idle" /\ back' = None
  /\ Swap(back)
  /\ certified' = certified \cup held
  /\ UNCHANGED <<send, excused, evicted>>

-----------------------------------------------------------------------------
Submit == SubmitRefused \/ SubmitAttempt \/ TrySend \/ SubmitWait \/ SubmitRetry
            \/ SubmitTimeout
Writer == WriterTake \/ WriterOk \/ WriterFail
Persisting == PromoteLedger \/ FlushFiles \/ FlushDrain \/ WriteManifest

Next ==
  \/ Record \/ Submit \/ Writer
  \/ PersistBegin \/ CloseBegin \/ Persisting \/ RecordLaunch
  \/ Crash \/ Resume \/ ResumeBegin \/ Reopen

Spec == Init /\ [][Next]_vars

-----------------------------------------------------------------------------
(* Properties.                                                             *)

\* What a persist or close reported durable can be read back from the ledger,
\* across write errors and crashes, unless it was evicted before there was a
\* directory or lost in one of the ways the code has no answer to: a line
\* dropped on back pressure, a writer that could not be spawned, a promotion
\* that failed half way, a line glued to an unterminated one (flush, close,
\* promote, JournalHandle).
CertifiedKept == certified \subseteq Readable(disk.ledger) \cup excused \cup evicted

\* The same without excuses (CHANGELOG: durable evidence can no longer be
\* reported as persisted when the write failed).
PersistHonest == certified \subseteq Readable(disk.ledger) \cup evicted

\* Once the manifest says closed, no line is added to the ledger and none
\* changes, whatever the writer thread still had to do (close drains first).
SealedStaysSealed ==
  [][disk.manifest # None /\ disk.manifest.closed /\ disk'.manifest = disk.manifest
       => disk'.ledger = disk.ledger]_vars

\* A sequence number names one record: no two readable lines share one, with
\* lines lost in the middle or at the end and numbering resumed (restore).
SeqUnique ==
  \A i, j \in DOMAIN disk.ledger :
    disk.ledger[i] = disk.ledger[j] /\ disk.ledger[i] # Torn => i = j

\* Records evicted before the run had a directory are declared in whatever
\* manifest is written later, resumes included (history_complete).
GapDeclared ==
  evicted # {} /\ disk.manifest # None => disk.manifest.gone > 0

\* What a step may do to the epochs.
EpochStep ==
  /\ mem'.up /\ (mem.up => mem'.epoch # mem.epoch) => mem'.epoch > lived
  /\ disk.manifest # None /\ disk.manifest.closed /\ ~disk'.manifest.closed
       => disk'.manifest.epoch > disk.manifest.epoch

\* Nothing goes live under a resume epoch that was live before, and a closed
\* manifest reopens only with a new epoch (reopen).
EpochAdvances == [][EpochStep]_vars

\* The journal is healthy only while no line was dropped and none failed,
\* whoever updates the counters in between (JournalHealth).
HealthHonest ==
  journal.health = "healthy" => journal.drops = 0 /\ ~journal.failed

\* The two of them: an eviction is a declared gap, and a healthy journal has
\* dropped nothing.
LossTold == GapDeclared /\ HealthHonest
=============================================================================
