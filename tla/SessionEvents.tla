---------------------------- MODULE SessionEvents ----------------------------
(***************************************************************************)
(* The event stream of one session and its way into the run: the bounded   *)
(* TerminalEventQueue (src/events/mod.rs), the cursors of its readers, the *)
(* fold of every driving call, the backlog and log of the run, and what    *)
(* close, persist and resume do with them.                                 *)
(*                                                                         *)
(* An event is its sequence number, and every event is taken to be a       *)
(* coverage event.  Folds and reads hold a lease of the lifecycle gate,    *)
(* close and resume hold it exclusively (RunServer); persist holds only    *)
(* the run mutex and can run between the two halves of a close.            *)
(***************************************************************************)
EXTENDS Naturals, Sequences, SequencesExt

CONSTANTS
  Ring,       \* events retained (4096)
  MaxEvents,  \* bound: events emitted
  MaxResumes, \* bound: resumes
  Readers,    \* named consumers of observe mode "changes"
  Persistence, Coverage  \* the two consumers inside the run

VARIABLES
  queue,    \* TerminalEventQueue
  at,       \* cursor of each consumer, in the session or in the run
  run,      \* RunContext: directory, closed flag, backlog, coverage counts
  disk,     \* events/<session>.jsonl and coverage.json
  closing,  \* close has drained the queue and not flushed yet
  resumes,  \* resumes so far
  answer,   \* the batches the last step served
  drained,  \* history: events the close path took out of the queue
  folded,   \* history: events the run took
  appended, \* history: events appended to the log
  reported, \* history: events a persist or close that succeeded covered
  faulty    \* history: a write has failed (at most one does: a bound)

hist == <<drained, folded, appended, reported, faulty>>
vars == <<queue, at, run, disk, closing, resumes, answer, hist>>

Events == 1 .. MaxEvents
Consumers == Readers \cup {Persistence, Coverage}
Counts == [Events -> 0 .. 2]

\* Every field has its type; the queue holds at most Ring events.
TypeOK ==
  /\ queue \in [events : Seq(Events), next : Nat, evicted : Nat]
  /\ Len(queue.events) <= Ring
  /\ at \in [Consumers -> 0 .. MaxEvents]
  /\ run \in [dir : BOOLEAN, closed : BOOLEAN, held : Seq(Seq(Events)), count : Counts]
  /\ disk \in [log : Seq(Events), count : Counts]
  /\ closing \in BOOLEAN /\ resumes \in 0 .. MaxResumes
  /\ answer \in [Consumers -> [events : SUBSET Events, gap : BOOLEAN]]
  /\ drained \subseteq Events /\ folded \subseteq Events
  /\ appended \subseteq Events /\ reported \subseteq Events
  /\ faulty \in BOOLEAN

Zero == [n \in Events |-> 0]
Nothing == [c \in Consumers |-> [events |-> {}, gap |-> FALSE]]
ServesNothing == answer' = Nothing

Init ==
  /\ queue = [events |-> <<>>, next |-> 1, evicted |-> 0]
  /\ at = [c \in Consumers |-> 0]
  /\ \E dir \in BOOLEAN :
       run = [dir |-> dir, closed |-> FALSE, held |-> <<>>, count |-> Zero]
  /\ disk = [log |-> <<>>, count |-> Zero]
  /\ closing = FALSE /\ resumes = 0
  /\ answer = Nothing
  /\ drained = {} /\ folded = {} /\ appended = {} /\ reported = {}
  /\ faulty = FALSE

-----------------------------------------------------------------------------
(* TerminalEventQueue.                                                     *)

\* push: a full ring first loses its older half.
Push(q) ==
  LET full == Len(q.events) >= Ring
      kept == IF full THEN SubSeq(q.events, Ring \div 2 + 1, Len(q.events))
              ELSE q.events IN
  [events |-> Append(kept, q.next), next |-> q.next + 1,
   evicted |-> IF full THEN q.evicted + Ring \div 2 ELSE q.evicted]

\* The events of s after the cursor, in their order.
After(s, cursor) ==
  LET kept[i \in 0 .. Len(s)] ==
        IF i = 0 THEN <<>>
        ELSE IF s[i] > cursor THEN Append(kept[i - 1], s[i]) ELSE kept[i - 1]
  IN kept[Len(s)]

\* Mutant: a batch never says that it is partial.
SinceSilent(cursor) ==
  LET fresh == After(queue.events, cursor) IN
  [events |-> fresh, gap |-> FALSE,
   cursor |-> IF queue.events = <<>> THEN queue.next - 1
              ELSE IF fresh = <<>> THEN cursor ELSE Last(fresh)]

\* since(cursor): everything retained after it.  Of an empty queue the answer
\* is the last number handed out, and a gap if anything was ever evicted.
Since(cursor) ==
  LET fresh == After(queue.events, cursor) IN
  IF queue.events = <<>>
  THEN [events |-> <<>>, cursor |-> queue.next - 1, gap |-> queue.evicted > 0]
  ELSE [events |-> fresh,
        cursor |-> IF fresh = <<>> THEN cursor ELSE Last(fresh),
        gap |-> cursor + 1 < Head(queue.events)]

Answered(b) == [events |-> Range(b.events), gap |-> b.gap]

\* Something happens on the terminal, under whatever call drives it.
Emit ==
  /\ queue.next <= MaxEvents
  /\ queue' = Push(queue)
  /\ ServesNothing
  /\ UNCHANGED <<at, run, disk, closing, resumes, hist>>

\* observe mode "changes": events_for_consumer.
Read(c) ==
  LET b == Since(at[c]) IN
  /\ ~closing /\ ~run.closed
  /\ at' = [at EXCEPT ![c] = b.cursor]
  /\ answer' = [Nothing EXCEPT ![c] = Answered(b)]
  /\ UNCHANGED <<queue, run, disk, closing, resumes, drained, folded, appended,
                 reported, faulty>>

-----------------------------------------------------------------------------
(* hold_events: an append for a run with a directory, else the backlog.    *)

Held(r, batch) == [r EXCEPT !.held = Append(@, batch)]

Hold(r, batch) ==
  /\ folded' = folded \cup Range(batch)
  /\ \/ batch = <<>> /\ run' = r /\ UNCHANGED <<disk, appended, faulty>>
     \/ /\ batch # <<>> /\ ~r.dir
        /\ run' = Held(r, batch)
        /\ UNCHANGED <<disk, appended, faulty>>
     \/ /\ batch # <<>> /\ r.dir
        /\ run' = r
        /\ disk' = [disk EXCEPT !.log = @ \o batch]
        /\ appended' = appended \cup Range(batch)
        /\ UNCHANGED faulty
     \/ /\ batch # <<>> /\ r.dir /\ ~faulty
        /\ run' = Held(r, batch)
        /\ \E k \in 0 .. Len(batch) - 1 :
             disk' = [disk EXCEPT !.log = @ \o SubSeq(batch, 1, k)]
        /\ faulty' = TRUE
        /\ UNCHANGED appended

\* fold_into_run: both consumers of the run catch up.  The persistence cursor
\* moves only with events; the coverage cursor follows the queue.
Fold ==
  LET p == Since(at[Persistence])
      upto == Since(0).cursor
      c == Since(at[Coverage])
      moves == upto > at[Coverage]
      recorded == [n \in Events |->
                     run.count[n] + (IF moves /\ n \in Range(c.events) THEN 1 ELSE 0)] IN
  /\ ~closing /\ ~run.closed
  /\ at' = [at EXCEPT ![Persistence] = IF p.events = <<>> THEN @ ELSE p.cursor,
                      ![Coverage] = IF moves THEN upto ELSE @]
  /\ answer' = [Nothing EXCEPT ![Persistence] = Answered(p), ![Coverage] = Answered(c)]
  /\ Hold([run EXCEPT !.count = recorded], p.events)
  /\ UNCHANGED <<queue, closing, resumes, drained, reported>>

-----------------------------------------------------------------------------
(* flush, persist, close, resume.                                          *)

\* Mutant: flush leaves the backlog in place.
TakeHeldKeeps == run.held

\* The backlog after flush has taken it (take_held).
TakeHeld == <<>>

\* flush: each held batch is written as the whole log, in order, then the
\* coverage.  A failed write ends it; what was taken is not put back.
Flushed == [log |-> IF run.held = <<>> THEN disk.log ELSE Last(run.held),
            count |-> run.count]

FlushOk(closed) ==
  /\ run' = [run EXCEPT !.dir = TRUE, !.closed = closed, !.held = TakeHeld]
  /\ disk' = Flushed
  /\ reported' = reported \cup folded
  /\ UNCHANGED faulty

FlushFails ==
  /\ ~faulty
  /\ \/ run' = [run EXCEPT !.dir = TRUE] /\ UNCHANGED disk
     \/ /\ run' = [run EXCEPT !.dir = TRUE, !.held = TakeHeld]
        /\ \/ disk' \in {disk, Flushed}
           \/ \E k \in DOMAIN run.held : disk' = [disk EXCEPT !.log = run.held[k]]
  /\ faulty' = TRUE
  /\ UNCHANGED reported

\* tui_run persist, and record keeping of new and resume (flush).
Persist ==
  /\ FlushOk(run.closed) \/ FlushFails
  /\ ServesNothing
  /\ UNCHANGED <<queue, at, closing, resumes, drained, folded, appended>>

\* Mutant: close reads the queue instead of draining it.
CloseReads ==
  /\ ~closing /\ ~run.closed
  /\ closing' = TRUE
  /\ drained' = drained \cup Range(queue.events)
  /\ Hold(run, queue.events)
  /\ ServesNothing
  /\ UNCHANGED <<queue, at, resumes, reported>>

\* close, first half: every retained event goes to the run.
CloseDrain ==
  /\ ~closing /\ ~run.closed
  /\ closing' = TRUE
  /\ queue' = [queue EXCEPT !.events = <<>>]
  /\ drained' = drained \cup Range(queue.events)
  /\ Hold(run, queue.events)
  /\ ServesNothing
  /\ UNCHANGED <<at, resumes, reported>>

\* close, second half: an ephemeral run has nothing to flush.
CloseFlush ==
  /\ closing
  /\ closing' = FALSE
  /\ \/ run.dir /\ (FlushOk(TRUE) \/ FlushFails)
     \/ /\ ~run.dir
        /\ run' = [run EXCEPT !.closed = TRUE]
        /\ UNCHANGED <<disk, reported, faulty>>
  /\ ServesNothing
  /\ UNCHANGED <<queue, at, resumes, drained, folded, appended>>

\* close of a closed run drains again, and the run refuses what came out.
CloseAgain ==
  /\ ~closing /\ run.closed
  /\ queue' = [queue EXCEPT !.events = <<>>]
  /\ drained' = drained \cup Range(queue.events)
  /\ ServesNothing
  /\ UNCHANGED <<at, run, disk, closing, resumes, folded, appended, reported, faulty>>

\* resume of the closed run: its coverage comes back from disk, the cursors
\* of the run start again, the session and its queue are the same.
Resume ==
  /\ run.closed /\ run.dir /\ resumes < MaxResumes
  /\ resumes' = resumes + 1
  /\ run' = [dir |-> TRUE, closed |-> FALSE, held |-> <<>>, count |-> disk.count]
  /\ at' = [at EXCEPT ![Persistence] = 0, ![Coverage] = 0]
  /\ ServesNothing
  /\ UNCHANGED <<queue, disk, closing, hist>>

-----------------------------------------------------------------------------
Next ==
  \/ Emit \/ Fold \/ Persist \/ CloseDrain \/ CloseFlush \/ CloseAgain \/ Resume
  \/ \E c \in Readers : Read(c)

Spec == Init /\ [][Next]_vars

-----------------------------------------------------------------------------
(* Properties.                                                             *)

\* A consumer never skips an event in silence: what its cursor passes it was
\* served, or its batch said there was a gap, or a close had drained the event
\* (since, drain, fold_into_run).
NothingSkipped ==
  \A c \in Consumers : \A n \in Events :
    at[c] < n /\ n <= at'[c] =>
      \/ n \in answer'[c].events
      \/ answer'[c].gap
      \/ n \in drained

\* No coverage event is counted twice, over folds, a failed close, and a
\* resume that restarts the cursor while the session goes on.
CoverOnce == \A n \in Events : run.count[n] <= 1

\* What a run appended to the log stays in it, whatever flush does with the
\* backlog later, as long as no write has failed (hold_events).
AppendedKept == ~faulty => appended \subseteq Range(disk.log)

\* What a persist or close that succeeded covered is in the log (EventLedger:
\* batches are written to events/<session>.jsonl when the run persists).
PromotedKept == ~faulty => reported \subseteq Range(disk.log)
=============================================================================
