------------------------------- MODULE Executor -------------------------------
(***************************************************************************)
(* One act, from the call to the committed transaction: execute_act_inner  *)
(* (src/execution/executor.rs) over one session and its PTY engine         *)
(* (src/backend/portable_pty.rs).  The session actor runs one act at a     *)
(* time; what interleaves with it is the child process, whose output the   *)
(* reader thread queues until somebody pumps it into the parser.           *)
(*                                                                         *)
(* A chunk of output is what it does to the terminal: a repaint to another *)
(* screen, a bell, or a shell mark that ends a command.  Time is counted   *)
(* in polls of 15 ms and only while a wait sleeps.                         *)
(***************************************************************************)
EXTENDS Naturals, Sequences, FiniteSets

CONSTANTS
  Screens,     \* contents the screen may have
  Blank,       \* the screen of an engine just started
  Bell, Done,  \* the other two kinds of output
  Wanted,      \* the screen that shows the text a TextAppears act waits for
  Policies,    \* completion policies the acts use
  CommandWaits,\* the engine can wait for the end of a command (PTY only)
  EngineErrs,  \* waits and observes of the engine may fail (tmux, pipes)
  Quiet,       \* polls without a change that make a screen stable
  Budget,      \* polls an act may wait
  Grace,       \* polls a MayBeSilent act waits (SILENT_GRACE_MS)
  MaxChunks,   \* bound: chunks the child emits
  MaxActs,     \* bound: acts
  MaxGen,      \* bound: generations
  None

VARIABLES
  child,   \* process: alive, unread output, chunks so far, inputs received
  term,    \* parser and BackendEventClock
  sess,    \* Session: generation, last frame, ingest and event queues, guard
  act,     \* the act in progress
  tx,      \* the last transaction the sink took, None before
  log      \* history: what the last act did and what it was answered

vars == <<child, term, sess, act, tx, log>>

Chunks == Screens \cup {Bell, Done}
Statuses == {"Sent", "FailedBeforeWrite", "PartialOrUnknown"}
Settles == {"Met", "TimedOut", "Skipped", "NotAttempted"}
Clock == [out : 0 .. MaxChunks, screen : 0 .. MaxChunks,
          bell : 0 .. MaxChunks, command : 0 .. MaxChunks]
Event == [kind : {"output", "screen", "started"}, gen : 1 .. MaxGen, late : BOOLEAN]
Unread == [what : Chunks, reply : BOOLEAN]
Phases == {"idle", "preflight", "offset", "dispatch", "wait", "look", "check",
           "final", "nap", "finish"}

\* Every variable has its type.
TypeOK ==
  /\ child \in [alive : BOOLEAN, wire : Seq(Unread), emitted : 0 .. MaxChunks,
                got : 0 .. MaxActs]
  /\ term \in [shown : Screens, reply : BOOLEAN, clock : Clock, still : 0 .. Quiet]
  /\ sess \in [gen : 1 .. MaxGen, last : Screens, lastReply : BOOLEAN, ingest : Seq(1 .. MaxGen),
               queue : Seq(Event), guard : [gen : 1 .. MaxGen, screen : Screens] \cup {None},
               muted : BOOLEAN]
  /\ act \in [pc : Phases, policy : Policies \cup {None}, guarded : BOOLEAN, before : Screens,
              base : Clock, at : Clock, since : Nat, waited : 0 .. Budget, after : Screens,
              settle : Settles, acts : 0 .. MaxActs]
  /\ tx \in [status : Statuses, settle : Settles, base : Clock, clock : Clock,
             policy : Policies] \cup {None}
  /\ log \in [wrote : BOOLEAN, over : Screens, answer : {"none", "ok", "stale", "refused", "error"},
              recorded : BOOLEAN]

ZeroClock == [out |-> 0, screen |-> 0, bell |-> 0, command |-> 0]
Started(g) == [kind |-> "started", gen |-> g, late |-> FALSE]

Init ==
  /\ child = [alive |-> TRUE, wire |-> <<>>, emitted |-> 0, got |-> 0]
  /\ term = [shown |-> Blank, reply |-> FALSE, clock |-> ZeroClock, still |-> 0]
  /\ sess = [gen |-> 1, last |-> Blank, lastReply |-> FALSE, ingest |-> <<>>, queue |-> <<Started(1)>>,
             guard |-> None, muted |-> FALSE]
  /\ act = [pc |-> "idle", policy |-> None, guarded |-> FALSE, before |-> Blank,
            base |-> ZeroClock, at |-> ZeroClock, since |-> 0, waited |-> 0,
            after |-> Blank, settle |-> "Met", acts |-> 0]
  /\ tx = None
  /\ log = [wrote |-> FALSE, over |-> Blank, answer |-> "none", recorded |-> FALSE]

-----------------------------------------------------------------------------
(* The child and the engine.                                               *)

\* The reader thread hands one chunk to the hook and to the channel.
Emit ==
  /\ child.alive /\ child.emitted < MaxChunks
  /\ \E c \in Chunks :
       child' = [child EXCEPT !.emitted = @ + 1,
                   !.wire = Append(@, [what |-> c, reply |-> log.wrote])]
  /\ sess' = [sess EXCEPT !.ingest = Append(@, sess.gen)]
  /\ UNCHANGED <<term, act, tx, log>>

Exit ==
  /\ child.alive
  /\ child' = [child EXCEPT !.alive = FALSE]
  /\ UNCHANGED <<term, sess, act, tx, log>>

\* pump: the whole backlog is parsed and the fingerprints before and after
\* are compared once, so a repaint undone within one pump is not a change.
Pumped(t, wire) ==
  LET repaints == {n \in DOMAIN wire : wire[n].what \in Screens}
      latest == CHOOSE n \in repaints : \A k \in repaints : k <= n
      count(c) == Cardinality({n \in DOMAIN wire : wire[n].what = c})
      shown == IF repaints = {} THEN t.shown ELSE wire[latest].what
      changed == shown # t.shown IN
  [t EXCEPT !.shown = shown,
     !.still = IF changed THEN 0 ELSE @,
     !.reply = IF changed THEN wire[latest].reply ELSE @,
     !.clock = [out |-> @.out + Len(wire), bell |-> @.bell + count(Bell),
                command |-> @.command + count(Done),
                screen |-> IF changed THEN @.screen + 1 ELSE @.screen]]

Now == Pumped(term, child.wire)
Pump == /\ term' = Now
        /\ child' = [child EXCEPT !.wire = <<>>]

Interaction(clock) == clock.screen + clock.bell

-----------------------------------------------------------------------------
(* The session.                                                            *)

Output(g) == [kind |-> "output", gen |-> g, late |-> FALSE]

\* absorb_pending_ingest: the facts of the reader thread become events, all
\* of them of the generation that absorbs them.
Absorbed(s) ==
  [s EXCEPT !.queue = @ \o [n \in 1 .. Len(s.ingest) |->
                              [Output(s.gen) EXCEPT !.late = s.ingest[n] # s.gen]],
            !.ingest = <<>>]

\* observe: the frame becomes the last one and its difference becomes events.
Advanced(s, t) ==
  [s EXCEPT !.last = t.shown, !.lastReply = t.reply,
     !.queue = IF t.shown = s.last THEN @
               ELSE Append(@, [kind |-> "screen", gen |-> s.gen, late |-> ~t.reply])]

\* restart: the child is killed and its unread output dropped with the
\* channel; the clock is cleared, the ingest queue is not.
Restart ==
  /\ act.pc = "idle" /\ sess.gen < MaxGen
  /\ child' = [child EXCEPT !.alive = TRUE, !.wire = <<>>]
  /\ term' = [shown |-> Blank, reply |-> FALSE, clock |-> ZeroClock, still |-> 0]
  /\ sess' = [sess EXCEPT !.gen = @ + 1, !.last = Blank, !.lastReply = FALSE,
                !.queue = Append(@, Started(sess.gen + 1))]
  /\ UNCHANGED <<act, tx, log>>

\* A client observes the screen and keeps a guard of what it saw.
Observe ==
  /\ act.pc = "idle" /\ act.acts < MaxActs
  /\ Pump
  /\ sess' = [Advanced(Absorbed(sess), Now) EXCEPT
                !.guard = [gen |-> sess.gen, screen |-> Now.shown]]
  /\ UNCHANGED <<act, tx, log>>

\* MutationGuard::validate_analysis against the preflight frame.
Holds(g, screen) == g.gen = sess.gen /\ g.screen = screen

-----------------------------------------------------------------------------
(* The act.                                                                *)

\* execute_act_inner: deadline, then snapshot_fresh takes the ingest first.
Begin(p, guarded) ==
  /\ act.pc = "idle" /\ act.acts < MaxActs
  /\ guarded => sess.guard # None
  /\ act' = [act EXCEPT !.pc = "preflight", !.policy = p, !.guarded = guarded,
               !.acts = @ + 1, !.waited = 0]
  /\ sess' = Absorbed(sess)
  /\ log' = [log EXCEPT !.wrote = FALSE, !.answer = "none", !.recorded = FALSE]
  /\ UNCHANGED <<child, term, tx>>

\* A stale guard ends the act; otherwise the baseline is taken, the plan
\* compiled and the transaction window opened (recording muted when the
\* input is sensitive).
Preflight ==
  /\ act.pc = "preflight"
  /\ Pump
  /\ IF act.guarded /\ ~Holds(sess.guard, Now.shown)
     THEN /\ act' = [act EXCEPT !.pc = "idle"]
          /\ log' = [log EXCEPT !.answer = "stale"]
          /\ UNCHANGED sess
     ELSE /\ act' = [act EXCEPT !.pc = "offset", !.before = Now.shown,
                       !.base = Now.clock, !.since = Len(sess.queue)]
          /\ \E sensitive \in BOOLEAN : sess' = [sess EXCEPT !.muted = sensitive]
          /\ UNCHANGED log
  /\ UNCHANGED tx

\* raw_window_range pumps before the offset of the transaction is read.
Offset ==
  /\ act.pc = "offset"
  /\ Pump
  /\ act' = [act EXCEPT !.pc = "dispatch"]
  /\ UNCHANGED <<sess, tx, log>>

Transaction(status, settle) ==
  [status |-> status, settle |-> settle, base |-> act.base, clock |-> act.at,
   policy |-> act.policy]

\* Mutant: the error path forgets the window.
FailMuted ==
  /\ act' = [act EXCEPT !.pc = "idle"]
  /\ log' = [log EXCEPT !.answer = "error"]
  /\ UNCHANGED <<sess, tx>>

\* The act leaves by an error: dropping the window unmutes the recording.
Fail ==
  /\ act' = [act EXCEPT !.pc = "idle"]
  /\ sess' = [sess EXCEPT !.muted = FALSE]
  /\ log' = [log EXCEPT !.answer = "error"]
  /\ UNCHANGED tx

\* dispatch: pump, then one write.  The input cannot be encoded in the
\* negotiated mouse mode, or the write to a dead child fails.
DispatchFails ==
  /\ act.pc = "dispatch"
  /\ Pump
  /\ \E status \in {"FailedBeforeWrite", "PartialOrUnknown"} :
       /\ status = "PartialOrUnknown" => ~child.alive
       /\ tx' = Transaction(status, "NotAttempted")
  /\ act' = [act EXCEPT !.pc = "idle"]
  /\ sess' = [sess EXCEPT !.muted = FALSE]
  /\ log' = [log EXCEPT !.answer = "error", !.recorded = TRUE]

Dispatch ==
  /\ act.pc = "dispatch" /\ child.alive
  /\ term' = Now
  /\ child' = [child EXCEPT !.wire = <<>>, !.got = @ + 1]
  /\ log' = [log EXCEPT !.wrote = TRUE, !.over = Now.shown]
  /\ act' = [act EXCEPT !.pc =
               CASE act.policy = "NoWait" -> "finish"
                 [] act.policy \in {"Event", "TextAppears"} -> "look"
                 [] OTHER -> "wait",
               !.settle = IF act.policy = "NoWait" THEN "Skipped" ELSE "TimedOut",
               !.after = Now.shown]
  /\ UNCHANGED <<sess, tx>>

\* Mutant: a stable screen need not have changed since the baseline.
MetUnanchored(policy, t) ==
  CASE policy = "StableScreen" -> t.still = Quiet
    [] policy = "CommandDone" -> t.clock.command > act.base.command
    [] OTHER -> Interaction(t.clock) > Interaction(act.base)

\* WaitEvaluator::evaluate on the compiled condition and its anchor.
MetNow(policy, t) ==
  CASE policy = "StableScreen" -> t.clock.screen > act.base.screen /\ t.still = Quiet
    [] policy = "CommandDone" -> t.clock.command > act.base.command
    [] OTHER -> Interaction(t.clock) > Interaction(act.base)

\* Mutant: the loop has no deadline.
LimitNever == Budget + 1

Limit == IF act.policy = "MayBeSilent" THEN Grace ELSE Budget

\* require_wait: the engine does not know this wait.  The input is sent.
Unsupported ==
  /\ act.pc = "wait" /\ act.policy = "CommandDone" /\ ~CommandWaits
  /\ Fail
  /\ UNCHANGED <<child, term>>

\* One turn of wait: pump, evaluate, give up at the budget, sleep.  A
\* MayBeSilent act whose grace runs out observes once more and is met.
Poll ==
  /\ act.pc = "wait" /\ (act.policy = "CommandDone" => CommandWaits)
  /\ Pump
  /\ act' = IF MetNow(act.policy, Now)
            THEN [act EXCEPT !.pc = "finish", !.settle = "Met", !.at = Now.clock,
                    !.after = Now.shown]
            ELSE IF act.waited < Limit THEN [act EXCEPT !.pc = "nap"]
            ELSE IF act.policy = "MayBeSilent"
            THEN [act EXCEPT !.pc = "final", !.settle = "Met"]
            ELSE [act EXCEPT !.pc = "finish", !.settle = "TimedOut", !.after = Now.shown]
  /\ UNCHANGED <<sess, tx, log>>

\* Fifteen milliseconds: everything that ages does.
Nap ==
  /\ act.pc = "nap"
  /\ act' = [act EXCEPT !.waited = IF @ < Budget THEN @ + 1 ELSE @,
               !.pc = IF act.policy \in {"Event", "TextAppears"} THEN "look" ELSE "wait"]
  /\ term' = [term EXCEPT !.still = IF @ < Quiet THEN @ + 1 ELSE @]
  /\ UNCHANGED <<child, sess, tx, log>>

\* The loops of Event and TextAppears call Session::observe, which takes the
\* ingest first and reads the screen after.
Look ==
  /\ act.pc = "look"
  /\ sess' = Absorbed(sess)
  /\ act' = [act EXCEPT !.pc = "check"]
  /\ UNCHANGED <<child, term, tx, log>>

Matched ==
  IF act.policy = "Event"
  THEN \E n \in DOMAIN sess'.queue : n > act.since /\ sess'.queue[n].kind = "screen"
  ELSE Now.shown = Wanted /\ act.before # Wanted

Check ==
  /\ act.pc = "check"
  /\ Pump
  /\ sess' = Advanced(sess, Now)
  /\ act' = IF Matched \/ act.waited = Budget
            THEN [act EXCEPT !.settle = IF Matched THEN "Met" ELSE "TimedOut",
                    !.after = Now.shown,
                    !.pc = IF act.policy = "Event" THEN "final" ELSE "finish"]
            ELSE [act EXCEPT !.pc = "nap"]
  /\ UNCHANGED <<tx, log>>

\* The frame of an event or of a silent act comes from one more observe.
Final ==
  /\ act.pc = "final"
  /\ Pump
  /\ sess' = Advanced(Absorbed(sess), Now)
  /\ act' = [act EXCEPT !.pc = "finish", !.after = Now.shown]
  /\ UNCHANGED <<tx, log>>

\* A wait or an observe of the engine fails: the act ends there.
EngineFails ==
  /\ EngineErrs
  /\ \/ act.pc \in {"wait", "check", "final"}
     \/ act.pc = "finish" /\ act.policy = "NoWait"
  /\ Fail
  /\ UNCHANGED <<child, term>>

\* The window closes, the sink commits the transaction or refuses it because
\* the run was switched, and the events are folded.
Finish ==
  /\ act.pc = "finish"
  /\ Pump
  /\ act' = [act EXCEPT !.pc = "idle"]
  /\ sess' = [Absorbed(sess) EXCEPT !.muted = FALSE]
  /\ \/ /\ tx' = Transaction("Sent", act.settle)
        /\ log' = [log EXCEPT !.answer = "ok", !.recorded = TRUE]
     \/ /\ log' = [log EXCEPT !.answer = "refused"]
        /\ UNCHANGED tx

Step == \/ Preflight \/ Offset \/ DispatchFails \/ Dispatch \/ Unsupported
        \/ Poll \/ Nap \/ Look \/ Check \/ Final \/ EngineFails \/ Finish

Next == \/ Emit \/ Exit \/ Restart \/ Observe \/ Step
        \/ \E p \in Policies, guarded \in BOOLEAN : Begin(p, guarded)

Spec == Init /\ [][Next]_vars
\* The actor runs the act to its end: its own steps are weakly fair.
Fairness == WF_vars(Step)

-----------------------------------------------------------------------------
(* Properties.                                                             *)

\* Whatever way an act ends, the recording it muted is on again, and an act
\* that reported a failure before the write has not written
\* (ActTransactionGuard, DispatchStatus).
WindowsClosed ==
  act.pc = "idle" => /\ ~sess.muted
                     /\ (log.recorded /\ tx.status = "FailedBeforeWrite" => ~log.wrote)

\* An act met by a stable screen had a change parsed after its baseline, one
\* met by activity had activity: nothing from before the snapshot counts.
MetIsAnchored ==
  (tx # None /\ tx.status = "Sent" /\ tx.settle = "Met") =>
    CASE tx.policy = "StableScreen" -> tx.clock.screen > tx.base.screen
      [] tx.policy = "AnyObservableChange" -> Interaction(tx.clock) > Interaction(tx.base)
      [] tx.policy = "CommandDone" -> tx.clock.command > tx.base.command
      [] OTHER -> TRUE

\* Every act ends, whatever the child prints or does not print.
EveryActEnds == act.pc # "idle" ~> act.pc = "idle"

\* record.rs: every act lands in the run ledger.  An input that reached the
\* child has a transaction when its act is over and no run switch refused it.
SentIsRecorded ==
  (act.pc = "idle" /\ log.wrote /\ log.answer # "refused") => log.recorded

\* executor.rs: a guarded input is written over the screen it was checked
\* against ("closes the observe->act race").
GuardHoldsAtWrite ==
  (log.wrote /\ act.guarded /\ act.pc # "idle") => log.over = act.before

\* events/mod.rs: an event carries the generation it happened in.
EventsOfTheirGeneration ==
  \A n \in DOMAIN sess.queue : sess.queue[n].kind = "output" => ~sess.queue[n].late
=============================================================================
