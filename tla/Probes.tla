--------------------------------- MODULE Probes ---------------------------------
(***************************************************************************)
(* What one session shows and what is read of it: the child writes, the    *)
(* reader thread hands each chunk on after it noted it, a pump parses what *)
(* has arrived, an observation compares with the one before and pushes     *)
(* events into the ring (session/semantic_impl.rs, session/state.rs).      *)
(* Over it: probes with and without a stimulus (diagnostic/mod.rs,         *)
(* handlers/probe.rs) and a client that pages through the history          *)
(* (events/bus.rs, observe mode "history").                                *)
(*                                                                         *)
(* An event is its kind; its number is its place in the log, and the ring  *)
(* holds the events after "evicted".                                       *)
(***************************************************************************)
EXTENDS Naturals, Sequences, FiniteSets

CONSTANTS
  Room,       \* events the ring holds (4096)
  Limits,     \* page sizes
  MaxWrites,  \* bound: writes of the child
  MaxNatives, \* bound: native events
  MaxProbes,  \* bound: probes
  MaxLooks    \* bound: observations by other tools

VARIABLES
  child,  \* text and style written last, how many writes, native events made
  wire,   \* chunks noted, the one in the reader's hand, what the channel has
  engine, \* the parsed screen
  log,    \* every event pushed, and how many of them were evicted
  last,   \* the last observation, if any
  probe,  \* the probe under way
  answer, \* what the last probe answered
  pager,  \* cursor, numbers served, and the gap it was told of last
  looks   \* observations by other tools

probeVars == <<child, wire, engine, log, last, probe, answer, pager, looks>>

None == <<>>  \* else a sequence of one
Blank == [text |-> FALSE, style |-> FALSE, n |-> 0]
NoProbe == [pc |-> "no", count |-> 0]
Kinds == {"output", "native", "started", "screen", "visual", "probe"}

Init ==
  /\ child = [shown |-> Blank, natives |-> 0] /\ wire = [noted |-> 0, hand |-> None, channel |-> None, natives |-> 0]
  /\ engine = Blank /\ log = [events |-> <<>>, evicted |-> 0] /\ last = None
  /\ probe = NoProbe /\ answer = None /\ looks = 0
  /\ pager = [cursor |-> 0, served |-> {}, told |-> 0]

TypeOK ==
  /\ child.shown.n \in 0 .. MaxWrites /\ engine.n \in 0 .. child.shown.n
  /\ \A n \in DOMAIN log.events : log.events[n] \in Kinds
  /\ Len(log.events) - log.evicted <= Room
  /\ probe.pc \in {"no", "peek", "drift", "look", "prep", "send", "settle", "close", "sample"}
  /\ pager.cursor <= Len(log.events) /\ looks \in 0 .. MaxLooks

-----------------------------------------------------------------------------
(* The event ring.                                                         *)

\* TerminalEventQueue::push: a full ring loses its older half.
Push(l, kind) ==
  [events |-> Append(l.events, kind),
   evicted |-> IF Len(l.events) - l.evicted >= Room THEN l.evicted + Room \div 2 ELSE l.evicted]

PushMany(l, kind, count) ==
  LET pushed[n \in 0 .. count] == IF n = 0 THEN l ELSE Push(pushed[n - 1], kind) IN pushed[count]

Retained == (log.evicted + 1) .. Len(log.events)
Since(cursor) == {n \in Retained : n > cursor}
Gap(cursor) == cursor < log.evicted

-----------------------------------------------------------------------------
(* The child and the reader thread.                                        *)

Write ==
  /\ child.shown.n < MaxWrites /\ wire.hand = None
  /\ \E what \in {"text", "style"} :
       child' = [child EXCEPT !.shown =
                   [child.shown EXCEPT ![what] = ~child.shown[what], !.n = child.shown.n + 1]]
  /\ wire' = [wire EXCEPT !.noted = @ + 1, !.hand = <<child'.shown>>]
  /\ UNCHANGED <<engine, log, last, probe, answer, pager, looks>>

Hand ==
  /\ wire.hand # None
  /\ wire' = [wire EXCEPT !.hand = None, !.channel = wire.hand]
  /\ UNCHANGED <<child, engine, log, last, probe, answer, pager, looks>>

Declare ==
  /\ child.natives < MaxNatives
  /\ child' = [child EXCEPT !.natives = @ + 1]
  /\ wire' = [wire EXCEPT !.natives = @ + 1]
  /\ UNCHANGED <<engine, log, last, probe, answer, pager, looks>>

-----------------------------------------------------------------------------
(* The session.                                                            *)

\* absorb_native_events and absorb_pending_ingest.
Absorbed == PushMany(PushMany(log, "native", wire.natives), "output", wire.noted)
Absorb ==
  /\ log' = Absorbed
  /\ wire' = [wire EXCEPT !.noted = 0, !.natives = 0]

\* PortablePtyBackend::pump: all that the channel has is parsed.
Parsed == IF wire.channel = None THEN engine ELSE wire.channel[1]
Pump ==
  /\ engine' = Parsed
  /\ wire' = [wire EXCEPT !.channel = None]

\* emit_frame_events: the events are what changed since the last observation.
Emitted(l, screen) ==
  CASE last = None -> Push(l, "started")
    [] last # None /\ last[1].text # screen.text -> Push(l, "screen")
    [] last # None /\ last[1].text = screen.text /\ last[1].style # screen.style -> Push(l, "visual")
    [] OTHER -> l

\* Session::observe, after its absorption.
Observe == Pump /\ log' = Emitted(log, Parsed) /\ last' = <<Parsed>>

\* A tool that observes, while no probe is under way.
Look ==
  /\ probe.pc = "no" /\ looks < MaxLooks
  /\ looks' = looks + 1
  /\ engine' = Parsed /\ last' = <<Parsed>>
  /\ wire' = [wire EXCEPT !.noted = 0, !.natives = 0, !.channel = None]
  /\ log' = Emitted(Absorbed, Parsed)
  /\ UNCHANGED <<child, probe, answer, pager>>

-----------------------------------------------------------------------------
(* Probes.                                                                 *)

Same(s, t) == s.text = t.text /\ s.style = t.style

\* The events of a log after a number that the ring still holds.
EventsOf(l, from) == {n \in (l.evicted + 1) .. Len(l.events) : n > from}

\* has_changes: the frames differ, or an event of the window is one that
\* frames do not show.
HasChanges(before, after, l, from) ==
  ~Same(before, after) \/ \E n \in EventsOf(l, from) : l.events[n] \in {"native", "visual"}

\* An answer; "sent" is what had been parsed when the probe went out.
Answer(kind, before, after, l) ==
  [kind |-> kind, before |-> before, after |-> after, from |-> probe.from, to |-> Len(l.events),
   events |-> EventsOf(l, probe.from), changed |-> HasChanges(before, after, l, probe.from),
   frames |-> {}, sent |-> probe.sent, capture |-> probe.capture]

Begin ==
  /\ probe.pc = "no" /\ probe.count < MaxProbes
  /\ \E drives \in BOOLEAN, capture \in {"none", "frames", "delay"} :
       probe' = [pc |-> "peek", count |-> probe.count + 1, drives |-> drives, capture |-> capture]
  /\ answer' = None
  /\ Absorb
  /\ UNCHANGED <<child, engine, last, pager, looks>>

\* snapshot_fresh, which is no observation, and the number of the last event.
Peek ==
  /\ probe.pc = "peek"
  /\ Pump
  /\ probe' = [pc |-> IF probe.drives THEN "prep" ELSE "drift", count |-> probe.count, capture |-> probe.capture,
               peeked |-> Parsed, from |-> Len(log.events), sent |-> Parsed.n]
  /\ UNCHANGED <<child, log, last, answer, pager, looks>>

\* A probe without a stimulus: an observation, and all events since.
DriftAbsorb ==
  /\ probe.pc = "drift"
  /\ Absorb /\ probe' = [probe EXCEPT !.pc = "look"]
  /\ UNCHANGED <<child, engine, last, answer, pager, looks>>

DriftLook ==
  /\ probe.pc = "look"
  /\ Pump /\ last' = <<Parsed>>
  /\ LET l == Emitted(log, Parsed) IN
     /\ answer' = <<Answer("drift", probe.peeked, Parsed, l)>>
     /\ log' = Push(l, "probe")
  /\ probe' = [NoProbe EXCEPT !.count = probe.count]
  /\ UNCHANGED <<child, pager, looks>>

\* The executor's own snapshot, and the send.
Prepare ==
  /\ probe.pc = "prep"
  /\ Absorb /\ probe' = [probe EXCEPT !.pc = "send"]
  /\ UNCHANGED <<child, engine, last, answer, pager, looks>>

Send ==
  /\ probe.pc = "send"
  /\ Pump
  /\ probe' = [pc |-> "settle", count |-> probe.count, capture |-> probe.capture, peeked |-> probe.peeked,
               before |-> Parsed, from |-> Len(log.events), sent |-> Parsed.n]
  /\ UNCHANGED <<child, log, last, answer, pager, looks>>

\* The plan waits on the engine, or observes until it is met.
Settle ==
  /\ probe.pc = "settle"
  /\ \E looks1 \in BOOLEAN :
       /\ IF looks1 THEN Observe ELSE Pump /\ UNCHANGED <<log, last>>
       /\ probe' = [pc |-> "close", count |-> probe.count, capture |-> probe.capture, peeked |-> probe.peeked,
                    before |-> probe.before, from |-> probe.from, sent |-> probe.sent, after |-> Parsed]
  /\ UNCHANGED <<child, answer, pager, looks>>

\* Mutant: the frame that the probe peeked at before the executor ran.
BeforePeeked(p) == p.peeked

\* The frame that the executor took right before the send.
Before(p) == p.before

\* Mutant: a window that the ring has lost a part of is served.
ProvenAnyway(from, evicted) == TRUE

\* The ring still holds all that came after the send.
Proven(from, evicted) == evicted <= from

\* The end of the window, and its events, or an error although it was sent.
\* The executor is called without a count of frames, and so captures none.
Close ==
  /\ probe.pc = "close"
  /\ Absorb
  /\ IF Proven(probe.from, Absorbed.evicted)
     THEN /\ answer' = <<Answer("drive", Before(probe), probe.after, Absorbed)>>
          /\ probe' = IF probe.capture = "delay" THEN [pc |-> "sample", count |-> probe.count]
                      ELSE [NoProbe EXCEPT !.count = probe.count]
     ELSE /\ UNCHANGED answer
          /\ probe' = [NoProbe EXCEPT !.count = probe.count]
  /\ UNCHANGED <<child, engine, last, pager, looks>>

\* after_duration: one more observation, stamped with the delay asked for.
Sample ==
  /\ probe.pc = "sample"
  /\ Observe
  /\ answer' = <<[answer[1] EXCEPT !.frames = {Parsed.n}]>>
  /\ probe' = [NoProbe EXCEPT !.count = probe.count]
  /\ UNCHANGED <<child, pager, looks>>

-----------------------------------------------------------------------------
(* The history.                                                            *)

\* project_history: the first "limit" events of the kinds asked for.
Page(kinds, limit) ==
  LET match == {n \in Since(pager.cursor) : log.events[n] \in kinds} IN
  {n \in match : Cardinality({m \in match : m <= n}) <= limit}

\* Mutant: the cursor is the last event of the ring, served or not.
CursorAfterRing(page) == IF Retained = {} THEN pager.cursor ELSE Len(log.events)

\* The cursor is the last event served.
CursorAfter(page) ==
  IF page = {} THEN pager.cursor ELSE CHOOSE n \in page : \A m \in page : m <= n

History(kinds) ==
  /\ \E limit \in Limits :
       LET page == Page(kinds, limit) IN
       pager' = [cursor |-> CursorAfter(page), served |-> pager.served \cup page,
                 told |-> IF Gap(pager.cursor) THEN log.evicted ELSE pager.told]
  /\ UNCHANGED <<child, wire, engine, log, last, probe, answer, looks>>

Asked == {"output", "screen", "visual"}

Next ==
  \/ Write \/ Hand \/ Declare \/ Look \/ Begin \/ Peek \/ DriftAbsorb \/ DriftLook
  \/ Prepare \/ Send \/ Settle \/ Close \/ Sample \/ History(Asked)

-----------------------------------------------------------------------------

\* diagnostic/mod.rs:260: the window of a stimulus is served whole or not at
\* all, however the child floods the ring between the send and the answer.
WindowWhole ==
  \A n \in DOMAIN answer : answer[n].kind = "drive" => answer[n].events = answer[n].from + 1 .. answer[n].to

\* diagnostic/mod.rs:218-221 and 289: between the frames of an answer lies
\* only what the child wrote after the probe went out, however much it wrote
\* since the probe first peeked.
NoEarlierChange ==
  \A n \in DOMAIN answer :
    answer[n].before.n >= answer[n].sent /\ answer[n].after.n >= answer[n].before.n

\* bus.rs:396: "paging by cursor never skips anything": every event of the
\* kinds asked for up to the cursor was served, or lies in a gap told of.
PagesWhole ==
  \A n \in 1 .. pager.cursor : log.events[n] \in Asked => n \in pager.served \/ n <= pager.told

\* diagnostic/mod.rs:218-221, "This prevents asynchronous drift between an
\* older cached observation and the actual stimulus from being misattributed
\* to the experiment": a change is told only if the child did something since.
ChangedIsNew ==
  \A n \in DOMAIN answer :
    answer[n].changed => answer[n].before.n # answer[n].after.n \/ \E e \in answer[n].events : log.events[e] = "native"

\* diagnostic/mod.rs:184-187, the transition frame collector is armed "AT THE
\* STIMULUS": frames that were asked for are there when the screen changed.
FramesAreRecorded ==
  \A n \in DOMAIN answer :
    (answer[n].kind = "drive" /\ answer[n].capture = "frames" /\ ~Same(answer[n].before, answer[n].after))
      => answer[n].frames # {}
=============================================================================
