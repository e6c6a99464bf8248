------------------------------ MODULE LineEngines ------------------------------
(***************************************************************************)
(* The two engines without a terminal grid: the line engine on a PTY       *)
(* (src/backend/line_cli.rs) and the pipe engine with its two streams      *)
(* (src/backend/pipe.rs).  Reader threads cut the output of the child into *)
(* chunks and send them through a channel; the engine drains the channel   *)
(* whenever it is asked something, folds the bytes into lines, and answers *)
(* waits from them.  The engine object outlives its child: a restart       *)
(* starts the next child in it.                                            *)
(*                                                                         *)
(* A byte is a letter, a newline, a carriage return or a bell.             *)
(***************************************************************************)
EXTENDS Naturals, Sequences, SequencesExt

CONSTANTS
  Rows,      \* rows of the viewport
  MaxLines,  \* lines kept (10 000)
  SnapCap,   \* edge snapshots kept (64)
  MaxBytes,  \* bound: bytes a child writes
  MaxGen     \* bound: starts

VARIABLES
  proc,   \* the child: generation, alive, bytes written per stream
  wire,  \* bytes the reader threads have not read, per stream
  chan,  \* chunks read and not drained: [from, bytes]
  eng,   \* the engine: its kind, lines and counters
  snaps, \* the line engine: a screen per edge [seq, view, gen]
  ask,   \* the wait under way, NoAsk when there is none
  got    \* the answer the last step gave, NoAnswer when it gave none

lineVars == <<proc, wire, chan, eng, snaps, ask, got>>

Streams == {"out", "err"}
Bytes == {"a", "nl", "cr", "bel"}
Conds == {"Text", "ScreenChange", "ScreenStable", "ProcessExit", "Bell"}
NoAsk == [cond |-> "none", anchor |-> 0, bell |-> 0]
NoAnswer == [cond |-> "none", met |-> FALSE, anchor |-> 0, seq |-> 0, view |-> <<>>, gen |-> 0]

Text == Seq({"a"})
Engine ==
  [kind : {"line", "pipe"}, lines : Seq(Text), pending : Text, evicted : Nat,
   store : [Streams -> Seq(Text)], open : [Streams -> BOOLEAN],
   output : Nat, screen : Nat, content : Nat, bell : Nat]
Snapshot == [seq : Nat, view : Seq(Text), gen : 1 .. MaxGen]

\* Every variable has its type, and nothing grows past its cap.
TypeOK ==
  /\ proc \in [gen : 1 .. MaxGen, alive : BOOLEAN, wrote : [Streams -> Seq(Bytes)]]
  /\ wire \in [Streams -> Seq(Bytes)] /\ chan \in Seq([from : Streams, bytes : Seq(Bytes)])
  /\ eng \in Engine /\ Len(eng.lines) <= MaxLines
  /\ \A s \in Streams : Len(eng.store[s]) <= MaxLines
  /\ snaps \in Seq(Snapshot) /\ Len(snaps) <= SnapCap
  /\ ask \in [cond : Conds \cup {"none"}, anchor : Nat, bell : Nat]
  /\ got.cond \in Conds \cup {"none"} /\ got.met \in BOOLEAN

NewProc(g) == [gen |-> g, alive |-> TRUE, wrote |-> [s \in Streams |-> <<>>]]
NewEngine(kind) ==
  [kind |-> kind, lines |-> <<>>, pending |-> <<>>, evicted |-> 0,
   store |-> [s \in Streams |-> <<>>], open |-> [s \in Streams |-> FALSE],
   output |-> 0, screen |-> 0, content |-> 0, bell |-> 0]

Init ==
  /\ proc = NewProc(1)
  /\ wire = [s \in Streams |-> <<>>] /\ chan = <<>>
  /\ \E kind \in {"line", "pipe"} : eng = NewEngine(kind)
  /\ snaps = <<>> /\ ask = NoAsk /\ got = NoAnswer

-----------------------------------------------------------------------------
(* The child and the reader threads.                                       *)

NoAnswerYet == got' = NoAnswer

\* The child writes a byte; a PTY turns a newline into two bytes.
Write ==
  /\ proc.alive /\ Len(proc.wrote["out"]) + Len(proc.wrote["err"]) < MaxBytes
  /\ \E s \in IF eng.kind = "pipe" THEN Streams ELSE {"out"}, b \in Bytes :
       LET put == IF eng.kind = "line" /\ b = "nl" THEN <<"cr", "nl">> ELSE <<b>> IN
       /\ proc' = [proc EXCEPT !.wrote[s] = @ \o put]
       /\ wire' = [wire EXCEPT ![s] = @ \o put]
  /\ UNCHANGED <<chan, eng, snaps, ask>> /\ NoAnswerYet

Exit ==
  /\ proc.alive
  /\ proc' = [proc EXCEPT !.alive = FALSE]
  /\ UNCHANGED <<wire, chan, eng, snaps, ask>> /\ NoAnswerYet

\* A reader gets what is there, cut anywhere.
Read(s) ==
  /\ \E n \in 1 .. Len(wire[s]) :
       /\ chan' = Append(chan, [from |-> s, bytes |-> SubSeq(wire[s], 1, n)])
       /\ wire' = [wire EXCEPT ![s] = SubSeq(@, n + 1, Len(@))]
  /\ UNCHANGED <<proc, eng, snaps, ask>> /\ NoAnswerYet

-----------------------------------------------------------------------------
(* Ingest.                                                                 *)

Newest(s, n) == IF Len(s) > n THEN SubSeq(s, Len(s) - n + 1, Len(s)) ELSE s

\* synth_screen: the last lines, and the live one when there is one.
View(e) ==
  IF e.pending = <<>> THEN Newest(e.lines, Rows)
  ELSE Append(Newest(e.lines, Rows - 1), e.pending)

Evicted(e) ==
  LET extra == IF Len(e.lines) > MaxLines THEN Len(e.lines) - MaxLines ELSE 0 IN
  [e EXCEPT !.lines = Newest(@, MaxLines), !.evicted = @ + extra]

\* retain_edge_snapshot: one snapshot per value of screen_seq.
Retain(kept, e, g) ==
  IF kept # <<>> /\ Last(kept).seq = e.screen THEN kept
  ELSE Newest(Append(kept, [seq |-> e.screen, view |-> View(e), gen |-> g]), SnapCap)

\* One byte in the line engine; w carries the engine, the snapshots, and
\* whether a line was committed or the live one changed in this chunk.
LineByte(w, b, next, g) ==
  CASE b = "nl" ->
         LET e == [w.e EXCEPT !.lines = Append(@, w.e.pending), !.pending = <<>>, !.screen = @ + 1] IN
         [w EXCEPT !.e = e, !.snaps = Retain(@, e, g), !.changed = TRUE]
    [] b = "cr" ->
         IF next # "nl" /\ w.e.pending # <<>>
         THEN [w EXCEPT !.e.pending = <<>>, !.live = TRUE] ELSE w
    [] b = "bel" -> [w EXCEPT !.e.bell = @ + 1]
    [] OTHER -> [w EXCEPT !.e.pending = Append(@, b), !.live = TRUE]

\* Mutant: only a committed line is an edge.
LiveEdgeNever(w) == FALSE

\* A chunk that only changed the live line is one edge.
LiveEdge(w) == w.live /\ ~w.changed

\* ingest of the line engine.
LineIngest(kept, e, chunk, g) ==
  LET bytes == chunk.bytes
      after[n \in 0 .. Len(bytes)] ==
        IF n = 0 THEN [e |-> e, snaps |-> kept, changed |-> FALSE, live |-> FALSE]
        ELSE LineByte(after[n - 1], bytes[n], IF n = Len(bytes) THEN "end" ELSE bytes[n + 1], g)
      w == after[Len(bytes)]
      moved == [w.e EXCEPT !.screen = IF LiveEdge(w) THEN @ + 1 ELSE @,
                           !.content = IF w.changed \/ w.live THEN @ + 1 ELSE @,
                           !.output = @ + 1] IN
  [e |-> Evicted(moved), snaps |-> IF LiveEdge(w) THEN Retain(w.snaps, moved, g) ELSE w.snaps]

\* ingest_fused, one byte.
FusedByte(e, b) ==
  LET moved == [e EXCEPT !.screen = @ + 1, !.content = @ + 1] IN
  CASE b = "nl" -> Evicted([moved EXCEPT !.lines = Append(@, e.pending), !.pending = <<>>])
    [] b = "cr" -> IF e.pending = <<>> THEN e ELSE [moved EXCEPT !.pending = <<>>]
    [] b = "bel" -> [e EXCEPT !.bell = @ + 1]
    [] OTHER -> [moved EXCEPT !.pending = Append(@, b)]

\* ingest_fused.
Fused(e, bytes) ==
  LET after[n \in 0 .. Len(bytes)] == IF n = 0 THEN e ELSE FusedByte(after[n - 1], bytes[n])
  IN after[Len(bytes)]

\* One byte of a stream; a carries its lines, the line it is in, and whether
\* that line is unterminated.
StoreByte(a, b) ==
  CASE b = "nl" -> [lines |-> Append(a.lines, a.cur), cur |-> <<>>, open |-> FALSE]
    [] b \in {"cr", "bel"} -> a
    [] OTHER -> [a EXCEPT !.cur = Append(@, b)]

\* ingest_stream, before the fused lines: the store of one stream.
Stored(e, chunk) ==
  LET s == chunk.from
      continues == e.open[s] /\ e.store[s] # <<>>
      begun == [lines |-> IF continues THEN Front(e.store[s]) ELSE e.store[s],
                cur |-> IF continues THEN Last(e.store[s]) ELSE <<>>, open |-> TRUE]
      after[n \in 0 .. Len(chunk.bytes)] ==
        IF n = 0 THEN begun ELSE StoreByte(after[n - 1], chunk.bytes[n])
      done == after[Len(chunk.bytes)]
      store == IF done.cur = <<>> THEN done.lines ELSE Append(done.lines, done.cur)
      extra == IF Len(store) > MaxLines THEN Len(store) - MaxLines ELSE 0 IN
  [e EXCEPT !.store = [@ EXCEPT ![s] = Newest(store, MaxLines)],
            !.open = [@ EXCEPT ![s] = done.open],
            !.evicted = @ + extra, !.output = @ + 1]

\* ingest_stream.
PipeIngest(e, chunk) == Fused(Stored(e, chunk), chunk.bytes)

Ingest(w, chunk) ==
  IF w.e.kind = "line" THEN LineIngest(w.snaps, w.e, chunk, proc.gen)
  ELSE [w EXCEPT !.e = PipeIngest(@, chunk)]

\* pump: every chunk in the channel, in order.
Pumped ==
  LET after[n \in 0 .. Len(chan)] ==
        IF n = 0 THEN [e |-> eng, snaps |-> snaps] ELSE Ingest(after[n - 1], chan[n])
  IN after[Len(chan)]

Pumps == eng' = Pumped.e /\ snaps' = Pumped.snaps /\ chan' = <<>>

-----------------------------------------------------------------------------
(* Waits.                                                                  *)

\* A wait begins with its baselines; an anchored one brings the sequence of
\* the act it belongs to, which is the one of now or an earlier one.
BeginWait ==
  /\ ask = NoAsk
  /\ \/ \E cond \in {"Text", "ProcessExit"} : ask' = [NoAsk EXCEPT !.cond = cond]
     \/ ask' = [NoAsk EXCEPT !.cond = "Bell", !.bell = eng.bell]
     \/ ask' = [NoAsk EXCEPT !.cond = "ScreenChange", !.anchor = eng.screen]
     \/ \E anchor \in 0 .. eng.screen :
          ask' = [NoAsk EXCEPT !.cond = "ScreenStable", !.anchor = anchor]
  /\ UNCHANGED <<proc, wire, chan, eng, snaps>> /\ NoAnswerYet

Met(e) ==
  CASE ask.cond = "Text" -> \E n \in DOMAIN View(e) : "a" \in Range(View(e)[n])
    [] ask.cond = "ScreenChange" -> e.screen > ask.anchor
    [] ask.cond = "ScreenStable" -> e.screen > ask.anchor
    [] ask.cond = "ProcessExit" -> ~proc.alive
    [] ask.cond = "Bell" -> e.bell > ask.bell

\* The edge an anchored wait asks for is the first one after its anchor.
EdgeWanted == ask.anchor + 1

\* The line engine answers an anchored wait with the first snapshot filed
\* under that edge, or with the screen of now.
Answer(e, kept) ==
  LET edge == {n \in DOMAIN kept : kept[n].seq = EdgeWanted}
      first == CHOOSE n \in edge : \A k \in edge : n <= k
      shown == IF ask.cond = "ScreenStable" /\ e.kind = "line" /\ e.screen > ask.anchor /\ edge # {}
               THEN kept[first] ELSE [seq |-> e.screen, view |-> View(e), gen |-> proc.gen] IN
  [cond |-> ask.cond, met |-> TRUE, anchor |-> ask.anchor,
   seq |-> shown.seq, view |-> shown.view, gen |-> shown.gen]

\* One round of the wait: drain, look, and answer; what must be quiet is or
\* is not, and a round without an answer sleeps or runs out of budget.
Poll ==
  /\ ask # NoAsk
  /\ Pumps
  /\ \/ /\ Met(Pumped.e)
        /\ got' = Answer(Pumped.e, Pumped.snaps)
        /\ ask' = NoAsk
     \/ /\ Met(Pumped.e) => ask.cond = "ScreenStable"
        /\ \/ UNCHANGED ask /\ NoAnswerYet
           \/ ask' = NoAsk /\ got' = [NoAnswer EXCEPT !.cond = ask.cond]
  /\ UNCHANGED <<proc, wire>>

\* state, scrollback, search: any question drains.
Look ==
  /\ ask = NoAsk /\ chan # <<>>
  /\ Pumps
  /\ UNCHANGED <<proc, wire, ask>> /\ NoAnswerYet

-----------------------------------------------------------------------------
(* restart.                                                                *)

\* start resets lines and counters, and leaves the edge snapshots and the
\* marks of unterminated streams alone.
Started == [NewEngine(eng.kind) EXCEPT !.open = eng.open]

\* stop kills the child, joins the readers and drops the channel with what is
\* in it; then the next child starts in the same engine.
Restart ==
  /\ ask = NoAsk /\ proc.gen < MaxGen
  /\ proc' = NewProc(proc.gen + 1)
  /\ wire' = [s \in Streams |-> <<>>] /\ chan' = <<>>
  /\ eng' = Started
  /\ UNCHANGED <<snaps, ask>> /\ NoAnswerYet

Next ==
  \/ Write \/ Exit \/ BeginWait \/ Poll \/ Look \/ Restart
  \/ \E s \in Streams : Read(s)

Spec == Init /\ [][Next]_lineVars

-----------------------------------------------------------------------------
(* Properties.                                                             *)

\* line_cli.rs, the contract of ingest: whatever changes what the viewport
\* shows moves screen_seq, so that no anchored wait sleeps through it.
EdgeMoves == View(eng') # View(eng) /\ proc'.gen = proc.gen => eng'.screen > eng.screen

\* line_cli.rs, the burst-drain fix: however many edges one chunk coalesces,
\* a collector that asks for them one after the other finds a snapshot of each
\* edge of the ring, as long as the engine has had one child only.
EdgesWalkable ==
  (eng.kind = "line" /\ proc.gen = 1) =>
    \A k \in 1 .. eng.screen :
      eng.screen - k < SnapCap => \E n \in DOMAIN snaps : snaps[n].seq = k

\* line_cli.rs, edge_snaps: what the snapshots degrade to is never wrong data:
\* an answer shows the child that is running.
AnswerIsOfTheChild == got.met => got.gen = proc.gen

\* pipe.rs, trailing_unterminated: only the trailing partial line continues
\* into the next chunk; how a stream is cut into chunks cannot be seen in its
\* store.
Split(bytes) ==
  LET step(a, b) == CASE b = "nl" -> Append(Append(Front(a), Last(a)), <<>>)
                      [] b \in {"cr", "bel"} -> a
                      [] OTHER -> Append(Front(a), Append(Last(a), b))
      lines == FoldLeft(step, <<<<>>>>, bytes) IN
  IF Last(lines) = <<>> THEN Front(lines) ELSE lines

CutsUnseen ==
  (chan = <<>> /\ eng.kind = "pipe") =>
    \A s \in Streams :
      LET taken == SubSeq(proc.wrote[s], 1, Len(proc.wrote[s]) - Len(wire[s])) IN
      eng.store[s] = Newest(Split(taken), MaxLines)
=============================================================================
