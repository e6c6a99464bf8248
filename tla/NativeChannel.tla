---------------------------- MODULE NativeChannel ----------------------------
(***************************************************************************)
(* The native semantic channel (src/semantic/native.rs): a file the        *)
(* application appends frames to and the session polls, its compaction,    *)
(* the bounded event ring, the absorption of its events into the event     *)
(* queue of the session, and the memo of the fused frame                   *)
(* (src/session/semantic_impl.rs) that is keyed on what was absorbed.      *)
(*                                                                         *)
(* Two programs share the file.  The application opens it once per frame   *)
(* and may need two writes for one line; the channel reads, and while it   *)
(* compacts it replaces the file under the application.  A frame is its    *)
(* number; the grid of the screen does not change.                         *)
(***************************************************************************)
EXTENDS Naturals, Sequences

CONSTANTS
  Ring,      \* events retained (1024)
  Compact,   \* pieces of a file that make poll compact it (8 MiB)
  MaxFrames, \* bound: frames the application writes in all
  MaxGen,    \* bound: generations
  None

VARIABLES
  app,     \* frames written, the frame half written, the inode it is open on
  file,    \* the file on the path: its inode and its pieces
  chan,    \* NativeChannel
  tail,    \* the unread tail compaction has copied, None outside it
  queue,   \* native events in the event queue of the session, in order
  watermark, \* native_absorbed_seq
  gen,     \* generation of the session
  memo,    \* FusedMemo: its key and the snapshot it was fused from
  served,  \* what the last fused_frame answered
  lost     \* history: frames the documented losses took

vars == <<app, file, chan, tail, queue, watermark, gen, memo, served, lost>>

Frames == 1 .. MaxFrames
Kinds == {"snapshot", "event", "invalid"}
\* A line is written in one piece, or as a head and then its end.
Pieces == [frame : Frames, kind : Kinds, head : BOOLEAN, end : BOOLEAN]
Queued == [frame : Frames, gen : 1 .. MaxGen]

\* Every variable has its type; the ring holds at most Ring events.
TypeOK ==
  /\ app \in [next : 1 .. MaxFrames + 1, kind : Kinds, half : BOOLEAN, inode : Nat,
             bad : SUBSET Frames, first : 1 .. MaxFrames + 1]
  /\ file \in [inode : Nat, pieces : Seq(Pieces)]
  /\ chan \in [consumed : Nat, latest : Frames \cup {None}, ring : Seq(Frames),
               seq : 0 .. MaxFrames, accepted : SUBSET Frames, refused : SUBSET Frames]
  /\ Len(chan.ring) <= Ring
  /\ tail \in Seq(Pieces) \cup {None}
  /\ queue \in Seq(Queued)
  /\ watermark \in 0 .. MaxFrames
  /\ gen \in 1 .. MaxGen
  /\ memo \in [key : 0 .. MaxFrames, from : Frames \cup {None}] \cup {None}
  /\ served \in [from : Frames \cup {None}, now : Frames \cup {None}]
  /\ lost \subseteq Frames

Unread == {file.pieces[n].frame : n \in chan.consumed + 1 .. Len(file.pieces)}

NewChannel == [consumed |-> 0, latest |-> None, ring |-> <<>>, seq |-> 0,
               accepted |-> {}, refused |-> {}]

Init ==
  /\ app = [next |-> 1, kind |-> "event", half |-> FALSE, inode |-> 0,
            bad |-> {}, first |-> 1]
  /\ file = [inode |-> 0, pieces |-> <<>>]
  /\ chan = NewChannel
  /\ tail = None
  /\ queue = <<>> /\ watermark = 0 /\ gen = 1
  /\ memo = None
  /\ served = [from |-> None, now |-> None]
  /\ lost = {}

-----------------------------------------------------------------------------
(* The application.                                                        *)

\* A piece reaches the inode the application has open.
Written(inode, piece) ==
  file' = IF inode = file.inode THEN [file EXCEPT !.pieces = Append(@, piece)] ELSE file

\* It opens the path, appends a line or the head of one.
Append1 ==
  /\ ~app.half /\ app.next <= MaxFrames
  /\ \E k \in Kinds, whole \in BOOLEAN :
       /\ Written(file.inode, [frame |-> app.next, kind |-> k, head |-> TRUE, end |-> whole])
       /\ app' = [app EXCEPT !.next = IF whole THEN @ + 1 ELSE @, !.kind = k,
                    !.half = ~whole, !.inode = file.inode,
                    !.bad = IF k = "invalid" THEN @ \cup {app.next} ELSE @]
  /\ lost' = IF tail # None THEN lost \cup {app.next} ELSE lost
  /\ UNCHANGED <<chan, tail, queue, watermark, gen, memo, served>>

\* It writes the end of the line, to the inode it has opened.
Append2 ==
  /\ app.half
  /\ Written(app.inode, [frame |-> app.next, kind |-> app.kind, head |-> FALSE, end |-> TRUE])
  /\ app' = [app EXCEPT !.half = FALSE, !.next = @ + 1]
  /\ lost' = IF tail # None \/ app.inode # file.inode THEN lost \cup {app.next} ELSE lost
  /\ UNCHANGED <<chan, tail, queue, watermark, gen, memo, served>>

-----------------------------------------------------------------------------
(* NativeChannel::poll.                                                    *)

\* A line is a run of pieces up to one that ends it: well formed only when it
\* is all of one frame.
WellFormed(line) ==
  /\ line[1].head /\ line[1].kind # "invalid"
  /\ \A n \in 2 .. Len(line) : ~line[n].head

\* parse_frame and what it does: a snapshot replaces the latest one, an event
\* is numbered and enters the ring.
Ingested(c, line) ==
  LET frames == {line[n].frame : n \in 1 .. Len(line)} IN
  IF ~WellFormed(line) THEN [c EXCEPT !.refused = @ \cup frames]
  ELSE IF line[1].kind = "snapshot"
  THEN [c EXCEPT !.latest = line[1].frame, !.accepted = @ \cup frames]
  ELSE [c EXCEPT !.seq = @ + 1, !.accepted = @ \cup frames,
          !.ring = LET longer == Append(@, line[1].frame) IN
                   IF Len(longer) > Ring THEN Tail(longer) ELSE longer]

\* One piece more of the file: it ends the line, or the line goes on.
Taken(read, p) ==
  IF p.end THEN [chan |-> Ingested(read.chan, Append(read.line, p)), line |-> <<>>]
  ELSE [read EXCEPT !.line = Append(@, p)]

\* Mutant: a partial trailing line counts as read.
DrainedTorn(c) ==
  LET unread == SubSeq(file.pieces, c.consumed + 1, Len(file.pieces))
      read[n \in 0 .. Len(unread)] ==
        IF n = 0 THEN [chan |-> c, line |-> <<>>] ELSE Taken(read[n - 1], unread[n]) IN
  [read[Len(unread)].chan EXCEPT !.consumed = Len(file.pieces)]

\* The read loop: every complete line from the consumed offset on; a partial
\* trailing line rolls the offset back to its start.
Drained(c) ==
  LET unread == SubSeq(file.pieces, c.consumed + 1, Len(file.pieces))
      read[n \in 0 .. Len(unread)] ==
        IF n = 0 THEN [chan |-> c, line |-> <<>>] ELSE Taken(read[n - 1], unread[n])
      done == read[Len(unread)] IN
  [done.chan EXCEPT !.consumed = Len(file.pieces) - Len(done.line)]

\* Mutant: the ring is read from its oldest event whatever was absorbed.
FreshAll(c, since) == c.ring

\* events_since: the retained events numbered after since.
Fresh(c, since) ==
  LET first == c.seq - Len(c.ring) IN
  IF since <= first THEN c.ring ELSE SubSeq(c.ring, since - first + 1, Len(c.ring))

\* poll and absorb_native_events, as every observe and snapshot calls them.
\* A file shorter than what was consumed is read again from its start.
Poll ==
  /\ tail = None
  /\ LET c == Drained(IF Len(file.pieces) < chan.consumed
                      THEN [chan EXCEPT !.consumed = 0] ELSE chan)
         fresh == Fresh(c, watermark) IN
     /\ chan' = c
     /\ queue' = queue \o [n \in 1 .. Len(fresh) |-> [frame |-> fresh[n], gen |-> gen]]
     /\ watermark' = IF fresh = <<>> THEN watermark ELSE c.seq
     /\ tail' = IF Len(file.pieces) >= Compact /\ c.consumed > 0
                THEN SubSeq(file.pieces, c.consumed + 1, Len(file.pieces)) ELSE None
  /\ UNCHANGED <<app, file, gen, memo, served, lost>>

\* The new file is read from its start.
NewOffset == 0

\* compact_if_needed: the copied tail replaces the file, or the rename fails.
Rename ==
  /\ tail # None
  /\ file' = [inode |-> file.inode + 1, pieces |-> tail]
  /\ chan' = [chan EXCEPT !.consumed = NewOffset]
  /\ tail' = None
  /\ UNCHANGED <<app, queue, watermark, gen, memo, served, lost>>

RenameFails ==
  /\ tail # None
  /\ tail' = None
  /\ UNCHANGED <<app, file, chan, queue, watermark, gen, memo, served, lost>>

-----------------------------------------------------------------------------
(* The session.                                                            *)

\* fused_frame: a memo whose key is the absorbed number answers, otherwise
\* the frame is fused with the latest snapshot and remembered.
FusedFrame ==
  /\ tail = None
  /\ IF memo # None /\ memo.key = watermark
     THEN UNCHANGED memo
     ELSE memo' = [key |-> watermark, from |-> chan.latest]
  /\ served' = [from |-> memo'.from, now |-> chan.latest]
  /\ UNCHANGED <<app, file, chan, tail, queue, watermark, gen, lost>>

\* restart: the application is killed, the channel reset and its file
\* truncated in place, the watermark cleared.  The memo stays.
Restart ==
  /\ tail = None /\ gen < MaxGen
  /\ gen' = gen + 1
  /\ LET next == IF app.half THEN app.next + 1 ELSE app.next IN
     app' = [app EXCEPT !.half = FALSE, !.next = next, !.first = next]
  /\ file' = [file EXCEPT !.pieces = <<>>]
  /\ chan' = NewChannel
  /\ watermark' = 0
  /\ UNCHANGED <<tail, queue, memo, served, lost>>

Next == \/ Append1 \/ Append2 \/ Poll \/ Rename \/ RenameFails
        \/ FusedFrame \/ Restart

Spec == Init /\ [][Next]_vars

-----------------------------------------------------------------------------
(* Properties.                                                             *)

\* The session sees the native events in the order the application wrote
\* them and none twice, across compactions, torn lines and restarts.
NativeOrder ==
  \A m, n \in DOMAIN queue : m < n => queue[m].frame < queue[n].frame

\* Every frame written in full since the last restart is accepted, refused,
\* still unread, or was written in the compaction window; and an honest one
\* is refused only when compaction tore it or the line before it.
NativeAccounted ==
  /\ app.first .. app.next - 1 \subseteq chan.accepted \cup chan.refused \cup Unread \cup lost
  /\ chan.refused \subseteq app.bad \cup lost \cup {f + 1 : f \in lost}

\* native.rs: only frames written between the copy of the tail and the rename
\* are dropped; honest frames written before or after are read.
OnlyTheWindowLoses == chan.refused \subseteq app.bad \cup lost

\* semantic_state.rs: frames with the same memo key are the same input to
\* fuse, so the memo never answers for another snapshot.
MemoIsFresh == served.from = served.now
=============================================================================
