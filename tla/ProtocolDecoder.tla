--------------------------- MODULE ProtocolDecoder ---------------------------
(***************************************************************************)
(* The decoder of a child's raw output into terminal operations            *)
(* (src/protocol/mod.rs), and what its readers make of the modes it saw.   *)
(*                                                                         *)
(* Three decoders read one stream: one gets it whole, one in chunks, and   *)
(* one gets the window of a ring that lost the head.  A byte is a letter:  *)
(* "X" stands for what is text, a final byte and, after ESC, the start of  *)
(* a string; "(" for a charset prefix; "lead" begins a character of three  *)
(* bytes and "cont" continues one; "1" is a mode with a name, "2" has      *)
(* none.                                                                   *)
(***************************************************************************)
EXTENDS Naturals, Sequences, SequencesExt

CONSTANTS
  Heads,    \* the first bytes of a stream
  Letters,  \* what may follow them
  MaxTail   \* bound: bytes after the head

VARIABLES
  stream, \* the bytes of the child
  left,   \* how many more it will send
  lost,   \* how many of them the ring dropped
  one,    \* the decoder of the whole
  cut,    \* the decoder of the chunks
  window  \* the decoder of what the ring retains

protocolVars == <<stream, left, lost, one, cut, window>>

AllLetters ==
  {"esc", "[", "]", "P", "X", "st", "bel", "nul", "h", "l", "?", "1", "2", ";", "(", "lead", "cont"}
ControlCodes == {"bel", "nul"}
Params == {"?", "1", "2", ";", "("}
Finals == {"[", "]", "P", "X", "st", "h", "l"}
Fffd == "fffd"

Ground == [at |-> "ground", what |-> "none", got |-> <<>>, start |-> 0]
Fresh ==
  [st |-> Ground, pos |-> 0, text |-> <<>>, pend |-> <<>>, textStart |-> 0, ops |-> <<>>, modes |-> <<>>]

\* Every variable has its type.
DecoderOK(d) ==
  /\ d.st.at \in {"ground", "escape", "prefix", "csi", "osc", "oscSt", "string", "stringSt"}
  /\ d.pend \in {<<>>, <<"lead">>, <<"lead", "cont">>}
TypeOK ==
  /\ stream \in Seq(AllLetters) /\ lost \in 0 .. Len(stream) /\ left \in 0 .. MaxTail
  /\ \A d \in {one, cut, window} : DecoderOK(d)
  /\ one.pos = Len(stream) /\ cut.pos = Len(stream) /\ window.pos = Len(stream) - lost

-----------------------------------------------------------------------------
(* The decoder.                                                            *)

Emit(d, start, op) == [d EXCEPT !.ops = Append(@, [start |-> start, op |-> op])]

EmitTextRun(d) ==
  IF d.text = <<>> THEN d
  ELSE [Emit(d, d.textStart, [kind |-> "text", got |-> d.text, final |-> ""]) EXCEPT !.text = <<>>]

\* A character that is not complete becomes the replacement character.
FlushText(d) ==
  EmitTextRun(IF d.pend = <<>> THEN d ELSE [d EXCEPT !.text = Append(@, Fffd), !.pend = <<>>])

\* Mutant: the end of a chunk resolves what is not complete, too.
FlushTextAtBoundaryHard(d) == FlushText(d)

\* At the end of a chunk only what is complete is emitted.
FlushTextAtBoundary(d) == IF d.pend = <<>> THEN EmitTextRun(d) ELSE d

\* A character is held until it is whole; what cannot follow ends it.
PushTextByte(d, b) ==
  LET pend == Append(d.pend, b)
      plain(e) == CASE b = "lead" -> [e EXCEPT !.pend = <<b>>]
                    [] b = "cont" -> [e EXCEPT !.text = Append(@, Fffd)]
                    [] OTHER -> [e EXCEPT !.text = Append(@, b)] IN
  CASE d.pend = <<>> -> plain(d)
    [] d.pend # <<>> /\ pend = <<"lead", "cont">> -> [d EXCEPT !.pend = pend]
    [] d.pend # <<>> /\ pend = <<"lead", "cont", "cont">> -> [d EXCEPT !.pend = <<>>, !.text = @ \o pend]
    [] OTHER -> plain([d EXCEPT !.text = Append(@, Fffd), !.pend = <<>>])

StepGround(d, b) ==
  CASE b = "esc" -> [FlushText(d) EXCEPT !.textStart = d.pos - 1, !.st = [Ground EXCEPT !.at = "escape"]]
    [] b \in ControlCodes -> Emit(FlushText(d), d.pos - 1, [kind |-> "control", got |-> <<b>>, final |-> ""])
    [] OTHER ->
         PushTextByte(IF d.text = <<>> /\ d.pend = <<>> THEN [d EXCEPT !.textStart = d.pos - 1] ELSE d, b)

\* A byte after ESC: the start of a sequence, a sequence of its own, or
\* nothing that is kept.
StepEscape(d, b) ==
  LET opens(at) == [d EXCEPT !.st = [at |-> at, what |-> b, got |-> <<>>, start |-> d.textStart]] IN
  CASE b = "[" -> opens("csi")
    [] b = "]" -> opens("osc")
    [] b \in {"P", "X"} -> opens("string")
    [] b = "(" -> opens("prefix")
    [] b \in {"st", "h", "l", "?", "1", "2", ";"} ->
         [Emit(FlushText(d), d.pos - 1, [kind |-> "escape", got |-> <<b>>, final |-> ""]) EXCEPT !.st = Ground]
    [] OTHER -> [d EXCEPT !.st = Ground]

\* split_params: the numbers between semicolons; a last one without digits
\* is none.
SplitParams(raw) ==
  LET number(w, b) == CASE b \in {"1", "2"} -> [w EXCEPT !.cur = Append(@, b)]
                        [] b = ";" -> [all |-> Append(w.all, w.cur), cur |-> <<>>]
                        [] OTHER -> w
      read == FoldLeft(number, [all |-> <<>>, cur |-> <<>>], raw) IN
  IF read.cur = <<>> THEN read.all ELSE Append(read.all, read.cur)

\* conclude_csi: private wherever the mark stands.
ConcludeCsi(raw, b) ==
  [kind |-> IF "?" \in ToSet(raw) THEN "private" ELSE "csi", got |-> SplitParams(raw), final |-> b]

\* record_mode_events: each named mode of a private set or reset.
RecordModes(d, op, start) ==
  IF op.kind # "private" \/ op.final \notin {"h", "l"} THEN d
  ELSE [d EXCEPT !.modes = @ \o [n \in 1 .. Len(SelectSeq(op.got, LAMBDA p : p = <<"1">>)) |->
                                   [set |-> op.final = "h", start |-> start]]]

Concluded(d, op) == [Emit(FlushText(d), d.st.start, op) EXCEPT !.st = Ground]
Payload(d) ==
  [kind |-> IF d.st.at \in {"osc", "oscSt"} THEN "osc" ELSE d.st.what, got |-> d.st.got, final |-> ""]
Takes(d, b) == [d EXCEPT !.st.got = Append(@, b)]

\* One byte.  A parameter state that meets what is none of its bytes drops
\* the sequence and reads the byte as text; a string that meets ESC and not
\* the terminator drops its payload and reads the byte after ESC.
Step(old, b) ==
  LET d == [old EXCEPT !.pos = @ + 1]
      at == d.st.at IN
  CASE at = "ground" -> StepGround(d, b)
    [] at = "escape" -> StepEscape(d, b)
    [] at = "prefix" ->
         [Emit(FlushText(d), d.pos - 1, [kind |-> "escape", got |-> <<d.st.what, b>>, final |-> ""])
          EXCEPT !.st = Ground]
    [] at = "csi" ->
         CASE b \in Params -> Takes(d, b)
           [] b \in Finals -> LET op == ConcludeCsi(d.st.got, b) IN
                              Concluded(RecordModes(FlushText(d), op, d.st.start), op)
           [] OTHER -> StepGround([d EXCEPT !.st = Ground], b)
    [] at \in {"osc", "string"} ->
         CASE b = "esc" -> [d EXCEPT !.st.at = IF at = "osc" THEN "oscSt" ELSE "stringSt"]
           [] b = "bel" /\ (at = "osc" \/ d.st.what = "P") -> Concluded(d, Payload(d))
           [] b \in ControlCodes /\ ~(b = "bel" /\ (at = "osc" \/ d.st.what = "P")) -> d
           [] OTHER -> Takes(d, b)
    [] at \in {"oscSt", "stringSt"} ->
         IF b = "st" THEN Concluded(d, Payload(d)) ELSE StepEscape([d EXCEPT !.st = Ground], b)

\* finish: the end of the stream resolves what is open, but for an ESC and
\* parameters without their final byte.
Finish(old) ==
  LET d == FlushText(old) IN
  CASE d.st.at = "prefix" ->
         [Emit(d, d.pos - 1, [kind |-> "escape", got |-> <<d.st.what>>, final |-> ""]) EXCEPT !.st = Ground]
    [] d.st.at \in {"osc", "oscSt", "string", "stringSt"} -> Concluded(d, Payload(d))
    [] OTHER -> [d EXCEPT !.st = Ground]

-----------------------------------------------------------------------------
(* The stream.                                                             *)

Read(bytes) == FoldLeft(Step, Fresh, bytes)

Init ==
  /\ stream \in Heads /\ left = MaxTail
  /\ lost \in 0 .. Len(stream)
  /\ one = Read(stream) /\ cut = Read(stream)
  /\ window = Read(SubSeq(stream, lost + 1, Len(stream)))

\* The child sends a byte.
Send(b) ==
  /\ left > 0 /\ left' = left - 1
  /\ stream' = Append(stream, b)
  /\ one' = Step(one, b) /\ cut' = Step(cut, b) /\ window' = Step(window, b)
  /\ UNCHANGED lost

\* A chunk ends here.
Boundary ==
  /\ lost = 0 /\ cut' = FlushTextAtBoundary(cut)
  /\ UNCHANGED <<stream, left, lost, one, window>>

Next == (\E b \in Letters : Send(b)) \/ Boundary

Spec == Init /\ [][Next]_protocolVars

-----------------------------------------------------------------------------
(* The readers of the modes.                                               *)

\* Mutant: an absent mode is off whatever was dropped.
FoldModeStatesSure(modes, complete) ==
  IF modes = <<>> THEN "disabled" ELSE IF Last(modes).set THEN "enabled" ELSE "disabled"

\* fold_mode_states, of the mode with a name.
FoldModeStates(modes, complete) ==
  IF modes = <<>> THEN IF complete THEN "disabled" ELSE "unknown"
  ELSE IF Last(modes).set THEN "enabled" ELSE "disabled"

\* terminal_modes_audit and input_protocol_audit: what was not seen is off.
AuditReads == window.modes # <<>> /\ Last(window.modes).set
MouseInert(visible) == visible /\ ~AuditReads

-----------------------------------------------------------------------------
(* Properties.                                                             *)

\* Adjacent runs of text as one.
Coalesced(ops) ==
  LET join(all, o) ==
        IF all # <<>> /\ o.op.kind = "text" /\ Last(all).op.kind = "text"
        THEN Front(all) \o <<[Last(all) EXCEPT !.op.got = @ \o o.op.got]>>
        ELSE Append(all, o) IN
  FoldLeft(join, <<>>, ops)

\* protocol/mod.rs, feed: where the chunks end changes neither the
\* operations nor where they began nor the modes.
ChunksUnseen ==
  /\ Coalesced(Finish(cut).ops) = Coalesced(Finish(one).ops)
  /\ cut.modes = one.modes

\* protocol/mod.rs, fold_mode_states: what a window with a lost head calls
\* on or off is so at the end of the whole stream.
KnownIsTrue ==
  FoldModeStates(window.modes, lost = 0) \in {"unknown", FoldModeStates(one.modes, TRUE)}

\* protocol/mod.rs:278, an audit propagates that a mode is unknown: an
\* application that turned its mouse on is not accused of the contrary.
AuditsPropagate == MouseInert(TRUE) => FoldModeStates(one.modes, TRUE) = "disabled"

\* protocol/mod.rs, truth guarantees: a string sequence is never silently
\* discarded; each one that began is among the operations.
NothingDropped ==
  Len(stream) >= 2 /\ SubSeq(stream, 1, 2) = <<"esc", "P">> =>
    \E o \in ToSet(Finish(one).ops) : o.op.kind = "P" /\ o.start = 0

\* protocol/mod.rs, truth guarantees: an operation carries the position
\* where it started; an escape sequence starts at its ESC.
StampsExact ==
  \A n \in DOMAIN one.ops : one.ops[n].op.kind = "escape" => stream[one.ops[n].start + 1] = "esc"
=============================================================================
