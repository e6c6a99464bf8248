------------------------------ MODULE EngineInput ------------------------------
(***************************************************************************)
(* How an action becomes bytes: dispatch, send_input and resize of the     *)
(* four engines (src/backend) over encode_key and encode_mouse_event       *)
(* (src/backend/input.rs), and the child that reads them.                  *)
(*                                                                         *)
(* The engine encodes for the terminal modes its parser has seen, and the  *)
(* child may have switched them since: an announcement is on its way until *)
(* a pump reads it.  Encoding and refusing come before the write; a write  *)
(* may fail with any prefix of the payload delivered, a tmux command with  *)
(* nothing.                                                                *)
(*                                                                         *)
(* A payload is a sequence of tokens, one per character, control byte or   *)
(* escape sequence.  The readings of the tokens are those of an            *)
(* application that speaks xterm's protocols.                              *)
(***************************************************************************)
EXTENDS Naturals, Sequences, SequencesExt

CONSTANTS
  Inputs,      \* what is sent: see Key, Keys, Chars, Mouse and Signal
  ModeSets,    \* terminal modes the child uses, Plain among them
  Kinds,       \* engines: "portable", "pipe", "line", "tmux"
  Widths,       \* terminal sizes
  MaxUnread    \* bound: announcements the engine has not read

VARIABLES
  engine, \* which of the four
  child,  \* the child: alive, its modes, announcements on their way
  dev,    \* its writer: open, modes as parsed
  size,   \* the size as each party knows it
  call,   \* the payload between preflight and write
  last    \* history: what became of the call that has just ended

vars == <<engine, child, dev, size, call, last>>

Plain == [cursor |-> FALSE, paste |-> FALSE, mouse |-> "none", enc |-> "x10", kitty |-> FALSE]

\* The shapes of an input, so that all of them are records of one kind.
Input(what, keys, text, event) == [what |-> what, keys |-> keys, text |-> text, event |-> event]
NoEvent == [act |-> "none", button |-> 0, at |-> 0]
Key(code, mods) == [code |-> code, mods |-> mods]

\* Tokens on the wire: kind, character or final, number, coordinate.
Tok(t, v, n, x) == [t |-> t, v |-> v, n |-> n, x |-> x]
Chr(c) == Tok("chr", c, 0, 0)
Ctl(c) == Tok("ctl", c, 0, 0)
Esc == Ctl("[")
Csi(v, n) == Tok("csi", v, n, 0)

Letters == {"a", "i"}
Upper == [a |-> "A", i |-> "I"]
Arrows == {"Up", "Home"}
Editing == {"PageUp", "Delete"}
Functions == {"F5", "F13", "F21"}

Mask(mods) ==
  1 + (IF "shift" \in mods THEN 1 ELSE 0) + (IF "alt" \in mods THEN 2 ELSE 0)
    + (IF "ctrl" \in mods THEN 4 ELSE 0) + (IF "super" \in mods THEN 8 ELSE 0)

-----------------------------------------------------------------------------
(* encode_key, encode_key_kitty, encode_mouse_event.  A refusal is the     *)
(* empty set, a payload the only member of its set.                        *)

\* What a key sends with no modifier the legacy sequences carry.
Base(k, m) ==
  CASE k.code \in Letters -> Chr(IF "shift" \in k.mods THEN Upper[k.code] ELSE k.code)
    [] k.code = "Enter" -> Ctl("m")
    [] k.code = "Tab" -> IF "shift" \in k.mods THEN Csi("BackTab", 1) ELSE Ctl("i")
    [] k.code = "Escape" -> Esc
    [] k.code \in Arrows -> IF m.cursor THEN Tok("ss3", k.code, 1, 0) ELSE Csi(k.code, 1)
    [] k.code \in Editing \cup Functions -> Csi(k.code, 1)
    [] OTHER -> Chr(k.code)

CtrlKeys == Letters \cup {" ", "["}

EncodeLegacy(k, m) ==
  IF "ctrl" \in k.mods /\ k.code \in CtrlKeys THEN {<<Ctl(k.code)>>}
  ELSE IF k.mods # {} /\ k.code \in Arrows \cup Editing THEN {<<Csi(k.code, Mask(k.mods))>>}
  ELSE {IF "alt" \in k.mods THEN <<Esc, Base(k, m)>> ELSE <<Base(k, m)>>}

\* F-keys above F12 and super need the kitty protocol, F21 has no form in it.
Unencodable(k) == "super" \in k.mods \/ k.code \in {"F13", "F21"}

\* The code numbers the named keys in a private block of its own.
EncodeKitty(k) ==
  IF k.code = "F21" THEN {}
  ELSE {<<Tok(IF k.code \in Arrows \cup Editing \cup Functions THEN "pua" ELSE "csiu",
              k.code, Mask(k.mods), 0)>>}

EncodeKey(k, m) ==
  IF m.kitty /\ EncodeKitty(k) # {} THEN EncodeKitty(k)
  ELSE IF Unencodable(k) THEN {}
  ELSE EncodeLegacy(k, m)

Buttons(e) ==
  CASE e.act = "move" -> 3
    [] e.act = "scroll" -> 64 + e.button
    [] OTHER -> e.button

Motion(e) == IF e.act \in {"move", "drag"} THEN 32 ELSE 0

EncodeMouse(e, enc) ==
  CASE enc = "sgr" ->
         {<<Tok(IF e.act = "release" THEN "sgr-up" ELSE "sgr", "", Buttons(e) + Motion(e), e.at + 1)>>}
    [] enc # "sgr" /\ e.at > 222 -> {}
    [] OTHER ->
         {<<Tok("x10", "", Buttons(e) + Motion(e) + 32 + (IF e.act = "release" THEN 3 ELSE 0),
                (e.at + 33) % 256)>>}

-----------------------------------------------------------------------------
(* The preflight of each engine: the payload of an input, or a refusal.    *)

Typed(text) == [n \in DOMAIN text |-> Chr(text[n])]

\* All of a sequence of keys, or a refusal if one of them is refused.
Joined(sets) ==
  IF \E n \in DOMAIN sets : sets[n] = {} THEN {}
  ELSE {FlattenSeq([n \in DOMAIN sets |-> CHOOSE p \in sets[n] : TRUE])}

Allowed(act, mode) ==
  CASE mode = "press" -> act \in {"press", "scroll"}
    [] mode = "release" -> act \in {"press", "release", "scroll"}
    [] mode = "button" -> act # "move"
    [] mode = "any" -> TRUE
    [] mode = "none" -> FALSE

Portable(i, m) ==
  CASE i.what = "keys" -> Joined([n \in DOMAIN i.keys |-> EncodeKey(i.keys[n], m)])
    [] i.what \in {"text", "raw"} -> {Typed(i.text)}
    [] i.what = "paste" ->
         {IF m.paste THEN <<Csi("PasteOn", 1)>> \o Typed(i.text) \o <<Csi("PasteOff", 1)>>
          ELSE Typed(i.text)}
    [] i.what = "click" ->
         IF m.mouse \in {"none", "press"} THEN {}
         ELSE Joined(<<EncodeMouse([i.event EXCEPT !.act = "press"], m.enc),
                       EncodeMouse([i.event EXCEPT !.act = "release"], m.enc)>>)
    [] i.what = "mouse" ->
         IF Allowed(i.event.act, m.mouse) THEN EncodeMouse(i.event, m.enc) ELSE {}

\* A pipe takes characters and Enter.
Streamed(i) ==
  CASE i.what = "keys" ->
         IF \A n \in DOMAIN i.keys : i.keys[n].mods = {} /\ i.keys[n].code \in Letters \cup {" ", "Enter"}
         THEN {[n \in DOMAIN i.keys |->
                  IF i.keys[n].code = "Enter" THEN Ctl("j") ELSE Chr(i.keys[n].code)]}
         ELSE {}
    [] i.what \in {"text", "raw", "paste"} -> {Typed(i.text)}
    [] i.what \in {"click", "mouse"} -> {}

\* A line tool takes what a pipe takes, paste unbracketed.
LineTool(i) == Streamed(i)

\* tmux_key: characters go in literally unless modified, keys by their name.
\* The name of an F-key tmux has not heard of is typed.
TmuxKey(k) ==
  CASE k.code \in Letters \cup {" ", "["} ->
         IF k.mods \cap {"ctrl", "alt"} = {} THEN Chr(k.code)
         ELSE Tok("name", k.code, Mask(k.mods \cap {"ctrl", "alt"}), 0)
    [] k.code \in {"F13", "F21"} -> Tok("spelt", k.code, 1, 0)
    [] OTHER -> Tok("name", k.code,
                    Mask(IF k.code = "Tab" THEN k.mods \cap {"shift"} ELSE {}), 0)

\* Literal text and key names do not mix in one command.
TmuxCommand(ts) ==
  LET literal == {n \in DOMAIN ts : ts[n].t = "chr"} IN
  IF literal \in {{}, DOMAIN ts} THEN {ts} ELSE {}

\* What is not UTF-8 has no spelling.
Tmux(i) ==
  CASE i.what = "keys" -> TmuxCommand([n \in DOMAIN i.keys |-> TmuxKey(i.keys[n])])
    [] i.what = "raw" -> IF "bin" \in ToSet(i.text) THEN {} ELSE {Typed(i.text)}
    [] i.what \in {"text", "paste"} -> {Typed(i.text)}
    [] i.what \in {"click", "mouse", "signal"} -> {}

Payload(i, m) ==
  CASE engine = "portable" -> Portable(i, m)
    [] engine = "pipe" -> Streamed(i)
    [] engine = "line" -> LineTool(i)
    [] engine = "tmux" -> Tmux(i)

-----------------------------------------------------------------------------
NoCall == [st |-> "none", input |-> Input("none", <<>>, <<>>, NoEvent), payload |-> <<>>, enc |-> Plain]
Outcome(i, verdict, landed, taped, enc) ==
  [input |-> i, verdict |-> verdict, landed |-> landed, taped |-> taped,
   enc |-> enc, read |-> child.modes]
Silence ==
  [input |-> NoCall.input, verdict |-> "none", landed |-> <<>>, taped |-> FALSE,
   enc |-> Plain, read |-> Plain]

Init ==
  /\ engine \in Kinds
  /\ child = [alive |-> TRUE, modes |-> Plain, unread |-> <<>>]
  /\ dev = [open |-> TRUE, modes |-> Plain]
  /\ \E s \in Widths : size = [engine |-> s, pty |-> s, grid |-> s, tape |-> s, launch |-> s]
  /\ call = NoCall
  /\ last = Silence

\* The child switches modes and announces it.
Switch(m) ==
  /\ child.alive
  /\ m # child.modes
  /\ Len(child.unread) < MaxUnread
  /\ child' = [child EXCEPT !.modes = m, !.unread = Append(@, m)]
  /\ last' = Silence
  /\ UNCHANGED <<engine, dev, size, call>>

\* pump: what has arrived is parsed.  Only the PTY engine keeps modes.
Pumped(n) ==
  IF n = 0 \/ engine # "portable" THEN dev.modes ELSE child.unread[n]

\* Mutant: the keys before a refused one are written first.
PrepareKeyByKey(i) ==
  \E n \in 0 .. Len(child.unread) :
    LET m == Pumped(n)
        first == IF i.what = "keys" THEN Payload([i EXCEPT !.keys = <<Head(@)>>], m) ELSE {} IN
    /\ call.st = "none"
    /\ i.what # "signal"
    /\ child' = [child EXCEPT !.unread = SubSeq(@, n + 1, Len(@))]
    /\ dev' = [dev EXCEPT !.modes = m]
    /\ \/ /\ (~dev.open /\ engine # "tmux") \/ Payload(i, m) = {}
          /\ last' = Outcome(i, "before", IF first = {} THEN <<>> ELSE CHOOSE p \in first : TRUE, FALSE, m)
          /\ UNCHANGED call
       \/ /\ dev.open \/ engine = "tmux"
          /\ \E p \in Payload(i, m) :
               call' = [st |-> "write", input |-> i, payload |-> p, enc |-> m]
          /\ last' = Silence
    /\ UNCHANGED <<engine, size>>

\* dispatch up to the write: pump, the session, the modes, every encoding.
Prepare(i) ==
  \E n \in 0 .. Len(child.unread) :
    LET m == Pumped(n) IN
    /\ call.st = "none"
    /\ i.what # "signal"
    /\ child' = [child EXCEPT !.unread = SubSeq(@, n + 1, Len(@))]
    /\ dev' = [dev EXCEPT !.modes = m]
    /\ \/ /\ (~dev.open /\ engine # "tmux") \/ Payload(i, m) = {}
          /\ last' = Outcome(i, "before", <<>>, FALSE, m)
          /\ UNCHANGED call
       \/ /\ dev.open \/ engine = "tmux"
          /\ \E p \in Payload(i, m) :
               call' = [st |-> "write", input |-> i, payload |-> p, enc |-> m]
          /\ last' = Silence
    /\ UNCHANGED <<engine, size>>

\* write_input: the bytes are flushed, then the recorder hears of them.
Write ==
  /\ call.st = "write"
  /\ last' = Outcome(call.input, "sent", call.payload, TRUE, call.enc)
  /\ call' = NoCall
  /\ UNCHANGED <<engine, child, dev, size>>

\* The write fails with a prefix delivered, or tmux refuses the command.
WriteFails ==
  /\ call.st = "write"
  /\ \E n \in 0 .. Len(call.payload) :
       /\ engine = "tmux" => n = 0
       /\ last' = Outcome(call.input, IF engine = "tmux" THEN "before" ELSE "within",
                          SubSeq(call.payload, 1, n), FALSE, call.enc)
  /\ call' = NoCall
  /\ UNCHANGED <<engine, child, dev, size>>

\* Input::Signal: to the process group, then to the child; nobody looks
\* whether either arrived.
Signal(i) ==
  /\ call.st = "none"
  /\ i.what = "signal"
  /\ IF engine = "tmux" \/ ~dev.open
     THEN last' = Outcome(i, "before", <<>>, FALSE, dev.modes) /\ UNCHANGED child
     ELSE /\ last' = Outcome(i, "sent", <<>>, FALSE, dev.modes)
          /\ \E a \in {child.alive, FALSE} : child' = [child EXCEPT !.alive = a]
  /\ UNCHANGED <<engine, dev, size, call>>

\* Session::resize over resize of the engine: its own size first, then the
\* terminal, and the grid, the recorder and the launch only if that worked.
\* A pipe has no terminal to fail; tmux changes nothing if the command fails.
Resize(s) ==
  /\ call.st = "none"
  /\ \/ /\ engine \in {"portable", "line"} /\ dev.open
        /\ size' = [size EXCEPT !.engine = s]
     \/ /\ engine = "tmux"
        /\ UNCHANGED size
     \/ size' = [size EXCEPT !.engine = s,
                             !.pty = IF engine # "pipe" /\ (dev.open \/ engine = "tmux") THEN s ELSE @,
                             !.grid = IF engine = "portable" THEN s ELSE @,
                             !.tape = s, !.launch = s]
  /\ last' = Silence
  /\ UNCHANGED <<engine, child, dev, call>>

Exit ==
  /\ child.alive
  /\ child' = [child EXCEPT !.alive = FALSE]
  /\ last' = Silence
  /\ UNCHANGED <<engine, dev, size, call>>

\* stop of an engine that owns its child.
Stop ==
  /\ call.st = "none" /\ dev.open /\ engine # "tmux"
  /\ dev' = [dev EXCEPT !.open = FALSE]
  /\ child' = [child EXCEPT !.alive = FALSE, !.unread = <<>>]
  /\ last' = Silence
  /\ UNCHANGED <<engine, size, call>>

\* Session::restart over start: a new parser, at the size of the launch.
Restart ==
  /\ call.st = "none" /\ engine # "tmux" /\ ~dev.open
  /\ dev' = [open |-> TRUE, modes |-> Plain]
  /\ child' = [alive |-> TRUE, modes |-> Plain, unread |-> <<>>]
  /\ size' = [size EXCEPT !.engine = size.launch, !.pty = size.launch, !.grid = size.launch]
  /\ last' = Silence
  /\ UNCHANGED <<engine, call>>

Next ==
  \/ \E m \in ModeSets : Switch(m)
  \/ \E i \in Inputs : Prepare(i) \/ Signal(i)
  \/ Write \/ WriteFails
  \/ \E s \in Widths : Resize(s)
  \/ Exit \/ Stop \/ Restart

Spec == Init /\ [][Next]_vars

-----------------------------------------------------------------------------
(* What an application makes of the tokens (external).                     *)

Modifiers == {"ctrl", "alt", "shift", "super"}
WithMask(n) == {mods \in SUBSET Modifiers : Mask(mods) = n}

TokenReadings(t, m) ==
  CASE t.t = "chr" ->
         {Key(t.v, {})} \cup {Key(l, {"shift"}) : l \in {c \in Letters : Upper[c] = t.v}}
    [] t.t = "ctl" ->
         {Key(t.v, {"ctrl"})}
           \cup {k \in {Key("Tab", {}), Key("Enter", {}), Key("Escape", {})} :
                   <<k.code, t.v>> \in {<<"Tab", "i">>, <<"Enter", "m">>, <<"Enter", "j">>,
                                        <<"Escape", "[">>}}
    [] t.t = "ss3" -> IF m.cursor THEN {Key(t.v, {})} ELSE {}
    [] t.t = "csi" ->
         IF t.v = "BackTab" THEN {Key("Tab", {"shift"})}
         ELSE IF t.v \in Arrows /\ t.n = 1 /\ m.cursor THEN {}
         ELSE {Key(t.v, mods) : mods \in WithMask(t.n)}
    [] t.t = "csiu" -> IF m.kitty THEN {Key(t.v, mods) : mods \in WithMask(t.n)} ELSE {}
    [] t.t = "name" -> {Key(t.v, mods) : mods \in WithMask(t.n)}
    [] OTHER -> {}

KeyReadings(ts, m) ==
  IF Len(ts) = 1 THEN TokenReadings(ts[1], m)
  ELSE {[k EXCEPT !.mods = @ \cup {"alt"}] : k \in TokenReadings(ts[2], m)}

\* An escape and what follows it are one key.
Cuts(ts) ==
  FoldLeft(LAMBDA acc, t : IF acc # <<>> /\ Last(acc) = <<Esc>>
                           THEN Append(Front(acc), <<Esc, t>>) ELSE Append(acc, <<t>>),
           <<>>, ts)

Event(act, button, at) == [act |-> act, button |-> button, at |-> at]
ButtonReadings(n, at) ==
  CASE n \in 0 .. 2 -> {Event("press", n, at)}
    [] n \in 32 .. 34 -> {Event("drag", n - 32, at)}
    [] n = 35 -> {Event("move", 0, at)}
    [] n \in 64 .. 65 -> {Event("scroll", n - 64, at)}
    [] OTHER -> {}

MouseReadings(t, m) ==
  CASE t.t = "sgr" /\ m.enc = "sgr" -> ButtonReadings(t.n, t.x - 1)
    [] t.t = "sgr-up" /\ m.enc = "sgr" -> {Event("release", t.n, t.x - 1)}
    [] t.t = "x10" /\ (m.enc = "x10" \/ (m.enc = "utf8" /\ t.x < 128)) ->
         IF t.n = 35 THEN {Event("release", b, t.x - 33) : b \in 0 .. 2}
         ELSE ButtonReadings(t.n - 32, t.x - 33)
    [] OTHER -> {}

Understood(i, p, m) ==
  CASE i.what = "keys" ->
         LET ks == Cuts(p) IN
         /\ Len(ks) = Len(i.keys)
         /\ \A n \in DOMAIN ks :
              \E k \in KeyReadings(ks[n], m) :
                k.code = i.keys[n].code /\ k.mods \subseteq i.keys[n].mods
    [] i.what \in {"text", "raw"} -> p = Typed(i.text)
    [] i.what = "paste" ->
         p = IF m.paste /\ engine = "portable"
             THEN <<Csi("PasteOn", 1)>> \o Typed(i.text) \o <<Csi("PasteOff", 1)>>
             ELSE Typed(i.text)
    [] i.what = "mouse" -> Len(p) = 1 /\ i.event \in MouseReadings(p[1], m)
    [] i.what = "click" ->
         /\ Len(p) = 2
         /\ [i.event EXCEPT !.act = "press"] \in MouseReadings(p[1], m)
         /\ [i.event EXCEPT !.act = "release"] \in MouseReadings(p[2], m)

\* Inputs the code encodes in a way no application reads as they were meant:
\* named keys under kitty flags (numbers that are not the protocol's), F-keys
\* tmux does not know, releases of the other buttons and far coordinates in
\* the two old mouse encodings.
Misencoded(i, m) ==
  \/ /\ i.what = "keys" /\ engine = "portable" /\ m.kitty
     /\ \E n \in DOMAIN i.keys : i.keys[n].code \in Arrows \cup Editing \cup Functions
  \/ /\ i.what = "keys" /\ engine = "tmux"
     /\ \E n \in DOMAIN i.keys : i.keys[n].code \in {"F13", "F21"}
  \/ /\ i.what = "click" \/ (i.what = "mouse" /\ i.event.act = "release")
     /\ i.event.button # 0 /\ m.enc # "sgr"
  \/ i.what \in {"mouse", "click"} /\ m.enc = "utf8" /\ i.event.at > 94

-----------------------------------------------------------------------------
(* Properties.                                                             *)

\* Every variable has its type.
TypeOK ==
  /\ engine \in Kinds
  /\ child.alive \in BOOLEAN /\ child.modes \in ModeSets
  /\ child.unread \in Seq(ModeSets) /\ Len(child.unread) <= MaxUnread
  /\ dev.open \in BOOLEAN /\ dev.modes \in ModeSets
  /\ size \in [{"engine", "pty", "grid", "tape", "launch"} -> Widths]
  /\ call.st \in {"none", "write"}
  /\ last.verdict \in {"none", "sent", "before", "within"}
  /\ last.taped \in BOOLEAN

\* A receipt tells what the child may have got: nothing of a payload that
\* failed before the write, all of one that was sent, and the recorder hears
\* of what was sent whole and of nothing else (DispatchOutcome).
ReceiptsHonest ==
  /\ last.verdict = "before" => last.landed = <<>> /\ ~last.taped
  /\ last.verdict = "sent" /\ last.input.what # "signal" =>
       last.taped /\ \E m \in ModeSets : last.landed \in Payload(last.input, m)
  /\ last.verdict = "within" => ~last.taped

\* What is sent whole, encoded for the modes it is read in, is understood as
\* it was meant: a key may lose modifiers but is no other key, a paste is a
\* paste, a click is a click there (encode_key, encode_mouse_event).
UnderstoodAsMeant ==
  /\ last.verdict = "sent" /\ last.input.what # "signal"
  /\ engine = "portable" => last.enc = last.read
  /\ ~Misencoded(last.input, last.read)
  => Understood(last.input, last.landed, last.read)

\* The child, the grid its output is parsed into and the launch a restart
\* uses agree on the size, whatever a resize did (resize, start).
SizesAgree ==
  dev.open /\ engine \in {"portable", "line"} =>
    /\ size.pty = size.launch
    /\ engine = "portable" => size.grid = size.pty
=============================================================================
