----------------------------- MODULE SurfaceProofs -----------------------------
(***************************************************************************)
(* Proofs about what a run keeps and tells of its sessions (MCSurface).    *)
(* A section per component gives the inductive invariant of it and the     *)
(* facts its steps need; the last one states the theorems.                 *)
(***************************************************************************)
EXTENDS MCSurface, SequenceTheorems, FiniteSetTheorems, ScanLemmas, TLAPS

-----------------------------------------------------------------------------
(* Probes: the window of a probe and the pages of a client.                *)

\* A ring that halves, pages of some size, bounds.
ProbeBounds ==
  /\ Room \in Nat /\ Room >= 2 /\ Limits \subseteq Nat
  /\ MaxWrites \in Nat /\ MaxLooks \in Nat

Screen == [text : BOOLEAN, style : BOOLEAN, n : Nat]
Log == [events : Seq(P!Kinds), evicted : Nat]
OneOf(S) == {<<>>} \cup {<<s>> : s \in S}

-----------------------------------------------------------------------------
(* The event ring.                                                         *)

\* A log that another one grows into: what it has stays in its place.
GrownFrom(l) ==
  {m \in Log :
     /\ Len(m.events) >= Len(l.events) /\ m.evicted >= l.evicted
     /\ \A k \in 1 .. Len(l.events) : m.events[k] = l.events[k]
     /\ Len(l.events) - l.evicted <= Room => Len(m.events) - m.evicted <= Room}

\* Growing goes on.
LEMMA GrownOn ==
  ASSUME ProbeBounds, NEW a \in Log, NEW b \in GrownFrom(a), NEW c \in GrownFrom(b)
  PROVE  c \in GrownFrom(a)
<1>1. Len(a.events) \in Nat /\ Len(b.events) \in Nat /\ Len(c.events) \in Nat
  BY DEF GrownFrom, Log
<1>2. a.evicted \in Nat /\ b.evicted \in Nat /\ c.evicted \in Nat /\ c \in Log
  BY DEF GrownFrom, Log
<1>3. /\ Len(b.events) >= Len(a.events) /\ Len(c.events) >= Len(b.events)
      /\ b.evicted >= a.evicted /\ c.evicted >= b.evicted
      /\ \A k \in 1 .. Len(a.events) : b.events[k] = a.events[k]
      /\ \A k \in 1 .. Len(b.events) : c.events[k] = b.events[k]
      /\ Len(a.events) - a.evicted <= Room => Len(b.events) - b.evicted <= Room
      /\ Len(b.events) - b.evicted <= Room => Len(c.events) - c.evicted <= Room
  BY DEF GrownFrom
<1>4. \A k \in 1 .. Len(a.events) : c.events[k] = a.events[k]
  BY <1>1, <1>3
<1>5. Len(c.events) >= Len(a.events) /\ c.evicted >= a.evicted
  BY <1>1, <1>2, <1>3
<1> QED
  BY <1>2, <1>3, <1>4, <1>5 DEF GrownFrom

\* A log grows into itself.
LEMMA GrownSelf ==
  ASSUME NEW l \in Log
  PROVE  l \in GrownFrom(l)
BY DEF GrownFrom, Log

\* One event.
LEMMA PushGrows ==
  ASSUME ProbeBounds, NEW l \in Log, NEW kind \in P!Kinds
  PROVE  P!Push(l, kind) \in GrownFrom(l)
<1>1. /\ l.events \in Seq(P!Kinds) /\ Len(l.events) \in Nat /\ l.evicted \in Nat
  BY DEF Log
<1>2. PICK more \in Seq(P!Kinds) : more = Append(l.events, kind)
  BY <1>1, AppendProperties
<1>3. /\ Len(more) = Len(l.events) + 1
      /\ \A k \in 1 .. Len(l.events) : more[k] = l.events[k]
  BY <1>1, <1>2, AppendProperties
<1>4. Room \in Nat /\ Room >= 2
  BY DEF ProbeBounds
<1>5. PICK half \in Nat : half = Room \div 2 /\ half >= 1
  BY <1>4
<1>6. PICK gone \in Nat : gone = IF Len(l.events) - l.evicted >= Room THEN l.evicted + half ELSE l.evicted
  BY <1>1, <1>5
<1>7. gone >= l.evicted /\ (Len(l.events) - l.evicted <= Room => Len(more) - gone <= Room)
  BY <1>1, <1>3, <1>4, <1>5, <1>6, SMTT(30)
<1>8. P!Push(l, kind) = [events |-> more, evicted |-> gone]
  BY <1>2, <1>5, <1>6 DEF P!Push
<1>9. PICK m \in Log : m = [events |-> more, evicted |-> gone]
  BY DEF Log
<1>10. m.events = more /\ m.evicted = gone
  BY <1>9
<1>11. m \in GrownFrom(l)
  BY <1>1, <1>3, <1>7, <1>10 DEF GrownFrom
<1> QED
  BY <1>8, <1>9, <1>11

\* Many events.
LEMMA PushManyGrows ==
  ASSUME ProbeBounds, NEW l \in Log, NEW kind \in P!Kinds, NEW count \in Nat
  PROVE  P!PushMany(l, kind, count) \in GrownFrom(l)
<1> DEFINE f == CHOOSE g : g = [n \in 0 .. count |-> IF n = 0 THEN l ELSE P!Push(g[n - 1], kind)]
           step == [p \in (1 .. count) \X Log |-> P!Push(p[2], kind)]
           PP == {p \in (0 .. count) \X Log : p[2] \in GrownFrom(l)}
<1>1. P!PushMany(l, kind, count) = f[count]
  BY DEF P!PushMany
<1>2. \A i \in 1 .. count, m \in Log : step[<<i, m>>] = P!Push(m, kind)
  OBVIOUS
<1>3. step \in [(1 .. count) \X Log -> Log]
  <2>1. \A m \in Log : P!Push(m, kind) \in Log
    BY PushGrows DEF GrownFrom
  <2> QED
    BY <2>1
<1> HIDE DEF step
<1>4. f = [n \in 0 .. count |-> IF n = 0 THEN l ELSE P!Push(f[n - 1], kind)]
  <2>1. PICK g \in [0 .. count -> Log] :
          \A i \in 0 .. count : g[i] = IF i = 0 THEN l ELSE step[<<i, g[i - 1]>>]
    <3>1. Scans(count, Log, l, step)
      BY <1>3, ScanExists
    <3> QED
      BY <3>1 DEF Scans, IsScan
  <2>2. \A i \in 1 .. count : g[i] = P!Push(g[i - 1], kind)
    <3>1. \A i \in 1 .. count : i \in 0 .. count /\ i # 0 /\ i - 1 \in 0 .. count
      OBVIOUS
    <3> QED
      BY <1>2, <2>1, <3>1
  <2>3. g = [n \in 0 .. count |-> IF n = 0 THEN l ELSE P!Push(g[n - 1], kind)]
    <3>1. ASSUME NEW i \in 0 .. count
          PROVE  g[i] = IF i = 0 THEN l ELSE P!Push(g[i - 1], kind)
      <4>1. i # 0 => i \in 1 .. count
        OBVIOUS
      <4> QED
        BY <2>1, <2>2, <4>1
    <3> QED
      BY <3>1
  <2> QED
    BY <2>3
<1> HIDE DEF f
<1>5. f[0] = l /\ \A i \in 1 .. count : f[i] = P!Push(f[i - 1], kind)
  <2>1. 0 \in 0 .. count /\ \A i \in 1 .. count : i \in 0 .. count /\ i # 0
    OBVIOUS
  <2> QED
    BY <1>4, <2>1
<1>6. <<0, f[0]>> \in PP
  <2>1. 0 \in 0 .. count
    OBVIOUS
  <2> QED
    BY <1>5, <2>1, GrownSelf
<1>7. ASSUME NEW n \in 1 .. count, <<n - 1, f[n - 1]>> \in PP PROVE <<n, f[n]>> \in PP
  <2> DEFINE m == f[n - 1]
  <2>1. m \in Log /\ m \in GrownFrom(l)
    BY <1>7
  <2>2. f[n] = P!Push(m, kind)
    BY <1>5
  <2> HIDE DEF m
  <2>3. f[n] \in GrownFrom(m)
    BY <2>1, <2>2, PushGrows
  <2>4. f[n] \in GrownFrom(l) /\ f[n] \in Log
    BY <2>1, <2>3, GrownOn DEF GrownFrom
  <2>5. n \in 0 .. count
    OBVIOUS
  <2> QED
    BY <2>4, <2>5
<1> HIDE DEF PP
<1>8. \A i \in 0 .. count : <<i, f[i]>> \in PP
  BY <1>6, <1>7, ScanHolds
<1>9. <<count, f[count]>> \in PP
  BY <1>8
<1> QED
  BY <1>1, <1>9 DEF PP

\* What is absorbed.
LEMMA AbsorbedGrows ==
  ASSUME ProbeBounds, log \in Log, wire.natives \in Nat, wire.noted \in Nat
  PROVE  P!Absorbed \in GrownFrom(log)
<1>1. "native" \in P!Kinds /\ "output" \in P!Kinds
  BY DEF P!Kinds
<1>2. PICK m \in GrownFrom(log) : m = P!PushMany(log, "native", wire.natives)
  BY <1>1, PushManyGrows
<1>3. m \in Log
  BY DEF GrownFrom
<1>4. P!PushMany(m, "output", wire.noted) \in GrownFrom(m)
  BY <1>1, <1>3, PushManyGrows
<1> QED
  BY <1>2, <1>4, GrownOn DEF P!Absorbed

\* What an observation emits.
LEMMA EmittedGrows ==
  ASSUME ProbeBounds, NEW l \in Log, NEW scr
  PROVE  P!Emitted(l, scr) \in GrownFrom(l)
<1>1. {"started", "screen", "visual"} \subseteq P!Kinds
  BY DEF P!Kinds
<1>2. /\ P!Push(l, "started") \in GrownFrom(l) /\ P!Push(l, "screen") \in GrownFrom(l)
      /\ P!Push(l, "visual") \in GrownFrom(l) /\ l \in GrownFrom(l)
  BY <1>1, PushGrows, GrownSelf
<1> QED
  BY <1>2 DEF P!Emitted

-----------------------------------------------------------------------------
(* The invariant.                                                          *)

\* What the child wrote goes on in its order.
WireOK(c, w, e) ==
  /\ c \in [shown : Screen, natives : Nat] /\ c.shown.n <= MaxWrites
  /\ w \in [noted : Nat, hand : OneOf(Screen), channel : OneOf(Screen), natives : Nat]
  /\ e \in Screen /\ e.n <= c.shown.n
  /\ w.channel # <<>> => e.n <= w.channel[1].n /\ w.channel[1].n <= c.shown.n
  /\ w.hand # <<>> => /\ e.n <= w.hand[1].n /\ w.hand[1].n <= c.shown.n
                      /\ w.channel # <<>> => w.channel[1].n <= w.hand[1].n

\* A probe at each place: what was peeked, when it was sent, and what lay
\* before and after.
Captures == {"none", "frames", "delay"}
Idles == [pc : {"no", "sample"}, count : Nat]
Peeks == [pc : {"peek"}, count : Nat, drives : BOOLEAN, capture : Captures]
Peeked ==
  [pc : {"drift", "look", "prep", "send"}, count : Nat, capture : Captures,
   peeked : Screen, from : Nat, sent : Nat]
Sents ==
  [pc : {"settle"}, count : Nat, capture : Captures,
   peeked : Screen, before : Screen, from : Nat, sent : Nat]
Closes ==
  [pc : {"close"}, count : Nat, capture : Captures,
   peeked : Screen, before : Screen, from : Nat, sent : Nat, after : Screen]
ProbeOK(p, n) ==
  \/ p \in Idles \/ p \in Peeks
  \/ p \in Peeked /\ p.sent <= p.peeked.n /\ p.peeked.n <= n
  \/ p \in Sents /\ p.sent <= p.before.n /\ p.before.n <= n
  \/ p \in Closes /\ p.sent <= p.before.n /\ p.before.n <= p.after.n

\* An probed, and what it promises.
Answers ==
  [kind : {"drift", "drive"}, before : Screen, after : Screen, from : Nat, to : Nat,
   events : SUBSET Nat, changed : BOOLEAN, frames : SUBSET Nat, sent : Nat, capture : Captures]
AnswerOK(a) ==
  /\ a \in Answers
  /\ a.kind = "drive" => a.events = a.from + 1 .. a.to
  /\ a.before.n >= a.sent /\ a.after.n >= a.before.n

PagerOK(l, p) ==
  /\ p \in [cursor : Nat, served : SUBSET Nat, told : Nat]
  /\ p.cursor <= Len(l.events) /\ p.told <= l.evicted
  /\ \A n \in 1 .. p.cursor : l.events[n] \in P!Asked => n \in p.served \/ n <= p.told

ProbeInv ==
  /\ WireOK(child, wire, engine)
  /\ log \in Log /\ Len(log.events) - log.evicted <= Room
  /\ last \in OneOf(Screen)
  /\ ProbeOK(probe, engine.n)
  /\ probed = <<>> \/ \E a \in Answers : probed = <<a>> /\ AnswerOK(a)
  /\ probe.pc = "sample" => probed # <<>>
  /\ PagerOK(log, pager)
  /\ looks \in 0 .. MaxLooks

\* The invariant has what the runs check.
LEMMA ProbeSafe ==
  ASSUME ProbeBounds, ProbeInv
  PROVE  P!TypeOK /\ P!WindowWhole /\ P!NoEarlierChange /\ P!PagesWhole
<1>1. P!TypeOK
  <2>1. child.shown.n \in 0 .. MaxWrites /\ engine.n \in 0 .. child.shown.n
    <3>1. child.shown \in Screen /\ engine \in Screen
      BY DEF ProbeInv, WireOK
    <3>2. child.shown.n \in Nat /\ engine.n \in Nat
      BY <3>1 DEF Screen
    <3> QED
      BY <3>2 DEF ProbeInv, WireOK, ProbeBounds
  <2>2. \A n \in DOMAIN log.events : log.events[n] \in P!Kinds
    BY DEF ProbeInv, Log
  <2>3. probe.pc \in {"no", "peek", "drift", "look", "prep", "send", "settle", "close", "sample"}
    BY DEF ProbeInv, ProbeOK, Idles, Peeks, Peeked, Sents, Closes
  <2> QED
    BY <2>1, <2>2, <2>3 DEF P!TypeOK, ProbeInv, PagerOK
<1>2. P!WindowWhole /\ P!NoEarlierChange
  <2>1. CASE probed = <<>>
    BY <2>1 DEF P!WindowWhole, P!NoEarlierChange
  <2>2. CASE \E a \in Answers : probed = <<a>> /\ AnswerOK(a)
    <3>1. PICK a \in Answers : probed = <<a>> /\ AnswerOK(a)
      BY <2>2
    <3>2. \A n \in DOMAIN probed : probed[n] = a
      BY <3>1
    <3> QED
      BY <3>1, <3>2 DEF P!WindowWhole, P!NoEarlierChange, AnswerOK
  <2> QED
    BY <2>1, <2>2 DEF ProbeInv
<1>3. P!PagesWhole
  BY DEF ProbeInv, PagerOK, P!PagesWhole
<1> QED
  BY <1>1, <1>2, <1>3

\* At first.
LEMMA ProbeInit ==
  ASSUME ProbeBounds, P!Init
  PROVE  ProbeInv
<1>1. /\ child = [shown |-> P!Blank, natives |-> 0]
      /\ wire = [noted |-> 0, hand |-> <<>>, channel |-> <<>>, natives |-> 0]
      /\ engine = P!Blank /\ log = [events |-> <<>>, evicted |-> 0] /\ last = <<>>
      /\ probe = [pc |-> "no", count |-> 0] /\ probed = <<>> /\ looks = 0
      /\ pager = [cursor |-> 0, served |-> {}, told |-> 0]
  BY DEF P!Init, P!None, P!NoProbe
<1>2. P!Blank \in Screen /\ P!Blank.n = 0 /\ MaxWrites \in Nat /\ MaxLooks \in Nat /\ Room \in Nat
  BY DEF P!Blank, Screen, ProbeBounds
<1>3. <<>> \in OneOf(Screen) /\ <<>> \in Seq(P!Kinds) /\ Len(<<>>) = 0
  BY DEF OneOf
<1>4. WireOK(child, wire, engine)
  BY <1>1, <1>2, <1>3 DEF WireOK
<1>5. log \in Log /\ log.events = <<>> /\ log.evicted = 0
  BY <1>1, <1>3 DEF Log
<1>6. PagerOK(log, pager)
  BY <1>1, <1>3, <1>5 DEF PagerOK
<1>7. ProbeOK(probe, engine.n) /\ probe.pc # "sample"
  BY <1>1 DEF ProbeOK, Idles
<1> QED
  BY <1>1, <1>2, <1>3, <1>4, <1>5, <1>6, <1>7 DEF ProbeInv

-----------------------------------------------------------------------------
(* The steps.                                                              *)

\* A pump takes what is in the channel.
LEMMA ParsedIs ==
  ASSUME WireOK(child, wire, engine)
  PROVE  /\ P!Parsed \in Screen /\ engine \in Screen /\ engine.n \in Nat /\ P!Parsed.n \in Nat
         /\ engine.n <= P!Parsed.n
         /\ WireOK(child, [wire EXCEPT !.channel = <<>>], P!Parsed)
<1> DEFINE w == [wire EXCEPT !.channel = <<>>]
<1>1. /\ child.shown \in Screen /\ engine \in Screen /\ engine.n <= child.shown.n
      /\ wire \in [noted : Nat, hand : OneOf(Screen), channel : OneOf(Screen), natives : Nat]
      /\ wire.channel # <<>> => engine.n <= wire.channel[1].n /\ wire.channel[1].n <= child.shown.n
      /\ wire.hand # <<>> => /\ engine.n <= wire.hand[1].n /\ wire.hand[1].n <= child.shown.n
                             /\ wire.channel # <<>> => wire.channel[1].n <= wire.hand[1].n
  BY DEF WireOK
<1>2. wire.channel # <<>> => wire.channel[1] \in Screen
  BY <1>1 DEF OneOf
<1>3. P!Parsed \in Screen /\ P!Parsed = IF wire.channel = <<>> THEN engine ELSE wire.channel[1]
  BY <1>1, <1>2 DEF P!Parsed, P!None
<1>4. engine.n \in Nat /\ P!Parsed.n \in Nat /\ child.shown.n \in Nat
  BY <1>1, <1>3 DEF Screen
<1>5. engine.n <= P!Parsed.n /\ P!Parsed.n <= child.shown.n
  BY <1>1, <1>3, <1>4
<1>6. /\ w \in [noted : Nat, hand : OneOf(Screen), channel : OneOf(Screen), natives : Nat]
      /\ w.channel = <<>> /\ w.hand = wire.hand
  <2>1. <<>> \in OneOf(Screen)
    BY DEF OneOf
  <2> QED
    BY <1>1, <2>1
<1>7. wire.hand # <<>> => P!Parsed.n <= wire.hand[1].n /\ wire.hand[1].n <= child.shown.n
  BY <1>1, <1>3
<1> HIDE DEF w
<1>8. WireOK(child, w, P!Parsed)
  BY <1>3, <1>5, <1>6, <1>7 DEF WireOK
<1> QED
  BY <1>1, <1>3, <1>4, <1>5, <1>8 DEF w

\* An absorption takes what was noted.
LEMMA AbsorbedWire ==
  ASSUME NEW c, NEW w, NEW e, WireOK(c, w, e)
  PROVE  WireOK(c, [w EXCEPT !.noted = 0, !.natives = 0], e)
<1> DEFINE v == [w EXCEPT !.noted = 0, !.natives = 0]
<1>1. w \in [noted : Nat, hand : OneOf(Screen), channel : OneOf(Screen), natives : Nat]
  BY DEF WireOK
<1>2. /\ v \in [noted : Nat, hand : OneOf(Screen), channel : OneOf(Screen), natives : Nat]
      /\ v.channel = w.channel /\ v.hand = w.hand
  BY <1>1
<1> HIDE DEF v
<1>3. WireOK(c, v, e)
  BY <1>2 DEF WireOK
<1> QED
  BY <1>3 DEF v

\* A pager of a log is one of what the log grows into.
LEMMA PagerGrows ==
  ASSUME NEW l \in Log, NEW m \in GrownFrom(l), NEW p, PagerOK(l, p)
  PROVE  PagerOK(m, p)
<1>1. /\ Len(l.events) \in Nat /\ Len(m.events) \in Nat /\ l.evicted \in Nat /\ m.evicted \in Nat
      /\ Len(m.events) >= Len(l.events) /\ m.evicted >= l.evicted
      /\ \A k \in 1 .. Len(l.events) : m.events[k] = l.events[k]
  BY DEF GrownFrom, Log
<1>2. /\ p \in [cursor : Nat, served : SUBSET Nat, told : Nat]
      /\ p.cursor <= Len(l.events) /\ p.told <= l.evicted
      /\ \A n \in 1 .. p.cursor : l.events[n] \in P!Asked => n \in p.served \/ n <= p.told
  BY DEF PagerOK
<1>3. p.cursor \in Nat /\ p.told \in Nat
  BY <1>2
<1>4. p.cursor <= Len(m.events) /\ p.told <= m.evicted
  BY <1>1, <1>2, <1>3
<1>5. \A n \in 1 .. p.cursor : m.events[n] = l.events[n]
  BY <1>1, <1>2, <1>3
<1> QED
  BY <1>2, <1>4, <1>5 DEF PagerOK

\* The events of a log after a number, and an probed.
LEMMA AnswerIs ==
  ASSUME NEW kind \in {"drift", "drive"}, NEW before \in Screen, NEW after \in Screen, NEW l \in Log,
         probe.from \in Nat, probe.sent \in Nat, probe.capture \in Captures,
         before.n >= probe.sent, after.n >= before.n,
         kind = "drive" => l.evicted <= probe.from
  PROVE  AnswerOK(P!Answer(kind, before, after, l))
<1> DEFINE a == P!Answer(kind, before, after, l)
<1>1. /\ Len(l.events) \in Nat /\ l.evicted \in Nat
  BY DEF Log
<1>2. PICK from \in Nat : from = probe.from
  OBVIOUS
<1>3. PICK evs \in SUBSET Nat : evs = P!EventsOf(l, from)
  <2>1. \A n \in P!EventsOf(l, from) : n \in Nat
    BY <1>1 DEF P!EventsOf
  <2> QED
    BY <2>1
<1>4. l.evicted <= from => evs = from + 1 .. Len(l.events)
  BY <1>1, <1>3 DEF P!EventsOf
<1>5. PICK changed \in BOOLEAN : changed = P!HasChanges(before, after, l, from)
  BY DEF P!HasChanges
<1>6. a = [kind |-> kind, before |-> before, after |-> after, from |-> from, to |-> Len(l.events),
           events |-> evs, changed |-> changed, frames |-> {}, sent |-> probe.sent,
           capture |-> probe.capture]
  BY <1>2, <1>3, <1>5 DEF P!Answer
<1> HIDE DEF a
<1>7. a \in Answers
  BY <1>1, <1>6 DEF Answers
<1>8. /\ a.kind = kind /\ a.events = evs /\ a.from = from /\ a.to = Len(l.events)
      /\ a.before = before /\ a.after = after /\ a.sent = probe.sent
  BY <1>6
<1>9. AnswerOK(a)
  BY <1>2, <1>4, <1>7, <1>8 DEF AnswerOK
<1> QED
  BY <1>9 DEF a

\* What the invariant is made of.
LEMMA ProbeFacts ==
  ASSUME ProbeInv
  PROVE  /\ WireOK(child, wire, engine) /\ log \in Log /\ PagerOK(log, pager)
         /\ Len(log.events) \in Nat /\ log.evicted \in Nat /\ Len(log.events) - log.evicted <= Room
         /\ child = [shown |-> child.shown, natives |-> child.natives]
         /\ child.shown \in Screen /\ child.natives \in Nat
         /\ wire \in [noted : Nat, hand : OneOf(Screen), channel : OneOf(Screen), natives : Nat]
         /\ wire.noted \in Nat /\ wire.natives \in Nat
         /\ engine \in Screen /\ engine.n \in Nat /\ engine.n <= child.shown.n
BY DEF ProbeInv, WireOK, Log, Screen

\* A log grows: its ring is held to.
LEMMA LogGrows ==
  ASSUME ProbeBounds, ProbeInv, NEW m \in GrownFrom(log)
  PROVE  m \in Log /\ Len(m.events) - m.evicted <= Room /\ PagerOK(m, pager)
BY ProbeFacts, PagerGrows DEF GrownFrom

\* The child writes.
LEMMA WriteKeeps ==
  ASSUME ProbeBounds, ProbeInv, P!Write
  PROVE  ProbeInv'
<1>1. PICK what \in {"text", "style"} :
        child' = [child EXCEPT !.shown =
                    [child.shown EXCEPT ![what] = ~child.shown[what], !.n = child.shown.n + 1]]
  BY DEF P!Write
<1>2. /\ child.shown.n < MaxWrites /\ wire.hand = <<>>
      /\ wire' = [wire EXCEPT !.noted = @ + 1, !.hand = <<child'.shown>>]
      /\ UNCHANGED <<engine, log, last, probe, probed, pager, looks>>
  BY DEF P!Write, P!None
<1>3. PICK old \in Screen : old = child.shown
  BY ProbeFacts
<1>4. PICK new \in Screen : child' = [child EXCEPT !.shown = new] /\ new.n = old.n + 1
  <2>1. old.text \in BOOLEAN /\ old.style \in BOOLEAN /\ old.n \in Nat
        /\ old = [text |-> old.text, style |-> old.style, n |-> old.n]
    BY <1>3 DEF Screen
  <2>2. PICK m \in Nat : m = old.n + 1
    BY <2>1
  <2>3. PICK b \in BOOLEAN : b = ~old[what]
    OBVIOUS
  <2>4. PICK mid : mid = [old EXCEPT ![what] = b]
    OBVIOUS
  <2>5. mid \in Screen /\ mid.n = old.n
    BY <1>3, <2>4 DEF Screen
  <2>6. [mid EXCEPT !.n = m] \in Screen /\ [mid EXCEPT !.n = m].n = m
    BY <2>5 DEF Screen
  <2>7. child' = [child EXCEPT !.shown = [mid EXCEPT !.n = m]]
    BY <1>1, <1>3, <2>2, <2>3, <2>4, <2>5
  <2> QED
    BY <2>2, <2>6, <2>7
<1>5. old.n \in Nat /\ new.n \in Nat /\ MaxWrites \in Nat
  BY <1>3, <1>4 DEF Screen, ProbeBounds
<1>6. child' \in [shown : Screen, natives : Nat] /\ child'.shown = new /\ new.n <= MaxWrites
  BY <1>2, <1>3, <1>4, <1>5, ProbeFacts
<1>7. PICK k \in Nat : k = wire.noted + 1
  BY ProbeFacts
<1>8. PICK one \in OneOf(Screen) : one = <<new>> /\ one # <<>> /\ one[1] = new
  <2>1. <<new>> \in OneOf(Screen)
    BY DEF OneOf
  <2>2. <<new>> # <<>> /\ <<new>>[1] = new
    OBVIOUS
  <2> QED
    BY <2>1, <2>2
<1>9. wire' = [wire EXCEPT !.noted = k, !.hand = one]
  BY <1>2, <1>6, <1>7, <1>8
<1>10. /\ wire' \in [noted : Nat, hand : OneOf(Screen), channel : OneOf(Screen), natives : Nat]
       /\ wire'.channel = wire.channel /\ wire'.hand = one
  BY <1>8, <1>9, ProbeFacts
<1>11. /\ engine.n <= new.n
       /\ wire.channel # <<>> => engine.n <= wire.channel[1].n /\ wire.channel[1].n <= new.n
  <2>1. wire.channel # <<>> => wire.channel[1] \in Screen
    BY ProbeFacts DEF OneOf
  <2>2. wire.channel # <<>> => wire.channel[1].n \in Nat
    BY <2>1 DEF Screen
  <2>3. engine.n \in Nat /\ engine.n <= old.n
    BY <1>3, ProbeFacts
  <2>4. wire.channel # <<>> => engine.n <= wire.channel[1].n /\ wire.channel[1].n <= old.n
    BY <1>3, ProbeFacts DEF WireOK
  <2> QED
    BY <1>4, <1>5, <2>2, <2>3, <2>4
<1>12. WireOK(child', wire', engine)
  <2>1. new.n <= new.n
    BY <1>5
  <2> QED
    BY <1>6, <1>8, <1>10, <1>11, <2>1, ProbeFacts DEF WireOK
<1> QED
  BY <1>2, <1>12 DEF ProbeInv

\* The reader thread hands its chunk on.
LEMMA HandKeeps ==
  ASSUME ProbeInv, P!Hand
  PROVE  ProbeInv'
<1>1. /\ wire.hand # <<>> /\ wire' = [wire EXCEPT !.hand = <<>>, !.channel = wire.hand]
      /\ UNCHANGED <<child, engine, log, last, probe, probed, pager, looks>>
  BY DEF P!Hand, P!None
<1>2. /\ wire' \in [noted : Nat, hand : OneOf(Screen), channel : OneOf(Screen), natives : Nat]
      /\ wire'.hand = <<>> /\ wire'.channel = wire.hand
  <2>1. <<>> \in OneOf(Screen)
    BY DEF OneOf
  <2> QED
    BY <1>1, <2>1, ProbeFacts
<1>3. WireOK(child, wire', engine)
  BY <1>1, <1>2, ProbeFacts DEF WireOK
<1> QED
  BY <1>1, <1>3 DEF ProbeInv

\* The child declares over its own channel.
LEMMA DeclareKeeps ==
  ASSUME ProbeInv, P!Declare
  PROVE  ProbeInv'
<1>1. /\ child' = [child EXCEPT !.natives = @ + 1] /\ wire' = [wire EXCEPT !.natives = @ + 1]
      /\ UNCHANGED <<engine, log, last, probe, probed, pager, looks>>
  BY DEF P!Declare
<1>2. PICK j \in Nat, k \in Nat : j = child.natives + 1 /\ k = wire.natives + 1
  BY ProbeFacts
<1>3. child' = [child EXCEPT !.natives = j] /\ wire' = [wire EXCEPT !.natives = k]
  BY <1>1, <1>2
<1>4. /\ wire' \in [noted : Nat, hand : OneOf(Screen), channel : OneOf(Screen), natives : Nat]
      /\ wire'.hand = wire.hand /\ wire'.channel = wire.channel
  BY <1>3, ProbeFacts
<1>5. child' \in [shown : Screen, natives : Nat] /\ child'.shown = child.shown
  BY <1>3, ProbeFacts
<1>6. WireOK(child', wire', engine)
  BY <1>4, <1>5, ProbeFacts DEF WireOK
<1> QED
  BY <1>1, <1>6 DEF ProbeInv

\* A tool looks.
LEMMA LookKeeps ==
  ASSUME ProbeBounds, ProbeInv, P!Look
  PROVE  ProbeInv'
<1>1. /\ probe.pc = "no" /\ looks < MaxLooks /\ looks' = looks + 1
      /\ engine' = P!Parsed /\ last' = <<P!Parsed>>
      /\ wire' = [wire EXCEPT !.noted = 0, !.natives = 0, !.channel = <<>>]
      /\ log' = P!Emitted(P!Absorbed, P!Parsed)
      /\ UNCHANGED <<child, probe, probed, pager>>
  BY DEF P!Look, P!None
<1>2. P!Absorbed \in GrownFrom(log) /\ log \in Log
  BY AbsorbedGrows, ProbeFacts
<1>3. log' \in GrownFrom(log)
  <2>1. PICK m \in GrownFrom(log) : m = P!Absorbed
    BY <1>2
  <2>2. m \in Log
    BY DEF GrownFrom
  <2>3. P!Emitted(m, P!Parsed) \in GrownFrom(m)
    BY <2>2, EmittedGrows
  <2> QED
    BY <1>1, <1>2, <2>1, <2>3, GrownOn
<1>4. log' \in Log /\ Len(log'.events) - log'.evicted <= Room /\ PagerOK(log', pager)
  BY <1>3, LogGrows
<1>5. P!Parsed \in Screen /\ WireOK(child, [wire EXCEPT !.channel = <<>>], P!Parsed)
  BY ParsedIs, ProbeFacts
<1>6. WireOK(child, wire', P!Parsed)
  <2>1. wire' = [[wire EXCEPT !.channel = <<>>] EXCEPT !.noted = 0, !.natives = 0]
    BY <1>1, ProbeFacts
  <2> QED
    BY <1>5, <2>1, AbsorbedWire
<1>7. ProbeOK(probe, P!Parsed.n)
  BY <1>1 DEF ProbeInv, ProbeOK, Idles, Peeks, Peeked, Sents, Closes
<1>8. looks' \in 0 .. MaxLooks
  BY <1>1 DEF ProbeInv, ProbeBounds
<1>9. last' \in OneOf(Screen)
  BY <1>1, <1>5 DEF OneOf
<1> QED
  BY <1>1, <1>4, <1>6, <1>7, <1>8, <1>9 DEF ProbeInv

\* What an absorption leaves to show.
LEMMA AbsorbKeeps ==
  ASSUME ProbeBounds, ProbeInv, P!Absorb, UNCHANGED <<child, engine, last, pager, looks>>,
         ProbeOK(probe', engine.n), probe'.pc = "sample" => probed' # <<>>,
         probed' = <<>> \/ \E a \in Answers : probed' = <<a>> /\ AnswerOK(a)
  PROVE  ProbeInv'
<1>1. log' = P!Absorbed /\ wire' = [wire EXCEPT !.noted = 0, !.natives = 0]
  BY DEF P!Absorb
<1>2. log' \in GrownFrom(log)
  BY <1>1, AbsorbedGrows, ProbeFacts
<1>3. log' \in Log /\ Len(log'.events) - log'.evicted <= Room /\ PagerOK(log', pager)
  BY <1>2, LogGrows
<1>4. WireOK(child, wire', engine)
  BY <1>1, AbsorbedWire, ProbeFacts
<1> QED
  BY <1>3, <1>4 DEF ProbeInv

\* What a pump leaves to show.
LEMMA PumpKeeps ==
  ASSUME ProbeBounds, ProbeInv, P!Pump, UNCHANGED <<child, pager, looks>>, log' \in GrownFrom(log),
         last' \in OneOf(Screen), ProbeOK(probe', P!Parsed.n), probe'.pc # "sample",
         probed' = <<>> \/ \E a \in Answers : probed' = <<a>> /\ AnswerOK(a)
  PROVE  ProbeInv'
<1>1. engine' = P!Parsed /\ wire' = [wire EXCEPT !.channel = <<>>]
  BY DEF P!Pump, P!None
<1>2. log' \in Log /\ Len(log'.events) - log'.evicted <= Room /\ PagerOK(log', pager)
  BY LogGrows
<1>3. WireOK(child, wire', engine')
  BY <1>1, ParsedIs, ProbeFacts
<1>4. ProbeOK(probe', engine'.n)
  BY <1>1
<1> QED
  BY <1>2, <1>3, <1>4 DEF ProbeInv

\* A probe is asked for.
LEMMA BeginKeeps ==
  ASSUME ProbeBounds, ProbeInv, P!Begin
  PROVE  ProbeInv'
<1>1. /\ probe.pc = "no" /\ probed' = <<>> /\ P!Absorb /\ UNCHANGED <<child, engine, last, pager, looks>>
  BY DEF P!Begin, P!None
<1>2. PICK drives \in BOOLEAN, capture \in Captures :
        probe' = [pc |-> "peek", count |-> probe.count + 1, drives |-> drives, capture |-> capture]
  BY DEF P!Begin, Captures
<1>3. probe.count \in Nat
  BY <1>1 DEF ProbeInv, ProbeOK, Idles, Peeks, Peeked, Sents, Closes
<1>4. probe' \in Peeks /\ probe'.pc = "peek"
  BY <1>2, <1>3 DEF Peeks
<1> QED
  BY <1>1, <1>4, AbsorbKeeps DEF ProbeOK

\* It peeks.
LEMMA PeekKeeps ==
  ASSUME ProbeBounds, ProbeInv, P!Peek
  PROVE  ProbeInv'
<1>1. /\ probe.pc = "peek" /\ P!Pump /\ UNCHANGED <<child, log, last, probed, pager, looks>>
      /\ probe' = [pc |-> IF probe.drives THEN "prep" ELSE "drift", count |-> probe.count,
                   capture |-> probe.capture, peeked |-> P!Parsed, from |-> Len(log.events),
                   sent |-> P!Parsed.n]
  BY DEF P!Peek
<1>2. probe \in Peeks
  BY <1>1 DEF ProbeInv, ProbeOK, Idles, Peeked, Sents, Closes
<1>3. P!Parsed \in Screen /\ P!Parsed.n \in Nat /\ Len(log.events) \in Nat /\ log \in Log
  BY ParsedIs, ProbeFacts
<1>4. PICK to \in {"prep", "drift"} : to = IF probe.drives THEN "prep" ELSE "drift"
  OBVIOUS
<1>5. probe' \in Peeked /\ probe'.sent = P!Parsed.n /\ probe'.peeked = P!Parsed /\ probe'.pc = to
  BY <1>1, <1>2, <1>3, <1>4 DEF Peeks, Peeked
<1>6. ProbeOK(probe', P!Parsed.n) /\ probe'.pc # "sample"
  BY <1>3, <1>5 DEF ProbeOK
<1> QED
  BY <1>1, <1>3, <1>6, PumpKeeps, GrownSelf DEF ProbeInv

\* What was peeked, where it is.
LEMMA PeekedFacts ==
  ASSUME ProbeInv, probe.pc \in {"drift", "look", "prep", "send"}
  PROVE  /\ probe \in Peeked /\ probe.sent <= probe.peeked.n /\ probe.peeked.n <= engine.n
         /\ probe.peeked \in Screen /\ probe.peeked.n \in Nat /\ probe.from \in Nat /\ probe.sent \in Nat
         /\ probe.capture \in Captures /\ probe.count \in Nat
BY DEF ProbeInv, ProbeOK, Idles, Peeks, Peeked, Sents, Closes, Screen

\* The first half of the observation of a drift, and the executor's own.
LEMMA AbsorbsKeep ==
  ASSUME ProbeBounds, ProbeInv, P!DriftAbsorb \/ P!Prepare
  PROVE  ProbeInv'
<1>1. PICK to \in {"look", "send"} :
        /\ probe.pc \in {"drift", "prep"} /\ P!Absorb /\ probe' = [probe EXCEPT !.pc = to]
        /\ UNCHANGED <<child, engine, last, probed, pager, looks>>
  BY DEF P!DriftAbsorb, P!Prepare
<1>2. /\ probe' \in Peeked /\ probe'.sent = probe.sent /\ probe'.peeked = probe.peeked /\ probe'.pc = to
  BY <1>1, PeekedFacts DEF Peeked
<1>3. ProbeOK(probe', engine.n) /\ probe'.pc # "sample"
  BY <1>1, <1>2, PeekedFacts DEF ProbeOK
<1> QED
  BY <1>1, <1>3, AbsorbKeeps DEF ProbeInv

\* The second half: the probed of a drift.
LEMMA DriftLookKeeps ==
  ASSUME ProbeBounds, ProbeInv, P!DriftLook
  PROVE  ProbeInv'
<1>1. /\ probe.pc = "look" /\ P!Pump /\ last' = <<P!Parsed>>
      /\ probed' = <<P!Answer("drift", probe.peeked, P!Parsed, P!Emitted(log, P!Parsed))>>
      /\ log' = P!Push(P!Emitted(log, P!Parsed), "probe")
      /\ probe' = [P!NoProbe EXCEPT !.count = probe.count]
      /\ UNCHANGED <<child, pager, looks>>
  BY DEF P!DriftLook
<1>2. PICK l \in GrownFrom(log) : l = P!Emitted(log, P!Parsed)
  BY EmittedGrows, ProbeFacts
<1>3. l \in Log /\ log \in Log
  BY ProbeFacts DEF GrownFrom
<1>4. log' \in GrownFrom(log)
  <2>1. "probe" \in P!Kinds
    BY DEF P!Kinds
  <2>2. P!Push(l, "probe") \in GrownFrom(l)
    BY <1>3, <2>1, PushGrows
  <2> QED
    BY <1>1, <1>2, <1>3, <2>2, GrownOn
<1>5. PICK scr \in Screen : scr = P!Parsed /\ scr.n \in Nat /\ engine.n \in Nat /\ engine.n <= scr.n
  BY ParsedIs, ProbeFacts
<1>6. /\ probe.peeked \in Screen /\ probe.from \in Nat /\ probe.sent \in Nat /\ probe.capture \in Captures
      /\ probe.peeked.n >= probe.sent /\ probe.peeked.n <= engine.n /\ probe.peeked.n \in Nat
      /\ probe.count \in Nat
  BY <1>1, PeekedFacts
<1>7. scr.n >= probe.peeked.n
  BY <1>5, <1>6
<1>8. AnswerOK(P!Answer("drift", probe.peeked, scr, l))
  BY <1>3, <1>6, <1>7, AnswerIs
<1>9. \E a \in Answers : probed' = <<a>> /\ AnswerOK(a)
  <2>1. PICK a : a = P!Answer("drift", probe.peeked, scr, l)
    OBVIOUS
  <2>2. probed' = <<a>> /\ AnswerOK(a)
    BY <1>1, <1>2, <1>5, <1>8, <2>1
  <2> QED
    BY <2>2 DEF AnswerOK
<1>10. probe' \in Idles /\ probe'.pc = "no"
  BY <1>1, <1>6 DEF P!NoProbe, Idles
<1>11. last' \in OneOf(Screen)
  BY <1>1, <1>5 DEF OneOf
<1>12. ProbeOK(probe', P!Parsed.n) /\ probe'.pc # "sample"
  BY <1>10 DEF ProbeOK
<1> QED
  BY <1>1, <1>4, <1>9, <1>11, <1>12, PumpKeeps

\* The send: what lay before is what has just been parsed.
LEMMA SendKeeps ==
  ASSUME ProbeBounds, ProbeInv, P!Send
  PROVE  ProbeInv'
<1>1. /\ probe.pc = "send" /\ P!Pump /\ UNCHANGED <<child, log, last, probed, pager, looks>>
      /\ probe' = [pc |-> "settle", count |-> probe.count, capture |-> probe.capture,
                   peeked |-> probe.peeked, before |-> P!Parsed, from |-> Len(log.events),
                   sent |-> P!Parsed.n]
  BY DEF P!Send
<1>2. P!Parsed \in Screen /\ P!Parsed.n \in Nat /\ Len(log.events) \in Nat /\ log \in Log
  BY ParsedIs, ProbeFacts
<1>3. probe' \in Sents /\ probe'.sent = P!Parsed.n /\ probe'.before = P!Parsed /\ probe'.pc = "settle"
  BY <1>1, <1>2, PeekedFacts DEF Sents
<1>4. ProbeOK(probe', P!Parsed.n) /\ probe'.pc # "sample"
  BY <1>2, <1>3 DEF ProbeOK
<1> QED
  BY <1>1, <1>2, <1>4, PumpKeeps, GrownSelf DEF ProbeInv

\* The plan settles.
LEMMA SettleKeeps ==
  ASSUME ProbeBounds, ProbeInv, P!Settle
  PROVE  ProbeInv'
<1>1. PICK looks1 \in BOOLEAN :
        /\ IF looks1 THEN P!Observe ELSE P!Pump /\ UNCHANGED <<log, last>>
        /\ probe' = [pc |-> "close", count |-> probe.count, capture |-> probe.capture,
                     peeked |-> probe.peeked, before |-> probe.before, from |-> probe.from,
                     sent |-> probe.sent, after |-> P!Parsed]
  BY DEF P!Settle
<1>2. probe.pc = "settle" /\ UNCHANGED <<child, probed, pager, looks>>
  BY DEF P!Settle
<1>3. probe \in Sents /\ probe.sent <= probe.before.n /\ probe.before.n <= engine.n
  BY <1>2 DEF ProbeInv, ProbeOK, Idles, Peeks, Peeked, Closes
<1>4. /\ probe.count \in Nat /\ probe.capture \in Captures /\ probe.peeked \in Screen
      /\ probe.before \in Screen /\ probe.from \in Nat /\ probe.sent \in Nat
  BY <1>3 DEF Sents
<1>5. probe.before.n \in Nat
  BY <1>4 DEF Screen
<1>6. P!Parsed \in Screen /\ P!Parsed.n \in Nat /\ engine.n \in Nat /\ engine.n <= P!Parsed.n /\ log \in Log
  BY ParsedIs, ProbeFacts
<1>7. /\ probe' \in Closes /\ probe'.sent = probe.sent /\ probe'.before = probe.before
      /\ probe'.after = P!Parsed /\ probe'.pc = "close"
  BY <1>1, <1>4, <1>6 DEF Closes
<1>8. probe.before.n <= P!Parsed.n
  BY <1>3, <1>5, <1>6
<1>9. ProbeOK(probe', P!Parsed.n) /\ probe'.pc # "sample"
  BY <1>3, <1>7, <1>8 DEF ProbeOK
<1>10. P!Pump /\ log' \in GrownFrom(log) /\ last' \in OneOf(Screen)
  <2>1. CASE looks1
    <3>1. P!Pump /\ log' = P!Emitted(log, P!Parsed) /\ last' = <<P!Parsed>>
      BY <1>1, <2>1 DEF P!Observe
    <3> QED
      BY <1>6, <3>1, EmittedGrows DEF OneOf
  <2>2. CASE ~looks1
    BY <1>1, <1>6, <2>2, GrownSelf DEF ProbeInv
  <2> QED
    BY <2>1, <2>2
<1> QED
  BY <1>2, <1>9, <1>10, PumpKeeps DEF ProbeInv

\* The end of the window.
LEMMA CloseKeeps ==
  ASSUME ProbeBounds, ProbeInv, P!Close
  PROVE  ProbeInv'
<1>1. probe.pc = "close" /\ P!Absorb /\ UNCHANGED <<child, engine, last, pager, looks>>
  BY DEF P!Close
<1>2. probe \in Closes /\ probe.sent <= probe.before.n /\ probe.before.n <= probe.after.n
  BY <1>1 DEF ProbeInv, ProbeOK, Idles, Peeks, Peeked, Sents
<1>3. /\ probe.count \in Nat /\ probe.capture \in Captures /\ probe.before \in Screen
      /\ probe.after \in Screen /\ probe.from \in Nat /\ probe.sent \in Nat
  BY <1>2 DEF Closes
<1>4. probe.before.n \in Nat /\ probe.after.n \in Nat
  BY <1>3 DEF Screen
<1>5. PICK l \in GrownFrom(log) : l = P!Absorbed
  BY AbsorbedGrows, ProbeFacts
<1>6. CASE P!Proven(probe.from, P!Absorbed.evicted)
  <2>1. /\ probed' = <<P!Answer("drive", probe.before, probe.after, l)>>
        /\ probe' = IF probe.capture = "delay" THEN [pc |-> "sample", count |-> probe.count]
                    ELSE [P!NoProbe EXCEPT !.count = probe.count]
    BY <1>5, <1>6 DEF P!Close, P!Before
  <2>2. l \in Log /\ l.evicted <= probe.from
    BY <1>5, <1>6 DEF GrownFrom, P!Proven
  <2>3. AnswerOK(P!Answer("drive", probe.before, probe.after, l))
    BY <1>2, <1>3, <1>4, <2>2, AnswerIs
  <2>4. probed' # <<>> /\ \E a \in Answers : probed' = <<a>> /\ AnswerOK(a)
    <3>1. PICK a : a = P!Answer("drive", probe.before, probe.after, l)
      OBVIOUS
    <3>2. probed' = <<a>> /\ AnswerOK(a)
      BY <2>1, <2>3, <3>1
    <3> QED
      BY <3>2 DEF AnswerOK
  <2>5. probe' \in Idles
    BY <1>3, <2>1 DEF P!NoProbe, Idles
  <2>6. ProbeOK(probe', engine.n)
    BY <2>5 DEF ProbeOK
  <2> QED
    BY <1>1, <2>4, <2>6, AbsorbKeeps
<1>7. CASE ~P!Proven(probe.from, P!Absorbed.evicted)
  <2>1. probed' = probed /\ probe' = [P!NoProbe EXCEPT !.count = probe.count]
    BY <1>7 DEF P!Close
  <2>2. probe' \in Idles /\ probe'.pc = "no"
    BY <1>3, <2>1 DEF P!NoProbe, Idles
  <2>3. ProbeOK(probe', engine.n) /\ probe'.pc # "sample"
    BY <2>2 DEF ProbeOK
  <2> QED
    BY <1>1, <2>1, <2>3, AbsorbKeeps DEF ProbeInv
<1> QED
  BY <1>6, <1>7

\* One more observation.
LEMMA SampleKeeps ==
  ASSUME ProbeBounds, ProbeInv, P!Sample
  PROVE  ProbeInv'
<1>1. /\ probe.pc = "sample" /\ P!Observe /\ UNCHANGED <<child, pager, looks>>
      /\ probed' = <<[probed[1] EXCEPT !.frames = {P!Parsed.n}]>>
      /\ probe' = [P!NoProbe EXCEPT !.count = probe.count]
  BY DEF P!Sample
<1>2. P!Parsed \in Screen /\ P!Parsed.n \in Nat /\ log \in Log
  BY ParsedIs, ProbeFacts
<1>3. PICK a \in Answers : probed = <<a>> /\ AnswerOK(a)
  BY <1>1 DEF ProbeInv
<1>4. PICK b \in Answers : b = [a EXCEPT !.frames = {P!Parsed.n}]
  BY <1>2, <1>3 DEF Answers
<1>5. AnswerOK(b)
  <2>1. /\ b.kind = a.kind /\ b.events = a.events /\ b.from = a.from /\ b.to = a.to
        /\ b.before = a.before /\ b.after = a.after /\ b.sent = a.sent
    BY <1>3, <1>4 DEF Answers
  <2> QED
    BY <1>3, <1>4, <2>1 DEF AnswerOK
<1>6. probed' = <<b>>
  <2>1. probed[1] = a
    BY <1>3
  <2> QED
    BY <1>1, <1>4, <2>1
<1>7. P!Pump /\ log' \in GrownFrom(log) /\ last' \in OneOf(Screen)
  BY <1>1, <1>2, EmittedGrows DEF P!Observe, OneOf
<1>8. probe.count \in Nat
  BY <1>1 DEF ProbeInv, ProbeOK, Idles, Peeks, Peeked, Sents, Closes
<1>9. probe' \in Idles /\ probe'.pc = "no"
  BY <1>1, <1>8 DEF P!NoProbe, Idles
<1>10. ProbeOK(probe', P!Parsed.n) /\ probe'.pc # "sample"
  BY <1>9 DEF ProbeOK
<1> QED
  BY <1>1, <1>5, <1>6, <1>7, <1>10, PumpKeeps

\* The greatest of some numbers.
LEMMA Greatest ==
  ASSUME NEW n \in Nat, NEW T \in SUBSET (0 .. n), T # {}
  PROVE  \E x \in T : \A y \in T : y <= x
<1> DEFINE U == {n - x : x \in T}
<1>1. U \in SUBSET Nat /\ U # {}
  <2>1. \A x \in T : n - x \in Nat
    OBVIOUS
  <2>2. PICK x \in T : TRUE
    OBVIOUS
  <2>3. n - x \in U
    OBVIOUS
  <2> QED
    BY <2>1, <2>3
<1>2. PICK u \in U : \A v \in U : u <= v
  <2> HIDE DEF U
  <2> QED
    BY <1>1, LeastNat
<1>3. PICK x \in T : u = n - x
  OBVIOUS
<1>4. ASSUME NEW y \in T PROVE y <= x
  <2>1. n - y \in U
    OBVIOUS
  <2>2. n - x <= n - y
    BY <1>2, <1>3, <2>1
  <2>3. x \in Nat /\ y \in Nat
    OBVIOUS
  <2> HIDE DEF U
  <2> QED
    BY <2>2, <2>3
<1> QED
  BY <1>4

\* A page: none of what was asked for is passed that the ring still holds.
LEMMA HistoryKeeps ==
  ASSUME ProbeBounds, ProbeInv, P!History(P!Asked)
  PROVE  ProbeInv'
<1>1. PICK limit \in Limits :
        pager' = [cursor |-> P!CursorAfter(P!Page(P!Asked, limit)),
                  served |-> pager.served \cup P!Page(P!Asked, limit),
                  told |-> IF P!Gap(pager.cursor) THEN log.evicted ELSE pager.told]
  BY DEF P!History
<1>2. UNCHANGED <<child, wire, engine, log, last, probe, probed, looks>>
  BY DEF P!History
<1> DEFINE match == {n \in P!Since(pager.cursor) : log.events[n] \in P!Asked}
           page == P!Page(P!Asked, limit)
           upto == P!CursorAfter(page)
<1>3. /\ Len(log.events) \in Nat /\ log.evicted \in Nat /\ limit \in Nat
      /\ pager \in [cursor : Nat, served : SUBSET Nat, told : Nat]
      /\ pager.cursor <= Len(log.events) /\ pager.told <= log.evicted
      /\ \A n \in 1 .. pager.cursor : log.events[n] \in P!Asked => n \in pager.served \/ n <= pager.told
  BY ProbeFacts DEF PagerOK, ProbeBounds
<1>4. pager.cursor \in Nat /\ pager.served \in SUBSET Nat /\ pager.told \in Nat
  BY <1>3
<1>5. match \in SUBSET (0 .. Len(log.events)) /\ \A n \in match : n \in Nat /\ n > pager.cursor
  BY <1>3, <1>4 DEF P!Since, P!Retained
<1>6. page = {n \in match : Cardinality({m \in match : m <= n}) <= limit}
  BY DEF P!Page, P!Cardinality, Cardinality
<1>7. page \in SUBSET match
  BY <1>6
<1> HIDE DEF page
<1>8. /\ upto \in Nat /\ upto <= Len(log.events) /\ upto >= pager.cursor
      /\ upto # pager.cursor => upto \in page
  <2>1. CASE page = {}
    BY <1>3, <1>4, <2>1 DEF P!CursorAfter
  <2>2. CASE page # {}
    <3>1. page \in SUBSET (0 .. Len(log.events))
      BY <1>5, <1>7
    <3>2. \E n \in page : \A m \in page : m <= n
      <4> HIDE DEF match, upto
      <4> QED
        BY <1>3, <2>2, <3>1, Greatest
    <3>3. upto \in page
      BY <2>2, <3>2 DEF P!CursorAfter
    <3>4. upto \in match
      BY <1>7, <3>3
    <3> HIDE DEF match, upto
    <3>5. upto \in Nat /\ upto > pager.cursor /\ upto <= Len(log.events)
      BY <1>3, <1>5, <3>1, <3>3, <3>4
    <3> QED
      BY <1>4, <3>3, <3>5
  <2> QED
    BY <2>1, <2>2
<1> HIDE DEF upto
<1>9. PICK told1 \in Nat : told1 = IF P!Gap(pager.cursor) THEN log.evicted ELSE pager.told
  BY <1>3, <1>4
<1>10. told1 <= log.evicted /\ pager.told <= told1 /\ (pager.cursor < log.evicted => told1 = log.evicted)
  BY <1>3, <1>4, <1>9 DEF P!Gap
<1>11. pager' = [cursor |-> upto, served |-> pager.served \cup page, told |-> told1]
  BY <1>1, <1>9 DEF upto, page
<1>12. ASSUME NEW n \in 1 .. upto, log.events[n] \in P!Asked
       PROVE  n \in pager.served \cup page \/ n <= told1
  <2>1. CASE n <= pager.cursor
    <3>1. n \in 1 .. pager.cursor
      BY <1>4, <1>8, <2>1
    <3> QED
      BY <1>3, <1>4, <1>10, <1>12, <3>1
  <2>2. CASE n > pager.cursor /\ n <= log.evicted
    BY <1>3, <1>4, <1>8, <1>10, <2>2
  <2>3. CASE n > pager.cursor /\ ~(n <= log.evicted)
    <3>1. n \in match
      BY <1>3, <1>4, <1>8, <1>12, <2>3 DEF P!Since, P!Retained
    <3>2. upto \in page /\ n <= upto
      BY <1>4, <1>8, <2>3
    <3> DEFINE small == {m \in match : m <= n}
               big == {m \in match : m <= upto}
    <3>3. big \in SUBSET (0 .. Len(log.events)) /\ small \in SUBSET big
      <4>1. \A m \in match : m \in Nat
        BY <1>5
      <4> HIDE DEF match
      <4>2. \A m \in match : m <= n => m <= upto
        BY <1>8, <3>2, <4>1
      <4> QED
        BY <1>5, <4>2
    <3>4. Cardinality(big) <= limit
      BY <1>6, <3>2 DEF page
    <3> HIDE DEF match, small, big
    <3>5. IsFiniteSet(0 .. Len(log.events))
      <4>1. 0 \in Int /\ Len(log.events) \in Int
        BY <1>3
      <4> QED
        BY <4>1, FS_Interval
    <3>6. IsFiniteSet(big)
      BY <3>3, <3>5, FS_Subset
    <3>7. IsFiniteSet(small) /\ Cardinality(small) <= Cardinality(big)
      BY <3>3, <3>6, FS_Subset
    <3>8. Cardinality(small) \in Nat /\ Cardinality(big) \in Nat
      BY <3>6, <3>7, FS_CardinalityType
    <3>9. Cardinality(small) <= limit
      BY <1>3, <3>4, <3>7, <3>8
    <3>10. n \in page
      BY <1>6, <3>1, <3>9 DEF small, page
    <3> QED
      BY <3>10
  <2> QED
    BY <1>3, <1>4, <1>8, <2>1, <2>2, <2>3
<1>13. PagerOK(log, pager')
  <2>1. page \in SUBSET Nat
    BY <1>5, <1>7
  <2>2. PICK srv \in SUBSET Nat : srv = pager.served \cup page
    BY <1>4, <2>1
  <2>3. pager' = [cursor |-> upto, served |-> srv, told |-> told1]
    BY <1>11, <2>2
  <2> QED
    BY <1>8, <1>10, <1>12, <2>2, <2>3 DEF PagerOK
<1> QED
  BY <1>2, <1>13 DEF ProbeInv

\* Every step keeps the invariant.
LEMMA ProbeNext ==
  ASSUME ProbeBounds, ProbeInv, [P!Next]_P!probeVars
  PROVE  ProbeInv'
<1>1. CASE UNCHANGED P!probeVars
  BY <1>1 DEF P!probeVars, ProbeInv
<1>2. CASE P!Next
  BY <1>2, WriteKeeps, HandKeeps, DeclareKeeps, LookKeeps, BeginKeeps, PeekKeeps, AbsorbsKeep,
     DriftLookKeeps, SendKeeps, SettleKeeps, CloseKeeps, SampleKeeps, HistoryKeeps DEF P!Next
<1> QED
  BY <1>1, <1>2

-----------------------------------------------------------------------------
(* Intents: plans that are shown, stored and executed.                     *)

\* A ring of controls of which some take the focus, a store with room, and
\* targets of the ways a request has to name a control.
IntentBounds ==
  /\ Controls \in Seq(I!Ids) /\ Controls # <<>>
  /\ Focusable \subseteq I!Ids /\ Focusable # {}
  /\ Homes \in [I!Ids -> I!Range1(Homes)]
  /\ \A t \in Targets : t.by \in {"id", "text", "role", "focused"}
  /\ PlanCap \in Nat \ {0} /\ MaxPlans \in Nat

-----------------------------------------------------------------------------
(* The elements of a sequence that are in a set.                           *)

\* What is kept so far: elements of the first n, and of these all in the set.
Keeps(s, S, n, c) ==
  /\ Len(c) <= n
  /\ \A k \in 1 .. Len(c) : c[k] \in S /\ \E m \in 1 .. n : s[m] = c[k]
  /\ \A m \in 1 .. n : s[m] \in S => \E k \in 1 .. Len(c) : c[k] = s[m]

\* One more element.
LEMMA KeepsOn ==
  ASSUME NEW T, NEW S, NEW s \in Seq(T), NEW n \in 1 .. Len(s), NEW c \in Seq(T), Keeps(s, S, n - 1, c)
  PROVE  LET d == IF s[n] \in S THEN Append(c, s[n]) ELSE c IN d \in Seq(T) /\ Keeps(s, S, n, d)
<1> DEFINE d == IF s[n] \in S THEN Append(c, s[n]) ELSE c
<1> SUFFICES d \in Seq(T) /\ Keeps(s, S, n, d)
  OBVIOUS
<1>1. /\ n \in Nat /\ n - 1 \in Nat /\ Len(c) \in Nat /\ s[n] \in T
      /\ \A m \in 1 .. n : m = n \/ m \in 1 .. n - 1
      /\ \A m \in 1 .. n - 1 : m \in 1 .. n
  OBVIOUS
<1>2. CASE s[n] \notin S
  <2>1. d = c
    BY <1>2
  <2>2. Keeps(s, S, n, c)
    <3>1. Len(c) <= n
      BY <1>1 DEF Keeps
    <3>2. ASSUME NEW k \in 1 .. Len(c) PROVE c[k] \in S /\ \E m \in 1 .. n : s[m] = c[k]
      BY <1>1 DEF Keeps
    <3>3. ASSUME NEW m \in 1 .. n, s[m] \in S PROVE \E k \in 1 .. Len(c) : c[k] = s[m]
      <4>1. m \in 1 .. n - 1
        BY <1>1, <1>2, <3>3
      <4> QED
        BY <3>3, <4>1 DEF Keeps
    <3> QED
      BY <3>1, <3>2, <3>3 DEF Keeps
  <2> QED
    BY <2>1, <2>2
<1>3. CASE s[n] \in S
  <2> DEFINE e == Append(c, s[n])
  <2>1. /\ e \in Seq(T) /\ Len(e) = Len(c) + 1 /\ e[Len(c) + 1] = s[n]
        /\ \A k \in 1 .. Len(c) : e[k] = c[k]
    BY <1>1, AppendProperties
  <2>2. d = e
    BY <1>3
  <2> HIDE DEF e, d
  <2>3. \A k \in 1 .. Len(e) : k = Len(c) + 1 \/ k \in 1 .. Len(c)
    BY <1>1, <2>1
  <2>4. \A k \in 1 .. Len(c) : k \in 1 .. Len(e)
    BY <1>1, <2>1
  <2>5. Len(c) + 1 \in 1 .. Len(e) /\ n \in 1 .. n
    BY <1>1, <2>1
  <2>6. Len(e) <= n
    BY <1>1, <2>1 DEF Keeps
  <2>7. \A k \in 1 .. Len(e) : e[k] \in S /\ \E m \in 1 .. n : s[m] = e[k]
    BY <1>1, <1>3, <2>1, <2>3, <2>5 DEF Keeps
  <2>8. \A m \in 1 .. n : s[m] \in S => \E k \in 1 .. Len(e) : e[k] = s[m]
    BY <1>1, <2>1, <2>4, <2>5 DEF Keeps
  <2>9. Keeps(s, S, n, e)
    BY <2>6, <2>7, <2>8 DEF Keeps
  <2> QED
    BY <2>1, <2>2, <2>9
<1> QED
  BY <1>2, <1>3

\* Kept gives the elements that are in the set.
LEMMA KeptGives ==
  ASSUME NEW T, NEW S, NEW s \in Seq(T)
  PROVE  I!Kept(s, S) \in Seq(T) /\ Keeps(s, S, Len(s), I!Kept(s, S))
<1> DEFINE upto == Len(s)
           f == CHOOSE g : g = [n \in 0 .. upto |->
                  IF n = 0 THEN <<>> ELSE IF s[n] \in S THEN Append(g[n - 1], s[n]) ELSE g[n - 1]]
           step == [p \in (1 .. upto) \X Seq(T) |-> IF s[p[1]] \in S THEN Append(p[2], s[p[1]]) ELSE p[2]]
           Good == {p \in (0 .. upto) \X Seq(T) : Keeps(s, S, p[1], p[2])}
<1>1. I!Kept(s, S) = f[upto]
  BY DEF I!Kept
<1>2. upto \in Nat /\ \A n \in 1 .. upto : s[n] \in T
  OBVIOUS
<1> HIDE DEF upto
<1>4. \A n \in 1 .. upto, c \in Seq(T) : step[<<n, c>>] = IF s[n] \in S THEN Append(c, s[n]) ELSE c
  OBVIOUS
<1>5. step \in [(1 .. upto) \X Seq(T) -> Seq(T)]
  <2>1. \A n \in 1 .. upto, c \in Seq(T) : (IF s[n] \in S THEN Append(c, s[n]) ELSE c) \in Seq(T)
    BY <1>2, SMTT(30)
  <2> QED
    BY <2>1
<1> HIDE DEF step
<1>6. f = [n \in 0 .. upto |->
             IF n = 0 THEN <<>> ELSE IF s[n] \in S THEN Append(f[n - 1], s[n]) ELSE f[n - 1]]
  <2>1. PICK g \in [0 .. upto -> Seq(T)] :
          \A i \in 0 .. upto : g[i] = IF i = 0 THEN <<>> ELSE step[<<i, g[i - 1]>>]
    <3>1. <<>> \in Seq(T)
      OBVIOUS
    <3>2. Scans(upto, Seq(T), <<>>, step)
      BY <1>2, <1>5, <3>1, ScanExists
    <3> QED
      BY <3>2 DEF Scans, IsScan
  <2>2. \A i \in 1 .. upto : g[i] = IF s[i] \in S THEN Append(g[i - 1], s[i]) ELSE g[i - 1]
    <3>1. \A i \in 1 .. upto : i \in 0 .. upto /\ i # 0 /\ i - 1 \in 0 .. upto
      BY <1>2
    <3> QED
      BY <1>4, <2>1, <3>1
  <2>3. g = [n \in 0 .. upto |->
               IF n = 0 THEN <<>> ELSE IF s[n] \in S THEN Append(g[n - 1], s[n]) ELSE g[n - 1]]
    <3>1. ASSUME NEW i \in 0 .. upto
          PROVE  g[i] = IF i = 0 THEN <<>> ELSE IF s[i] \in S THEN Append(g[i - 1], s[i]) ELSE g[i - 1]
      <4>1. i # 0 => i \in 1 .. upto
        BY <1>2
      <4> QED
        BY <2>1, <2>2, <4>1
    <3> QED
      BY <3>1
  <2> QED
    BY <2>3
<1> HIDE DEF f
<1>7. /\ f[0] = <<>>
      /\ \A i \in 1 .. upto : f[i] = IF s[i] \in S THEN Append(f[i - 1], s[i]) ELSE f[i - 1]
  <2>1. 0 \in 0 .. upto /\ \A i \in 1 .. upto : i \in 0 .. upto /\ i # 0
    BY <1>2
  <2> QED
    BY <1>6, <2>1
<1>8. <<0, f[0]>> \in Good
  <2>1. <<>> \in Seq(T) /\ Keeps(s, S, 0, <<>>)
    BY DEF Keeps
  <2>2. 0 \in 0 .. upto
    BY <1>2
  <2> QED
    BY <1>7, <2>1, <2>2
<1>9. ASSUME NEW n \in 1 .. upto, <<n - 1, f[n - 1]>> \in Good PROVE <<n, f[n]>> \in Good
  <2> DEFINE c == f[n - 1]
  <2>1. c \in Seq(T) /\ Keeps(s, S, n - 1, c)
    BY <1>9
  <2>2. f[n] = IF s[n] \in S THEN Append(c, s[n]) ELSE c
    BY <1>7
  <2> HIDE DEF c
  <2>3. n \in 1 .. Len(s)
    BY DEF upto
  <2>4. f[n] \in Seq(T) /\ Keeps(s, S, n, f[n])
    BY <2>1, <2>2, <2>3, KeepsOn
  <2>5. n \in 0 .. upto
    BY <1>2
  <2> QED
    BY <2>4, <2>5
<1> HIDE DEF Good
<1>10. \A i \in 0 .. upto : <<i, f[i]>> \in Good
  BY <1>2, <1>8, <1>9, ScanHolds
<1>11. <<upto, f[upto]>> \in Good
  BY <1>2, <1>10
<1> QED
  BY <1>1, <1>11 DEF Good, upto

-----------------------------------------------------------------------------
(* The ways through the focus graph.                                       *)

\* Of two ways the first is not after the second in their first k places.
Before(w, v, k) ==
  \/ \A i \in 1 .. k : w[i] = v[i]
  \/ \E n \in 1 .. k : w[n] < v[n] /\ \A i \in 1 .. n - 1 : w[i] = v[i]

\* Some of the ways are ways of h places, and one of them is the least.
LEMMA LeastIs ==
  ASSUME NEW h \in Nat, NEW ways \in SUBSET [1 .. h -> Nat], ways # {}
  PROVE  I!Least(ways) \in ways
<1> DEFINE First(k) == \E w \in ways : \A v \in ways : Before(w, v, k)
           Good == {k \in 0 .. h : First(k)}
<1>1. 0 \in Good
  <2>1. PICK w \in ways : TRUE
    OBVIOUS
  <2>2. \A v \in ways : Before(w, v, 0)
    BY DEF Before
  <2> QED
    BY <2>2
<1>2. ASSUME NEW k \in 0 .. h - 1, k \in Good PROVE k + 1 \in Good
  <2>1. PICK w \in ways : \A v \in ways : Before(w, v, k)
    BY <1>2
  <2> DEFINE alike == {v \in ways : \A i \in 1 .. k : w[i] = v[i]}
             T == {v[k + 1] : v \in alike}
  <2>2. k \in Nat /\ k + 1 \in 1 .. h /\ k + 1 \in 0 .. h /\ \A i \in 1 .. k : i \in 1 .. h
    OBVIOUS
  <2>3. T \in SUBSET Nat /\ T # {}
    <3>1. w \in alike
      OBVIOUS
    <3>2. \A v \in alike : v[k + 1] \in Nat
      BY <2>2
    <3> QED
      BY <3>1, <3>2
  <2>4. PICK x \in T : \A y \in T : x <= y
    BY <2>3, LeastNat
  <2>5. PICK u \in alike : u[k + 1] = x
    BY <2>4
  <2>6. u \in ways /\ \A i \in 1 .. k : w[i] = u[i]
    OBVIOUS
  <2>7. ASSUME NEW v \in ways PROVE Before(u, v, k + 1)
    <3>1. CASE \A i \in 1 .. k : w[i] = v[i]
      <4>1. v[k + 1] \in T
        BY <3>1
      <4>2. u[k + 1] <= v[k + 1] /\ u[k + 1] \in Nat /\ v[k + 1] \in Nat
        BY <2>3, <2>4, <2>5, <4>1
      <4>3. \A i \in 1 .. k : u[i] = v[i]
        BY <2>6, <3>1
      <4>4. \A i \in 1 .. k + 1 : i = k + 1 \/ i \in 1 .. k
        BY <2>2
      <4>5. CASE u[k + 1] = v[k + 1]
        BY <4>3, <4>4, <4>5 DEF Before
      <4>6. CASE u[k + 1] < v[k + 1]
        <5>1. k + 1 \in 1 .. k + 1 /\ k + 1 - 1 = k
          BY <2>2
        <5> QED
          BY <4>3, <4>6, <5>1 DEF Before
      <4> QED
        BY <4>2, <4>5, <4>6, SMTT(30)
    <3>2. CASE ~\A i \in 1 .. k : w[i] = v[i]
      <4>1. PICK n \in 1 .. k : w[n] < v[n] /\ \A i \in 1 .. n - 1 : w[i] = v[i]
        BY <2>1, <3>2 DEF Before
      <4>2. n \in 1 .. k + 1 /\ \A i \in 1 .. n - 1 : i \in 1 .. k
        BY <2>2
      <4>3. u[n] < v[n] /\ \A i \in 1 .. n - 1 : u[i] = v[i]
        BY <2>6, <4>1, <4>2
      <4> QED
        BY <4>2, <4>3 DEF Before
    <3> QED
      BY <3>1, <3>2
  <2> HIDE DEF alike, T
  <2> QED
    BY <2>2, <2>6, <2>7
<1> HIDE DEF Good
<1>3. h \in Good
  BY <1>1, <1>2, CountsTo
<1>4. PICK w \in ways : \A v \in ways : Before(w, v, h)
  BY <1>3 DEF Good
<1>5. \A v \in ways \ {w} : \E n \in DOMAIN w : w[n] < v[n] /\ \A k \in 1 .. n - 1 : w[k] = v[k]
  <2> SUFFICES ASSUME NEW v \in ways \ {w}
               PROVE  \E n \in DOMAIN w : w[n] < v[n] /\ \A k \in 1 .. n - 1 : w[k] = v[k]
    OBVIOUS
  <2>1. w \in [1 .. h -> Nat] /\ v \in [1 .. h -> Nat] /\ v # w
    OBVIOUS
  <2>2. ~\A i \in 1 .. h : w[i] = v[i]
    BY <2>1
  <2> QED
    BY <1>4, <2>1, <2>2 DEF Before
<1> QED
  BY <1>5 DEF I!Least

\* There are finitely many controls.
LEMMA IdsFinite ==
  ASSUME IntentBounds
  PROVE  IsFiniteSet(I!Ids) /\ Cardinality(I!Ids) \in Nat
<1>1. I!Ids = {Controls[n] : n \in 1 .. Len(Controls)}
  BY DEF IntentBounds, I!Ids, I!Range1
<1>2. Len(Controls) \in Nat
  BY DEF IntentBounds
<1>3. IsFiniteSet(1 .. Len(Controls))
  <2>1. 1 \in Int /\ Len(Controls) \in Int
    BY <1>2
  <2> QED
    BY <2>1, FS_Interval
<1> DEFINE g == [n \in 1 .. Len(Controls) |-> Controls[n]]
<1>4. g \in Surjection(1 .. Len(Controls), I!Ids)
  BY <1>1 DEF Surjection
<1> QED
  BY <1>3, <1>4, FS_Surjection, FS_CardinalityType

Spots == I!Ids \cup {Nowhere}
Vias == {"tab", "shift+tab"}
Edge == [from : Spots, to : Spots, via : Vias]

\* A way of h edges from one place to another.
Leads(g, from, to, h, way) ==
  /\ g[way[1]].from = from /\ g[way[h]].to = to
  /\ \A n \in 1 .. h - 1 : g[way[n]].to = g[way[n + 1]].from

\* A route is the moves of a way that was seen.
LEMMA RouteIs ==
  ASSUME NEW from, NEW to, graph \in Seq(Edge), IntentBounds, I!Route(from, to) # I!None
  PROVE  \E h \in Nat \ {0} : \E way \in [1 .. h -> DOMAIN graph] :
           Leads(graph, from, to, h, way) /\ I!Route(from, to) = <<[n \in 1 .. h |-> graph[way[n]].via]>>
<1> DEFINE hops == {h \in 1 .. Cardinality(I!Ids) - 1 : I!Ways(from, to, h) # {}}
           h == CHOOSE i \in hops : \A k \in hops : i <= k
           way == I!Least(I!Ways(from, to, h))
<1>1. hops # {} /\ I!Route(from, to) = <<[n \in DOMAIN way |-> graph[way[n]].via]>>
  BY DEF I!Route, I!Cardinality, Cardinality
<1>2. hops \in SUBSET Nat /\ \A i \in hops : i # 0
  BY IdsFinite
<1>3. \E i \in hops : \A k \in hops : i <= k
  BY <1>1, <1>2, LeastNat
<1>4. h \in hops
  BY <1>3
<1>5. h \in Nat \ {0} /\ I!Ways(from, to, h) # {}
  BY <1>2, <1>4
<1> HIDE DEF h, hops
<1>6. I!Ways(from, to, h) \in SUBSET [1 .. h -> Nat]
  <2>1. DOMAIN graph = 1 .. Len(graph)
    OBVIOUS
  <2>2. \A i \in DOMAIN graph : i \in Nat
    BY <2>1
  <2>3. \A w \in [1 .. h -> DOMAIN graph] : w \in [1 .. h -> Nat]
    BY <2>2
  <2> QED
    BY <2>3 DEF I!Ways
<1>7. way \in I!Ways(from, to, h)
  BY <1>5, <1>6, LeastIs
<1> HIDE DEF way
<1>8. way \in [1 .. h -> DOMAIN graph] /\ Leads(graph, from, to, h, way)
  <2>1. /\ way \in [1 .. h -> DOMAIN graph]
        /\ h > 0 => graph[way[1]].from = from /\ graph[way[h]].to = to
        /\ \A n \in 1 .. h - 1 : graph[way[n]].to = graph[way[n + 1]].from
    BY <1>7 DEF I!Ways
  <2>2. h > 0
    BY <1>5
  <2> QED
    BY <2>1, <2>2 DEF Leads
<1>9. DOMAIN way = 1 .. h
  BY <1>8
<1>10. I!Route(from, to) = <<[n \in 1 .. h |-> graph[way[n]].via]>>
  BY <1>1, <1>9
<1> QED
  BY <1>5, <1>8, <1>10

Payloads ==
  {[key |-> k] : k \in {"space", "text", "enter"}} \cup {[key |-> "click", row |-> r] : r \in I!Ids}
Steps == {I!MoveFocus(v) : v \in Vias} \cup {I!AssertFocus} \cup {I!Send(p) : p \in Payloads}

\* What some steps lead to, through the edges of a graph.
ReachedIn(g, from, steps) ==
  LET at[n \in 0 .. Len(steps)] ==
        IF n = 0 THEN {from} ELSE IF steps[n].step # "move" THEN at[n - 1]
        ELSE {g[e].to : e \in {e \in DOMAIN g : g[e].from \in at[n - 1] /\ g[e].via = steps[n].key}} IN
  at[Len(steps)]

\* Steps that begin with the moves of a way lead to its end.
LEMMA ReachedIs ==
  ASSUME NEW g \in Seq(Edge), NEW steps \in Seq(Steps), NEW from, NEW to,
         NEW h \in 1 .. Len(steps), NEW way \in [1 .. h -> DOMAIN g], Leads(g, from, to, h, way),
         \A n \in 1 .. h : steps[n].step = "move" /\ steps[n].key = g[way[n]].via,
         \A n \in h + 1 .. Len(steps) : steps[n].step # "move"
  PROVE  to \in ReachedIn(g, from, steps)
<1> DEFINE upto == Len(steps)
           Ends == {from} \cup {g[e].to : e \in DOMAIN g}
           Next1(n, Rs) == {g[e].to : e \in {e \in DOMAIN g : g[e].from \in Rs /\ g[e].via = steps[n].key}}
           f == CHOOSE at : at = [n \in 0 .. upto |->
                  IF n = 0 THEN {from} ELSE IF steps[n].step # "move" THEN at[n - 1] ELSE Next1(n, at[n - 1])]
           step == [p \in (1 .. upto) \X SUBSET Ends |->
                      IF steps[p[1]].step # "move" THEN p[2] ELSE Next1(p[1], p[2])]
           Holds1(i, Rs) ==
             /\ i = 0 => from \in Rs
             /\ i \in 1 .. h => g[way[i]].to \in Rs
             /\ i > h => to \in Rs
           Good == {p \in (0 .. upto) \X SUBSET Ends : Holds1(p[1], p[2])}
<1>1. ReachedIn(g, from, steps) = f[upto]
  BY DEF ReachedIn
<1>2. upto \in Nat /\ h \in Nat /\ h >= 1 /\ h <= upto
  OBVIOUS
<1>3. \A n \in 1 .. upto, Rs \in SUBSET Ends : Next1(n, Rs) \in SUBSET Ends
  OBVIOUS
<1>4. \A n \in 1 .. upto, Rs \in SUBSET Ends :
        step[<<n, Rs>>] = IF steps[n].step # "move" THEN Rs ELSE Next1(n, Rs)
  OBVIOUS
<1>5. step \in [(1 .. upto) \X SUBSET Ends -> SUBSET Ends]
  BY <1>3
<1>6. {from} \in SUBSET Ends
  OBVIOUS
<1>7. \A e \in DOMAIN g, n \in 1 .. upto, Rs \in SUBSET Ends :
        g[e].from \in Rs /\ g[e].via = steps[n].key => g[e].to \in Next1(n, Rs)
  OBVIOUS
<1> HIDE DEF step, Next1, Ends, upto
<1>8. f = [n \in 0 .. upto |->
             IF n = 0 THEN {from} ELSE IF steps[n].step # "move" THEN f[n - 1] ELSE Next1(n, f[n - 1])]
  <2>1. PICK at \in [0 .. upto -> SUBSET Ends] :
          \A i \in 0 .. upto : at[i] = IF i = 0 THEN {from} ELSE step[<<i, at[i - 1]>>]
    <3>1. Scans(upto, SUBSET Ends, {from}, step)
      BY <1>2, <1>5, <1>6, ScanExists
    <3> QED
      BY <3>1 DEF Scans, IsScan
  <2>2. \A i \in 1 .. upto : at[i] = IF steps[i].step # "move" THEN at[i - 1] ELSE Next1(i, at[i - 1])
    <3>1. \A i \in 1 .. upto : i \in 0 .. upto /\ i # 0 /\ i - 1 \in 0 .. upto
      BY <1>2
    <3> QED
      BY <1>4, <2>1, <3>1
  <2>3. at = [n \in 0 .. upto |->
               IF n = 0 THEN {from} ELSE IF steps[n].step # "move" THEN at[n - 1] ELSE Next1(n, at[n - 1])]
    <3>1. ASSUME NEW i \in 0 .. upto
          PROVE  at[i] = IF i = 0 THEN {from}
                         ELSE IF steps[i].step # "move" THEN at[i - 1] ELSE Next1(i, at[i - 1])
      <4>1. i # 0 => i \in 1 .. upto
        BY <1>2
      <4> QED
        BY <2>1, <2>2, <4>1
    <3> QED
      BY <3>1
  <2> QED
    BY <2>3
<1> HIDE DEF f
<1>9. /\ f[0] = {from}
      /\ \A i \in 1 .. upto : f[i] = IF steps[i].step # "move" THEN f[i - 1] ELSE Next1(i, f[i - 1])
  <2>1. 0 \in 0 .. upto /\ \A i \in 1 .. upto : i \in 0 .. upto /\ i # 0
    BY <1>2
  <2> QED
    BY <1>8, <2>1
<1>10. <<0, f[0]>> \in Good
  <2>1. 0 \in 0 .. upto /\ ~(0 > h) /\ 0 \notin 1 .. h
    BY <1>2
  <2> QED
    BY <1>6, <1>9, <2>1
<1>11. ASSUME NEW n \in 1 .. upto, <<n - 1, f[n - 1]>> \in Good PROVE <<n, f[n]>> \in Good
  <2> DEFINE Rs == f[n - 1]
  <2>1. Rs \in SUBSET Ends /\ Holds1(n - 1, Rs)
    BY <1>11
  <2>2. f[n] = IF steps[n].step # "move" THEN Rs ELSE Next1(n, Rs)
    BY <1>9
  <2> HIDE DEF Rs
  <2>3. n \in 0 .. upto /\ n # 0 /\ n \in Nat
    BY <1>2
  <2>4. CASE n \in 1 .. h
    <3>1. f[n] = Next1(n, Rs)
      BY <2>2, <2>4
    <3>2. way[n] \in DOMAIN g /\ g[way[n]].via = steps[n].key
      BY <2>4
    <3>3. g[way[n]].from \in Rs
      <4>1. CASE n = 1
        BY <2>1, <4>1 DEF Leads
      <4>2. CASE n # 1
        <5>1. n - 1 \in 1 .. h - 1 /\ n - 1 \in 1 .. h /\ n - 1 + 1 = n
          BY <1>2, <2>4, <4>2
        <5> QED
          BY <2>1, <5>1 DEF Leads
      <4> QED
        BY <4>1, <4>2
    <3>4. g[way[n]].to \in f[n] /\ f[n] \in SUBSET Ends
      <4>1. Next1(n, Rs) \in SUBSET Ends
        BY <1>3, <2>1
      <4>2. g[way[n]].to \in Next1(n, Rs)
        BY <1>7, <2>1, <3>2, <3>3
      <4> QED
        BY <3>1, <4>1, <4>2
    <3>5. ~(n > h)
      BY <1>2, <2>4
    <3> QED
      BY <2>3, <3>4, <3>5
  <2>5. CASE n \notin 1 .. h
    <3>1. n > h /\ n \in h + 1 .. Len(steps)
      BY <1>2, <2>3, <2>5 DEF upto
    <3>2. f[n] = Rs
      BY <2>2, <3>1
    <3>3. to \in Rs
      <4>1. CASE n - 1 = h
        <5>1. n - 1 \in 1 .. h
          BY <1>2, <4>1
        <5> QED
          BY <2>1, <4>1, <5>1 DEF Leads
      <4>2. CASE n - 1 # h
        <5>1. n - 1 > h
          BY <1>2, <2>3, <3>1, <4>2
        <5> QED
          BY <2>1, <5>1
      <4> QED
        BY <4>1, <4>2
    <3> QED
      BY <2>1, <2>3, <2>5, <3>2, <3>3
  <2> QED
    BY <2>4, <2>5
<1> HIDE DEF Good
<1>12. \A i \in 0 .. upto : <<i, f[i]>> \in Good
  BY <1>2, <1>10, <1>11, ScanHolds
<1>13. <<upto, f[upto]>> \in Good
  BY <1>2, <1>12
<1>14. to \in f[upto]
  <2>1. Holds1(upto, f[upto])
    BY <1>13 DEF Good
  <2>2. CASE upto = h
    <3>1. upto \in 1 .. h
      BY <1>2, <2>2
    <3> QED
      BY <2>1, <2>2, <3>1 DEF Leads
  <2>3. CASE upto # h
    <3>1. upto > h
      BY <1>2, <2>3
    <3> QED
      BY <2>1, <3>1
  <2> QED
    BY <2>2, <2>3
<1> QED
  BY <1>1, <1>14

-----------------------------------------------------------------------------
(* Plans.                                                                  *)

Tags == Labels \cup I!Range1(Homes)
Onto == {r \in [I!Ids -> I!Ids] : \A d \in I!Ids : \E c \in I!Ids : r[c] = d}
Frames == [focus : Spots, row : Onto, label : [I!Ids -> Tags]]

\* Steps that reach a control by moves that were seen, and then look.
Walks(g, from, to) ==
  {st \in Seq(Steps) :
     /\ Len(st) >= 1 /\ st[Len(st)] = I!AssertFocus
     /\ Len(st) > 1 => \E way \in [1 .. Len(st) - 1 -> DOMAIN g] :
          /\ Leads(g, from, to, Len(st) - 1, way)
          /\ \A n \in 1 .. Len(st) - 1 : st[n] = I!MoveFocus(g[way[n]].via)}

\* A payload comes frame and, if it is a key, after an assertion.
Guarded(verb, todo, armed) ==
  \A n \in 1 .. Len(todo) : todo[n].step = "act" =>
    /\ n = Len(todo)
    /\ verb \in I!KeyVerbs => armed \/ \E m \in 1 .. n - 1 : todo[m].step = "assert"

Plans ==
  {p \in [control : I!Ids, verb : Verbs, risk : I!Risks, steps : Seq(Steps)] :
     Guarded(p.verb, p.steps, FALSE)}

\* The moves of a plan lead from a focus to its control.
Proven(g, from, p) == p.steps[1].step = "move" => p.control \in ReachedIn(g, from, p.steps)

\* The three kinds of steps.
LEMMA StepFacts ==
  /\ I!AssertFocus \in Steps /\ I!AssertFocus.step = "assert"
  /\ \A v \in Vias : I!MoveFocus(v) \in Steps /\ I!MoveFocus(v).step = "move" /\ I!MoveFocus(v).key = v
  /\ \A p \in Payloads : I!Send(p) \in Steps /\ I!Send(p).step = "act" /\ I!Send(p).act = p
  /\ \A st \in Steps : \/ st = I!AssertFocus
                       \/ \E v \in Vias : st = I!MoveFocus(v)
                       \/ \E p \in Payloads : st = I!Send(p)
  BY DEF Steps, I!AssertFocus, I!MoveFocus, I!Send

\* The payload of a verb.
LEMMA PayloadIs ==
  ASSUME NEW face \in Frames, NEW verb, NEW c \in I!Ids
  PROVE  I!Payload(face, verb, c) \in Payloads
<1>1. face.row[c] \in I!Ids
  BY DEF Frames, Onto
<1> QED
  BY <1>1 DEF I!Payload, Payloads

\* The route to a control is a walk to it.
LEMMA FocusRouteIs ==
  ASSUME NEW face \in Frames, NEW c \in I!Ids, graph \in Seq(Edge), IntentBounds,
         I!FocusRoute(face, c) # I!None
  PROVE  \E st \in Walks(graph, face.focus, c) : I!FocusRoute(face, c) = <<st>>
<1>1. CASE face.focus = c
  <2> DEFINE st == <<I!AssertFocus>>
  <2>1. st \in Seq(Steps) /\ Len(st) = 1 /\ st[1] = I!AssertFocus
    BY StepFacts
  <2>2. I!FocusRoute(face, c) = <<st>>
    BY <1>1 DEF I!FocusRoute
  <2> HIDE DEF st
  <2>3. Len(st) >= 1 /\ ~(Len(st) > 1) /\ st[Len(st)] = I!AssertFocus
    BY <2>1
  <2>4. st \in Walks(graph, face.focus, c)
    BY <2>1, <2>3 DEF Walks
  <2> QED
    BY <2>2, <2>4
<1>2. CASE face.focus # c
  <2> DEFINE route == I!Route(face.focus, c)
             st == [n \in DOMAIN route[1] |-> I!MoveFocus(route[1][n])] \o <<I!AssertFocus>>
  <2>1. route # I!None /\ I!FocusRoute(face, c) = <<st>>
    BY <1>2 DEF I!FocusRoute, I!None
  <2>2. PICK h \in Nat \ {0} : \E way \in [1 .. h -> DOMAIN graph] :
               Leads(graph, face.focus, c, h, way) /\ route = <<[n \in 1 .. h |-> graph[way[n]].via]>>
    BY <2>1, RouteIs
  <2>3. PICK way \in [1 .. h -> DOMAIN graph] :
               Leads(graph, face.focus, c, h, way) /\ route = <<[n \in 1 .. h |-> graph[way[n]].via]>>
    BY <2>2
  <2> HIDE DEF route
  <2> DEFINE moves == [n \in 1 .. h |-> I!MoveFocus(graph[way[n]].via)]
  <2>4. \A n \in 1 .. h : graph[way[n]].via \in Vias
    <3>1. \A e \in DOMAIN graph : graph[e] \in Edge
      OBVIOUS
    <3>2. \A n \in 1 .. h : graph[way[n]] \in Edge
      BY <3>1
    <3> QED
      BY <3>2 DEF Edge
  <2>5. moves \in Seq(Steps) /\ Len(moves) = h
    <3>1. \A n \in 1 .. h : I!MoveFocus(graph[way[n]].via) \in Steps
      BY <2>4, StepFacts
    <3>2. moves \in [1 .. h -> Steps]
      BY <3>1
    <3> QED
      BY <3>2
  <2>6. route[1] = [n \in 1 .. h |-> graph[way[n]].via] /\ DOMAIN route[1] = 1 .. h
    BY <2>3
  <2>7. st = moves \o <<I!AssertFocus>>
    <3>1. \A n \in 1 .. h : route[1][n] = graph[way[n]].via
      BY <2>6
    <3>2. [n \in DOMAIN route[1] |-> I!MoveFocus(route[1][n])] = moves
      BY <2>6, <3>1
    <3> QED
      BY <3>2
  <2>8. \A n \in 1 .. h : moves[n] = I!MoveFocus(graph[way[n]].via)
    OBVIOUS
  <2> HIDE DEF moves, st
  <2>9. <<I!AssertFocus>> \in Seq(Steps) /\ Len(<<I!AssertFocus>>) = 1 /\ <<I!AssertFocus>>[1] = I!AssertFocus
    BY StepFacts
  <2>10. /\ st \in Seq(Steps) /\ Len(st) = h + 1 /\ st[h + 1] = I!AssertFocus
         /\ \A n \in 1 .. h : st[n] = moves[n]
    <3>1. /\ moves \o <<I!AssertFocus>> \in Seq(Steps)
          /\ Len(moves \o <<I!AssertFocus>>) = Len(moves) + Len(<<I!AssertFocus>>)
          /\ \A i \in 1 .. Len(moves) + Len(<<I!AssertFocus>>) :
               (moves \o <<I!AssertFocus>>)[i] =
                 IF i <= Len(moves) THEN moves[i] ELSE <<I!AssertFocus>>[i - Len(moves)]
      BY <2>5, <2>9, ConcatProperties
    <3>2. /\ h + 1 \in 1 .. h + 1 /\ ~(h + 1 <= h) /\ h + 1 - h = 1
          /\ \A n \in 1 .. h : n \in 1 .. h + 1 /\ n <= h
      OBVIOUS
    <3> QED
      BY <2>5, <2>7, <2>9, <3>1, <3>2
  <2>11. Len(st) - 1 = h /\ Len(st) >= 1
    BY <2>10
  <2>12. st \in Walks(graph, face.focus, c)
    BY <2>3, <2>8, <2>10, <2>11, ZenonT(30) DEF Walks
  <2> QED
    BY <2>1, <2>12
<1> QED
  BY <1>1, <1>2

\* A walk is guarded, whether a payload comes after it or not, and leads to
\* its end.
LEMMA WalkIs ==
  ASSUME NEW g \in Seq(Edge), NEW from, NEW to, NEW st \in Walks(g, from, to), NEW p \in Payloads, NEW verb,
         NEW all, all = st \/ all = st \o <<I!Send(p)>>
  PROVE  /\ all \in Seq(Steps) /\ Guarded(verb, all, FALSE)
         /\ all[1].step = "move" => to \in ReachedIn(g, from, all)
<1> DEFINE h == Len(st) - 1
<1>1. /\ st \in Seq(Steps) /\ Len(st) >= 1 /\ st[Len(st)] = I!AssertFocus
      /\ Len(st) > 1 => \E way \in [1 .. Len(st) - 1 -> DOMAIN g] :
           /\ Leads(g, from, to, Len(st) - 1, way)
           /\ \A n \in 1 .. Len(st) - 1 : st[n] = I!MoveFocus(g[way[n]].via)
  BY DEF Walks
<1>2. h \in Nat /\ Len(st) = h + 1 /\ \A n \in 1 .. Len(st) : n = h + 1 \/ n \in 1 .. h
  BY <1>1
<1> HIDE DEF h
<1>3. h > 0 => \E way \in [1 .. h -> DOMAIN g] :
        Leads(g, from, to, h, way) /\ \A n \in 1 .. h : st[n] = I!MoveFocus(g[way[n]].via)
  <2>1. h = Len(st) - 1 /\ (h > 0 => Len(st) > 1)
    <3>1. Len(st) \in Nat
      BY <1>1
    <3> QED
      BY <3>1 DEF h
  <2> QED
    BY <1>1, <2>1
<1>4. \A e \in DOMAIN g : g[e].via \in Vias
  <2>1. \A e \in DOMAIN g : g[e] \in Edge
    OBVIOUS
  <2> QED
    BY <2>1 DEF Edge
<1>5. \A n \in 1 .. h : st[n].step = "move"
  <2> SUFFICES ASSUME NEW n \in 1 .. h PROVE st[n].step = "move"
    OBVIOUS
  <2>1. h > 0
    BY <1>2
  <2>2. PICK way \in [1 .. h -> DOMAIN g] : \A i \in 1 .. h : st[i] = I!MoveFocus(g[way[i]].via)
    BY <1>3, <2>1
  <2> QED
    BY <1>4, <2>2, StepFacts
<1>6. /\ all \in Seq(Steps) /\ Len(all) \in {h + 1, h + 2}
      /\ \A n \in 1 .. h + 1 : all[n] = st[n]
      /\ Len(all) = h + 2 => all[h + 2].step = "act"
  <2>1. CASE all = st
    BY <1>1, <1>2, <2>1
  <2>2. CASE all = st \o <<I!Send(p)>>
    <3>1. <<I!Send(p)>> \in Seq(Steps) /\ Len(<<I!Send(p)>>) = 1 /\ <<I!Send(p)>>[1].step = "act"
      BY StepFacts
    <3>2. /\ all \in Seq(Steps) /\ Len(all) = Len(st) + Len(<<I!Send(p)>>)
          /\ \A i \in 1 .. Len(st) + Len(<<I!Send(p)>>) :
               all[i] = IF i <= Len(st) THEN st[i] ELSE <<I!Send(p)>>[i - Len(st)]
      BY <1>1, <2>2, <3>1, ConcatProperties
    <3>3. /\ Len(all) = h + 2 /\ h + 2 \in 1 .. h + 2 /\ ~(h + 2 <= h + 1) /\ h + 2 - (h + 1) = 1
          /\ \A n \in 1 .. h + 1 : n \in 1 .. h + 2 /\ n <= h + 1
      BY <1>2, <3>1, <3>2
    <3>4. Len(st) + Len(<<I!Send(p)>>) = h + 2
      BY <1>2, <3>1
    <3> QED
      BY <1>2, <3>1, <3>2, <3>3, <3>4
  <2> QED
    BY <2>1, <2>2
<1>7. /\ h + 1 \in 1 .. h + 1 /\ all[h + 1].step = "assert"
      /\ \A n \in 1 .. h : n \in 1 .. h + 1 /\ all[n].step = "move" /\ all[n] = st[n]
  BY <1>1, <1>2, <1>5, <1>6, StepFacts
<1>8. Guarded(verb, all, FALSE)
  <2> SUFFICES ASSUME NEW n \in 1 .. Len(all), all[n].step = "act"
               PROVE  n = Len(all) /\ \E m \in 1 .. n - 1 : all[m].step = "assert"
    BY DEF Guarded
  <2>1. n \notin 1 .. h + 1
    <3>1. n \in 1 .. h => all[n].step = "move"
      BY <1>7
    <3>2. n = h + 1 => all[n].step = "assert"
      BY <1>7
    <3>3. n \in 1 .. h + 1 => n \in 1 .. h \/ n = h + 1
      BY <1>2
    <3> QED
      BY <3>1, <3>2, <3>3
  <2>2. n = h + 2 /\ Len(all) = h + 2 /\ h + 1 \in 1 .. n - 1
    BY <1>2, <1>6, <2>1
  <2> QED
    BY <1>7, <2>2
<1>9. ASSUME all[1].step = "move" PROVE to \in ReachedIn(g, from, all)
  <2>1. h > 0
    <3>1. h = 0 => all[1].step = "assert"
      BY <1>7
    <3> QED
      BY <1>2, <1>9, <3>1
  <2>2. PICK way \in [1 .. h -> DOMAIN g] :
          Leads(g, from, to, h, way) /\ \A n \in 1 .. h : st[n] = I!MoveFocus(g[way[n]].via)
    BY <1>3, <2>1
  <2>3. h \in 1 .. Len(all)
    BY <1>2, <1>6, <2>1
  <2>4. \A n \in 1 .. h : all[n].step = "move" /\ all[n].key = g[way[n]].via
    <3>1. \A n \in 1 .. h : g[way[n]].via \in Vias
      BY <1>4
    <3> QED
      BY <1>7, <2>2, <3>1, StepFacts
  <2>5. \A n \in h + 1 .. Len(all) : all[n].step # "move"
    <3>1. \A n \in h + 1 .. Len(all) : n = h + 1 \/ (n = h + 2 /\ Len(all) = h + 2)
      BY <1>2, <1>6
    <3> QED
      BY <1>6, <1>7, <3>1
  <2> QED
    BY <1>6, <2>2, <2>3, <2>4, <2>5, ReachedIs
<1> QED
  BY <1>6, <1>8, <1>9

\* A target names controls.
LEMMA NamedIs ==
  ASSUME NEW face, NEW target \in Targets, IntentBounds
  PROVE  I!Named(face, target) \subseteq I!Ids
<1>1. target.by \in {"id", "text", "role", "focused"}
  BY DEF IntentBounds
<1>2. CASE target.by = "id"
  BY <1>2 DEF I!Named
<1>3. CASE target.by = "text"
  BY <1>3 DEF I!Named
<1>4. CASE target.by = "role"
  BY <1>4 DEF I!Named
<1>5. CASE target.by = "focused"
  BY <1>5 DEF I!Named
<1> QED
  BY <1>1, <1>2, <1>3, <1>4, <1>5

\* What is planned, if anything.
LEMMA PlanIs ==
  ASSUME NEW face \in Frames, NEW target \in Targets, NEW verb \in Verbs, graph \in Seq(Edge), IntentBounds,
         I!Plan(face, target, verb) # I!None
  PROVE  \E p \in Plans : I!Plan(face, target, verb) = <<p>> /\ Proven(graph, face.focus, p)
<1> DEFINE named == I!Named(face, target)
           c == CHOOSE x \in named : TRUE
           pay == I!Payload(face, verb, c)
           route == I!FocusRoute(face, c)
           risk == I!ClassifyRisk(verb, face.label[c])
           With(steps) == [control |-> c, verb |-> verb, risk |-> risk, steps |-> steps]
<1>1. Cardinality(named) = 1
  BY DEF I!Plan, I!None, I!Cardinality, Cardinality
<1>2. c \in I!Ids
  <2>1. named # {}
    <3> HIDE DEF named
    <3> SUFFICES ASSUME named = {} PROVE FALSE
      OBVIOUS
    <3>1. Cardinality(named) = 0
      BY FS_EmptySet
    <3> QED
      BY <1>1, <3>1
  <2> HIDE DEF named
  <2>2. c \in named
    BY <2>1
  <2> QED
    BY <2>2, NamedIs DEF named
<1>3. pay \in Payloads
  BY <1>2, PayloadIs
<1>4. risk \in I!Risks
  BY DEF I!ClassifyRisk, I!Risks
<1>5. \/ \E st \in Walks(graph, face.focus, c) :
           \/ I!Plan(face, target, verb) = <<With(st)>>
           \/ I!Plan(face, target, verb) = <<With(st \o <<I!Send(pay)>>)>>
      \/ verb \notin I!KeyVerbs /\ I!Plan(face, target, verb) = <<With(<<I!Send(pay)>>)>>
  <2>1. CASE verb \in I!KeyVerbs \cup {"focus"}
    <3>1. /\ route # I!None
          /\ I!Plan(face, target, verb) =
               <<With(IF verb = "focus" THEN route[1] ELSE route[1] \o <<I!Send(pay)>>)>>
      BY <1>1, <2>1 DEF I!Plan
    <3>2. PICK st \in Walks(graph, face.focus, c) : route = <<st>>
      BY <1>2, <3>1, FocusRouteIs
    <3>3. route[1] = st
      BY <3>2
    <3> QED
      BY <3>1, <3>3
  <2>2. CASE verb \notin I!KeyVerbs \cup {"focus"}
    BY <1>1, <2>2 DEF I!Plan
  <2> QED
    BY <2>1, <2>2
<1> HIDE DEF c, pay, risk, named, route
<1>6. ASSUME NEW steps \in Seq(Steps), Guarded(verb, steps, FALSE),
             steps[1].step = "move" => c \in ReachedIn(graph, face.focus, steps)
      PROVE  With(steps) \in Plans /\ Proven(graph, face.focus, With(steps))
  BY <1>2, <1>4, <1>6 DEF Plans, Proven
<1>7. CASE \E st \in Walks(graph, face.focus, c) :
             \/ I!Plan(face, target, verb) = <<With(st)>>
             \/ I!Plan(face, target, verb) = <<With(st \o <<I!Send(pay)>>)>>
  <2>1. PICK st \in Walks(graph, face.focus, c) :
               \/ I!Plan(face, target, verb) = <<With(st)>>
               \/ I!Plan(face, target, verb) = <<With(st \o <<I!Send(pay)>>)>>
    BY <1>7
  <2>2. PICK all \in {st, st \o <<I!Send(pay)>>} : I!Plan(face, target, verb) = <<With(all)>>
    BY <2>1
  <2>3. /\ all \in Seq(Steps) /\ Guarded(verb, all, FALSE)
        /\ all[1].step = "move" => c \in ReachedIn(graph, face.focus, all)
    BY <1>3, WalkIs
  <2> QED
    BY <1>6, <2>2, <2>3
<1>8. CASE verb \notin I!KeyVerbs /\ I!Plan(face, target, verb) = <<With(<<I!Send(pay)>>)>>
  <2> DEFINE all == <<I!Send(pay)>>
  <2>1. all \in Seq(Steps) /\ Len(all) = 1 /\ all[1].step = "act"
    BY <1>3, StepFacts
  <2>2. I!Plan(face, target, verb) = <<With(all)>>
    BY <1>8
  <2> HIDE DEF all
  <2>3. Guarded(verb, all, FALSE)
    BY <1>8, <2>1 DEF Guarded
  <2> QED
    BY <1>6, <2>1, <2>2, <2>3
<1> QED
  BY <1>5, <1>7, <1>8

-----------------------------------------------------------------------------
(* The application.                                                        *)

\* Tab gives the focus to a control.
LEMMA TurnIs ==
  ASSUME NEW focus, NEW by \in Nat, IntentBounds
  PROVE  I!Turn(focus, by) \in I!Ids
<1> DEFINE order == I!Kept(Controls, Focusable)
           at == CHOOSE n \in DOMAIN order : order[n] = focus
<1>1. order \in Seq(I!Ids) /\ Keeps(Controls, Focusable, Len(Controls), order)
  BY KeptGives DEF IntentBounds
<1>2. I!Turn(focus, by) = IF focus \notin Focusable THEN order[1] ELSE order[((at - 1 + by) % Len(order)) + 1]
  BY DEF I!Turn
<1>3. \A c \in Focusable : \E k \in 1 .. Len(order) : order[k] = c
  <2> SUFFICES ASSUME NEW c \in Focusable PROVE \E k \in 1 .. Len(order) : order[k] = c
    OBVIOUS
  <2>1. PICK m \in DOMAIN Controls : Controls[m] = c
    BY DEF IntentBounds, I!Ids, I!Range1
  <2>2. m \in 1 .. Len(Controls)
    BY DEF IntentBounds
  <2> HIDE DEF order
  <2> QED
    BY <1>1, <2>1, <2>2 DEF Keeps
<1> HIDE DEF order
<1>4. Len(order) \in Nat /\ Len(order) >= 1
  <2>1. PICK c \in Focusable : TRUE
    BY DEF IntentBounds
  <2> QED
    BY <1>1, <1>3
<1>5. \A k \in 1 .. Len(order) : order[k] \in I!Ids
  BY <1>1
<1>6. CASE focus \notin Focusable
  <2>1. 1 \in 1 .. Len(order)
    BY <1>4
  <2> QED
    BY <1>2, <1>5, <1>6, <2>1
<1>7. CASE focus \in Focusable
  <2>1. at \in 1 .. Len(order)
    BY <1>1, <1>3, <1>7
  <2> HIDE DEF at
  <2>2. PICK i \in Nat : i = at - 1 + by
    BY <1>4, <2>1
  <2>3. PICK l \in Nat \ {0} : l = Len(order)
    BY <1>4
  <2>4. (i % l) \in 0 .. l - 1
    OBVIOUS
  <2>5. (i % l) + 1 \in 1 .. Len(order)
    BY <2>3, <2>4
  <2>6. I!Turn(focus, by) = order[(i % l) + 1]
    BY <1>2, <1>7, <2>2, <2>3
  <2> QED
    BY <1>5, <2>5, <2>6
<1> QED
  BY <1>6, <1>7

\* A key leaves the application with a focus and its rows.
LEMMA AnsweredIs ==
  ASSUME NEW a \in Frames, NEW act \in Payloads \cup {[key |-> v] : v \in Vias}, IntentBounds
  PROVE  I!Answered(a, act) \in Frames
<1>1. ASSUME NEW c \in I!Ids PROVE [a EXCEPT !.focus = c] \in Frames
  BY DEF Frames, Spots
<1>2. 1 \in Nat /\ Cardinality(Focusable) - 1 \in Nat
  <2>1. IsFiniteSet(Focusable) /\ Focusable # {}
    BY IdsFinite, FS_Subset DEF IntentBounds
  <2>2. Cardinality(Focusable) \in Nat /\ Cardinality(Focusable) # 0
    BY <2>1, FS_CardinalityType, FS_EmptySet
  <2> QED
    BY <2>2
<1>3. CASE act.key = "tab"
  BY <1>1, <1>2, <1>3, TurnIs DEF I!Answered
<1>4. CASE act.key = "shift+tab"
  <2>1. I!Answered(a, act) = [a EXCEPT !.focus = I!Turn(a.focus, Cardinality(Focusable) - 1)]
    BY <1>4 DEF I!Answered, I!Cardinality, Cardinality
  <2> QED
    BY <1>1, <1>2, <2>1, TurnIs
<1>5. CASE act.key = "click"
  <2>1. act.row \in I!Ids
    BY <1>5 DEF Payloads, Vias
  <2>2. \E c \in I!Ids : a.row[c] = act.row
    BY <2>1 DEF Frames, Onto
  <2> DEFINE hit == CHOOSE c \in I!Ids : a.row[c] = act.row
  <2>3. hit \in I!Ids
    BY <2>2
  <2>4. I!Answered(a, act) = [a EXCEPT !.focus = hit]
    BY <1>5 DEF I!Answered
  <2> HIDE DEF hit
  <2> QED
    BY <1>1, <2>3, <2>4
<1>6. CASE act.key \notin {"tab", "shift+tab", "click"}
  BY <1>6 DEF I!Answered
<1> QED
  BY <1>3, <1>4, <1>5, <1>6

\* Two controls that change places.
LEMMA SwapIs ==
  ASSUME NEW r \in Onto, NEW c \in I!Ids, NEW d \in I!Ids
  PROVE  [r EXCEPT ![c] = r[d], ![d] = r[c]] \in Onto
<1> DEFINE q == [r EXCEPT ![c] = r[d], ![d] = r[c]]
<1>1. q \in [I!Ids -> I!Ids] /\ q[d] = r[c] /\ (c # d => q[c] = r[d]) /\ \A e \in I!Ids \ {c, d} : q[e] = r[e]
  BY DEF Onto
<1> HIDE DEF q
<1>2. ASSUME NEW x \in I!Ids PROVE \E e \in I!Ids : q[e] = x
  <2>1. PICK e \in I!Ids : r[e] = x
    BY DEF Onto
  <2>2. CASE e = c
    BY <1>1, <2>1, <2>2
  <2>3. CASE e = d
    BY <1>1, <2>1, <2>3
  <2>4. CASE e \notin {c, d}
    BY <1>1, <2>1, <2>4
  <2> QED
    BY <2>2, <2>3, <2>4
<1>3. q \in Onto
  BY <1>1, <1>2 DEF Onto
<1> QED
  BY <1>3 DEF q

\* The graph stays one of edges.
LEMMA SeenIs ==
  ASSUME graph \in Seq(Edge), NEW from \in Spots, NEW to \in Spots, NEW via \in Vias
  PROVE  I!Seen(from, to, via) \in Seq(Edge)
<1>1. [from |-> from, to |-> to, via |-> via] \in Edge
  BY DEF Edge
<1> QED
  BY <1>1 DEF I!Seen

-----------------------------------------------------------------------------
(* The invariant.                                                          *)

Fences == {I!None, <<"mutating">>, <<"destructive">>}
Tickets == [id : Nat, session : Sessions, plan : Plans, old : BOOLEAN]
Previews == [session : Sessions, plan : Plans]
FreshCalls ==
  [pc : {"fresh"}, session : Sessions, target : Targets, verb : Verbs, fence : Fences, id : Nat]
CheckCalls ==
  [pc : {"check"}, session : Sessions, plan : Plans, id : Nat, fence : Fences,
   todo : Seq(Steps), guarded : BOOLEAN]
SendCalls ==
  [pc : {"send", "settle"}, session : Sessions, plan : Plans, id : Nat, fence : Fences,
   todo : Seq(Steps), guarded : BOOLEAN, before : Spots]
Payments ==
  {x \in [plan : Plans, before : Spots] : x.plan.verb \in I!KeyVerbs => x.before = x.plan.control}

\* A stored plan was shown under its id and not executed yet.
TicketOK(t, sh, sp) ==
  t.id \in 1 .. Len(sh) /\ sh[t.id] = [session |-> t.session, plan |-> t.plan] /\ sp[t.id] = 0

\* An execution is of what was shown; what is left of it is guarded, and a
\* key that is about to be sent was checked.
UnderOK(c, sh) ==
  /\ c.id \in 1 .. Len(sh) /\ sh[c.id] = [session |-> c.session, plan |-> c.plan]
  /\ I!NeedsConfirmation(c.plan.risk) => c.fence # I!None
  /\ Len(c.todo) <= Len(c.plan.steps) /\ Guarded(c.plan.verb, c.todo, c.guarded)
  /\ c.pc # "check" => c.todo # <<>> /\ c.todo[1].step # "assert"
  /\ c.pc = "send" /\ c.todo[1].step = "act" /\ c.plan.verb \in I!KeyVerbs => c.before = c.plan.control

CallOK(c, sh) ==
  \/ c = I!NoCall
  \/ c \in FreshCalls /\ c.id \in 1 .. Len(sh)
  \/ c \in CheckCalls \cup SendCalls /\ UnderOK(c, sh)

\* Before its first step the moves of an execution lead to its control.
RouteOK(c, l, g) ==
  c.pc = "check" /\ c.todo = c.plan.steps => Proven(g, l[c.session][1].focus, c.plan)

IntInv ==
  /\ screen \in [Sessions -> Frames] /\ frame \in [Sessions -> OneOf(Frames)]
  /\ graph \in Seq(Edge)
  /\ plans \in Seq(Tickets) /\ Len(plans) <= PlanCap
  /\ shown \in Seq(Previews) /\ Len(shown) <= MaxPlans
  /\ spent \in Seq({0, 1}) /\ Len(spent) = Len(shown)
  /\ \A n \in 1 .. Len(plans) : TicketOK(plans[n], shown, spent)
  /\ CallOK(call, shown)
  /\ RouteOK(call, frame, graph)
  /\ sent \in OneOf(Payments)

\* Where a call is.
LEMMA CallFacts ==
  ASSUME NEW sh, NEW c, CallOK(c, sh)
  PROVE  /\ c.pc = "no" => c = I!NoCall
         /\ c.pc = "fresh" => c \in FreshCalls /\ c.id \in 1 .. Len(sh)
         /\ c.pc = "check" => c \in CheckCalls /\ UnderOK(c, sh)
         /\ c.pc \in {"send", "settle"} => c \in SendCalls /\ UnderOK(c, sh)
         /\ c.pc \in {"no", "fresh", "check", "send", "settle"}
<1>1. I!NoCall.pc = "no"
  BY DEF I!NoCall
<1>2. c \in FreshCalls => c.pc = "fresh"
  BY DEF FreshCalls
<1>3. c \in CheckCalls => c.pc = "check"
  BY DEF CheckCalls
<1>4. c \in SendCalls => c.pc \in {"send", "settle"}
  BY DEF SendCalls
<1> QED
  BY <1>1, <1>2, <1>3, <1>4 DEF CallOK

\* The invariant is strong enough.
LEMMA IntSafe ==
  ASSUME IntInv, IntentBounds
  PROVE  I!TypeOK /\ I!OnlyShown /\ I!KeysOnTarget /\ I!RouteProven
<1>1. I!TypeOK
  <2>1. \A s \in Sessions : screen[s].focus \in I!Ids \cup {Nowhere} /\ screen[s].row \in [I!Ids -> I!Ids]
    BY DEF IntInv, Frames, Spots, Onto
  <2>2. DOMAIN spent = DOMAIN shown
    BY DEF IntInv
  <2>3. call.pc \in {"no", "fresh", "check", "send", "settle"}
    BY CallFacts DEF IntInv
  <2>4. \A n \in DOMAIN graph : graph[n].via \in {"tab", "shift+tab"}
    <3>1. \A n \in DOMAIN graph : graph[n] \in Edge
      BY DEF IntInv
    <3> QED
      BY <3>1 DEF Edge, Vias
  <2> QED
    BY <2>1, <2>2, <2>3, <2>4 DEF I!TypeOK, IntInv
<1>2. I!OnlyShown
  <2>1. \A n \in DOMAIN spent : spent[n] \in {0, 1}
    BY DEF IntInv
  <2>2. \A n \in DOMAIN spent : spent[n] <= 1
    BY <2>1
  <2>3. I!Under => UnderOK(call, shown)
    BY CallFacts DEF I!Under, IntInv
  <2> QED
    BY <2>2, <2>3 DEF I!OnlyShown, UnderOK
<1>3. I!KeysOnTarget
  <2>1. CASE sent = <<>>
    BY <2>1 DEF I!KeysOnTarget
  <2>2. CASE sent # <<>>
    <3>1. PICK x \in Payments : sent = <<x>>
      BY <2>2 DEF IntInv, OneOf
    <3>2. \A n \in DOMAIN sent : sent[n] = x
      BY <3>1
    <3> QED
      BY <3>2 DEF I!KeysOnTarget, Payments
  <2> QED
    BY <2>1, <2>2
<1>4. I!RouteProven
  <2>1. \A from, steps : I!Reached(from, steps) = ReachedIn(graph, from, steps)
    BY DEF I!Reached, ReachedIn
  <2> SUFFICES ASSUME call.pc = "check", call.todo = call.plan.steps, call.todo[1].step = "move"
               PROVE  call.plan.control \in I!Reached(frame[call.session][1].focus, call.todo)
    BY DEF I!RouteProven
  <2>2. Proven(graph, frame[call.session][1].focus, call.plan)
    BY DEF IntInv, RouteOK
  <2> QED
    BY <2>1, <2>2 DEF Proven
<1> QED
  BY <1>1, <1>2, <1>3, <1>4

\* It holds at first.
LEMMA IntInit ==
  ASSUME I!Init, IntentBounds
  PROVE  IntInv
<1>1. [s \in Sessions |-> [focus |-> Controls[1], row |-> [c \in I!Ids |-> c], label |-> Homes]]
        \in [Sessions -> Frames]
  <2>1. Controls[1] \in I!Ids
    BY DEF IntentBounds
  <2>2. [c \in I!Ids |-> c] \in Onto
    BY DEF Onto
  <2>3. Homes \in [I!Ids -> Tags]
    BY DEF IntentBounds, Tags
  <2>4. [focus |-> Controls[1], row |-> [c \in I!Ids |-> c], label |-> Homes] \in Frames
    BY <2>1, <2>2, <2>3 DEF Frames, Spots
  <2> QED
    BY <2>4
<1>2. [s \in Sessions |-> I!None] \in [Sessions -> OneOf(Frames)]
  BY DEF I!None, OneOf
<1>3. /\ screen = [s \in Sessions |-> [focus |-> Controls[1], row |-> [c \in I!Ids |-> c], label |-> Homes]]
      /\ frame = [s \in Sessions |-> I!None] /\ graph = <<>> /\ plans = <<>> /\ shown = <<>> /\ spent = <<>>
      /\ call = I!NoCall /\ sent = <<>>
  BY DEF I!Init, I!None
<1>4. CallOK(call, shown) /\ RouteOK(call, frame, graph)
  BY <1>3 DEF CallOK, RouteOK, I!NoCall
<1>5. sent \in OneOf(Payments)
  BY <1>3 DEF OneOf
<1>6. <<>> \in Seq(Edge) /\ <<>> \in Seq(Tickets) /\ <<>> \in Seq(Previews) /\ <<>> \in Seq({0, 1})
  OBVIOUS
<1>7. Len(plans) = 0 /\ Len(shown) = 0 /\ Len(spent) = 0
  BY <1>3
<1>8. 0 <= PlanCap /\ 0 <= MaxPlans
  BY DEF IntentBounds
<1> QED
  BY <1>1, <1>2, <1>3, <1>4, <1>5, <1>6, <1>7, <1>8 DEF IntInv

-----------------------------------------------------------------------------
(* The steps.                                                              *)

\* The parts of the invariant.
LEMMA IntFacts ==
  ASSUME IntInv
  PROVE  /\ screen \in [Sessions -> Frames] /\ frame \in [Sessions -> OneOf(Frames)]
         /\ graph \in Seq(Edge)
         /\ plans \in Seq(Tickets) /\ Len(plans) <= PlanCap
         /\ shown \in Seq(Previews) /\ Len(shown) <= MaxPlans
         /\ spent \in Seq({0, 1}) /\ Len(spent) = Len(shown)
         /\ \A n \in 1 .. Len(plans) : TicketOK(plans[n], shown, spent)
         /\ CallOK(call, shown) /\ RouteOK(call, frame, graph) /\ sent \in OneOf(Payments)
  BY DEF IntInv

\* A step that leaves the plans alone.
LEMMA PlansKept ==
  ASSUME IntInv, UNCHANGED <<plans, shown, spent>>,
         screen' \in [Sessions -> Frames], frame' \in [Sessions -> OneOf(Frames)], graph' \in Seq(Edge),
         CallOK(call', shown), RouteOK(call', frame', graph'), sent' \in OneOf(Payments)
  PROVE  IntInv'
  BY DEF IntInv

\* The application changes by itself.
LEMMA DriftKeeps ==
  ASSUME IntInv, IntentBounds, NEW s \in Sessions, I!Drift(s)
  PROVE  IntInv'
<1>1. UNCHANGED <<frame, graph, plans, shown, spent, call, sent>>
  BY DEF I!Drift
<1>2. screen[s] \in Frames
  BY IntFacts
<1>3. \E a \in Frames : screen' = [screen EXCEPT ![s] = a]
  <2>1. CASE \E c \in Focusable \cup {Nowhere} : screen' = [screen EXCEPT ![s].focus = c]
    <3>1. PICK c \in Focusable \cup {Nowhere} : screen' = [screen EXCEPT ![s].focus = c]
      BY <2>1
    <3>2. c \in Spots
      BY DEF IntentBounds, Spots
    <3>3. screen' = [screen EXCEPT ![s] = [screen[s] EXCEPT !.focus = c]]
      BY <3>1
    <3>4. [screen[s] EXCEPT !.focus = c] \in Frames
      BY <1>2, <3>2 DEF Frames
    <3> QED
      BY <3>3, <3>4
  <2>2. CASE \E c, d \in I!Ids :
               screen' = [screen EXCEPT ![s].row[c] = screen[s].row[d], ![s].row[d] = screen[s].row[c]]
    <3>1. PICK c \in I!Ids, d \in I!Ids :
                 screen' = [screen EXCEPT ![s].row[c] = screen[s].row[d], ![s].row[d] = screen[s].row[c]]
      BY <2>2
    <3> DEFINE r == screen[s].row
               q == [r EXCEPT ![c] = r[d], ![d] = r[c]]
    <3>2. r \in Onto
      BY <1>2 DEF Frames
    <3>3. q \in Onto
      BY <3>2, SwapIs
    <3>4. screen' = [screen EXCEPT ![s] = [screen[s] EXCEPT !.row = q]]
      BY <1>2, <3>1, IntFacts DEF Frames
    <3>5. [screen[s] EXCEPT !.row = q] \in Frames
      <4> HIDE DEF q
      <4> QED
        BY <1>2, <3>3 DEF Frames
    <3> QED
      BY <3>4, <3>5
  <2>3. CASE \E c \in I!Ids, l \in Labels : screen' = [screen EXCEPT ![s].label[c] = l]
    <3>1. PICK c \in I!Ids, l \in Labels : screen' = [screen EXCEPT ![s].label[c] = l]
      BY <2>3
    <3>2. screen' = [screen EXCEPT ![s] = [screen[s] EXCEPT !.label = [screen[s].label EXCEPT ![c] = l]]]
      BY <3>1
    <3>3. [screen[s].label EXCEPT ![c] = l] \in [I!Ids -> Tags]
      BY <1>2 DEF Frames, Tags
    <3>4. [screen[s] EXCEPT !.label = [screen[s].label EXCEPT ![c] = l]] \in Frames
      BY <1>2, <3>3 DEF Frames
    <3> QED
      BY <3>2, <3>4
  <2> QED
    BY <2>1, <2>2, <2>3 DEF I!Drift
<1>4. screen' \in [Sessions -> Frames]
  BY <1>3, IntFacts
<1> QED
  BY <1>1, <1>4, IntFacts, PlansKept

\* A move by another tool.
LEMMA TabKeeps ==
  ASSUME IntInv, IntentBounds, NEW s \in Sessions, I!Tab(s)
  PROVE  IntInv'
<1>1. UNCHANGED <<frame, plans, shown, spent, call, sent>> /\ call.pc = "no"
  BY DEF I!Tab
<1>2. PICK via \in Vias :
        /\ screen' = [screen EXCEPT ![s] = I!Answered(screen[s], [key |-> via])]
        /\ graph' = I!Seen(screen[s].focus, screen'[s].focus, via)
  BY DEF I!Tab, Vias
<1>3. I!Answered(screen[s], [key |-> via]) \in Frames
  BY IntFacts, AnsweredIs
<1>4. screen' \in [Sessions -> Frames]
  BY <1>2, <1>3, IntFacts
<1>5. screen[s].focus \in Spots /\ screen'[s].focus \in Spots
  BY <1>4, IntFacts DEF Frames
<1>6. graph' \in Seq(Edge)
  BY <1>2, <1>5, IntFacts, SeenIs
<1>7. RouteOK(call', frame', graph')
  BY <1>1 DEF RouteOK
<1> QED
  BY <1>1, <1>4, <1>6, <1>7, IntFacts, PlansKept

\* An observation.
LEMMA ObserveKeeps ==
  ASSUME IntInv, NEW s \in Sessions, I!Observe(s)
  PROVE  IntInv'
<1>1. UNCHANGED <<screen, graph, plans, shown, spent, call, sent>> /\ call.pc = "no"
  BY DEF I!Observe
<1>2. frame' = [frame EXCEPT ![s] = <<screen[s]>>]
  BY DEF I!Observe
<1>3. frame' \in [Sessions -> OneOf(Frames)]
  BY <1>2, IntFacts DEF OneOf
<1>4. RouteOK(call', frame', graph')
  BY <1>1 DEF RouteOK
<1> QED
  BY <1>1, <1>3, <1>4, IntFacts, PlansKept

\* A plan is shown and stored.
LEMMA PreviewKeeps ==
  ASSUME IntInv, IntentBounds, NEW s \in Sessions, NEW target \in Targets, NEW verb \in Verbs,
         I!Preview(s, target, verb)
  PROVE  IntInv'
<1>1. UNCHANGED <<screen, frame, graph, call, sent>> /\ call.pc = "no" /\ Len(shown) < MaxPlans
  BY DEF I!Preview
<1> DEFINE face == frame[s][1]
           plan == I!Plan(face, target, verb)
<1>2. /\ frame[s] # I!None /\ plan # I!None
      /\ shown' = Append(shown, [session |-> s, plan |-> plan[1]])
      /\ plans' = I!Stored([id |-> Len(shown) + 1, session |-> s, plan |-> plan[1], old |-> FALSE])
      /\ spent' = Append(spent, 0)
  BY DEF I!Preview
<1>3. face \in Frames
  <2>1. frame[s] \in OneOf(Frames)
    BY IntFacts
  <2> QED
    BY <1>2, <2>1 DEF OneOf, I!None
<1> HIDE DEF face
<1>4. PICK p \in Plans : plan = <<p>>
  BY <1>2, <1>3, IntFacts, PlanIs
<1> HIDE DEF plan
<1> DEFINE x == [session |-> s, plan |-> p]
           t == [id |-> Len(shown) + 1, session |-> s, plan |-> p, old |-> FALSE]
           kept == IF Len(plans) >= PlanCap THEN Tail(plans) ELSE plans
<1>5. shown' = Append(shown, x) /\ plans' = Append(kept, t)
  BY <1>2, <1>4 DEF I!Stored
<1>6. x \in Previews /\ t \in Tickets
  BY IntFacts DEF Previews, Tickets
<1>7. t.id = Len(shown) + 1 /\ x = [session |-> t.session, plan |-> t.plan]
  OBVIOUS
<1> HIDE DEF x, t
<1>8. /\ shown' \in Seq(Previews) /\ Len(shown') = Len(shown) + 1 /\ shown'[Len(shown) + 1] = x
      /\ \A n \in 1 .. Len(shown) : shown'[n] = shown[n]
  BY <1>5, <1>6, IntFacts, AppendProperties
<1>9. /\ spent' \in Seq({0, 1}) /\ Len(spent') = Len(shown) + 1 /\ spent'[Len(shown) + 1] = 0
      /\ \A n \in 1 .. Len(shown) : spent'[n] = spent[n]
  <2>1. 0 \in {0, 1}
    OBVIOUS
  <2> QED
    BY <1>2, <2>1, IntFacts, AppendProperties
<1>10. Len(shown) \in Nat /\ Len(plans) \in Nat /\ PlanCap \in Nat \ {0} /\ MaxPlans \in Nat
  BY IntFacts DEF IntentBounds
<1>11. ASSUME NEW u, TicketOK(u, shown, spent) PROVE TicketOK(u, shown', spent')
  <2>1. u.id \in 1 .. Len(shown) /\ u.id \in 1 .. Len(shown')
    BY <1>8, <1>10, <1>11 DEF TicketOK
  <2> QED
    BY <1>8, <1>9, <1>11, <2>1 DEF TicketOK
<1>12. TicketOK(t, shown', spent')
  <2>1. Len(shown) + 1 \in 1 .. Len(shown')
    BY <1>8, <1>10
  <2> QED
    BY <1>7, <1>8, <1>9, <2>1 DEF TicketOK
<1>13. /\ kept \in Seq(Tickets) /\ Len(kept) + 1 <= PlanCap
       /\ \A n \in 1 .. Len(kept) : TicketOK(kept[n], shown, spent)
  <2>1. CASE Len(plans) >= PlanCap
    <3>1. plans # <<>>
      BY <1>10, <2>1
    <3>2. /\ Tail(plans) \in Seq(Tickets) /\ Len(Tail(plans)) = Len(plans) - 1
          /\ \A n \in 1 .. Len(plans) - 1 : Tail(plans)[n] = plans[n + 1] /\ n + 1 \in 1 .. Len(plans)
      BY <3>1, IntFacts, <1>10, HeadTailProperties
    <3>3. Len(plans) - 1 + 1 <= PlanCap
      BY <1>10, IntFacts
    <3> QED
      BY <2>1, <3>2, <3>3, IntFacts
  <2>2. CASE ~(Len(plans) >= PlanCap)
    BY <1>10, <2>2, IntFacts
  <2> QED
    BY <2>1, <2>2
<1> HIDE DEF kept
<1>14. /\ plans' \in Seq(Tickets) /\ Len(plans') = Len(kept) + 1 /\ plans'[Len(kept) + 1] = t
       /\ \A n \in 1 .. Len(kept) : plans'[n] = kept[n]
  BY <1>5, <1>6, <1>13, AppendProperties
<1>15. \A n \in 1 .. Len(plans') : TicketOK(plans'[n], shown', spent')
  <2>1. \A n \in 1 .. Len(plans') : n = Len(kept) + 1 \/ n \in 1 .. Len(kept)
    BY <1>13, <1>14
  <2> QED
    BY <1>11, <1>12, <1>13, <1>14, <2>1
<1>16. Len(plans') <= PlanCap /\ Len(shown') <= MaxPlans /\ Len(spent') = Len(shown')
  BY <1>1, <1>8, <1>9, <1>10, <1>13, <1>14
<1>17. CallOK(call', shown') /\ RouteOK(call', frame', graph')
  BY <1>1, CallFacts, IntFacts DEF CallOK
<1> QED
  BY <1>1, <1>8, <1>9, <1>14, <1>15, <1>16, <1>17, IntFacts DEF IntInv

\* Five minutes pass.
LEMMA ExpireKeeps ==
  ASSUME IntInv, I!Expire
  PROVE  IntInv'
<1>1. /\ UNCHANGED <<screen, frame, graph, shown, spent, call, sent>>
      /\ plans' = [n \in DOMAIN plans |-> [plans[n] EXCEPT !.old = TRUE]]
  BY DEF I!Expire
<1>2. DOMAIN plans = 1 .. Len(plans) /\ Len(plans) \in Nat
  BY IntFacts
<1>3. \A n \in 1 .. Len(plans) : plans[n] \in Tickets
  BY IntFacts
<1>4. \A t \in Tickets : /\ [t EXCEPT !.old = TRUE] \in Tickets
                         /\ TicketOK(t, shown, spent) => TicketOK([t EXCEPT !.old = TRUE], shown, spent)
  BY DEF Tickets, TicketOK
<1>5. plans' \in Seq(Tickets) /\ Len(plans') = Len(plans)
  <2>1. plans' \in [1 .. Len(plans) -> Tickets]
    BY <1>1, <1>2, <1>3, <1>4
  <2> QED
    BY <1>2, <2>1
<1>6. \A n \in 1 .. Len(plans') : TicketOK(plans'[n], shown', spent')
  BY <1>1, <1>2, <1>3, <1>4, <1>5, IntFacts
<1> QED
  BY <1>1, <1>5, <1>6, IntFacts DEF IntInv

\* A call for a plan that was shown.
LEMMA ExecuteKeeps ==
  ASSUME IntInv, NEW s \in Sessions, NEW target \in Targets, NEW verb \in Verbs,
         NEW fence \in {I!None, <<"mutating">>, <<"destructive">>}, NEW id \in DOMAIN shown,
         I!Execute(s, target, verb, fence, id)
  PROVE  IntInv'
<1>1. /\ UNCHANGED <<screen, frame, graph, plans, shown, spent>> /\ sent' = I!None
      /\ call' = [pc |-> "fresh", session |-> s, target |-> target, verb |-> verb, fence |-> fence, id |-> id]
  BY DEF I!Execute
<1>2. id \in 1 .. Len(shown) /\ id \in Nat
  BY IntFacts
<1>3. call' \in FreshCalls /\ call'.id \in 1 .. Len(shown) /\ call'.pc = "fresh"
  BY <1>1, <1>2 DEF FreshCalls, Fences
<1>4. CallOK(call', shown) /\ RouteOK(call', frame', graph') /\ sent' \in OneOf(Payments)
  BY <1>1, <1>3 DEF CallOK, RouteOK, I!None, OneOf
<1> QED
  BY <1>1, <1>4, IntFacts, PlansKept

\* What a risk asks for.
LEMMA MayRunIs ==
  ASSUME NEW risk, NEW fence, I!MayRun(risk, fence), I!NeedsConfirmation(risk)
  PROVE  fence # I!None
  BY DEF I!MayRun

\* The plan on a fresh face is the one that was shown, or nothing is done.
LEMMA FreshKeeps ==
  ASSUME IntInv, IntentBounds, I!Fresh
  PROVE  IntInv'
<1> DEFINE s == call.session
           id == call.id
           face == screen[s]
           plan == I!Plan(face, call.target, call.verb)
           found == {t \in I!Range1(plans) : t.id = id}
<1>1. /\ UNCHANGED <<screen, graph, shown, sent>> /\ call.pc = "fresh"
      /\ frame' = [frame EXCEPT ![s] = <<face>>]
  BY DEF I!Fresh
<1>2. call \in FreshCalls /\ id \in 1 .. Len(shown)
  BY <1>1, IntFacts, CallFacts
<1>3. s \in Sessions /\ call.target \in Targets /\ call.verb \in Verbs /\ call.fence \in Fences /\ id \in Nat
  BY <1>2 DEF FreshCalls
<1>4. \/ call' = I!NoCall /\ UNCHANGED spent /\ (UNCHANGED plans \/ plans' = I!Without(id))
      \/ /\ plan # I!None /\ I!MayRun(plan[1].risk, call.fence) /\ plans' = I!Without(id)
         /\ \E t \in found : t.session = s /\ I!SamePlan(t, plan[1])
         /\ spent' = [spent EXCEPT ![id] = @ + 1]
         /\ call' = [pc |-> "check", session |-> s, plan |-> plan[1], id |-> id, fence |-> call.fence,
                     todo |-> plan[1].steps, guarded |-> FALSE]
  BY DEF I!Fresh, I!Ended
<1>5. face \in Frames
  BY <1>3, IntFacts
<1>6. frame' \in [Sessions -> OneOf(Frames)]
  BY <1>1, <1>5, IntFacts DEF OneOf
<1>7. /\ I!Without(id) \in Seq(Tickets) /\ Len(I!Without(id)) <= Len(plans)
      /\ \A n \in 1 .. Len(I!Without(id)) :
           TicketOK(I!Without(id)[n], shown, spent) /\ I!Without(id)[n].id # id
  <2> DEFINE S == {t \in I!Range1(plans) : t.id # id}
             k == I!Kept(plans, S)
  <2>1. k \in Seq(Tickets) /\ Keeps(plans, S, Len(plans), k)
    BY IntFacts, KeptGives
  <2>2. I!Without(id) = k
    BY DEF I!Without
  <2>3. \A t \in S : t.id # id
    OBVIOUS
  <2> HIDE DEF S, k
  <2>4. /\ Len(k) <= Len(plans)
        /\ \A n \in 1 .. Len(k) : k[n] \in S /\ \E m \in 1 .. Len(plans) : plans[m] = k[n]
    BY <2>1 DEF Keeps
  <2>5. \A n \in 1 .. Len(k) : TicketOK(k[n], shown, spent)
    BY <2>4, IntFacts
  <2> QED
    BY <2>1, <2>2, <2>3, <2>4, <2>5
<1> HIDE DEF s, id, face
<1>8. CASE call' = I!NoCall /\ UNCHANGED spent /\ (UNCHANGED plans \/ plans' = I!Without(id))
  <2>1. CallOK(call', shown) /\ RouteOK(call', frame', graph')
    BY <1>8 DEF CallOK, RouteOK, I!NoCall
  <2>2. /\ plans' \in Seq(Tickets) /\ Len(plans') <= PlanCap
        /\ \A n \in 1 .. Len(plans') : TicketOK(plans'[n], shown, spent)
    <3>1. CASE UNCHANGED plans
      BY <3>1, IntFacts
    <3>2. CASE plans' = I!Without(id)
      <4>1. Len(I!Without(id)) \in Nat /\ Len(plans) \in Nat /\ PlanCap \in Nat
        BY <1>7, IntFacts DEF IntentBounds
      <4>2. Len(I!Without(id)) <= PlanCap
        BY <1>7, <4>1, IntFacts
      <4> QED
        BY <1>7, <3>2, <4>2
    <3> QED
      BY <1>8, <3>1, <3>2
  <2> QED
    BY <1>1, <1>6, <1>8, <2>1, <2>2, IntFacts DEF IntInv
<1>9. CASE /\ plan # I!None /\ I!MayRun(plan[1].risk, call.fence) /\ plans' = I!Without(id)
           /\ \E t \in found : t.session = s /\ I!SamePlan(t, plan[1])
           /\ spent' = [spent EXCEPT ![id] = @ + 1]
           /\ call' = [pc |-> "check", session |-> s, plan |-> plan[1], id |-> id, fence |-> call.fence,
                       todo |-> plan[1].steps, guarded |-> FALSE]
  <2>1. PICK p \in Plans : plan = <<p>> /\ Proven(graph, face.focus, p)
    BY <1>3, <1>5, <1>9, IntFacts, PlanIs
  <2>2. plan[1] = p
    BY <2>1
  <2> HIDE DEF plan
  <2>3. PICK t \in found : t.session = s /\ t.plan = p
    BY <1>9, <2>2 DEF I!SamePlan
  <2>4. TicketOK(t, shown, spent) /\ t.id = id
    <3>1. PICK n \in DOMAIN plans : t = plans[n]
      BY DEF I!Range1
    <3>2. n \in 1 .. Len(plans)
      BY IntFacts
    <3> QED
      BY <3>1, <3>2, IntFacts
  <2>5. shown[id] = [session |-> s, plan |-> p] /\ spent[id] = 0
    BY <2>3, <2>4 DEF TicketOK
  <2>6. /\ spent' \in Seq({0, 1}) /\ Len(spent') = Len(spent)
        /\ \A n \in 1 .. Len(spent) : n # id => spent'[n] = spent[n]
    <3>1. spent' = [spent EXCEPT ![id] = 1]
      BY <1>9, <2>5
    <3>2. spent \in [1 .. Len(spent) -> {0, 1}] /\ Len(spent) \in Nat
      BY IntFacts
    <3>3. spent' \in [1 .. Len(spent) -> {0, 1}] /\ \A n \in 1 .. Len(spent) : n # id => spent'[n] = spent[n]
      BY <3>1, <3>2
    <3>4. spent' \in Seq({0, 1}) /\ Len(spent') = Len(spent)
      BY <3>2, <3>3
    <3> QED
      BY <3>3, <3>4
  <2>7. /\ plans' \in Seq(Tickets) /\ Len(plans') <= PlanCap
        /\ \A n \in 1 .. Len(plans') : TicketOK(plans'[n], shown, spent')
    <3>1. Len(I!Without(id)) \in Nat /\ Len(plans) \in Nat /\ PlanCap \in Nat
      BY <1>7, IntFacts DEF IntentBounds
    <3>2. Len(I!Without(id)) <= PlanCap
      BY <1>7, <3>1, IntFacts
    <3>3. \A u : TicketOK(u, shown, spent) /\ u.id # id => TicketOK(u, shown, spent')
      BY <2>6, IntFacts DEF TicketOK
    <3> QED
      BY <1>7, <1>9, <3>2, <3>3
  <2>8. call' = [pc |-> "check", session |-> s, plan |-> p, id |-> id, fence |-> call.fence,
                 todo |-> p.steps, guarded |-> FALSE]
    BY <1>9, <2>2
  <2>9. p.steps \in Seq(Steps) /\ Guarded(p.verb, p.steps, FALSE) /\ Len(p.steps) \in Nat
    <3>1. p.steps \in Seq(Steps) /\ Guarded(p.verb, p.steps, FALSE)
      BY DEF Plans
    <3>2. Len(p.steps) \in Nat
      BY <3>1, LenProperties
    <3> QED
      BY <3>1, <3>2
  <2>10. call' \in CheckCalls /\ call'.pc = "check"
    BY <1>3, <2>8, <2>9 DEF CheckCalls
  <2>11. UnderOK(call', shown)
    <3>1. I!NeedsConfirmation(p.risk) => call.fence # I!None
      BY <1>9, <2>2, MayRunIs
    <3>2. /\ call'.pc = "check" /\ call'.session = s /\ call'.plan = p /\ call'.id = id
          /\ call'.fence = call.fence /\ call'.todo = p.steps /\ call'.guarded = FALSE
      BY <2>8
    <3>3. Len(p.steps) <= Len(p.steps)
      BY <2>9
    <3> QED
      BY <1>2, <2>5, <2>9, <3>1, <3>2, <3>3 DEF UnderOK
  <2>12. RouteOK(call', frame', graph')
    <3>1. frame'[s] = <<face>>
      BY <1>1, <1>3, IntFacts
    <3>2. call'.session = s /\ call'.plan = p /\ frame'[s][1] = face /\ graph' = graph
      BY <1>1, <2>8, <3>1, SMTT(30)
    <3> QED
      BY <2>1, <3>2 DEF RouteOK
  <2> QED
    BY <1>1, <1>6, <2>6, <2>7, <2>10, <2>11, <2>12, IntFacts DEF IntInv, CallOK
<1> QED
  BY <1>4, <1>8, <1>9

\* What is left of an execution stays guarded.
LEMMA TailGuarded ==
  ASSUME NEW todo \in Seq(Steps), todo # <<>>, NEW verb, NEW armed \in BOOLEAN, NEW now \in BOOLEAN,
         Guarded(verb, todo, armed),
         todo[1].step # "act" => (armed \/ todo[1].step = "assert" => now)
  PROVE  /\ Tail(todo) \in Seq(Steps) /\ Len(Tail(todo)) = Len(todo) - 1 /\ Len(todo) \in Nat
         /\ Guarded(verb, Tail(todo), now)
<1>1. /\ Tail(todo) \in Seq(Steps) /\ Len(Tail(todo)) = Len(todo) - 1
      /\ \A n \in 1 .. Len(todo) - 1 : Tail(todo)[n] = todo[n + 1]
  BY HeadTailProperties
<1>2. Len(todo) \in Nat /\ Len(todo) >= 1
  OBVIOUS
<1>3. ASSUME NEW n \in 1 .. Len(Tail(todo)), Tail(todo)[n].step = "act"
      PROVE  /\ n = Len(Tail(todo))
             /\ verb \in I!KeyVerbs => now \/ \E m \in 1 .. n - 1 : Tail(todo)[m].step = "assert"
  <2>1. n + 1 \in 1 .. Len(todo) /\ todo[n + 1].step = "act"
    BY <1>1, <1>2, <1>3
  <2>2. /\ n + 1 = Len(todo)
        /\ verb \in I!KeyVerbs => armed \/ \E m \in 1 .. n + 1 - 1 : todo[m].step = "assert"
    BY <2>1 DEF Guarded
  <2>3. todo[1].step # "act"
    <3>1. 1 \in 1 .. Len(todo) /\ 1 # Len(todo)
      BY <1>2, <2>2
    <3> QED
      BY <3>1 DEF Guarded
  <2>4. n = Len(Tail(todo))
    <3>1. Len(Tail(todo)) = Len(todo) - 1 /\ n \in Nat
      BY <1>1
    <3> QED
      BY <1>2, <2>2, <3>1
  <2>5. ASSUME verb \in I!KeyVerbs, ~now PROVE \E m \in 1 .. n - 1 : Tail(todo)[m].step = "assert"
    <3>1. ~armed /\ todo[1].step # "assert"
      BY <2>3, <2>5
    <3>2. PICK m \in 1 .. n : todo[m].step = "assert"
      <4>1. n + 1 - 1 = n
        OBVIOUS
      <4> QED
        BY <2>2, <2>5, <3>1, <4>1
    <3>3. m # 1 /\ m - 1 \in 1 .. n - 1 /\ m - 1 \in 1 .. Len(todo) - 1 /\ m - 1 + 1 = m
      BY <1>1, <3>1, <3>2
    <3> QED
      BY <1>1, <3>2, <3>3
  <2> QED
    BY <2>4, <2>5
<1> QED
  BY <1>1, <1>2, <1>3 DEF Guarded

\* An assertion arms the guard.
LEMMA ArmKeeps ==
  ASSUME IntInv, I!Arm
  PROVE  IntInv'
<1>1. /\ UNCHANGED <<screen, frame, graph, plans, shown, spent, sent>>
      /\ call.pc = "check" /\ call.todo # <<>> /\ call.todo[1].step = "assert"
      /\ call' = [call EXCEPT !.todo = Tail(call.todo), !.guarded = TRUE]
  BY DEF I!Arm
<1>2. call \in CheckCalls /\ UnderOK(call, shown)
  BY <1>1, IntFacts, CallFacts
<1>3. /\ call.todo \in Seq(Steps) /\ call.plan \in Plans
      /\ Guarded(call.plan.verb, call.todo, call.guarded) /\ Len(call.todo) <= Len(call.plan.steps)
  BY <1>2 DEF CheckCalls, UnderOK
<1>4. PICK armed \in BOOLEAN : armed = call.guarded
  BY <1>2 DEF CheckCalls
<1>5. /\ Tail(call.todo) \in Seq(Steps) /\ Len(Tail(call.todo)) = Len(call.todo) - 1 /\ Len(call.todo) \in Nat
      /\ Guarded(call.plan.verb, Tail(call.todo), TRUE)
  BY <1>1, <1>3, <1>4, TailGuarded
<1>6. Len(call.plan.steps) \in Nat
  BY <1>3 DEF Plans
<1>7. Len(Tail(call.todo)) < Len(call.plan.steps)
  BY <1>3, <1>5, <1>6
<1>8. call' \in CheckCalls
  BY <1>1, <1>2, <1>5 DEF CheckCalls
<1>9. /\ call'.pc = "check" /\ call'.todo = Tail(call.todo) /\ call'.plan = call.plan /\ call'.id = call.id
      /\ call'.session = call.session /\ call'.fence = call.fence /\ call'.guarded = TRUE
  BY <1>1, <1>2 DEF CheckCalls
<1>10. UnderOK(call', shown)
  <2>1. Len(Tail(call.todo)) <= Len(call.plan.steps)
    BY <1>5, <1>6, <1>7
  <2> QED
    BY <1>2, <1>5, <1>9, <2>1 DEF UnderOK
<1>11. RouteOK(call', frame', graph')
  <2>1. Len(Tail(call.todo)) # Len(call.plan.steps)
    BY <1>5, <1>6, <1>7
  <2>2. call'.todo # call'.plan.steps
    BY <1>9, <2>1
  <2> QED
    BY <2>2 DEF RouteOK
<1> QED
  BY <1>1, <1>8, <1>10, <1>11, IntFacts, PlansKept DEF CallOK

\* The guard is checked, and the call goes on to the send or ends.
LEMMA CheckKeeps ==
  ASSUME IntInv, I!Check
  PROVE  IntInv'
<1> DEFINE s == call.session
           step == call.todo[1]
<1>1. /\ UNCHANGED <<screen, frame, graph, plans, shown, spent, sent>>
      /\ call.pc = "check" /\ call.todo # <<>> /\ step.step # "assert"
      /\ \/ call' = I!NoCall
         \/ /\ ~(step.step = "act" /\ call.guarded /\ screen[s].focus # call.plan.control)
            /\ call' = [pc |-> "send", session |-> s, plan |-> call.plan, id |-> call.id,
                        fence |-> call.fence, todo |-> call.todo, guarded |-> call.guarded,
                        before |-> screen[s].focus]
  BY DEF I!Check, I!GuardFrame
<1>2. call \in CheckCalls /\ UnderOK(call, shown)
  BY <1>1, IntFacts, CallFacts
<1>3. CASE call' = I!NoCall
  <2>1. CallOK(call', shown) /\ RouteOK(call', frame', graph')
    BY <1>3 DEF CallOK, RouteOK, I!NoCall
  <2> QED
    BY <1>1, <2>1, IntFacts, PlansKept
<1>4. CASE /\ ~(step.step = "act" /\ call.guarded /\ screen[s].focus # call.plan.control)
           /\ call' = [pc |-> "send", session |-> s, plan |-> call.plan, id |-> call.id, fence |-> call.fence,
                       todo |-> call.todo, guarded |-> call.guarded,
                        before |-> screen[s].focus]
  <2>1. s \in Sessions /\ screen[s] \in Frames
    BY <1>2, IntFacts DEF CheckCalls
  <2>2. screen[s].focus \in Spots
    BY <2>1 DEF Frames
  <2>3. call' \in SendCalls /\ call'.pc = "send"
    BY <1>2, <1>4, <2>2 DEF CheckCalls, SendCalls
  <2>4. step.step = "act" /\ call.plan.verb \in I!KeyVerbs => screen[s].focus = call.plan.control
    <3> SUFFICES ASSUME step.step = "act", call.plan.verb \in I!KeyVerbs PROVE call.guarded
      BY <1>4
    <3>1. 1 \in 1 .. Len(call.todo)
      BY <1>1, <1>2 DEF CheckCalls
    <3>2. call.guarded \/ \E m \in 1 .. 1 - 1 : call.todo[m].step = "assert"
      BY <1>2, <3>1 DEF UnderOK, Guarded
    <3>3. 1 .. 1 - 1 = {}
      OBVIOUS
    <3> QED
      BY <3>2, <3>3
  <2>5. UnderOK(call', shown)
    BY <1>1, <1>2, <1>4, <2>4 DEF UnderOK
  <2>6. RouteOK(call', frame', graph')
    BY <2>3 DEF RouteOK
  <2> QED
    BY <1>1, <2>3, <2>5, <2>6, IntFacts, PlansKept DEF CallOK
<1> QED
  BY <1>1, <1>3, <1>4

\* The input is sent.
LEMMA DispatchKeeps ==
  ASSUME IntInv, IntentBounds, I!Dispatch
  PROVE  IntInv'
<1> DEFINE s == call.session
           step == call.todo[1]
<1>1. /\ UNCHANGED <<frame, graph, plans, shown, spent>> /\ call.pc = "send"
      /\ screen' = [screen EXCEPT ![s] = I!Answered(screen[s], I!InputOf(step))]
      /\ sent' = IF step.step = "move" THEN sent ELSE <<[plan |-> call.plan, before |-> call.before]>>
      /\ call' = [call EXCEPT !.pc = "settle"]
  BY DEF I!Dispatch
<1>2. call \in SendCalls /\ UnderOK(call, shown)
  BY <1>1, IntFacts, CallFacts
<1>3. s \in Sessions /\ call.todo \in Seq(Steps) /\ call.plan \in Plans /\ call.before \in Spots
  BY <1>2 DEF SendCalls
<1>4. call.todo # <<>> /\ step.step # "assert" /\ step \in Steps
  BY <1>1, <1>2, <1>3 DEF UnderOK
<1>5. \/ step.step = "move" /\ \E v \in Vias : step = I!MoveFocus(v)
      \/ step.step = "act" /\ \E p \in Payloads : step = I!Send(p)
  BY <1>4, StepFacts
<1>6. I!InputOf(step) \in Payloads \cup {[key |-> v] : v \in Vias}
  BY <1>5, StepFacts DEF I!InputOf
<1>7. screen' \in [Sessions -> Frames]
  BY <1>1, <1>3, <1>6, IntFacts, AnsweredIs
<1>8. sent' \in OneOf(Payments)
  <2>1. CASE step.step = "move"
    BY <1>1, <2>1, IntFacts
  <2>2. CASE step.step = "act"
    <3> DEFINE x == [plan |-> call.plan, before |-> call.before]
    <3>1. call.plan.verb \in I!KeyVerbs => call.before = call.plan.control
      BY <1>1, <1>2, <2>2 DEF UnderOK
    <3>2. x \in Payments
      BY <1>3, <3>1 DEF Payments
    <3>3. sent' = <<x>>
      BY <1>1, <2>2
    <3> QED
      BY <3>2, <3>3 DEF OneOf
  <2> QED
    BY <1>5, <2>1, <2>2
<1>9. call' \in SendCalls /\ call'.pc = "settle"
  BY <1>1, <1>2 DEF SendCalls
<1>10. /\ call'.id = call.id /\ call'.session = call.session /\ call'.plan = call.plan
       /\ call'.fence = call.fence /\ call'.todo = call.todo /\ call'.guarded = call.guarded
  BY <1>1, <1>2 DEF SendCalls
<1>11. UnderOK(call', shown)
  BY <1>1, <1>2, <1>4, <1>9, <1>10 DEF UnderOK
<1>12. RouteOK(call', frame', graph')
  BY <1>9 DEF RouteOK
<1> QED
  BY <1>1, <1>7, <1>8, <1>9, <1>11, <1>12, IntFacts, PlansKept DEF CallOK

\* The face after it, and after a move an edge and an observation.
LEMMA InputSettles ==
  ASSUME IntInv, I!Settle
  PROVE  IntInv'
<1> DEFINE s == call.session
           step == call.todo[1]
           now == IF step.step = "act" THEN FALSE ELSE call.guarded
<1>1. /\ UNCHANGED <<screen, plans, shown, spent, sent>> /\ call.pc = "settle"
      /\ graph' = IF step.step = "move" THEN I!Seen(call.before, screen[s].focus, step.key) ELSE graph
      /\ frame' = IF step.step = "move" THEN [frame EXCEPT ![s] = <<screen[s]>>] ELSE frame
      /\ call' = [pc |-> "check", session |-> s, plan |-> call.plan, id |-> call.id, fence |-> call.fence,
                  todo |-> Tail(call.todo), guarded |-> now]
  BY DEF I!Settle
<1>2. call \in SendCalls /\ UnderOK(call, shown)
  BY <1>1, IntFacts, CallFacts
<1>3. /\ s \in Sessions /\ call.todo \in Seq(Steps) /\ call.plan \in Plans /\ call.before \in Spots
      /\ call.id \in Nat /\ call.fence \in Fences
  BY <1>2 DEF SendCalls
<1>4. call.todo # <<>> /\ step.step # "assert" /\ step \in Steps
  BY <1>1, <1>2, <1>3 DEF UnderOK
<1>5. step.step = "move" => step.key \in Vias
  BY <1>4, StepFacts
<1>6. screen[s] \in Frames /\ screen[s].focus \in Spots
  BY <1>3, IntFacts DEF Frames
<1>7. graph' \in Seq(Edge)
  BY <1>1, <1>3, <1>5, <1>6, IntFacts, SeenIs
<1>8. frame' \in [Sessions -> OneOf(Frames)]
  BY <1>1, <1>6, IntFacts DEF OneOf
<1>9. PICK armed \in BOOLEAN : armed = call.guarded
  BY <1>2 DEF SendCalls
<1>10. now \in BOOLEAN /\ (step.step # "act" => now = armed)
  BY <1>9
<1> HIDE DEF now
<1>11. Guarded(call.plan.verb, call.todo, armed) /\ Len(call.todo) <= Len(call.plan.steps)
  BY <1>2, <1>9 DEF UnderOK
<1>12. /\ Tail(call.todo) \in Seq(Steps) /\ Len(Tail(call.todo)) = Len(call.todo) - 1
       /\ Len(call.todo) \in Nat
       /\ Guarded(call.plan.verb, Tail(call.todo), now)
  BY <1>3, <1>4, <1>10, <1>11, TailGuarded
<1>13. Len(call.plan.steps) \in Nat
  BY <1>3 DEF Plans
<1>14. Len(Tail(call.todo)) < Len(call.plan.steps) /\ Len(Tail(call.todo)) <= Len(call.plan.steps)
  BY <1>11, <1>12, <1>13
<1>15. call' \in CheckCalls
  BY <1>1, <1>3, <1>10, <1>12 DEF CheckCalls
<1>16. UnderOK(call', shown)
  BY <1>1, <1>2, <1>12, <1>14 DEF UnderOK
<1>17. RouteOK(call', frame', graph')
  <2>1. Len(Tail(call.todo)) # Len(call.plan.steps)
    BY <1>12, <1>13, <1>14
  <2>2. call'.todo # call'.plan.steps
    BY <1>1, <2>1
  <2> QED
    BY <2>2 DEF RouteOK
<1> QED
  BY <1>1, <1>7, <1>8, <1>15, <1>16, <1>17, IntFacts, PlansKept DEF CallOK

\* An execution that is through, and a lease.
LEMMA EndsKeep ==
  ASSUME IntInv, I!Finish \/ I!Lease
  PROVE  IntInv'
<1>1. UNCHANGED <<screen, frame, graph, plans, shown, spent, sent>> /\ (call' = I!NoCall \/ UNCHANGED call)
  BY DEF I!Finish, I!Lease
<1>2. CASE call' = I!NoCall
  <2>1. CallOK(call', shown) /\ RouteOK(call', frame', graph')
    BY <1>2 DEF CallOK, RouteOK, I!NoCall
  <2> QED
    BY <1>1, <2>1, IntFacts, PlansKept
<1>3. CASE UNCHANGED call
  BY <1>1, <1>3, IntFacts, PlansKept
<1> QED
  BY <1>1, <1>2, <1>3

\* Every step keeps the invariant.
LEMMA IntNext ==
  ASSUME IntInv, IntentBounds, [I!Next]_I!intentVars
  PROVE  IntInv'
<1>1. CASE UNCHANGED I!intentVars
  BY <1>1 DEF I!intentVars, IntInv
<1>2. CASE I!Next
  BY <1>2, DriftKeeps, TabKeeps, ObserveKeeps, PreviewKeeps, ExecuteKeeps, ExpireKeeps, EndsKeep, FreshKeeps,
     ArmKeeps, CheckKeeps, DispatchKeeps, InputSettles DEF I!Next
<1> QED
  BY <1>1, <1>2

-----------------------------------------------------------------------------
(* Drivers of the audit: the ring of keys, the mouse, the output.           *)

\* A ring of two places at least, of which the driver sees some presses, and
\* bounds.
AudBounds ==
  /\ Places \in Nat /\ Places >= 2 /\ StepsPer \in Nat \ {0}
  /\ Clicks \in Nat /\ BurstKeys \in Nat /\ WindowOps \in Nat /\ MaxOps \in Nat

-----------------------------------------------------------------------------
(* The inductive invariant.                                                *)

Shot == [place : A!Where, aim : A!Where]
AudPcs == {"start", "on", "turn", "back", "judge", "click", "tabs", "burst", "compare", "done"}
Aud ==
  [kind : A!Drivers, pc : AudPcs, n : Nat, moved : Nat, trapped : BOOLEAN, whole : BOOLEAN,
   todo : Seq(Shot \cup Nat), tested : SUBSET A!Where]
AudTui == [manner : A!Manners, alive : BOOLEAN, focus : A!Where, at : [A!Where -> A!Where], cursor : Nat]
Arrow == A!Where \X A!Where \X {"on", "back"}
Ops == [window : Seq(A!Writes), all : Seq(A!Writes)]

\* What each driver has counted.
Tally(a) ==
  /\ a.kind = "keys" =>
       /\ a.n <= StepsPer /\ a.moved <= StepsPer /\ a.pc \in {"start", "on", "turn", "back", "judge", "done"}
       /\ a.pc = "start" => a.n = 0
       /\ a.pc \in {"start", "on"} => a.moved <= a.n
  /\ a.kind = "mouse" =>
       /\ a.pc \in {"start", "click", "done"} /\ a.todo \in Seq(Shot) /\ a.n + Len(a.todo) <= Clicks
       /\ a.pc = "start" => a.n = 0
  /\ a.kind = "states" => a.pc \in {"start", "tabs", "done"} /\ a.n <= StepsPer
  /\ a.kind = "errors" => a.pc \in {"start", "burst", "done"} /\ a.n <= BurstKeys
  /\ a.kind \in {"rendering", "latency"} => a.pc \in {"start", "done"} /\ a.n = 0
  /\ a.kind = "query" => a.pc \in {"start", "compare", "done"} /\ a.n = 0

\* The way of the focus round the ring.
OnRing(way) == way[0] = 0 /\ \A k \in 0 .. StepsPer - 1 : way[k + 1] = (way[k] + 1) % Places
Way == CHOOSE way \in [0 .. StepsPer -> A!Where] : OnRing(way)

\* The presses so far are steps of the way, and the presses back are those
\* of the way from the end on.
Walked(set, n) == \A e \in set : e[3] = "on" => \E k \in 0 .. n - 1 : e[1] = Way[k] /\ e[2] = Way[k + 1]
Retraced(set, n) == \A k \in n .. StepsPer - 1 : <<Way[k + 1], Way[k], "back">> \in set

RingWalk(a, t, set, ids) ==
  (a.kind = "keys" /\ a.whole /\ t.manner = "ring") =>
    /\ a.pc \in {"start", "on", "turn", "back", "done"} /\ ~a.trapped
    /\ a.pc = "start" => set = {}
    /\ a.pc \in {"start", "on", "turn"} =>
         a.moved = a.n /\ t.focus = Way[a.n] /\ Walked(set, a.n) /\ ids = {}
    /\ a.pc = "turn" => a.n = StepsPer
    /\ a.pc = "back" =>
         /\ a.moved = StepsPer /\ t.focus = Way[a.n] /\ ids = {}
         /\ Walked(set, StepsPer) /\ Retraced(set, a.n)
    /\ a.pc = "done" =>
         "NAV-REVERSE-OK" \in ids /\ ids \cap {"NAV-TRAP", "NAV-REVERSE-GAP"} = {} /\ t.focus = 0

\* A window that is not short is all that was written.
WindowOK(s) ==
  /\ s \in Ops /\ Len(s.window) <= WindowOps /\ Len(s.all) <= MaxOps
  /\ s.window = s.all \/ Len(s.window) < Len(s.all)
JudgedOK(a, s, ids) ==
  a.kind = "rendering" =>
    /\ a.pc = "start" => ids = {}
    /\ <<"REND-SYNC-UNBALANCED", "proved">> \in ids => A!Count(s.all, "sync on") # A!Count(s.all, "sync off")
    /\ <<"REND-CURSOR-LEAK", "proved">> \in ids => A!Count(s.all, "hide") > A!Count(s.all, "show")

AudInv ==
  /\ aud \in Aud /\ tui \in AudTui /\ edges \subseteq Arrow /\ Tally(aud) /\ WindowOK(ops)
  /\ RingWalk(aud, tui, edges, said) /\ JudgedOK(aud, ops, said)

-----------------------------------------------------------------------------

\* There is a way.
LEMMA WayExists ==
  ASSUME AudBounds
  PROVE  Way \in [0 .. StepsPer -> A!Where] /\ OnRing(Way)
<1> DEFINE step == [p \in (1 .. StepsPer) \X A!Where |-> (p[2] + 1) % Places]
<1>1. StepsPer \in Nat /\ 0 \in A!Where
  BY DEF AudBounds, A!Where
<1>2. \A x \in A!Where : (x + 1) % Places \in A!Where
  BY DEF AudBounds, A!Where
<1>3. step \in [(1 .. StepsPer) \X A!Where -> A!Where]
  BY <1>2
<1>4. \A i \in 1 .. StepsPer, x \in A!Where : step[<<i, x>>] = (x + 1) % Places
  OBVIOUS
<1> HIDE DEF step
<1>5. Scans(StepsPer, A!Where, 0, step)
  BY <1>1, <1>3, ScanExists
<1>6. PICK way \in [0 .. StepsPer -> A!Where] : IsScan(way, StepsPer, 0, step)
  BY <1>5 DEF Scans
<1>7. OnRing(way)
  <2>1. way[0] = 0
    <3>1. 0 \in 0 .. StepsPer
      BY <1>1
    <3>2. way[0] = IF 0 = 0 THEN 0 ELSE step[<<0, way[0 - 1]>>]
      BY <1>6, <3>1 DEF IsScan
    <3> QED
      BY <3>2
  <2>2. ASSUME NEW k \in 0 .. StepsPer - 1 PROVE way[k + 1] = (way[k] + 1) % Places
    <3>1. k \in 0 .. StepsPer /\ k + 1 \in 1 .. StepsPer /\ k + 1 \in 0 .. StepsPer
          /\ k + 1 # 0 /\ k + 1 - 1 = k
      BY <1>1
    <3>2. way[k + 1] = step[<<k + 1, way[k]>>]
      BY <1>6, <3>1 DEF IsScan
    <3>3. way[k] \in A!Where
      BY <3>1
    <3> QED
      BY <1>4, <3>1, <3>2, <3>3
  <2> QED
    BY <2>1, <2>2 DEF OnRing
<1> QED
  BY <1>6, <1>7 DEF Way

\* A press takes a ring from one place of the way to the next, and a press
\* back to the one before.
LEMMA RingLands ==
  ASSUME AudBounds, NEW k \in 0 .. StepsPer - 1
  PROVE  /\ Way[k] \in A!Where /\ Way[k + 1] \in A!Where /\ Way[k + 1] = (Way[k] + 1) % Places
         /\ Way[k + 1] # Way[k] /\ (Way[k + 1] + Places - 1) % Places = Way[k]
<1>1. k \in 0 .. StepsPer /\ k + 1 \in 0 .. StepsPer
  BY DEF AudBounds
<1>2. Way[k] \in A!Where /\ Way[k + 1] \in A!Where /\ Way[k + 1] = (Way[k] + 1) % Places
  BY <1>1, WayExists DEF OnRing
<1>3. PICK f \in A!Where : f = Way[k]
  BY <1>2
<1>4. Places \in Nat /\ Places >= 2 /\ f \in 0 .. Places - 1
  BY <1>3 DEF AudBounds, A!Where
<1>5. CASE f + 1 = Places
  <2>1. (f + 1) % Places = 0
    BY <1>4, <1>5
  <2>2. (0 + Places - 1) % Places = f
    BY <1>4, <1>5
  <2> QED
    BY <1>2, <1>3, <1>4, <1>5, <2>1, <2>2
<1>6. CASE f + 1 # Places
  <2>1. (f + 1) % Places = f + 1
    BY <1>4, <1>6
  <2>2. ((f + 1) + Places - 1) % Places = f
    BY <1>4, <1>6
  <2> QED
    BY <1>2, <1>3, <1>4, <1>6, <2>1, <2>2
<1> QED
  BY <1>5, <1>6

\* A key keeps the focus among the places.
LEMMA LandsHere ==
  ASSUME AudBounds, AudInv, NEW dir \in {"on", "back"}, NEW f \in A!Lands(dir)
  PROVE  /\ f \in A!Where
         /\ tui.manner = "ring" /\ dir = "on" => f = (tui.focus + 1) % Places
         /\ tui.manner = "ring" /\ dir = "back" => f = (tui.focus + Places - 1) % Places
<1>1. PICK g \in 0 .. Places - 1 : g = tui.focus
  BY DEF AudInv, AudTui, A!Where
<1>2. tui.manner \in A!Manners /\ Places \in Nat /\ Places >= 2
  BY DEF AudInv, AudTui, AudBounds
<1>3. (g + 1) % Places \in 0 .. Places - 1 /\ (g + Places - 1) % Places \in 0 .. Places - 1
  BY <1>2
<1>4. CASE tui.manner = "ring"
  BY <1>1, <1>3, <1>4 DEF A!Lands, A!Where
<1>5. CASE tui.manner = "wall"
  <2>1. f = IF dir = "on" THEN IF g = Places - 1 THEN g ELSE g + 1 ELSE IF g = 0 THEN 0 ELSE g - 1
    BY <1>1, <1>5 DEF A!Lands
  <2>2. f \in 0 .. Places - 1
    BY <1>1, <1>2, <2>1
  <2> QED
    BY <1>5, <2>2 DEF A!Where
<1>6. CASE tui.manner = "deaf"
  BY <1>1, <1>6 DEF A!Lands, A!Where
<1>7. CASE tui.manner = "wild"
  BY <1>7 DEF A!Lands
<1> QED
  BY <1>2, <1>4, <1>5, <1>6, <1>7 DEF A!Manners

\* The targets are places.
LEMMA AimsAreHere ==
  ASSUME AudBounds
  PROVE  A!Aims \in Seq(A!Where)
<1> DEFINE f == CHOOSE g : g = [n \in 0 .. Places |->
                  IF n = 0 THEN <<>>
                  ELSE IF tui.at[n - 1] # Fenced THEN Append(g[n - 1], n - 1) ELSE g[n - 1]]
           step == [p \in (1 .. Places) \X Seq(A!Where) |->
                      IF tui.at[p[1] - 1] # Fenced THEN Append(p[2], p[1] - 1) ELSE p[2]]
<1>1. A!Aims = f[Places]
  BY DEF A!Aims
<1>2. Places \in Nat /\ \A n \in 1 .. Places : n - 1 \in A!Where
  BY DEF AudBounds, A!Where
<1>3. step \in [(1 .. Places) \X Seq(A!Where) -> Seq(A!Where)]
  <2>1. \A n \in 1 .. Places, c \in Seq(A!Where) :
          (IF tui.at[n - 1] # Fenced THEN Append(c, n - 1) ELSE c) \in Seq(A!Where)
    BY <1>2
  <2> QED
    BY <2>1
<1>4. \A n \in 1 .. Places, c \in Seq(A!Where) :
        step[<<n, c>>] = IF tui.at[n - 1] # Fenced THEN Append(c, n - 1) ELSE c
  OBVIOUS
<1> HIDE DEF step
<1>5. PICK g \in [0 .. Places -> Seq(A!Where)] :
        \A i \in 0 .. Places : g[i] = IF i = 0 THEN <<>> ELSE step[<<i, g[i - 1]>>]
  <2>1. <<>> \in Seq(A!Where)
    OBVIOUS
  <2>2. Scans(Places, Seq(A!Where), <<>>, step)
    BY <1>2, <1>3, <2>1, ScanExists
  <2> QED
    BY <2>2 DEF Scans, IsScan
<1>6. \A i \in 1 .. Places : g[i] = IF tui.at[i - 1] # Fenced THEN Append(g[i - 1], i - 1) ELSE g[i - 1]
  <2>1. \A i \in 1 .. Places : i \in 0 .. Places /\ i # 0 /\ i - 1 \in 0 .. Places
    BY <1>2
  <2> QED
    BY <1>4, <1>5, <2>1
<1>7. g = [n \in 0 .. Places |->
             IF n = 0 THEN <<>> ELSE IF tui.at[n - 1] # Fenced THEN Append(g[n - 1], n - 1) ELSE g[n - 1]]
  <2>1. ASSUME NEW i \in 0 .. Places
        PROVE  g[i] = IF i = 0 THEN <<>>
                      ELSE IF tui.at[i - 1] # Fenced THEN Append(g[i - 1], i - 1) ELSE g[i - 1]
    <3>1. i # 0 => i \in 1 .. Places
      BY <1>2
    <3> QED
      BY <1>5, <1>6, <3>1
  <2> QED
    BY <2>1
<1>8. f = [n \in 0 .. Places |->
             IF n = 0 THEN <<>> ELSE IF tui.at[n - 1] # Fenced THEN Append(f[n - 1], n - 1) ELSE f[n - 1]]
  BY <1>7
<1> HIDE DEF f
<1>9. /\ f[0] = <<>>
      /\ \A i \in 1 .. Places : f[i] = IF tui.at[i - 1] # Fenced THEN Append(f[i - 1], i - 1) ELSE f[i - 1]
  <2>1. 0 \in 0 .. Places /\ \A i \in 1 .. Places : i \in 0 .. Places /\ i # 0
    BY <1>2
  <2> QED
    BY <1>8, <2>1
<1> DEFINE Good == Nat \X Seq(A!Where)
<1>10. <<0, f[0]>> \in Good
  <2>1. <<>> \in Seq(A!Where)
    OBVIOUS
  <2> QED
    BY <1>9, <2>1
<1>11. ASSUME NEW i \in 1 .. Places, <<i - 1, f[i - 1]>> \in Good PROVE <<i, f[i]>> \in Good
  <2>1. i \in Nat /\ i - 1 \in A!Where /\ f[i - 1] \in Seq(A!Where)
    BY <1>2, <1>11
  <2>2. Append(f[i - 1], i - 1) \in Seq(A!Where)
    BY <2>1
  <2> QED
    BY <1>9, <2>1, <2>2
<1> HIDE DEF Good
<1>12. <<Places, f[Places]>> \in Good
  <2>1. \A i \in 0 .. Places : <<i, f[i]>> \in Good
    BY <1>2, <1>10, <1>11, ScanHolds
  <2>2. Places \in 0 .. Places
    BY <1>2
  <2> QED
    BY <2>1, <2>2
<1> QED
  BY <1>1, <1>12 DEF Good

-----------------------------------------------------------------------------
(* The steps.                                                              *)

\* What the invariant says of the fields.
LEMMA AudFacts ==
  ASSUME AudInv
  PROVE  /\ aud = [kind |-> aud.kind, pc |-> aud.pc, n |-> aud.n, moved |-> aud.moved,
                   trapped |-> aud.trapped, whole |-> aud.whole, todo |-> aud.todo, tested |-> aud.tested]
         /\ aud.kind \in A!Drivers /\ aud.pc \in AudPcs /\ aud.n \in Nat /\ aud.moved \in Nat
         /\ aud.trapped \in BOOLEAN /\ aud.whole \in BOOLEAN /\ aud.todo \in Seq(Shot \cup Nat)
         /\ aud.tested \subseteq A!Where
         /\ tui = [manner |-> tui.manner, alive |-> tui.alive, focus |-> tui.focus, at |-> tui.at,
                   cursor |-> tui.cursor]
         /\ tui.manner \in A!Manners /\ tui.alive \in BOOLEAN /\ tui.focus \in A!Where
         /\ tui.at \in [A!Where -> A!Where] /\ tui.cursor \in Nat
         /\ edges \subseteq Arrow /\ Tally(aud) /\ WindowOK(ops)
         /\ RingWalk(aud, tui, edges, said) /\ JudgedOK(aud, ops, said)
BY DEF AudInv, Aud, AudTui

\* Before a driver.
LEMMA AudInit ==
  ASSUME AudBounds, A!Init
  PROVE  AudInv
<1>1. PICK kind \in A!Drivers :
        aud = [kind |-> kind, pc |-> "start", n |-> 0, moved |-> 0, trapped |-> FALSE, whole |-> TRUE,
               todo |-> <<>>, tested |-> {}]
  BY DEF A!Init
<1>2. PICK manner \in A!Manners :
        tui = [manner |-> manner, alive |-> TRUE, focus |-> 0, at |-> [p \in A!Where |-> p], cursor |-> 0]
  BY DEF A!Init
<1>3. edges = {} /\ ops = [window |-> <<>>, all |-> <<>>] /\ said = {}
  BY DEF A!Init
<1>4. /\ Places \in Nat /\ 0 \in A!Where /\ StepsPer \in Nat /\ Clicks \in Nat /\ BurstKeys \in Nat
      /\ WindowOps \in Nat /\ MaxOps \in Nat /\ Len(<<>>) = 0
      /\ <<>> \in Seq(Shot \cup Nat) /\ <<>> \in Seq(Shot) /\ <<>> \in Seq(A!Writes)
  BY DEF AudBounds, A!Where
<1>5. aud \in Aud
  BY <1>1, <1>4 DEF Aud, AudPcs
<1>6. tui \in AudTui
  <2>1. [p \in A!Where |-> p] \in [A!Where -> A!Where]
    OBVIOUS
  <2> QED
    BY <1>2, <1>4, <2>1 DEF AudTui
<1>7. Tally(aud)
  BY <1>1, <1>4 DEF Tally
<1>8. WindowOK(ops)
  <2>1. ops \in Ops /\ ops.window = <<>> /\ ops.all = <<>>
    BY <1>3, <1>4 DEF Ops
  <2> QED
    BY <1>4, <2>1 DEF WindowOK
<1>9. RingWalk(aud, tui, edges, said)
  <2>1. Way[0] = 0
    BY WayExists DEF OnRing
  <2>2. Walked(edges, 0)
    BY <1>3 DEF Walked
  <2> QED
    BY <1>1, <1>2, <1>3, <2>1, <2>2 DEF RingWalk
<1>10. JudgedOK(aud, ops, said)
  BY <1>3 DEF JudgedOK
<1> QED
  BY <1>3, <1>5, <1>6, <1>7, <1>8, <1>9, <1>10 DEF AudInv

\* The application by itself changes nothing that counts.
LEMMA ItselfKeeps ==
  ASSUME AudBounds, AudInv, A!Itself
  PROVE  AudInv'
<1>1. UNCHANGED <<aud, edges, ops, said>>
  BY DEF A!Itself
<1>2. tui' \in AudTui /\ tui'.manner = tui.manner /\ tui'.focus = tui.focus
  <2>1. CASE tui' = [tui EXCEPT !.alive = FALSE]
    BY <2>1, AudFacts DEF AudTui
  <2>2. CASE tui' = [tui EXCEPT !.cursor = @ + 1]
    BY <2>2, AudFacts DEF AudTui
  <2>3. ASSUME NEW p \in A!Where, NEW q \in A!Where,
               tui' = [tui EXCEPT !.at = [tui.at EXCEPT ![p] = tui.at[q], ![q] = tui.at[p]]]
        PROVE  tui' \in AudTui /\ tui'.manner = tui.manner /\ tui'.focus = tui.focus
    <3>1. [tui.at EXCEPT ![p] = tui.at[q], ![q] = tui.at[p]] \in [A!Where -> A!Where]
      BY AudFacts
    <3> QED
      BY <2>3, <3>1, AudFacts DEF AudTui
  <2> QED
    BY <2>1, <2>2, <2>3 DEF A!Itself
<1>3. RingWalk(aud, tui', edges, said)
  BY <1>2, AudFacts DEF RingWalk
<1> QED
  BY <1>1, <1>2, <1>3, AudFacts DEF AudInv

\* The application writes.
LEMMA EmitsKeeps ==
  ASSUME AudBounds, AudInv, A!Emits
  PROVE  AudInv'
<1>1. PICK op \in A!Writes :
        ops' = [window |-> LET w == Append(ops.window, op) IN IF Len(w) > WindowOps THEN Tail(w) ELSE w,
                all |-> Append(ops.all, op)]
  BY DEF A!Emits
<1>2. /\ aud.kind = "rendering" /\ aud.pc = "start" /\ Len(ops.all) < MaxOps
      /\ UNCHANGED <<aud, tui, edges, said>>
  BY DEF A!Emits
<1> DEFINE w == Append(ops.window, op)
           all == Append(ops.all, op)
<1>3. /\ ops.window \in Seq(A!Writes) /\ ops.all \in Seq(A!Writes) /\ Len(ops.window) <= WindowOps
      /\ Len(ops.window) \in Nat /\ Len(ops.all) \in Nat
      /\ ops.window = ops.all \/ Len(ops.window) < Len(ops.all)
  BY AudFacts DEF WindowOK, Ops
<1>4. w \in Seq(A!Writes) /\ Len(w) = Len(ops.window) + 1
      /\ all \in Seq(A!Writes) /\ Len(all) = Len(ops.all) + 1
  BY <1>3, AppendProperties
<1>5. ops.window = ops.all => w = all
  OBVIOUS
<1>6. WindowOps \in Nat /\ MaxOps \in Nat /\ Len(<<>>) = 0
  BY DEF AudBounds
<1>7. ops'.all = all /\ ops'.window = IF Len(w) > WindowOps THEN Tail(w) ELSE w
  BY <1>1
<1>8. ops' = [window |-> ops'.window, all |-> ops'.all]
  BY <1>1
<1> HIDE DEF w, all
<1>9. ASSUME Len(w) > WindowOps PROVE WindowOK(ops')
  <2>1. w # <<>>
    BY <1>3, <1>4, <1>6
  <2>2. Tail(w) \in Seq(A!Writes) /\ Len(Tail(w)) = Len(w) - 1
    BY <1>4, <2>1, HeadTailProperties
  <2>3. Len(ops.window) <= Len(ops.all)
    BY <1>3
  <2>4. ops'.window = Tail(w)
    BY <1>7, <1>9
  <2>5. Len(Tail(w)) <= WindowOps /\ Len(Tail(w)) < Len(all) /\ Len(all) <= MaxOps
    BY <1>2, <1>3, <1>4, <1>6, <2>2, <2>3, SMTT(30)
  <2>6. WindowOK(ops')
    BY <1>4, <1>7, <1>8, <2>2, <2>4, <2>5 DEF WindowOK, Ops
  <2> QED
    BY <2>6
<1>10. ASSUME ~(Len(w) > WindowOps) PROVE WindowOK(ops')
  <2>1. ops'.window = w
    BY <1>7, <1>10
  <2>2. Len(w) <= WindowOps /\ Len(all) <= MaxOps /\ (w = all \/ Len(w) < Len(all))
    BY <1>2, <1>3, <1>4, <1>5, <1>6, <1>10
  <2>3. WindowOK(ops')
    BY <1>4, <1>7, <1>8, <2>1, <2>2 DEF WindowOK, Ops
  <2> QED
    BY <2>3
<1>11. WindowOK(ops')
  BY <1>9, <1>10
<1>12. JudgedOK(aud, ops', said)
  BY <1>2, AudFacts DEF JudgedOK
<1> QED
  BY <1>2, <1>11, <1>12, AudFacts DEF AudInv

-----------------------------------------------------------------------------
(* The driver of keys.                                                     *)

\* A driver of keys that keeps its window: what is left to show.
LEMMA KeysKeep ==
  ASSUME AudInv, aud.kind = "keys", ops' = ops, aud' \in Aud, aud'.kind = "keys", tui' \in AudTui,
         edges' \subseteq Arrow, Tally(aud'), RingWalk(aud', tui', edges', said')
  PROVE  AudInv'
<1>1. JudgedOK(aud', ops', said')
  BY DEF JudgedOK
<1> QED
  BY <1>1, AudFacts DEF AudInv

\* A press of the key.
LEMMA PressKeeps ==
  ASSUME AudBounds, AudInv, A!Press
  PROVE  AudInv'
<1>1. PICK f \in A!Lands("on") :
        /\ tui' = [tui EXCEPT !.focus = f]
        /\ edges' = edges \cup {<<tui.focus, f, "on">>}
        /\ aud' = [aud EXCEPT !.pc = "on", !.n = @ + 1, !.moved = IF f # tui.focus THEN @ + 1 ELSE @,
                              !.trapped = @ \/ (f = tui.focus /\ Places > 1)]
  BY DEF A!Press
<1>2. /\ aud.kind = "keys" /\ aud.pc \in {"start", "on"} /\ aud.n < StepsPer
      /\ UNCHANGED <<ops, said, spare>>
  BY DEF A!Press
<1>3. f \in A!Where /\ (tui.manner = "ring" => f = (tui.focus + 1) % Places)
  BY LandsHere
<1>4. PICK n \in Nat, moved \in Nat, trapped \in BOOLEAN :
        /\ n = aud.n + 1 /\ moved = (IF f # tui.focus THEN aud.moved + 1 ELSE aud.moved)
        /\ trapped = (aud.trapped \/ (f = tui.focus /\ Places > 1))
  <2>1. PICK n \in Nat : n = aud.n + 1
    BY AudFacts
  <2>2. PICK moved \in Nat : moved = (IF f # tui.focus THEN aud.moved + 1 ELSE aud.moved)
    BY AudFacts
  <2>3. PICK trapped \in BOOLEAN : trapped = (aud.trapped \/ (f = tui.focus /\ Places > 1))
    OBVIOUS
  <2> QED
    BY <2>1, <2>2, <2>3
<1>5. aud' = [aud EXCEPT !.pc = "on", !.n = n, !.moved = moved, !.trapped = trapped]
  BY <1>1, <1>4
<1>6. aud' = [kind |-> aud.kind, pc |-> "on", n |-> n, moved |-> moved, trapped |-> trapped,
                whole |-> aud.whole, todo |-> aud.todo, tested |-> aud.tested]
  BY <1>5, AudFacts
<1>7. /\ aud' \in Aud /\ aud'.kind = aud.kind /\ aud'.pc = "on" /\ aud'.n = n /\ aud'.moved = moved
      /\ aud'.trapped = trapped /\ aud'.whole = aud.whole
  BY <1>6, AudFacts DEF Aud, AudPcs
<1>8. tui' \in AudTui /\ tui'.focus = f /\ tui'.manner = tui.manner
  BY <1>1, <1>3, AudFacts DEF AudTui
<1>9. edges' \subseteq Arrow
  BY <1>1, <1>3, AudFacts DEF Arrow
<1>10. Tally(aud')
  <2>1. aud.moved <= aud.n /\ aud.n \in Nat /\ aud.moved \in Nat /\ StepsPer \in Nat
    BY <1>2, AudFacts DEF Tally, AudBounds
  <2>2. moved <= n /\ n <= StepsPer /\ moved <= StepsPer
    BY <1>2, <1>4, <2>1
  <2> QED
    BY <1>2, <1>7, <2>2 DEF Tally
<1>11. RingWalk(aud', tui', edges', said')
  <2> SUFFICES ASSUME aud.whole, tui.manner = "ring" PROVE RingWalk(aud', tui', edges', said')
    BY <1>7, <1>8 DEF RingWalk
  <2>1. aud.moved = aud.n /\ tui.focus = Way[aud.n] /\ Walked(edges, aud.n) /\ said = {} /\ ~aud.trapped
    BY <1>2, AudFacts DEF RingWalk
  <2>2. aud.n \in 0 .. StepsPer - 1
    BY <1>2, AudFacts DEF AudBounds
  <2>3. f = Way[aud.n + 1] /\ f # tui.focus
    BY <1>3, <2>1, <2>2, RingLands
  <2>4. moved = n /\ ~trapped
    BY <1>4, <2>1, <2>3
  <2>5. Walked(edges', n)
    <3>1. ASSUME NEW e \in edges', e[3] = "on"
          PROVE  \E k \in 0 .. n - 1 : e[1] = Way[k] /\ e[2] = Way[k + 1]
      <4>1. CASE e \in edges
        <5>1. PICK k \in 0 .. aud.n - 1 : e[1] = Way[k] /\ e[2] = Way[k + 1]
          BY <2>1, <3>1, <4>1 DEF Walked
        <5>2. k \in 0 .. n - 1
          BY <1>4, AudFacts
        <5> QED
          BY <5>1, <5>2
      <4>2. CASE e = <<tui.focus, f, "on">>
        <5>1. aud.n \in 0 .. n - 1
          BY <1>4, AudFacts
        <5> QED
          BY <2>1, <2>3, <4>2, <5>1
      <4> QED
        BY <1>1, <4>1, <4>2
    <3> QED
      BY <3>1 DEF Walked
  <2> QED
    BY <1>2, <1>4, <1>7, <1>8, <2>1, <2>3, <2>4, <2>5 DEF RingWalk
<1> QED
  BY <1>2, <1>7, <1>8, <1>9, <1>10, <1>11, KeysKeep

\* A press that fails.
LEMMA PressFailsKeeps ==
  ASSUME AudBounds, AudInv, A!PressFails
  PROVE  AudInv'
<1>1. /\ aud.kind = "keys" /\ aud.pc \in {"start", "on", "back"} /\ UNCHANGED <<tui, said, edges, ops>>
      /\ aud' = [aud EXCEPT !.pc = IF aud.pc = "back" THEN "judge" ELSE "turn", !.whole = FALSE]
  BY DEF A!PressFails, A!Keeps
<1>2. PICK pc \in {"judge", "turn"} : pc = IF aud.pc = "back" THEN "judge" ELSE "turn"
  OBVIOUS
<1>3. aud' = [kind |-> aud.kind, pc |-> pc, n |-> aud.n, moved |-> aud.moved, trapped |-> aud.trapped,
                whole |-> FALSE, todo |-> aud.todo, tested |-> aud.tested]
  BY <1>1, <1>2, AudFacts
<1>4. /\ aud' \in Aud /\ aud'.kind = aud.kind /\ aud'.pc = pc /\ aud'.n = aud.n /\ aud'.moved = aud.moved
      /\ aud'.whole = FALSE
  BY <1>3, AudFacts DEF Aud, AudPcs
<1>5. Tally(aud')
  BY <1>1, <1>4, AudFacts DEF Tally
<1>6. RingWalk(aud', tui', edges', said')
  BY <1>4 DEF RingWalk
<1> QED
  BY <1>1, <1>4, <1>5, <1>6, KeysKeep, AudFacts DEF AudInv

\* All presses are done.
LEMMA PressesDoneKeeps ==
  ASSUME AudBounds, AudInv, A!PressesDone
  PROVE  AudInv'
<1>1. /\ aud.kind = "keys" /\ aud.pc = "on" /\ aud.n = StepsPer /\ UNCHANGED <<tui, said, edges, ops>>
      /\ aud' = [aud EXCEPT !.pc = "turn"]
  BY DEF A!PressesDone, A!Keeps, A!Goes
<1>2. aud' = [kind |-> aud.kind, pc |-> "turn", n |-> aud.n, moved |-> aud.moved, trapped |-> aud.trapped,
                whole |-> aud.whole, todo |-> aud.todo, tested |-> aud.tested]
  BY <1>1, AudFacts
<1>3. /\ aud' \in Aud /\ aud'.kind = aud.kind /\ aud'.pc = "turn" /\ aud'.n = aud.n /\ aud'.moved = aud.moved
      /\ aud'.whole = aud.whole /\ aud'.trapped = aud.trapped
  BY <1>2, AudFacts DEF Aud, AudPcs
<1>4. Tally(aud')
  BY <1>1, <1>3, AudFacts DEF Tally
<1>5. RingWalk(aud', tui', edges', said')
  BY <1>1, <1>3, AudFacts DEF RingWalk
<1> QED
  BY <1>1, <1>3, <1>4, <1>5, KeysKeep, AudFacts DEF AudInv

\* The walk turns: as many presses back as there were steps.
LEMMA TurnKeeps ==
  ASSUME AudBounds, AudInv, A!Turn
  PROVE  AudInv'
<1>1. /\ aud.pc = "turn" /\ UNCHANGED <<tui, said, edges, ops>>
      /\ aud' = [aud EXCEPT !.pc = "back", !.n = A!BackPresses(aud.moved)]
  BY DEF A!Turn, A!Keeps
<1>2. aud.kind = "keys"
  BY <1>1, AudFacts DEF Tally, A!Drivers
<1>3. PICK n \in Nat : n = A!BackPresses(aud.moved)
  BY AudFacts DEF A!BackPresses
<1>4. aud' = [kind |-> aud.kind, pc |-> "back", n |-> n, moved |-> aud.moved, trapped |-> aud.trapped,
                whole |-> aud.whole, todo |-> aud.todo, tested |-> aud.tested]
  BY <1>1, <1>3, AudFacts
<1>5. /\ aud' \in Aud /\ aud'.kind = aud.kind /\ aud'.pc = "back" /\ aud'.n = n /\ aud'.moved = aud.moved
      /\ aud'.whole = aud.whole /\ aud'.trapped = aud.trapped
  BY <1>4, AudFacts DEF Aud, AudPcs
<1>6. StepsPer \in Nat /\ StepsPer > 0 /\ aud.moved <= StepsPer
  BY <1>2, AudFacts DEF AudBounds, Tally
<1>7. n <= StepsPer /\ (aud.moved > 0 => n = aud.moved)
  BY <1>3, <1>6, AudFacts DEF A!BackPresses
<1>8. Tally(aud')
  BY <1>2, <1>5, <1>6, <1>7 DEF Tally
<1>9. RingWalk(aud', tui', edges', said')
  <2> SUFFICES ASSUME aud.whole, tui.manner = "ring" PROVE RingWalk(aud', tui', edges', said')
    BY <1>1, <1>5 DEF RingWalk
  <2>1. /\ aud.moved = aud.n /\ tui.focus = Way[aud.n] /\ Walked(edges, aud.n) /\ said = {} /\ ~aud.trapped
        /\ aud.n = StepsPer
    BY <1>1, <1>2, AudFacts DEF RingWalk
  <2>2. n = StepsPer
    BY <1>6, <1>7, <2>1
  <2>3. Retraced(edges, n)
    BY <1>6, <2>2 DEF Retraced
  <2> QED
    BY <1>1, <1>5, <2>1, <2>2, <2>3 DEF RingWalk
<1> QED
  BY <1>1, <1>2, <1>5, <1>8, <1>9, KeysKeep, AudFacts DEF AudInv

\* A press back.
LEMMA PressBackKeeps ==
  ASSUME AudBounds, AudInv, A!PressBack
  PROVE  AudInv'
<1>1. PICK f \in A!Lands("back") :
        /\ tui' = [tui EXCEPT !.focus = f]
        /\ edges' = edges \cup {<<tui.focus, f, "back">>}
  BY DEF A!PressBack
<1>2. /\ aud.kind = "keys" /\ aud.pc = "back" /\ aud.n > 0 /\ aud' = [aud EXCEPT !.n = @ - 1]
      /\ UNCHANGED <<ops, said, spare>>
  BY DEF A!PressBack
<1>3. f \in A!Where /\ (tui.manner = "ring" => f = (tui.focus + Places - 1) % Places)
  BY LandsHere
<1>4. PICK n \in Nat : n = aud.n - 1
  BY <1>2, AudFacts
<1>5. aud' = [kind |-> aud.kind, pc |-> aud.pc, n |-> n, moved |-> aud.moved, trapped |-> aud.trapped,
                whole |-> aud.whole, todo |-> aud.todo, tested |-> aud.tested]
  BY <1>2, <1>4, AudFacts
<1>6. /\ aud' \in Aud /\ aud'.kind = aud.kind /\ aud'.pc = "back" /\ aud'.n = n /\ aud'.moved = aud.moved
      /\ aud'.whole = aud.whole /\ aud'.trapped = aud.trapped
  BY <1>2, <1>5, AudFacts DEF Aud, AudPcs
<1>7. tui' \in AudTui /\ tui'.focus = f /\ tui'.manner = tui.manner
  BY <1>1, <1>3, AudFacts DEF AudTui
<1>8. edges' \subseteq Arrow
  BY <1>1, <1>3, AudFacts DEF Arrow
<1>9. aud.n <= StepsPer /\ aud.moved <= StepsPer /\ StepsPer \in Nat
  BY <1>2, AudFacts DEF Tally, AudBounds
<1>10. Tally(aud')
  <2>1. n <= StepsPer
    BY <1>4, <1>9, AudFacts
  <2> QED
    BY <1>2, <1>6, <1>9, <2>1 DEF Tally
<1>11. RingWalk(aud', tui', edges', said')
  <2> SUFFICES ASSUME aud.whole, tui.manner = "ring" PROVE RingWalk(aud', tui', edges', said')
    BY <1>6, <1>7 DEF RingWalk
  <2>1. /\ aud.moved = StepsPer /\ tui.focus = Way[aud.n] /\ said = {} /\ ~aud.trapped
        /\ Walked(edges, StepsPer) /\ Retraced(edges, aud.n)
    BY <1>2, AudFacts DEF RingWalk
  <2>2. n \in 0 .. StepsPer - 1 /\ n + 1 = aud.n
    BY <1>2, <1>4, <1>9, AudFacts
  <2>3. f = Way[n]
    BY <1>3, <2>1, <2>2, RingLands
  <2>4. Walked(edges', StepsPer)
    <3>1. \A e \in edges' : e[3] = "on" => e \in edges
      BY <1>1
    <3> QED
      BY <2>1, <3>1 DEF Walked
  <2>5. Retraced(edges', n)
    <3>1. ASSUME NEW k \in n .. StepsPer - 1 PROVE <<Way[k + 1], Way[k], "back">> \in edges'
      <4>1. CASE k = n
        BY <1>1, <2>1, <2>2, <2>3, <4>1
      <4>2. CASE k # n
        <5>1. k \in aud.n .. StepsPer - 1
          BY <2>2, <4>2
        <5> QED
          BY <1>1, <2>1, <5>1 DEF Retraced
      <4> QED
        BY <4>1, <4>2
    <3> QED
      BY <3>1 DEF Retraced
  <2> QED
    BY <1>2, <1>6, <1>7, <2>1, <2>3, <2>4, <2>5 DEF RingWalk
<1> QED
  BY <1>2, <1>6, <1>7, <1>8, <1>10, <1>11, KeysKeep

\* The judgement of the keys.
LEMMA JudgeKeysKeeps ==
  ASSUME AudBounds, AudInv, A!JudgeKeys
  PROVE  AudInv'
<1>1. /\ aud.kind = "keys" /\ (aud.pc = "judge" \/ (aud.pc = "back" /\ aud.n = 0))
      /\ said' = IF aud.moved = 0 THEN said \cup {"NAV-UNUSED"}
                 ELSE said \cup (IF aud.trapped THEN {"NAV-TRAP"} ELSE {})
                           \cup {IF A!Gaps = {} THEN "NAV-REVERSE-OK" ELSE "NAV-REVERSE-GAP"}
                           \cup (IF A!Stranded # {} THEN {"NAV-UNREACHABLE"} ELSE {})
      /\ aud' = [aud EXCEPT !.pc = "done"] /\ UNCHANGED <<tui, edges, ops>>
  BY DEF A!JudgeKeys, A!Keeps, A!Goes
<1>2. aud' = [kind |-> aud.kind, pc |-> "done", n |-> aud.n, moved |-> aud.moved, trapped |-> aud.trapped,
                whole |-> aud.whole, todo |-> aud.todo, tested |-> aud.tested]
  BY <1>1, AudFacts
<1>3. /\ aud' \in Aud /\ aud'.kind = aud.kind /\ aud'.pc = "done" /\ aud'.n = aud.n /\ aud'.moved = aud.moved
      /\ aud'.whole = aud.whole /\ aud'.trapped = aud.trapped
  BY <1>2, AudFacts DEF Aud, AudPcs
<1>4. Tally(aud')
  BY <1>1, <1>3, AudFacts DEF Tally
<1>5. RingWalk(aud', tui', edges', said')
  <2> SUFFICES ASSUME aud.whole, tui.manner = "ring" PROVE RingWalk(aud', tui', edges', said')
    BY <1>1, <1>3 DEF RingWalk
  <2>1. /\ aud.pc = "back" /\ aud.n = 0 /\ aud.moved = StepsPer /\ tui.focus = Way[0] /\ said = {}
        /\ ~aud.trapped /\ Walked(edges, StepsPer) /\ Retraced(edges, 0)
    BY <1>1, AudFacts DEF RingWalk
  <2>2. aud.moved # 0
    BY <2>1 DEF AudBounds
  <2>3. A!Gaps = {}
    <3>1. ASSUME NEW e \in edges, e[3] = "on" PROVE <<e[2], e[1], "back">> \in edges
      <4>1. PICK k \in 0 .. StepsPer - 1 : e[1] = Way[k] /\ e[2] = Way[k + 1]
        BY <2>1, <3>1 DEF Walked
      <4> QED
        BY <2>1, <4>1 DEF Retraced
    <3> QED
      BY <3>1 DEF A!Gaps
  <2>4. Way[0] = 0
    BY WayExists DEF OnRing
  <2>5. said' = {"NAV-REVERSE-OK"} \cup (IF A!Stranded # {} THEN {"NAV-UNREACHABLE"} ELSE {})
    BY <1>1, <2>1, <2>2, <2>3
  <2>6. "NAV-REVERSE-OK" \in said' /\ said' \cap {"NAV-TRAP", "NAV-REVERSE-GAP"} = {}
    BY <2>5
  <2> QED
    BY <1>1, <1>3, <2>1, <2>4, <2>6 DEF RingWalk
<1> QED
  BY <1>1, <1>3, <1>4, <1>5, KeysKeep, AudFacts DEF AudInv

-----------------------------------------------------------------------------
(* The other drivers.                                                      *)

\* A driver that neither presses keys nor reads the window: what is left to
\* show.
LEMMA OthersKeepAud ==
  ASSUME AudInv, aud.kind \notin {"keys", "rendering"}, UNCHANGED <<edges, ops>>, aud' \in Aud,
         aud'.kind = aud.kind, tui' \in AudTui, Tally(aud')
  PROVE  AudInv'
<1>1. JudgedOK(aud', ops', said') /\ RingWalk(aud', tui', edges', said')
  BY DEF JudgedOK, RingWalk
<1> QED
  BY <1>1, AudFacts DEF AudInv

\* A driver that is done, or that goes on without having counted.
LEMMA GoesKeeps ==
  ASSUME AudBounds, AudInv, aud.kind \notin {"keys", "rendering"}, UNCHANGED <<tui, edges, ops>>,
         NEW pc \in AudPcs, aud' = [aud EXCEPT !.pc = pc],
         \/ pc = "done"
         \/ aud.kind = "states" /\ pc = "tabs"
         \/ aud.kind = "errors" /\ pc = "burst"
         \/ aud.kind = "query" /\ pc = "compare"
  PROVE  AudInv'
<1>1. aud' = [kind |-> aud.kind, pc |-> pc, n |-> aud.n, moved |-> aud.moved,
              trapped |-> aud.trapped, whole |-> aud.whole, todo |-> aud.todo, tested |-> aud.tested]
  BY AudFacts
<1>2. /\ aud' \in Aud /\ aud'.kind = aud.kind /\ aud'.pc = pc /\ aud'.n = aud.n /\ aud'.todo = aud.todo
  BY <1>1, AudFacts DEF Aud
<1>3. Tally(aud')
  BY <1>2, AudFacts DEF Tally
<1> QED
  BY <1>2, <1>3, AudFacts, OthersKeepAud DEF AudInv

\* The mouse driver chooses its targets.
LEMMA MouseStartKeeps ==
  ASSUME AudBounds, AudInv, A!MouseStart
  PROVE  AudInv'
<1>1. aud.kind = "mouse" /\ aud.pc = "start" /\ UNCHANGED <<tui, edges, ops, spare>>
  BY DEF A!MouseStart, A!Keeps
<1>2. CASE A!Goes("done")
  <2>1. aud' = [aud EXCEPT !.pc = "done"] /\ "done" \in AudPcs
    BY <1>2 DEF A!Goes, AudPcs
  <2> QED
    BY <1>1, <2>1, GoesKeeps
<1>3. CASE ~A!Goes("done")
  <2> DEFINE top == IF Len(A!Aims) < Clicks THEN Len(A!Aims) ELSE Clicks
             todo == [n \in 1 .. top |-> [place |-> A!Aims[n], aim |-> tui.at[A!Aims[n]]]]
  <2>1. aud' = [aud EXCEPT !.pc = IF A!Aims = <<>> THEN "done" ELSE "click", !.todo = todo]
    BY <1>3 DEF A!MouseStart, A!Stops
  <2>2. A!Aims \in Seq(A!Where) /\ Len(A!Aims) \in Nat /\ Clicks \in Nat
    BY AimsAreHere DEF AudBounds
  <2>3. top \in Nat /\ top <= Clicks /\ top <= Len(A!Aims)
    BY <2>2
  <2> HIDE DEF top
  <2>4. ASSUME NEW n \in 1 .. top PROVE [place |-> A!Aims[n], aim |-> tui.at[A!Aims[n]]] \in Shot
    <3>1. n \in 1 .. Len(A!Aims)
      BY <2>2, <2>3
    <3>2. A!Aims[n] \in A!Where
      BY <2>2, <3>1
    <3>3. tui.at[A!Aims[n]] \in A!Where
      BY <3>2, AudFacts
    <3> QED
      BY <3>2, <3>3 DEF Shot
  <2>5. todo \in Seq(Shot) /\ Len(todo) = top
    <3>1. todo \in [1 .. top -> Shot]
      BY <2>4
    <3> HIDE DEF todo
    <3> QED
      BY <2>3, <3>1
  <2>6. todo \in Seq(Shot \cup Nat)
    BY <2>5
  <2> HIDE DEF todo
  <2>7. PICK pc \in {"done", "click"} : pc = IF A!Aims = <<>> THEN "done" ELSE "click"
    OBVIOUS
  <2>8. aud' = [kind |-> aud.kind, pc |-> pc, n |-> aud.n, moved |-> aud.moved,
                trapped |-> aud.trapped, whole |-> aud.whole, todo |-> todo, tested |-> aud.tested]
    BY <2>1, <2>7, AudFacts
  <2>9. aud' \in Aud /\ aud'.kind = "mouse" /\ aud'.pc = pc /\ aud'.n = aud.n /\ aud'.todo = todo
    BY <1>1, <2>6, <2>8, AudFacts DEF Aud, AudPcs
  <2>10. aud.n = 0
    BY <1>1, AudFacts DEF Tally
  <2>11. Tally(aud')
    BY <2>2, <2>3, <2>5, <2>7, <2>9, <2>10 DEF Tally
  <2> QED
    BY <1>1, <2>9, <2>11, AudFacts, OthersKeepAud DEF AudInv
<1> QED
  BY <1>2, <1>3

\* A click.
LEMMA ClickKeeps ==
  ASSUME AudBounds, AudInv, A!Click
  PROVE  AudInv'
<1>1. aud.kind = "mouse" /\ aud.pc = "click" /\ aud.todo # <<>> /\ UNCHANGED <<edges, ops, said, spare>>
  BY DEF A!Click
<1> DEFINE t == aud.todo[1]
           rest == Tail(aud.todo)
<1>2. PICK region \in BOOLEAN :
        /\ \/ tui' = [tui EXCEPT !.focus = tui.at[t.place]]
           \/ UNCHANGED tui
        /\ aud' = [aud EXCEPT !.todo = Tail(@), !.n = @ + 1,
                              !.tested = IF region \/ A!Causal(t) THEN @ \cup {t.aim} ELSE @]
  BY DEF A!Click
<1>3. aud.todo \in Seq(Shot) /\ aud.n + Len(aud.todo) <= Clicks /\ Clicks \in Nat
  BY <1>1, AudFacts DEF Tally, AudBounds
<1>4. t \in Shot /\ rest \in Seq(Shot) /\ Len(rest) = Len(aud.todo) - 1 /\ Len(aud.todo) \in Nat
  BY <1>1, <1>3, HeadTailProperties
<1>5. t.place \in A!Where /\ t.aim \in A!Where /\ rest \in Seq(Shot \cup Nat)
  <2>1. t.place \in A!Where /\ t.aim \in A!Where
    BY <1>4 DEF Shot
  <2> HIDE DEF rest
  <2>2. rest \in Seq(Shot \cup Nat)
    BY <1>4
  <2> QED
    BY <2>1, <2>2
<1> HIDE DEF t, rest
<1>6. tui' \in AudTui
  BY <1>2, <1>5, AudFacts DEF AudTui
<1>7. PICK tested \in SUBSET A!Where : tested =
                IF region \/ A!Causal(t) THEN aud.tested \cup {t.aim} ELSE aud.tested
  BY <1>5, AudFacts
<1>8. PICK n \in Nat : n = aud.n + 1
  BY AudFacts
<1>9. aud' = [kind |-> aud.kind, pc |-> aud.pc, n |-> n, moved |-> aud.moved,
              trapped |-> aud.trapped, whole |-> aud.whole, todo |-> rest, tested |-> tested]
  BY <1>2, <1>7, <1>8, AudFacts DEF rest
<1>10. aud' \in Aud /\ aud'.kind = "mouse" /\ aud'.pc = "click" /\ aud'.n = n /\ aud'.todo = rest
  BY <1>1, <1>5, <1>9, AudFacts DEF Aud
<1>11. n + Len(rest) <= Clicks
  BY <1>3, <1>4, <1>8, AudFacts
<1>12. Tally(aud')
  BY <1>4, <1>10, <1>11 DEF Tally
<1> QED
  BY <1>1, <1>6, <1>10, <1>12, OthersKeepAud

\* A click that fails.
LEMMA ClickFailsKeeps ==
  ASSUME AudBounds, AudInv, A!ClickFails
  PROVE  AudInv'
<1>1. /\ aud.kind = "mouse" /\ aud.pc = "click" /\ aud' = [aud EXCEPT !.todo = <<>>]
      /\ UNCHANGED <<tui, edges, ops, spare>>
  BY DEF A!ClickFails, A!Keeps
<1>2. <<>> \in Seq(Shot) /\ <<>> \in Seq(Shot \cup Nat) /\ Len(<<>>) = 0
  OBVIOUS
<1>3. PICK none \in Seq(Shot \cup Nat) : none = <<>>
  BY <1>2
<1>4. aud' = [kind |-> aud.kind, pc |-> aud.pc, n |-> aud.n, moved |-> aud.moved,
              trapped |-> aud.trapped, whole |-> aud.whole, todo |-> none, tested |-> aud.tested]
  BY <1>1, <1>3, AudFacts
<1>5. aud' \in Aud /\ aud'.kind = "mouse" /\ aud'.pc = "click" /\ aud'.n = aud.n /\ aud'.todo = none
  BY <1>1, <1>4, AudFacts DEF Aud
<1>6. aud.n <= Clicks
  <2>1. aud.todo \in Seq(Shot) /\ aud.n + Len(aud.todo) <= Clicks
    BY <1>1, AudFacts DEF Tally
  <2>2. Len(aud.todo) \in Nat /\ Clicks \in Nat /\ aud.n \in Nat
    BY <2>1, AudFacts DEF AudBounds
  <2> QED
    BY <2>1, <2>2
<1>7. none \in Seq(Shot) /\ aud'.n + Len(none) <= Clicks
  BY <1>2, <1>3, <1>5, <1>6, AudFacts
<1>8. Tally(aud')
  BY <1>5, <1>7 DEF Tally
<1> QED
  BY <1>1, <1>5, <1>8, AudFacts, OthersKeepAud DEF AudInv

\* Judgements and starts that only move on.
LEMMA MovesOnKeep ==
  ASSUME AudBounds, AudInv,
         A!JudgeMouse \/ A!StatesStart \/ A!JudgeStates \/ A!JudgeErrors \/ A!Compare \/ A!Latency
  PROVE  AudInv'
<1>1. {"done", "tabs"} \subseteq AudPcs
  BY DEF AudPcs
<1>2. CASE A!JudgeMouse
  BY <1>1, <1>2, GoesKeeps DEF A!JudgeMouse, A!Goes, A!Keeps
<1>3. CASE A!StatesStart
  BY <1>1, <1>3, GoesKeeps DEF A!StatesStart, A!Stops, A!Goes, A!Keeps
<1>4. CASE A!JudgeStates
  BY <1>1, <1>4, GoesKeeps DEF A!JudgeStates, A!Goes, A!Keeps
<1>5. CASE A!JudgeErrors
  BY <1>1, <1>5, GoesKeeps DEF A!JudgeErrors, A!Goes, A!Keeps
<1>6. CASE A!Compare
  BY <1>1, <1>6, GoesKeeps DEF A!Compare, A!Stops, A!Goes, A!Keeps
<1>7. CASE A!Latency
  BY <1>1, <1>7, GoesKeeps DEF A!Latency, A!Stops, A!Goes, A!Keeps
<1> QED
  BY <1>2, <1>3, <1>4, <1>5, <1>6, <1>7

\* Tab among the states.
LEMMA StatesTabKeeps ==
  ASSUME AudBounds, AudInv, A!StatesTab
  PROVE  AudInv'
<1>1. /\ aud.kind = "states" /\ aud.pc = "tabs" /\ aud.n < StepsPer /\ UNCHANGED <<edges, ops, said, spare>>
  BY DEF A!StatesTab
<1>2. StepsPer \in Nat
  BY SMTT(30) DEF AudBounds
<1>3. PICK n \in Nat, tested \in SUBSET A!Where :
        /\ n <= StepsPer /\ aud' = [aud EXCEPT !.n = n, !.tested = tested]
        /\ tui' \in AudTui
  <2>1. ASSUME NEW f \in A!Where, tui' = [tui EXCEPT !.focus = f],
               aud' = [aud EXCEPT !.n = @ + 1, !.tested = @ \cup {f}]
        PROVE  \E n \in Nat, tested \in SUBSET A!Where :
                 /\ n <= StepsPer /\ aud' = [aud EXCEPT !.n = n, !.tested = tested]
                 /\ tui' \in AudTui
    <3>1. tui' \in AudTui
      BY <2>1, AudFacts DEF AudTui
    <3>2. PICK n \in Nat : n = aud.n + 1
      BY AudFacts
    <3>3. PICK tested \in SUBSET A!Where : tested = aud.tested \cup {f}
      BY AudFacts
    <3>4. aud' = [aud EXCEPT !.n = n, !.tested = tested]
      BY <2>1, <3>2, <3>3
    <3>5. n <= StepsPer
      BY <1>1, <1>2, <3>2, AudFacts
    <3> QED
      BY <3>1, <3>4, <3>5
  <2>2. ASSUME aud' = [aud EXCEPT !.n = StepsPer], UNCHANGED tui
        PROVE  \E n \in Nat, tested \in SUBSET A!Where :
                 /\ n <= StepsPer /\ aud' = [aud EXCEPT !.n = n, !.tested = tested]
                 /\ tui' \in AudTui
    <3>1. aud' = [aud EXCEPT !.n = StepsPer, !.tested = aud.tested]
      BY <2>2, AudFacts
    <3>2. tui' \in AudTui /\ aud.tested \in SUBSET A!Where /\ StepsPer <= StepsPer
      BY <1>2, <2>2, AudFacts DEF AudInv
    <3> QED
      BY <1>2, <3>1, <3>2
  <2>3. \/ \E f \in A!Where : /\ tui' = [tui EXCEPT !.focus = f]
                              /\ aud' = [aud EXCEPT !.n = @ + 1, !.tested = @ \cup {f}]
        \/ aud' = [aud EXCEPT !.n = StepsPer] /\ UNCHANGED tui
    BY DEF A!StatesTab
  <2> QED
    BY <2>1, <2>2, <2>3
<1>4. aud' = [kind |-> aud.kind, pc |-> aud.pc, n |-> n, moved |-> aud.moved,
              trapped |-> aud.trapped, whole |-> aud.whole, todo |-> aud.todo, tested |-> tested]
  BY <1>3, AudFacts
<1>5. aud' \in Aud /\ aud'.kind = "states" /\ aud'.pc = "tabs" /\ aud'.n = n
  BY <1>1, <1>4, AudFacts DEF Aud
<1>6. Tally(aud')
  BY <1>3, <1>5 DEF Tally
<1> QED
  BY <1>1, <1>3, <1>5, <1>6, OthersKeepAud

\* The driver of errors begins, and sends keys.
LEMMA ErrorsKeep ==
  ASSUME AudBounds, AudInv, A!ErrorsStart \/ A!Burst
  PROVE  AudInv'
<1>1. aud.kind = "errors" /\ UNCHANGED <<tui, edges, ops>> /\ BurstKeys \in Nat /\ aud.n <= BurstKeys
  BY AudFacts DEF A!ErrorsStart, A!Burst, A!Keeps, Tally, AudBounds
<1>2. CASE A!ErrorsStart /\ A!Goes("done")
  BY <1>1, <1>2, GoesKeeps DEF A!Goes, AudPcs
<1>3. CASE ~A!Goes("done") \/ A!Burst
  <2>1. PICK n \in Nat, whole \in BOOLEAN :
          n <= BurstKeys /\ aud' = [kind |-> aud.kind, pc |-> "burst", n |-> n, moved |-> aud.moved,
                                    trapped |-> aud.trapped, whole |-> whole, todo |-> aud.todo,
                                    tested |-> aud.tested]
    <3>1. CASE A!Burst
      <4>1. /\ aud.n < BurstKeys /\ aud.pc = "burst"
            /\ aud' = [aud EXCEPT !.n = @ + 1] \/ aud' = [aud EXCEPT !.n = BurstKeys]
        BY <3>1 DEF A!Burst
      <4>2. PICK n \in Nat : n <= BurstKeys /\ aud' = [aud EXCEPT !.n = n]
        <5>1. PICK m \in Nat : m = aud.n + 1
          BY AudFacts
        <5>2. m <= BurstKeys
          BY <1>1, <4>1, <5>1, AudFacts
        <5> QED
          BY <1>1, <4>1, <5>1, <5>2
      <4> QED
        BY <4>1, <4>2, AudFacts
    <3>2. CASE ~A!Burst
      <4>1. aud' = [aud EXCEPT !.pc = "burst", !.whole = tui.alive]
        BY <1>3, <3>2 DEF A!ErrorsStart, A!Stops
      <4> QED
        BY <1>1, <4>1, AudFacts
    <3> QED
      BY <3>1, <3>2
  <2>2. aud' \in Aud /\ aud'.kind = "errors" /\ aud'.pc = "burst" /\ aud'.n = n
    BY <1>1, <2>1, AudFacts DEF Aud, AudPcs
  <2>3. Tally(aud')
    BY <2>1, <2>2 DEF Tally
  <2> QED
    BY <1>1, <2>2, <2>3, AudFacts, OthersKeepAud DEF AudInv
<1> QED
  BY <1>2, <1>3

\* The query is sent.
LEMMA QueryKeeps ==
  ASSUME AudBounds, AudInv, A!Query
  PROVE  AudInv'
<1>1. aud.kind = "query" /\ aud.pc = "start" /\ UNCHANGED <<tui, edges, ops>>
  BY DEF A!Query, A!Keeps
<1>2. CASE A!Goes("done")
  BY <1>1, <1>2, GoesKeeps DEF A!Goes, AudPcs
<1>3. CASE ~A!Goes("done")
  <2>1. aud' = [aud EXCEPT !.pc = "compare", !.n = 0, !.todo = <<tui.cursor>>]
    BY <1>3 DEF A!Query, A!Stops
  <2>2. PICK todo \in Seq(Shot \cup Nat) : todo = <<tui.cursor>>
    <3>1. <<tui.cursor>> \in Seq(Shot \cup Nat)
      BY AudFacts
    <3> QED
      BY <3>1
  <2>3. aud' = [kind |-> aud.kind, pc |-> "compare", n |-> 0, moved |-> aud.moved,
                trapped |-> aud.trapped, whole |-> aud.whole, todo |-> todo, tested |-> aud.tested]
    BY <2>1, <2>2, AudFacts
  <2>4. aud' \in Aud /\ aud'.kind = "query" /\ aud'.pc = "compare" /\ aud'.n = 0
    BY <1>1, <2>3, AudFacts DEF Aud, AudPcs
  <2>5. Tally(aud')
    BY <2>4 DEF Tally
  <2> QED
    BY <1>1, <2>4, <2>5, AudFacts, OthersKeepAud DEF AudInv
<1> QED
  BY <1>2, <1>3

\* What is told as proved is told of a window that is all there was.
LEMMA RenderingKeeps ==
  ASSUME AudBounds, AudInv, A!RenderingReads
  PROVE  AudInv'
<1>1. /\ aud.kind = "rendering" /\ aud.pc = "start" /\ aud' = [aud EXCEPT !.pc = "done"]
      /\ UNCHANGED <<tui, edges, ops, spare>>
  BY DEF A!RenderingReads, A!Goes, A!Keeps
<1>2. aud' = [kind |-> aud.kind, pc |-> "done", n |-> aud.n, moved |-> aud.moved,
              trapped |-> aud.trapped, whole |-> aud.whole, todo |-> aud.todo, tested |-> aud.tested]
  BY <1>1, AudFacts
<1>3. aud' \in Aud /\ aud'.kind = "rendering" /\ aud'.pc = "done" /\ aud'.n = aud.n
  BY <1>1, <1>2, AudFacts DEF Aud, AudPcs
<1>4. Tally(aud')
  BY <1>1, <1>3, AudFacts DEF Tally
<1> DEFINE w == ops.window
           weight == IF A!Incomplete(ops) THEN "unverified" ELSE "proved"
<1>5. weight = "proved" => w = ops.all
  <2>1. w = ops.all \/ Len(w) < Len(ops.all)
    BY AudFacts DEF WindowOK
  <2> QED
    BY <2>1 DEF A!Incomplete
<1>6. /\ <<"REND-SYNC-UNBALANCED", "proved">> \in said' =>
           weight = "proved" /\ A!Count(w, "sync on") # A!Count(w, "sync off")
      /\ <<"REND-CURSOR-LEAK", "proved">> \in said' =>
           weight = "proved" /\ A!Count(w, "hide") > A!Count(w, "show")
  <2> HIDE DEF w, weight
  <2>1. ASSUME said' = {<<"REND-NOSRC", "info">>}
        PROVE  /\ <<"REND-SYNC-UNBALANCED", "proved">> \notin said'
               /\ <<"REND-CURSOR-LEAK", "proved">> \notin said'
    BY <2>1
  <2> DEFINE full == {<<"REND-STYLE", A!Style(w)>>}
               \cup (IF A!Count(w, "erase") >= 2 /\ A!Count(w, "sync on") = 0
                      THEN {<<"REND-FLICKER", "warn">>} ELSE {})
               \cup (IF A!Count(w, "sync on") > 0 /\ A!Count(w, "sync on") # A!Count(w, "sync off")
                     THEN {<<"REND-SYNC-UNBALANCED", weight>>} ELSE {})
               \cup (IF A!Count(w, "hide") > A!Count(w, "show") THEN {<<"REND-CURSOR-LEAK", weight>>} ELSE {})
  <2>2. ASSUME NEW x \in full, x[1] \in {"REND-SYNC-UNBALANCED", "REND-CURSOR-LEAK"}
        PROVE  \/ x = <<"REND-SYNC-UNBALANCED", weight>> /\ A!Count(w, "sync on") # A!Count(w, "sync off")
               \/ x = <<"REND-CURSOR-LEAK", weight>> /\ A!Count(w, "hide") > A!Count(w, "show")
    <3>1. <<"REND-STYLE", A!Style(w)>>[1] = "REND-STYLE" /\ <<"REND-FLICKER", "warn">>[1] = "REND-FLICKER"
      OBVIOUS
    <3> QED
      BY <2>2, <3>1
  <2>3. said' = {<<"REND-NOSRC", "info">>} \/ said' = full
    BY DEF A!RenderingReads, w, weight
  <2> HIDE DEF full
  <2>4. ASSUME NEW x \in said', x[1] \in {"REND-SYNC-UNBALANCED", "REND-CURSOR-LEAK"},
               said' # {<<"REND-NOSRC", "info">>}
        PROVE  \/ x = <<"REND-SYNC-UNBALANCED", weight>> /\ A!Count(w, "sync on") # A!Count(w, "sync off")
               \/ x = <<"REND-CURSOR-LEAK", weight>> /\ A!Count(w, "hide") > A!Count(w, "show")
    BY <2>2, <2>3, <2>4
  <2> DEFINE sync == <<"REND-SYNC-UNBALANCED", "proved">>
             leak == <<"REND-CURSOR-LEAK", "proved">>
  <2>5. sync[1] = "REND-SYNC-UNBALANCED" /\ leak[1] = "REND-CURSOR-LEAK"
        /\ sync[2] = "proved" /\ leak[2] = "proved"
    OBVIOUS
  <2>6. /\ <<"REND-SYNC-UNBALANCED", weight>>[1] = "REND-SYNC-UNBALANCED"
        /\ <<"REND-SYNC-UNBALANCED", weight>>[2] = weight
        /\ <<"REND-CURSOR-LEAK", weight>>[1] = "REND-CURSOR-LEAK" /\ <<"REND-CURSOR-LEAK",
                                                                       weight>>[2] = weight
    OBVIOUS
  <2>7. /\ sync \in said' => weight = "proved" /\ A!Count(w, "sync on") # A!Count(w, "sync off")
        /\ leak \in said' => weight = "proved" /\ A!Count(w, "hide") > A!Count(w, "show")
    <3>1. sync \in said' => said' # {<<"REND-NOSRC", "info">>}
      BY <2>1
    <3>2. leak \in said' => said' # {<<"REND-NOSRC", "info">>}
      BY <2>1
    <3> HIDE DEF sync, leak
    <3>3. ASSUME sync \in said' PROVE weight = "proved" /\ A!Count(w, "sync on") # A!Count(w, "sync off")
      <4>1. \/ sync = <<"REND-SYNC-UNBALANCED", weight>> /\ A!Count(w, "sync on") # A!Count(w, "sync off")
            \/ sync = <<"REND-CURSOR-LEAK", weight>> /\ A!Count(w, "hide") > A!Count(w, "show")
        BY <2>4, <2>5, <3>1, <3>3
      <4> QED
        BY <2>5, <2>6, <4>1
    <3>4. ASSUME leak \in said' PROVE weight = "proved" /\ A!Count(w, "hide") > A!Count(w, "show")
      <4>1. \/ leak = <<"REND-SYNC-UNBALANCED", weight>> /\ A!Count(w, "sync on") # A!Count(w, "sync off")
            \/ leak = <<"REND-CURSOR-LEAK", weight>> /\ A!Count(w, "hide") > A!Count(w, "show")
        BY <2>4, <2>5, <3>2, <3>4
      <4> QED
        BY <2>5, <2>6, <4>1
    <3> QED
      BY <3>3, <3>4
  <2> QED
    BY <2>7
<1>7. JudgedOK(aud', ops', said')
  BY <1>1, <1>3, <1>5, <1>6 DEF JudgedOK
<1>8. RingWalk(aud', tui', edges', said')
  BY <1>3 DEF RingWalk
<1> QED
  BY <1>1, <1>3, <1>4, <1>7, <1>8, AudFacts DEF AudInv

-----------------------------------------------------------------------------

\* Every step keeps the invariant.
LEMMA AudNext ==
  ASSUME AudBounds, AudInv, [A!Next]_A!probeAuditVars
  PROVE  AudInv'
<1>1. CASE UNCHANGED A!probeAuditVars
  BY <1>1 DEF A!probeAuditVars, AudInv
<1>2. CASE A!Next
  BY <1>2, ItselfKeeps, EmitsKeeps, PressKeeps, PressFailsKeeps, PressesDoneKeeps, TurnKeeps, PressBackKeeps,
     JudgeKeysKeeps, MouseStartKeeps, ClickKeeps, ClickFailsKeeps, MovesOnKeep, StatesTabKeeps, ErrorsKeep,
     QueryKeeps, RenderingKeeps DEF A!Next
<1> QED
  BY <1>1, <1>2

\* The invariant gives the properties.
LEMMA AudSafe ==
  ASSUME AudBounds, AudInv
  PROVE  A!TypeOK /\ A!HonestIsReversible /\ A!ProvedOfAll
<1>1. A!TypeOK
  <2>1. aud.n \in 0 .. StepsPer + BurstKeys + Clicks
    <3>1. StepsPer \in Nat /\ BurstKeys \in Nat /\ Clicks \in Nat
      BY DEF AudBounds
    <3>2. aud.n <= StepsPer \/ aud.n <= BurstKeys \/ aud.n <= Clicks \/ aud.n = 0
      <4>1. aud.kind = "mouse" => aud.n <= Clicks
        <5>1. aud.kind = "mouse" => Len(aud.todo) \in Nat /\ aud.n + Len(aud.todo) <= Clicks
          BY AudFacts DEF Tally
        <5> QED
          BY <3>1, <5>1, AudFacts
      <4> QED
        BY <4>1, AudFacts DEF Tally, A!Drivers
    <3> QED
      BY <3>1, <3>2, AudFacts
  <2> QED
    BY <2>1, AudFacts DEF A!TypeOK, Arrow, WindowOK
<1>2. A!HonestIsReversible
  BY AudFacts DEF A!HonestIsReversible, RingWalk
<1>3. A!ProvedOfAll
  BY AudFacts DEF A!ProvedOfAll, JudgedOK
<1> QED
  BY <1>1, <1>2, <1>3

-----------------------------------------------------------------------------
(* Findings: the ledger, verdicts, bundles, loci.                           *)

\* A defect is not the report of a profile that was withheld, and what has
\* the fingerprint of a defect is one.
FindBounds ==
  /\ \A d \in Defects : d.rule # "ORCH-GATED"
  /\ \A f, g \in F!Reports : F!Fingerprint(f) = F!Fingerprint(g) => f.kind = g.kind
  /\ MaxCalls \in Nat /\ MaxChanges \in Nat

-----------------------------------------------------------------------------
(* The inductive invariant.                                                *)

Widgets == {d.at[1] : d \in Defects} \cup {"file"}
Covers == [widget : Widgets, locus : BOOLEAN]
Loci == [locus : Widgets, how : {"attested", "correlated"}]
Entry == [id : {e.id : e \in F!Entries}, occ : {e.occ : e \in F!Entries}, f : F!Reports, refs : SUBSET Loci]
Ledger == Seq(SUBSET Entry)
Passes == OneOf(SUBSET F!Reports)

\* A locus is of coverage that there is, and an attested one of a control
\* that is evidence.
Earned(refs, f, cov) ==
  \A r \in refs :
    /\ r.how = "attested" => r.locus \in F!Evidence(f)
    /\ \E c \in cov : c.widget = r.locus
EntryOK(e, cov) == [e EXCEPT !.refs = {}] \in F!Entries /\ Earned(e.refs, e.f, cov)
LedgerOK(l, cov) == l \in Ledger /\ \A n \in DOMAIN l : \A e \in l[n] : EntryOK(e, cov)

\* What was looked for and not found.
LookedFor(saw, f) == saw # {} /\ \A g \in saw : g.rule \notin {f.rule, "ORCH-GATED"}
RecheckOK(p) ==
  /\ p = [pc |-> p.pc, e |-> p.e, allow |-> p.allow, recheck |-> p.recheck, saw |-> p.saw]
  /\ p.pc \in {"no", "replay", "recheck", "record"}
  /\ p.recheck = "clean" => LookedFor(p.saw, p.e.f)

BookOK(b, cov) ==
  /\ b = [ledger |-> b.ledger, baseline |-> b.baseline, pass |-> b.pass, checks |-> b.checks,
          calls |-> b.calls]
  /\ LedgerOK(b.ledger, cov) /\ b.baseline \in Passes /\ b.pass \in Passes /\ b.calls \in 0 .. MaxCalls

FindInv ==
  /\ app \in [has : SUBSET Defects, changes : 0 .. MaxChanges] /\ cover \subseteq Covers
  /\ BookOK(book, cover) /\ RecheckOK(proof)
  /\ disk = <<>> \/ \E l \in Ledger : disk = <<l>> /\ LedgerOK(l, cover)
  /\ F!ComparedWithBefore /\ F!BundleIsCurrent /\ F!LociEarned /\ F!GoneWasLookedFor

-----------------------------------------------------------------------------
(* Comparison.                                                             *)

Prints(set) == {F!Fingerprint(f) : f \in set}
OfDefects(set) == {f \in set : F!IsDefect(f)}

\* A verdict for each fingerprint of a defect of either side.
Judges(vs, base, pass) ==
  /\ Prints(OfDefects(base \cup pass)) = Prints({v.f : v \in vs})
  /\ \A v \in vs :
       /\ v.verdict = "fixed" <=> F!Fingerprint(v.f) \notin Prints(pass)
       /\ v.verdict = "new" <=> F!Fingerprint(v.f) \notin Prints(OfDefects(base))
  /\ \A v, w \in vs : F!Fingerprint(v.f) = F!Fingerprint(w.f) => v.verdict = w.verdict

\* A comparison has a verdict for each fingerprint of a defect of either
\* side, and the verdicts are those of the sides.
LEMMA CompareGives ==
  ASSUME FindBounds, NEW base \in SUBSET F!Reports, NEW pass \in SUBSET F!Reports,
         NEW vs, vs = F!CompareDefects(base, pass)
  PROVE  Judges(vs, base, pass)
<1> DEFINE old == OfDefects(base)
           new == OfDefects(pass)
           now == {[f |-> f, verdict |-> IF F!Fingerprint(f) \in Prints(old) THEN "persisting" ELSE "new"]
                     : f \in new}
           gone == {[f |-> f, verdict |-> "fixed"] : f \in {b \in old : F!Fingerprint(b) \notin Prints(new)}}
<1>1. vs = now \cup gone
  BY DEF F!CompareDefects, F!Compared, Prints, OfDefects
<1>2. \A f \in new : f \in pass /\ f \in F!Reports /\ f.kind = "defect"
  BY DEF OfDefects, F!IsDefect
<1>3. \A f \in old : f \in base /\ f \in F!Reports /\ f.kind = "defect"
  BY DEF OfDefects, F!IsDefect
<1>4. \A f \in F!Reports : f.kind = "defect" /\ F!Fingerprint(f) \in Prints(pass)
        => F!Fingerprint(f) \in Prints(new)
  BY DEF FindBounds, Prints, OfDefects, F!IsDefect
<1>5. Prints(new) \subseteq Prints(pass)
  BY <1>2 DEF Prints
<1>6. ASSUME NEW v \in vs
      PROVE  /\ v.verdict \in {"persisting", "new", "fixed"}
             /\ v.verdict = "fixed" <=> F!Fingerprint(v.f) \notin Prints(pass)
             /\ v.verdict = "new" <=> F!Fingerprint(v.f) \notin Prints(old)
             /\ v.f \in old \cup new
  <2>1. CASE v \in now
    <3>1. PICK f \in new :
            v = [f |-> f, verdict |-> IF F!Fingerprint(f) \in Prints(old) THEN "persisting" ELSE "new"]
      BY <2>1
    <3>2. F!Fingerprint(f) \in Prints(pass)
      BY <1>2, <3>1 DEF Prints
    <3> HIDE DEF new, old, now, gone
    <3> QED
      BY <3>1, <3>2
  <2>2. CASE v \in gone
    <3>1. PICK f \in old : F!Fingerprint(f) \notin Prints(new) /\ v = [f |-> f, verdict |-> "fixed"]
      BY <2>2
    <3>2. F!Fingerprint(f) \in Prints(old) /\ F!Fingerprint(f) \notin Prints(pass)
      BY <1>3, <1>4, <3>1 DEF Prints
    <3> HIDE DEF new, old, now, gone
    <3> QED
      BY <3>1, <3>2
  <2> QED
    BY <1>1, <2>1, <2>2
<1>7. ASSUME NEW x \in Prints(OfDefects(base \cup pass)) PROVE x \in Prints({v.f : v \in vs})
  <2>1. PICK f \in old \cup new : x = F!Fingerprint(f)
    BY DEF Prints, OfDefects
  <2>2. PICK v \in vs : F!Fingerprint(v.f) = x
    <3>1. CASE F!Fingerprint(f) \in Prints(new)
      <4>1. PICK g \in new : F!Fingerprint(g) = F!Fingerprint(f)
        BY <3>1 DEF Prints
      <4>2. [f |-> g, verdict |-> IF F!Fingerprint(g) \in Prints(old) THEN "persisting" ELSE "new"] \in now
        BY <4>1
      <4> QED
        BY <1>1, <2>1, <4>1, <4>2
    <3>2. CASE F!Fingerprint(f) \notin Prints(new)
      <4>1. f \in old
        BY <3>2 DEF Prints
      <4>2. [f |-> f, verdict |-> "fixed"] \in gone
        BY <3>2, <4>1
      <4> QED
        BY <1>1, <2>1, <4>2
    <3> QED
      BY <3>1, <3>2
  <2> QED
    BY <2>2 DEF Prints
<1>8. ASSUME NEW x \in Prints({v.f : v \in vs}) PROVE x \in Prints(OfDefects(base \cup pass))
  <2>1. PICK v \in vs : x = F!Fingerprint(v.f)
    BY DEF Prints
  <2>2. v.f \in OfDefects(base \cup pass)
    BY <1>6 DEF OfDefects
  <2> QED
    BY <2>1, <2>2 DEF Prints
<1>9. Prints(OfDefects(base \cup pass)) = Prints({v.f : v \in vs})
  BY <1>7, <1>8
<1> HIDE DEF new, old, now, gone
<1>10. ASSUME NEW v \in vs, NEW w \in vs, F!Fingerprint(v.f) = F!Fingerprint(w.f) PROVE v.verdict = w.verdict
  BY <1>6, <1>10
<1>11. \A v \in vs :
         /\ v.verdict = "fixed" <=> F!Fingerprint(v.f) \notin Prints(pass)
         /\ v.verdict = "new" <=> F!Fingerprint(v.f) \notin Prints(OfDefects(base))
  BY <1>6 DEF old
<1> QED
  BY <1>9, <1>10, <1>11 DEF Judges

\* What a bundle says.
LEMMA BundleGives ==
  ASSUME NEW id, NEW base, NEW pass, NEW v \in F!BundleVerdicts(id, base, pass)
  PROVE  /\ v = "persisting" => \E f \in pass, g \in base :
              <<f.rule>> = id /\ F!Fingerprint(f) = F!Fingerprint(g)
         /\ v = "fixed" => \A f \in pass : <<f.rule>> # id
<1> DEFINE all == F!Compared(base, pass, {})
           same == {c \in all : <<c.f.rule>> = id /\ c.f \in pass}
           gone == {c \in all : <<c.f.rule>> = id}
<1>1. v \in IF gone = {} THEN {"fixed"} ELSE {c.verdict : c \in (IF same # {} THEN same ELSE gone)}
  BY DEF F!BundleVerdicts
<1>2. ASSUME NEW c \in all
      PROVE  /\ c.verdict = "persisting" =>
                  c.f \in pass /\ \E g \in base : F!Fingerprint(c.f) = F!Fingerprint(g)
             /\ c.verdict = "fixed" => c.f \notin pass
  <2>1. CASE c \in {[f |-> f, verdict |-> IF F!Fingerprint(f) \in Prints(base) THEN "persisting" ELSE "new"] :
                     f \in pass}
    <3>1. PICK f \in pass :
            c = [f |-> f, verdict |-> IF F!Fingerprint(f) \in Prints(base) THEN "persisting" ELSE "new"]
      BY <2>1
    <3>2. c.f = f /\ c.verdict = IF F!Fingerprint(f) \in Prints(base) THEN "persisting" ELSE "new"
      BY <3>1
    <3> QED
      BY <3>2 DEF Prints
  <2>2. CASE c \in {[f |-> f, verdict |-> "fixed"] :
                     f \in {b \in base : F!Fingerprint(b) \notin Prints(pass)}}
    <3>1. PICK f \in base : F!Fingerprint(f) \notin Prints(pass) /\ c = [f |-> f, verdict |-> "fixed"]
      BY <2>2
    <3>2. c.f = f /\ c.verdict = "fixed" /\ f \notin pass
      BY <3>1 DEF Prints
    <3> QED
      BY <3>2
  <2> QED
    BY <2>1, <2>2 DEF F!Compared, Prints
<1>3. ASSUME NEW f \in pass PROVE \E c \in all : c.f = f
  <2> DEFINE c == [f |-> f, verdict |-> IF F!Fingerprint(f) \in Prints(base) THEN "persisting" ELSE "new"]
  <2>1. c \in all
    BY DEF F!Compared, Prints
  <2> QED
    BY <2>1
<1> HIDE DEF all
<1>4. (\E f \in pass : <<f.rule>> = id) => same # {}
  BY <1>3
<1>5. CASE gone = {}
  <2>1. v = "fixed" /\ same = {}
    BY <1>1, <1>5
  <2> QED
    BY <1>4, <2>1
<1>6. CASE gone # {} /\ same # {}
  <2>1. PICK c \in same : v = c.verdict
    BY <1>1, <1>6
  <2> QED
    BY <1>2, <2>1
<1>7. CASE gone # {} /\ same = {}
  <2>1. PICK c \in gone : v = c.verdict
    BY <1>1, <1>7
  <2> QED
    BY <1>2, <1>4, <1>7, <2>1
<1> QED
  BY <1>5, <1>6, <1>7

-----------------------------------------------------------------------------
(* Loci.                                                                   *)

\* A locus of a control is earned by it.
LEMMA LociOfEarned ==
  ASSUME cover \subseteq Covers, NEW t, NEW r \in F!LociOf(t)
  PROVE  /\ r \in Loci /\ (r.how = "attested" => r.locus = t) /\ \E c \in cover : c.widget = r.locus
<1> DEFINE own == {c \in cover : c.widget = t /\ c.locus}
<1>1. CASE own # {}
  <2>1. PICK c \in own : r = [locus |-> c.widget, how |-> "attested"]
    BY <1>1 DEF F!LociOf
  <2>2. c \in cover /\ c.widget = t /\ c.widget \in Widgets
    BY DEF Covers
  <2> QED
    BY <2>1, <2>2 DEF Loci
<1>2. CASE own = {}
  <2>1. PICK c \in cover : c.widget = "file" /\ r = [locus |-> "file", how |-> "correlated"]
    BY <1>2 DEF F!LociOf
  <2> QED
    BY <2>1 DEF Loci, Widgets
<1> QED
  BY <1>1, <1>2

\* Loci of a set of places of the evidence.
LEMMA PlacesEarned ==
  ASSUME cover \subseteq Covers, NEW f, NEW S \in SUBSET DOMAIN f.at
  PROVE  LET refs == UNION {F!LociOf(f.at[n]) : n \in S} IN refs \in SUBSET Loci /\ Earned(refs, f, cover)
<1> DEFINE refs == UNION {F!LociOf(f.at[n]) : n \in S}
<1>1. ASSUME NEW r \in refs
      PROVE  r \in Loci /\ (r.how = "attested" => r.locus \in F!Evidence(f))
             /\ \E c \in cover : c.widget = r.locus
  <2>1. PICK n \in S : r \in F!LociOf(f.at[n])
    OBVIOUS
  <2>2. /\ r \in Loci /\ (r.how = "attested" => r.locus = f.at[n]) /\ \E c \in cover : c.widget = r.locus
    BY <2>1, LociOfEarned
  <2>3. f.at[n] \in F!Evidence(f)
    BY DEF F!Evidence
  <2> QED
    BY <2>2, <2>3
<1> HIDE DEF refs
<1>2. refs \in SUBSET Loci /\ Earned(refs, f, cover)
  BY <1>1 DEF Earned
<1> QED
  BY <1>2 DEF refs

\* What an audit writes of a finding, and a crash.
LEMMA RawOK ==
  ASSUME cover \subseteq Covers, NEW f \in F!Reports
  PROVE  /\ F!JoinedAtPush(F!Raw(f)) \in Entry /\ EntryOK(F!JoinedAtPush(F!Raw(f)), cover)
         /\ F!Instance(f) \in Entry /\ EntryOK(F!Instance(f), cover)
<1> DEFINE S == {n \in F!Covered(F!Raw(f)) : \A k \in F!Covered(F!Raw(f)) : n <= k}
           refs == UNION {F!LociOf(f.at[n]) : n \in S}
<1>1. S \in SUBSET DOMAIN f.at
  BY DEF F!Covered, F!Raw
<1>2. refs \in SUBSET Loci /\ Earned(refs, f, cover)
  BY <1>1, PlacesEarned
<1>3. F!JoinedAtPush(F!Raw(f)) = [F!Raw(f) EXCEPT !.refs = refs]
  BY DEF F!JoinedAtPush, F!Raw
<1> HIDE DEF refs
<1>4. F!JoinedAtPush(F!Raw(f)) = [id |-> <<f.rule>>, occ |-> {}, f |-> f, refs |-> refs]
  BY <1>3 DEF F!Raw
<1>5. F!Raw(f) \in F!Entries /\ F!Instance(f) \in F!Entries
  BY DEF F!Entries
<1>6. <<f.rule>> \in {e.id : e \in F!Entries} /\ {} \in {e.occ : e \in F!Entries}
  <2>1. F!Raw(f).id = <<f.rule>> /\ F!Raw(f).occ = {}
    BY DEF F!Raw
  <2> QED
    BY <1>5, <2>1
<1>7. F!JoinedAtPush(F!Raw(f)) \in Entry
  BY <1>2, <1>4, <1>6 DEF Entry
<1>8. EntryOK(F!JoinedAtPush(F!Raw(f)), cover)
  <2>1. [F!JoinedAtPush(F!Raw(f)) EXCEPT !.refs = {}] = F!Raw(f)
    BY <1>4 DEF F!Raw
  <2>2. F!JoinedAtPush(F!Raw(f)).refs = refs /\ F!JoinedAtPush(F!Raw(f)).f = f
    BY <1>4
  <2> QED
    BY <1>2, <1>5, <2>1, <2>2 DEF EntryOK
<1>9. F!Instance(f) \in Entry
  <2>1. F!Instance(f).id \in {e.id : e \in F!Entries} /\ F!Instance(f).occ \in {e.occ : e \in F!Entries}
    BY <1>5
  <2>2. F!Instance(f) = [id |-> F!Instance(f).id, occ |-> F!Instance(f).occ, f |-> f, refs |-> {}]
    BY DEF F!Instance
  <2> QED
    BY <2>1, <2>2 DEF Entry
<1>10. EntryOK(F!Instance(f), cover)
  <2>1. [F!Instance(f) EXCEPT !.refs = {}] = F!Instance(f) /\ F!Instance(f).refs = {}
    BY DEF F!Instance
  <2> QED
    BY <1>5, <2>1 DEF EntryOK, Earned
<1> QED
  BY <1>7, <1>8, <1>9, <1>10

\* A ledger with one more list of findings.
LEMMA LedgerGrows ==
  ASSUME NEW l, LedgerOK(l, cover), NEW new \in SUBSET Entry, \A e \in new : EntryOK(e, cover)
  PROVE  LedgerOK(Append(l, new), cover)
<1> DEFINE m == Append(l, new)
<1>1. l \in Seq(SUBSET Entry) /\ Len(l) \in Nat
  BY DEF LedgerOK, Ledger
<1>2. /\ m \in Seq(SUBSET Entry) /\ Len(m) = Len(l) + 1 /\ m[Len(l) + 1] = new
      /\ \A n \in 1 .. Len(l) : m[n] = l[n]
  BY <1>1, AppendProperties
<1>3. DOMAIN m = 1 .. Len(l) + 1 /\ DOMAIN l = 1 .. Len(l)
  BY <1>1, <1>2
<1> HIDE DEF m
<1>4. ASSUME NEW n \in DOMAIN m, NEW e \in m[n] PROVE EntryOK(e, cover)
  <2>1. n = Len(l) + 1 \/ n \in 1 .. Len(l)
    BY <1>1, <1>3
  <2> QED
    BY <1>2, <1>3, <2>1 DEF LedgerOK
<1>5. LedgerOK(m, cover)
  BY <1>2, <1>4 DEF LedgerOK, Ledger
<1> QED
  BY <1>5 DEF m

\* Coverage that grows keeps what was earned.
LEMMA LedgerKept ==
  ASSUME NEW l, NEW c, NEW d, LedgerOK(l, c), \A x \in c : \E y \in d : y.widget = x.widget
  PROVE  LedgerOK(l, d)
<1>1. ASSUME NEW n \in DOMAIN l, NEW e \in l[n] PROVE EntryOK(e, d)
  <2>1. EntryOK(e, c)
    BY DEF LedgerOK
  <2> QED
    BY <2>1 DEF EntryOK, Earned
<1> QED
  BY <1>1 DEF LedgerOK

-----------------------------------------------------------------------------
(* The steps.                                                              *)

\* What the invariant says of the parts.
LEMMA FindFacts ==
  ASSUME FindInv
  PROVE  /\ app = [has |-> app.has, changes |-> app.changes] /\ app.has \subseteq Defects
         /\ app.changes \in 0 .. MaxChanges /\ cover \subseteq Covers
         /\ book = [ledger |-> book.ledger, baseline |-> book.baseline, pass |-> book.pass,
                    checks |-> book.checks, calls |-> book.calls]
         /\ LedgerOK(book.ledger, cover) /\ book.baseline \in Passes /\ book.pass \in Passes
         /\ book.calls \in 0 .. MaxCalls /\ BookOK(book, cover)
         /\ proof = [pc |-> proof.pc, e |-> proof.e, allow |-> proof.allow, recheck |-> proof.recheck,
                     saw |-> proof.saw]
         /\ RecheckOK(proof)
         /\ disk = <<>> \/ \E l \in Ledger : disk = <<l>> /\ LedgerOK(l, cover)
         /\ F!ComparedWithBefore /\ F!BundleIsCurrent /\ F!LociEarned /\ F!GoneWasLookedFor
BY DEF FindInv, BookOK, RecheckOK

\* A step that changes neither the coverage nor the answer.
LEMMA FindKeep ==
  ASSUME FindInv, UNCHANGED <<app, cover, answer>>, BookOK(book', cover), RecheckOK(proof'),
         disk' = <<>> \/ \E l \in Ledger : disk' = <<l>> /\ LedgerOK(l, cover)
  PROVE  FindInv'
<1>1. (F!ComparedWithBefore /\ F!BundleIsCurrent /\ F!LociEarned /\ F!GoneWasLookedFor)'
  BY FindFacts DEF F!ComparedWithBefore, F!BundleIsCurrent, F!LociEarned, F!GoneWasLookedFor
<1>2. app' \in [has : SUBSET Defects, changes : 0 .. MaxChanges] /\ cover' \subseteq Covers
  BY DEF FindInv
<1> QED
  BY <1>1, <1>2 DEF FindInv

\* Before any call.
LEMMA FindInit ==
  ASSUME FindBounds, F!Init
  PROVE  FindInv
<1>1. /\ app \in [has : SUBSET Defects, changes : {0}] /\ cover = {} /\ book = F!Fresh /\ disk = <<>>
      /\ proof = F!NoProof /\ answer = {}
  BY DEF F!Init, F!None
<1>2. MaxCalls \in Nat /\ MaxChanges \in Nat
  BY DEF FindBounds
<1>3. LedgerOK(<<>>, cover)
  <2>1. <<>> \in Ledger /\ DOMAIN <<>> = {}
    BY DEF Ledger
  <2> QED
    BY <2>1 DEF LedgerOK
<1>4. <<>> \in Passes
  BY DEF Passes, OneOf
<1>5. BookOK(book, cover)
  <2>1. /\ book = [ledger |-> <<>>, baseline |-> <<>>, pass |-> <<>>, checks |-> <<>>, calls |-> 0]
        /\ 0 \in 0 .. MaxCalls
    BY <1>1, <1>2 DEF F!Fresh, F!None
  <2> QED
    BY <1>3, <1>4, <2>1 DEF BookOK
<1>6. RecheckOK(proof)
  BY <1>1 DEF RecheckOK, F!NoProof
<1>7. F!ComparedWithBefore /\ F!BundleIsCurrent /\ F!LociEarned /\ F!GoneWasLookedFor
  BY <1>1 DEF F!ComparedWithBefore, F!BundleIsCurrent, F!LociEarned, F!GoneWasLookedFor
<1>8. app \in [has : SUBSET Defects, changes : 0 .. MaxChanges] /\ cover \subseteq Covers
  BY <1>1, <1>2
<1> QED
  BY <1>1, <1>5, <1>6, <1>7, <1>8 DEF FindInv

\* The application changes.
LEMMA ChangeKeeps ==
  ASSUME FindBounds, FindInv, F!Change
  PROVE  FindInv'
<1>1. UNCHANGED <<cover, book, disk, proof, answer>> /\ app.changes < MaxChanges
  BY DEF F!Change
<1>2. PICK d \in Defects :
        app' = [has |-> IF d \in app.has THEN app.has \ {d} ELSE app.has \cup {d},
                changes |-> app.changes + 1]
  BY DEF F!Change
<1>3. app.changes + 1 \in 0 .. MaxChanges
  BY <1>1, FindFacts DEF FindBounds
<1>4. (IF d \in app.has THEN app.has \ {d} ELSE app.has \cup {d}) \in SUBSET Defects
  BY FindFacts
<1>5. app' \in [has : SUBSET Defects, changes : 0 .. MaxChanges]
  BY <1>2, <1>3, <1>4
<1>6. (F!ComparedWithBefore /\ F!BundleIsCurrent /\ F!LociEarned /\ F!GoneWasLookedFor)'
  BY <1>1, FindFacts DEF F!ComparedWithBefore, F!BundleIsCurrent, F!LociEarned, F!GoneWasLookedFor
<1> QED
  BY <1>1, <1>5, <1>6, FindFacts DEF FindInv

\* Coverage grows.
LEMMA CoverKeeps ==
  ASSUME FindBounds, FindInv, F!Cover
  PROVE  FindInv'
<1>1. /\ UNCHANGED <<book, disk, proof, answer>> /\ app.changes < MaxChanges
      /\ app' = [app EXCEPT !.changes = @ + 1]
  BY DEF F!Cover
<1>2. PICK w \in Widgets, l \in BOOLEAN :
        cover' = {c \in cover : c.widget # w}
                   \cup {[widget |-> w, locus |-> l \/ \E c \in cover : c.widget = w /\ c.locus]}
  BY DEF F!Cover, Widgets
<1>3. app.changes + 1 \in 0 .. MaxChanges
  BY <1>1, FindFacts DEF FindBounds
<1>4. app' \in [has : SUBSET Defects, changes : 0 .. MaxChanges]
  BY <1>1, <1>3, FindFacts
<1>5. cover' \subseteq Covers
  BY <1>2, FindFacts DEF Covers
<1>6. ASSUME NEW x \in cover PROVE \E y \in cover' : y.widget = x.widget
  <2>1. CASE x.widget # w
    BY <1>2, <2>1
  <2>2. CASE x.widget = w
    <3>1. [widget |-> w, locus |-> l \/ \E c \in cover : c.widget = w /\ c.locus] \in cover'
      BY <1>2
    <3> QED
      BY <2>2, <3>1
  <2> QED
    BY <2>1, <2>2
<1>7. BookOK(book', cover')
  BY <1>1, <1>6, LedgerKept DEF FindInv, BookOK
<1>8. disk' = <<>> \/ \E m \in Ledger : disk' = <<m>> /\ LedgerOK(m, cover')
  BY <1>1, <1>6, LedgerKept, FindFacts
<1>9. (F!ComparedWithBefore /\ F!BundleIsCurrent /\ F!LociEarned /\ F!GoneWasLookedFor)'
  BY <1>1, FindFacts DEF F!ComparedWithBefore, F!BundleIsCurrent, F!LociEarned, F!GoneWasLookedFor
<1> QED
  BY <1>1, <1>4, <1>5, <1>7, <1>8, <1>9, FindFacts DEF FindInv

\* What a profile reports.
LEMMA ReportedIs ==
  ASSUME FindBounds, FindInv, NEW p, NEW allow, NEW pass \in F!Reported(p, allow)
  PROVE  /\ p \in F!Profiles => pass \in SUBSET F!Reports
         /\ F!Gate(p) \notin pass => pass # {} /\ \A f \in pass : f.rule # "ORCH-GATED"
<1>1. p \in F!Profiles => F!Gate(p) \in F!Reports /\ F!Noise(p) \in F!Reports /\ F!TxErr(p) \in F!Reports
  BY DEF F!Reports
<1>2. Defects \subseteq F!Reports
  BY DEF F!Reports
<1>3. /\ F!Noise(p).rule = "OK" /\ F!TxErr(p).rule = "AUDIT-TX-ERR"
         /\ \A d \in Defects : d.rule # "ORCH-GATED"
  BY DEF F!Noise, F!TxErr, FindBounds
<1>4. \/ pass = {F!Gate(p)}
      \/ pass = {d \in app.has : d.profile = p} \cup {F!Noise(p)}
      \/ pass = {F!TxErr(p)}
  BY DEF F!Reported
<1>5. app.has \subseteq Defects
  BY FindFacts
<1> QED
  BY <1>1, <1>2, <1>3, <1>4, <1>5

\* An audit.
LEMMA AuditKeeps ==
  ASSUME FindBounds, FindInv, NEW p \in F!Profiles, F!Audit(p)
  PROVE  FindInv'
<1>1. UNCHANGED <<app, cover, disk, proof>> /\ book.calls < MaxCalls
  BY DEF F!Audit, F!CanCall
<1>2. PICK allow \in BOOLEAN, label \in BOOLEAN, to \in BOOLEAN : \E pass \in F!Reported(p, allow) :
        /\ book' = [F!Pushed(pass) EXCEPT !.baseline = IF label THEN <<pass>> ELSE @]
        /\ answer' = F!Judged(pass, label, to)
  BY DEF F!Audit
<1>3. PICK pass \in F!Reported(p, allow) :
        /\ book' = [F!Pushed(pass) EXCEPT !.baseline = IF label THEN <<pass>> ELSE @]
        /\ answer' = F!Judged(pass, label, to)
  BY <1>2
<1>4. pass \in SUBSET F!Reports /\ <<pass>> \in Passes
  BY ReportedIs DEF Passes, OneOf
<1> DEFINE new == {F!JoinedAtPush(F!Raw(f)) : f \in pass}
           ledger == Append(book.ledger, new)
           baseline == IF label THEN <<pass>> ELSE book.baseline
<1>5. new \in SUBSET Entry /\ \A e \in new : EntryOK(e, cover)
  BY <1>4, RawOK, FindFacts
<1> HIDE DEF new
<1>6. LedgerOK(ledger, cover)
  BY <1>5, LedgerGrows, FindFacts
<1>7. book' = [ledger |-> ledger, baseline |-> baseline, pass |-> <<pass>>, checks |-> book.checks,
               calls |-> book.calls + 1]
  <2>1. F!Pushed(pass) = [book EXCEPT !.ledger = ledger, !.pass = <<pass>>, !.calls = book.calls + 1]
    BY DEF F!Pushed, new
  <2> HIDE DEF ledger
  <2>2. F!Pushed(pass) = [ledger |-> ledger, baseline |-> book.baseline, pass |-> <<pass>>,
                          checks |-> book.checks,
                        calls |-> book.calls + 1]
    BY <2>1, FindFacts
  <2> QED
    BY <1>3, <2>2
<1>8. book.calls + 1 \in 0 .. MaxCalls
  BY <1>1, FindFacts DEF FindBounds
<1>9. BookOK(book', cover)
  <2>1. baseline \in Passes
    BY <1>4, FindFacts
  <2> HIDE DEF ledger, baseline
  <2> QED
    BY <1>4, <1>6, <1>7, <1>8, <2>1 DEF BookOK
<1>10. (F!ComparedWithBefore /\ F!BundleIsCurrent /\ F!LociEarned /\ F!GoneWasLookedFor)'
  <2>1. CASE answer' = {}
    BY <2>1 DEF F!ComparedWithBefore, F!BundleIsCurrent, F!LociEarned, F!GoneWasLookedFor
  <2>2. CASE answer' # {}
    <3>1. PICK base \in SUBSET F!Reports : book.baseline = <<base>>
      <4>1. book.baseline # <<>>
        BY <1>3, <2>2 DEF F!Judged, F!None
      <4> QED
        BY <4>1, FindFacts DEF Passes, OneOf
    <3>2. PICK vs : vs = F!CompareDefects(base, pass)
      OBVIOUS
    <3>3. answer' = {[kind |-> "compare", base |-> base, pass |-> pass, verdicts |-> vs]}
      BY <1>3, <2>2, <3>1, <3>2 DEF F!Judged
    <3>4. PICK a : a = [kind |-> "compare", base |-> base, pass |-> pass, verdicts |-> vs]
      OBVIOUS
    <3>5. answer' = {a} /\ a.kind = "compare" /\ a.base = base /\ a.pass = pass /\ a.verdicts = vs
      BY <3>3, <3>4
    <3>6. Judges(vs, base, pass)
      BY <1>4, <3>2, CompareGives
    <3>7. F!ComparedWithBefore'
      BY <3>5, <3>6 DEF F!ComparedWithBefore, Judges, Prints, OfDefects
    <3> QED
      BY <3>5, <3>7 DEF F!BundleIsCurrent, F!LociEarned, F!GoneWasLookedFor
  <2> QED
    BY <2>1, <2>2
<1>11. app' \in [has : SUBSET Defects, changes : 0 .. MaxChanges] /\ cover' \subseteq Covers
  BY <1>1 DEF FindInv
<1> QED
  BY <1>1, <1>9, <1>10, <1>11, FindFacts DEF FindInv

\* A crash is recorded.
LEMMA FallKeeps ==
  ASSUME FindBounds, FindInv, F!Crash
  PROVE  FindInv'
<1>1. UNCHANGED <<app, cover, disk, proof, answer>> /\ book.calls < MaxCalls
  BY DEF F!Crash, F!CanCall
<1>2. PICK d \in app.has : book' = [book EXCEPT !.ledger = Append(@, {F!Instance(d)}), !.calls = @ + 1]
  BY DEF F!Crash
<1>3. d \in F!Reports
  BY FindFacts DEF F!Reports
<1>4. LedgerOK(Append(book.ledger, {F!Instance(d)}), cover)
  <2>1. {F!Instance(d)} \in SUBSET Entry /\ \A e \in {F!Instance(d)} : EntryOK(e, cover)
    BY <1>3, RawOK, FindFacts
  <2> QED
    BY <2>1, LedgerGrows, FindFacts
<1>5. book.calls + 1 \in 0 .. MaxCalls
  BY <1>1, FindFacts DEF FindBounds
<1> DEFINE ledger == Append(book.ledger, {F!Instance(d)})
<1>6. book' = [ledger |-> ledger, baseline |-> book.baseline, pass |-> book.pass, checks |-> book.checks,
               calls |-> book.calls + 1]
  <2>1. book' = [book EXCEPT !.ledger = ledger, !.calls = book.calls + 1]
    BY <1>2
  <2> HIDE DEF ledger
  <2> QED
    BY <2>1, FindFacts
<1> HIDE DEF ledger
<1>7. BookOK(book', cover)
  BY <1>4, <1>5, <1>6, FindFacts DEF BookOK, ledger
<1> QED
  BY <1>1, <1>7, FindFacts, FindKeep

\* A bundle.
LEMMA BundleKeeps ==
  ASSUME FindBounds, FindInv, F!Bundle
  PROVE  FindInv'
<1>1. UNCHANGED <<app, cover, book, disk, proof>>
  BY DEF F!Bundle
<1>2. PICK id \in F!Known : \E v \in F!BundleVerdicts(id, book.baseline[1], book.pass[1]) :
        answer' = {[kind |-> "bundle", id |-> id, verdict |-> v, base |-> book.baseline[1],
                    pass |-> book.pass[1]]}
  BY DEF F!Bundle, F!Current
<1>7. PICK v \in F!BundleVerdicts(id, book.baseline[1], book.pass[1]) :
        answer' = {[kind |-> "bundle", id |-> id, verdict |-> v, base |-> book.baseline[1],
                    pass |-> book.pass[1]]}
  BY <1>2
<1>3. PICK a : a = [kind |-> "bundle", id |-> id, verdict |-> v, base |-> book.baseline[1],
                    pass |-> book.pass[1]]
  OBVIOUS
<1>4. /\ answer' = {a} /\ a.kind = "bundle" /\ a.id = id /\ a.verdict = v
      /\ a.base = book.baseline[1] /\ a.pass = book.pass[1]
  BY <1>3, <1>7
<1>5. F!BundleIsCurrent'
  BY <1>4, BundleGives DEF F!BundleIsCurrent
<1>6. (F!ComparedWithBefore /\ F!LociEarned /\ F!GoneWasLookedFor)'
  BY <1>4 DEF F!ComparedWithBefore, F!LociEarned, F!GoneWasLookedFor
<1> QED
  BY <1>1, <1>5, <1>6, FindFacts DEF FindInv

\* A diagnosis.
LEMMA DiagnoseKeeps ==
  ASSUME FindBounds, FindInv, F!Diagnose
  PROVE  FindInv'
<1>1. UNCHANGED <<app, cover, book, disk, proof>>
  BY DEF F!Diagnose
<1>2. PICK n \in DOMAIN book.ledger : \E e \in book.ledger[n] :
        answer' = {[kind |-> "loci", of |-> e.f, refs |-> F!Joined(e).refs, cover |-> cover]}
  BY DEF F!Diagnose
<1>3. PICK e \in book.ledger[n] :
        answer' = {[kind |-> "loci", of |-> e.f, refs |-> F!Joined(e).refs, cover |-> cover]}
  BY <1>2
<1>4. EntryOK(e, cover) /\ e \in Entry
  <2>1. book.ledger \in Seq(SUBSET Entry)
    BY FindFacts DEF LedgerOK, Ledger
  <2>2. book.ledger[n] \in SUBSET Entry
    BY <2>1
  <2> QED
    BY <2>2, FindFacts DEF LedgerOK
<1>5. PICK refs : refs = F!Joined(e).refs
  OBVIOUS
<1>6. Earned(refs, e.f, cover)
  <2>1. CASE e.refs # {}
    BY <1>4, <1>5, <2>1 DEF F!Joined, EntryOK
  <2>2. CASE e.refs = {}
    <3> DEFINE all == UNION {F!LociOf(e.f.at[k]) : k \in F!Covered(e)}
    <3>1. F!Covered(e) \in SUBSET DOMAIN e.f.at
      BY DEF F!Covered
    <3>2. Earned(all, e.f, cover)
      BY <3>1, PlacesEarned, FindFacts
    <3>3. F!Joined(e) = [e EXCEPT !.refs = all]
      BY <2>2 DEF F!Joined
    <3> HIDE DEF all
    <3>4. e = [id |-> e.id, occ |-> e.occ, f |-> e.f, refs |-> e.refs]
      BY <1>4 DEF Entry
    <3>5. refs = all
      BY <1>5, <3>3, <3>4
    <3> QED
      BY <3>2, <3>5
  <2> QED
    BY <2>1, <2>2
<1>7. PICK a : a = [kind |-> "loci", of |-> e.f, refs |-> refs, cover |-> cover]
  OBVIOUS
<1>8. answer' = {a} /\ a.kind = "loci" /\ a.of = e.f /\ a.refs = refs /\ a.cover = cover
  BY <1>3, <1>5, <1>7
<1>9. F!LociEarned'
  BY <1>6, <1>8 DEF F!LociEarned, Earned
<1>10. (F!ComparedWithBefore /\ F!BundleIsCurrent /\ F!GoneWasLookedFor)'
  BY <1>8 DEF F!ComparedWithBefore, F!BundleIsCurrent, F!GoneWasLookedFor
<1> QED
  BY <1>1, <1>9, <1>10, FindFacts DEF FindInv

\* A verification begins.
LEMMA VerifyKeeps ==
  ASSUME FindBounds, FindInv, F!Verify
  PROVE  FindInv'
<1>1. UNCHANGED <<app, cover, disk, answer>> /\ book.calls < MaxCalls /\ book' = [book EXCEPT !.calls = @ + 1]
  BY DEF F!Verify, F!CanCall
<1>2. PICK allow, e :
        proof' = [pc |-> IF e.occ # {} THEN "replay" ELSE "recheck", e |-> e, allow |-> allow,
                  recheck |-> "no_surface", saw |-> {}]
  BY DEF F!Verify
<1>3. RecheckOK(proof')
  <2>1. PICK pc \in {"replay", "recheck"} : pc = IF e.occ # {} THEN "replay" ELSE "recheck"
    OBVIOUS
  <2>2. proof' = [pc |-> pc, e |-> e, allow |-> allow, recheck |-> "no_surface", saw |-> {}]
    BY <1>2, <2>1
  <2> QED
    BY <2>2 DEF RecheckOK
<1>4. book.calls + 1 \in 0 .. MaxCalls
  BY <1>1, FindFacts DEF FindBounds
<1>5. book' = [ledger |-> book.ledger, baseline |-> book.baseline, pass |-> book.pass, checks |-> book.checks,
               calls |-> book.calls + 1]
  BY <1>1, FindFacts
<1>6. BookOK(book', cover)
  BY <1>4, <1>5, FindFacts DEF BookOK
<1> QED
  BY <1>1, <1>3, <1>6, FindFacts, FindKeep

\* The set-up, and the end of a call.
LEMMA ReplayKeeps ==
  ASSUME FindBounds, FindInv, F!Replay
  PROVE  FindInv'
<1>1. UNCHANGED <<app, cover, book, disk, answer>>
  BY DEF F!Replay
<1>2. RecheckOK(proof')
  <2>1. CASE proof' = F!NoProof
    BY <2>1 DEF RecheckOK, F!NoProof
  <2>2. CASE proof' # F!NoProof
    <3>1. PICK pc \in {"record", "recheck"} : proof' = [proof EXCEPT !.pc = pc]
      BY <2>2 DEF F!Replay
    <3>2. proof' = [pc |-> pc, e |-> proof.e, allow |-> proof.allow, recheck |-> proof.recheck,
                    saw |-> proof.saw]
      BY <3>1, FindFacts
    <3> QED
      BY <3>2, FindFacts DEF RecheckOK
  <2> QED
    BY <2>1, <2>2
<1> QED
  BY <1>1, <1>2, FindFacts, FindKeep

\* The re-check.
LEMMA RecheckKeeps ==
  ASSUME FindBounds, FindInv, F!Recheck
  PROVE  FindInv'
<1>1. UNCHANGED <<app, cover, book, disk, answer>>
  BY DEF F!Recheck
<1> DEFINE e == proof.e
           p == proof.e.f.profile
<1>2. PICK pass \in F!Reported(p, proof.allow) :
        proof' = [proof EXCEPT !.pc = "record", !.recheck = F!Rechecked(proof.e, pass), !.saw = pass]
  BY DEF F!Recheck
<1>3. PICK result : result = F!Rechecked(e, pass)
  OBVIOUS
<1>4. result = "clean" => LookedFor(pass, e.f)
  <2>1. result = "clean" => F!Gate(p) \notin pass /\ ~F!Refired(e, pass)
    BY <1>3 DEF F!Rechecked
  <2>2. ~F!Refired(e, pass) => \A f \in pass : f.rule # e.f.rule
    BY DEF F!Refired
  <2>3. F!Gate(p) \notin pass => pass # {} /\ \A f \in pass : f.rule # "ORCH-GATED"
    BY ReportedIs
  <2> HIDE DEF e, p
  <2> QED
    BY <2>1, <2>2, <2>3 DEF LookedFor
<1>5. proof' = [pc |-> "record", e |-> proof.e, allow |-> proof.allow, recheck |-> result, saw |-> pass]
  BY <1>2, <1>3, FindFacts
<1>6. RecheckOK(proof')
  BY <1>4, <1>5 DEF RecheckOK
<1> QED
  BY <1>1, <1>6, FindFacts, FindKeep

\* The record.
LEMMA RecordKeeps ==
  ASSUME FindBounds, FindInv, F!Record
  PROVE  FindInv'
<1>1. UNCHANGED <<app, cover, disk>> /\ proof' = F!NoProof
  BY DEF F!Record
<1>2. PICK checks : book' = [book EXCEPT !.checks = checks]
  BY DEF F!Record
<1>3. book' = [ledger |-> book.ledger, baseline |-> book.baseline, pass |-> book.pass, checks |-> checks,
               calls |-> book.calls]
  BY <1>2, FindFacts
<1>4. BookOK(book', cover)
  BY <1>3, FindFacts DEF BookOK
<1>5. PICK a : a = [kind |-> "verify", of |-> proof.e.f, saw |-> proof.saw,
                    verdict |-> F!Verdict(proof.recheck)]
  OBVIOUS
<1>6. /\ answer' = {a} /\ a.kind = "verify" /\ a.of = proof.e.f /\ a.saw = proof.saw
      /\ a.verdict = F!Verdict(proof.recheck)
  BY <1>5 DEF F!Record
<1>7. F!Verdict(proof.recheck) = "no_longer_reproduces" => proof.recheck = "clean"
  BY DEF F!Verdict
<1>8. F!GoneWasLookedFor'
  BY <1>6, <1>7, FindFacts DEF F!GoneWasLookedFor, RecheckOK, LookedFor
<1>9. (F!ComparedWithBefore /\ F!BundleIsCurrent /\ F!LociEarned)'
  BY <1>6 DEF F!ComparedWithBefore, F!BundleIsCurrent, F!LociEarned
<1>10. RecheckOK(proof')
  BY <1>1 DEF RecheckOK, F!NoProof
<1>11. app' \in [has : SUBSET Defects, changes : 0 .. MaxChanges] /\ cover' \subseteq Covers
  BY <1>1 DEF FindInv
<1> QED
  BY <1>1, <1>4, <1>8, <1>9, <1>10, <1>11, FindFacts DEF FindInv

\* The ledger is persisted, and resumed from.
LEMMA PersistResumeKeep ==
  ASSUME FindBounds, FindInv, F!Persist \/ F!Resume
  PROVE  FindInv'
<1>1. CASE F!Persist
  <2>1. UNCHANGED <<app, cover, book, proof, answer>> /\ disk' = <<book.ledger>>
    BY <1>1 DEF F!Persist
  <2>2. book.ledger \in Ledger
    BY FindFacts DEF LedgerOK
  <2> QED
    BY <2>1, <2>2, FindFacts, FindKeep
<1>2. CASE F!Resume
  <2>1. /\ UNCHANGED <<app, cover, disk,
                       answer>> /\ book.calls < MaxCalls /\ disk # <<>> /\ proof' = F!NoProof
        /\ book' = [F!Fresh EXCEPT !.ledger = disk[1], !.calls = book.calls + 1]
    BY <1>2 DEF F!Resume, F!CanCall, F!None
  <2>2. PICK l \in Ledger : disk = <<l>> /\ LedgerOK(l, cover)
    BY <2>1, FindFacts
  <2>3. book' = [ledger |-> l, baseline |-> <<>>, pass |-> <<>>, checks |-> <<>>, calls |-> book.calls + 1]
    BY <2>1, <2>2 DEF F!Fresh, F!None
  <2>4. book.calls + 1 \in 0 .. MaxCalls
    BY <2>1, FindFacts DEF FindBounds
  <2>5. <<>> \in Passes
    BY DEF Passes, OneOf
  <2>6. BookOK(book', cover)
    BY <2>2, <2>3, <2>4, <2>5 DEF BookOK
  <2>7. RecheckOK(proof')
    BY <2>1 DEF RecheckOK, F!NoProof
  <2> QED
    BY <2>1, <2>6, <2>7, FindFacts, FindKeep
<1> QED
  BY <1>1, <1>2

\* Every step keeps the invariant.
LEMMA FindNext ==
  ASSUME FindBounds, FindInv, [F!Next]_F!findingVars
  PROVE  FindInv'
<1>1. CASE UNCHANGED F!findingVars
  <2>1. UNCHANGED <<app, cover, answer, book, proof, disk>>
    BY <1>1 DEF F!findingVars
  <2> QED
    BY <2>1, FindFacts, FindKeep
<1>2. CASE F!Next
  BY <1>2, ChangeKeeps, CoverKeeps, FallKeeps, BundleKeeps, DiagnoseKeeps, VerifyKeeps, ReplayKeeps,
     RecheckKeeps,
     RecordKeeps, PersistResumeKeep, AuditKeeps DEF F!Next
<1> QED
  BY <1>1, <1>2

\* The invariant gives the properties.
LEMMA FindSafe ==
  ASSUME FindBounds, FindInv
  PROVE  F!TypeOK /\ F!ComparedWithBefore /\ F!BundleIsCurrent /\ F!LociEarned /\ F!GoneWasLookedFor
<1>1. \A n \in DOMAIN book.ledger : \A e \in book.ledger[n] : [e EXCEPT !.refs = {}] \in F!Entries
  BY FindFacts DEF LedgerOK, EntryOK
<1>2. ASSUME NEW one \in Passes PROVE Len(one) < 2 /\ \A n \in DOMAIN one : one[n] \subseteq F!Reports
  <2>1. CASE one = <<>>
    <3>1. Len(<<>>) = 0 /\ DOMAIN <<>> = {}
      OBVIOUS
    <3> QED
      BY <2>1, <3>1
  <2>2. CASE one # <<>>
    <3>1. PICK s \in SUBSET F!Reports : one = <<s>>
      BY <2>2 DEF Passes, OneOf
    <3>2. Len(<<s>>) = 1 /\ DOMAIN <<s>> = {1} /\ <<s>>[1] = s
      OBVIOUS
    <3> QED
      BY <3>1, <3>2
  <2> QED
    BY <2>1, <2>2
<1>3. F!TypeOK
  BY <1>1, <1>2, FindFacts DEF F!TypeOK, RecheckOK
<1> QED
  BY <1>3, FindFacts

-----------------------------------------------------------------------------
(* Recordings: scenarios, casts and assets.                                 *)

\* Bounds, and a name.
RecBounds ==
  /\ MaxSteps \in Nat /\ MaxRecs \in Nat /\ MaxRuns \in Nat \ {0} /\ MaxTroubles \in Nat
  /\ Names # {}

-----------------------------------------------------------------------------
(* The inductive invariant.                                                *)

Tape == [gen : Nat \ {0}, leased : BOOLEAN, cast : 0 .. MaxRecs]
Calls == [tape : Tapes, gen : Nat \ {0}, kind : {"act", "look"}, run : Nat]

\* The steps are the calls of the own generation, in order.
Own(r, calls) ==
  /\ r.steps \in Seq(Nat)
  /\ \A j, k \in DOMAIN r.steps : j < k => r.steps[j] < r.steps[k]
  /\ {r.steps[k] : k \in DOMAIN r.steps} =
       {n \in DOMAIN calls : n \in r.from + 1 .. r.till /\ calls[n].tape = r.tape /\ calls[n].gen = r.gen}

\* A recording in progress, with an id that was given.
Going(r, calls, given) ==
  /\ r = [id |-> r.id, name |-> r.name, tape |-> r.tape, gen |-> r.gen, from |-> r.from, till |-> r.till,
          steps |-> r.steps]
  /\ r.id \in 1 .. given /\ r.name \in Names /\ r.tape \in Tapes /\ r.gen \in Nat \ {0}
  /\ r.from \in 0 .. Len(calls) /\ r.till = MaxSteps /\ Own(r, calls)

\* A scenario that was finished or built.
Finished(sc, calls, given) ==
  /\ sc.id \in 1 .. given /\ sc.name \in Names
  /\ sc.gen # 0 => sc.till \in 0 .. Len(calls) /\ sc.from \in Nat /\ Own(sc, calls)

\* Scenarios wherever they are.
Settled ==
  store.saved \cup {f.what : f \in files.scenarios} \cup {t.what : t \in told.scenarios}
  \cup {w.what : w \in {x \in pending : x.kind # "cast"}}

\* An id is of one recording, or of scenarios with the same steps.
Apart(going, settled) ==
  /\ \A r, q \in going : r.id = q.id => r = q
  /\ \A x, y \in settled : x.id = y.id => x.steps = y.steps
  /\ \A r \in going, x \in settled : r.id # x.id

StoreOK(st) ==
  /\ st = [run |-> st.run, root |-> st.root, saved |-> st.saved, held |-> st.held, rec |-> st.rec,
           cast |-> st.cast, troubles |-> st.troubles]
  /\ st.run \in 1 .. MaxRuns /\ st.root \in BOOLEAN /\ st.held \subseteq 1 .. MaxRecs
  /\ st.rec \in Nat /\ st.cast \in Nat /\ st.rec + st.cast <= MaxRecs /\ st.troubles \in 0 .. MaxTroubles

Shelves(x) == x = [scenarios |-> x.scenarios, casts |-> x.casts]
Waiting(set) ==
  \A w \in set : w.kind \in {"scenario", "asset", "cast"} /\ (w.kind = "cast" => w.what \in 1 .. MaxRecs)

RecInv ==
  /\ tapes \in [Tapes -> Tape] /\ done \in Seq(Calls) /\ Len(done) <= MaxSteps /\ StoreOK(store)
  /\ Shelves(files) /\ Shelves(told) /\ Waiting(pending)
  /\ \A r \in recs : Going(r, done, store.rec)
  /\ \A x \in Settled : Finished(x, done, store.rec)
  /\ Apart(recs, Settled)
  /\ R!SavedStays /\ R!CastsKept

-----------------------------------------------------------------------------

\* What the invariant says of the parts.
LEMMA RecFacts ==
  ASSUME RecBounds, RecInv
  PROVE  /\ tapes \in [Tapes -> Tape] /\ done \in Seq(Calls) /\ Len(done) \in Nat /\ Len(done) <= MaxSteps
         /\ StoreOK(store)
         /\ store = [run |-> store.run, root |-> store.root, saved |-> store.saved, held |-> store.held,
                     rec |-> store.rec, cast |-> store.cast, troubles |-> store.troubles]
         /\ store.run \in 1 .. MaxRuns /\ store.root \in BOOLEAN /\ store.held \subseteq 1 .. MaxRecs
         /\ store.rec \in Nat /\ store.cast \in Nat /\ store.rec + store.cast <= MaxRecs
         /\ store.troubles \in 0 .. MaxTroubles
         /\ files = [scenarios |-> files.scenarios, casts |-> files.casts]
         /\ told = [scenarios |-> told.scenarios, casts |-> told.casts]
         /\ Waiting(pending) /\ \A r \in recs : Going(r, done, store.rec)
         /\ \A x \in Settled : Finished(x, done, store.rec)
         /\ Apart(recs, Settled) /\ R!SavedStays /\ R!CastsKept
         /\ MaxSteps \in Nat /\ MaxRecs \in Nat /\ MaxRuns \in Nat /\ MaxTroubles \in Nat
BY DEF RecInv, RecBounds, StoreOK, Shelves

\* Trouble is counted.
LEMMA TroubledStore ==
  ASSUME RecBounds, RecInv, R!CanTrouble
  PROVE  LET st == [store EXCEPT !.troubles = @ + 1] IN
         /\ StoreOK(st) /\ st.rec = store.rec /\ st.saved = store.saved /\ st.held = store.held
         /\ st.root = store.root
<1> DEFINE st == [store EXCEPT !.troubles = @ + 1]
<1>1. PICK n \in Nat : n = store.troubles + 1
  BY RecFacts
<1>2. n \in 0 .. MaxTroubles
  BY <1>1, RecFacts DEF R!CanTrouble
<1>3. st = [run |-> store.run, root |-> store.root, saved |-> store.saved, held |-> store.held,
            rec |-> store.rec, cast |-> store.cast, troubles |-> n]
  BY <1>1, RecFacts, SMTT(30)
<1> HIDE DEF st
<1>4. StoreOK(st) /\ st.rec = store.rec /\ st.saved = store.saved /\ st.held = store.held
      /\ st.root = store.root
  BY <1>2, <1>3, RecFacts DEF StoreOK
<1> QED
  BY <1>4 DEF st

\* A step that calls nothing and starts nothing: what is left to show.
LEMMA RecKeep ==
  ASSUME RecBounds, RecInv, done' = done, tapes' \in [Tapes -> Tape], StoreOK(store'), Shelves(files'),
         Shelves(told'),
         Waiting(pending'), recs' \subseteq recs, Settled' \subseteq Settled, store'.rec >= store.rec,
         R!SavedStays', R!CastsKept'
  PROVE  RecInv'
<1>1. store'.rec \in Nat
  BY DEF StoreOK
<1>2. \A r \in recs' : Going(r, done', store'.rec)
  BY <1>1, RecFacts DEF Going
<1>3. \A x \in Settled' : Finished(x, done', store'.rec)
  BY <1>1, RecFacts DEF Finished
<1>4. Apart(recs', Settled')
  BY RecFacts DEF Apart
<1> QED
  BY <1>2, <1>3, <1>4, RecFacts DEF RecInv

\* Before any call.
LEMMA RecInit ==
  ASSUME RecBounds, R!Init
  PROVE  RecInv
<1>1. /\ tapes = [s \in Tapes |-> [gen |-> 1, leased |-> FALSE, cast |-> 0]]
      /\ done = <<>> /\ recs = {} /\ pending = {}
      /\ store = [run |-> 1, root |-> FALSE, saved |-> {}, held |-> {}, rec |-> 0, cast |-> 0, troubles |-> 0]
      /\ files = [scenarios |-> {}, casts |-> {}] /\ told = [scenarios |-> {}, casts |-> {}]
  BY DEF R!Init, R!Fresh, R!NoCast
<1>2. MaxSteps \in Nat /\ MaxRecs \in Nat /\ MaxRuns \in Nat \ {0} /\ MaxTroubles \in Nat
  BY DEF RecBounds
<1>3. tapes \in [Tapes -> Tape]
  <2>1. [gen |-> 1, leased |-> FALSE, cast |-> 0] \in Tape
    BY <1>2 DEF Tape
  <2> QED
    BY <1>1, <2>1
<1>4. done \in Seq(Calls) /\ Len(done) <= MaxSteps
  <2>1. <<>> \in Seq(Calls) /\ Len(<<>>) = 0
    OBVIOUS
  <2> QED
    BY <1>1, <1>2, <2>1
<1>5. StoreOK(store)
  BY <1>1, <1>2 DEF StoreOK
<1>6. Settled = {}
  BY <1>1 DEF Settled
<1>7. R!SavedStays /\ R!CastsKept
  BY <1>1 DEF R!SavedStays, R!CastsKept
<1> QED
  BY <1>1, <1>3, <1>4, <1>5, <1>6, <1>7 DEF RecInv, Shelves, Waiting, Apart

-----------------------------------------------------------------------------
(* Calls.                                                                  *)

\* A call is a step of the recordings of its generation, and of no other.
LEMMA OwnGrows ==
  ASSUME RecBounds, RecInv, Len(done) < MaxSteps, NEW s \in Tapes, NEW kind \in {"act", "look"},
         NEW r \in recs,
         NEW calls, calls = Append(done, [tape |-> s, gen |-> tapes[s].gen, kind |-> kind, run |-> store.run])
  PROVE  LET q == IF R!Matches(r, s) THEN R!Stepped(r, Len(done) + 1) ELSE r IN
         Going(q, calls, store.rec) /\ q.id = r.id
<1> DEFINE one == [tape |-> s, gen |-> tapes[s].gen, kind |-> kind, run |-> store.run]
           n == Len(done) + 1
           Mine(c, q) == {m \in DOMAIN c : m \in q.from + 1 .. q.till
                   /\ c[m].tape = q.tape /\ c[m].gen = q.gen}
<1>1. tapes[s].gen \in Nat \ {0} /\ store.run \in Nat
  BY RecFacts DEF Tape
<1>2. one \in Calls
  BY <1>1 DEF Calls
<1>3. one.tape = s /\ one.gen = tapes[s].gen
  OBVIOUS
<1> HIDE DEF one
<1>4. /\ calls \in Seq(Calls) /\ Len(calls) = n /\ calls[n] = one
      /\ \A m \in 1 .. Len(done) : calls[m] = done[m]
  BY <1>2, RecFacts, AppendProperties DEF one
<1>5. DOMAIN calls = 1 .. n /\ DOMAIN done = 1 .. Len(done) /\ Len(done) \in Nat
      /\ n \in Nat /\ MaxSteps \in Nat
  BY <1>4, RecFacts
<1>6. /\ Going(r, done, store.rec) /\ r.from \in 0 .. Len(done) /\ r.till = MaxSteps
      /\ r.steps \in Seq(Nat) /\ Len(r.steps) \in Nat /\ DOMAIN r.steps = 1 .. Len(r.steps)
  <2>1. Going(r, done, store.rec)
    BY RecFacts
  <2>2. r.from \in 0 .. Len(done) /\ r.till = MaxSteps /\ Own(r, done)
    BY <2>1 DEF Going
  <2>3. r.steps \in Seq(Nat)
    BY <2>2 DEF Own
  <2> QED
    BY <2>1, <2>2, <2>3
<1>7. {r.steps[k] : k \in DOMAIN r.steps} = Mine(done, r)
  BY <1>6 DEF Going, Own
<1>8. \A m \in 1 .. n : m = n \/ m \in 1 .. Len(done)
  BY <1>5
<1>9. \A m \in 1 .. Len(done) : m \in 1 .. n /\ m # n
  BY <1>5
<1>10. n \in r.from + 1 .. r.till
  BY <1>5, <1>6
<1>11. CASE ~R!Matches(r, s)
  <2>1. Mine(calls, r) = Mine(done, r)
    BY <1>3, <1>4, <1>5, <1>8, <1>9, <1>11 DEF R!Matches
  <2>2. Own(r, calls)
    BY <1>6, <1>7, <2>1 DEF Going, Own
  <2>3. r.from \in 0 .. Len(calls)
    BY <1>4, <1>5, <1>6
  <2>4. Going(r, calls, store.rec)
    BY <1>6, <2>2, <2>3 DEF Going
  <2> QED
    BY <1>11, <2>4
<1>12. CASE R!Matches(r, s)
  <2> DEFINE steps == Append(r.steps, n)
  <2>1. /\ steps \in Seq(Nat) /\ Len(steps) = Len(r.steps) + 1 /\ steps[Len(r.steps) + 1] = n
        /\ \A k \in 1 .. Len(r.steps) : steps[k] = r.steps[k]
    BY <1>5, <1>6, AppendProperties
  <2> HIDE DEF steps
  <2>2. DOMAIN steps = 1 .. Len(r.steps) + 1
    BY <2>1
  <2>3. \A k \in 1 .. Len(r.steps) + 1 : k = Len(r.steps) + 1 \/ k \in 1 .. Len(r.steps)
    BY <1>6
  <2>4. \A k \in 1 .. Len(r.steps) : r.steps[k] \in 1 .. Len(done)
    BY <1>5, <1>6, <1>7
  <2>5. ASSUME NEW j \in DOMAIN steps, NEW k \in DOMAIN steps, j < k PROVE steps[j] < steps[k]
    <3>1. j \in 1 .. Len(r.steps)
      BY <1>6, <2>2, <2>5
    <3>2. CASE k = Len(r.steps) + 1
      <4>1. steps[j] \in 1 .. Len(done) /\ steps[k] = n
        BY <2>1, <2>4, <3>1, <3>2
      <4> QED
        BY <1>5, <4>1
    <3>3. CASE k \in 1 .. Len(r.steps)
      <4>1. r.steps[j] < r.steps[k]
        BY <1>6, <2>5, <3>1, <3>3 DEF Going, Own
      <4> QED
        BY <2>1, <3>1, <3>3, <4>1
    <3> QED
      BY <2>2, <2>3, <3>2, <3>3
  <2>6. {steps[k] : k \in DOMAIN steps} = Mine(done, r) \cup {n}
    <3>1. \A k \in 1 .. Len(r.steps) : k \in 1 .. Len(r.steps) + 1
      BY <1>6
    <3>2. Len(r.steps) + 1 \in 1 .. Len(r.steps) + 1
      BY <1>6
    <3>3. {steps[k] : k \in DOMAIN steps} = {r.steps[k] : k \in 1 .. Len(r.steps)} \cup {n}
      BY <2>1, <2>2, <2>3, <3>1, <3>2
    <3> QED
      BY <1>6, <1>7, <3>3
  <2> DEFINE q == R!Stepped(r, n)
  <2>7. q = [id |-> r.id, name |-> r.name, tape |-> r.tape, gen |-> r.gen, from |-> r.from, till |-> r.till,
             steps |-> steps]
    <3>1. r = [id |-> r.id, name |-> r.name, tape |-> r.tape, gen |-> r.gen, from |-> r.from, till |-> r.till,
               steps |-> r.steps]
      BY <1>6 DEF Going
    <3>2. q = [r EXCEPT !.steps = steps]
      BY DEF R!Stepped, steps
    <3> HIDE DEF q
    <3> QED
      BY <3>1, <3>2
  <2>8. Mine(calls, r) = Mine(done, r) \cup {n}
    <3>1. calls[n].tape = r.tape /\ calls[n].gen = r.gen
      BY <1>3, <1>4, <1>12 DEF R!Matches
    <3>2. n \in 1 .. n
      BY <1>5
    <3> QED
      BY <1>4, <1>5, <1>8, <1>9, <1>10, <3>1, <3>2
  <2> HIDE DEF q, n
  <2>9. Own(q, calls)
    <3>1. q.steps = steps /\ q.from = r.from /\ q.till = r.till /\ q.tape = r.tape /\ q.gen = r.gen
      BY <2>7
    <3> QED
      BY <2>1, <2>5, <2>6, <2>8, <3>1 DEF Own
  <2>10. r.from \in 0 .. Len(calls)
    BY <1>4, <1>5, <1>6 DEF n
  <2>11. Going(q, calls, store.rec) /\ q.id = r.id
    BY <1>6, <2>7, <2>9, <2>10 DEF Going
  <2> QED
    BY <1>12, <2>11 DEF q, n
<1> QED
  BY <1>11, <1>12

\* A scenario that is finished has no further calls.
LEMMA FinishedStays ==
  ASSUME RecBounds, RecInv, NEW x, Finished(x, done, store.rec), NEW one \in Calls, NEW calls,
         calls = Append(done, one)
  PROVE  Finished(x, calls, store.rec)
<1>1. /\ calls \in Seq(Calls) /\ Len(calls) = Len(done) + 1 /\ \A m \in 1 .. Len(done) : calls[m] = done[m]
  BY RecFacts, AppendProperties
<1>2. DOMAIN calls = 1 .. Len(done) + 1 /\ DOMAIN done = 1 .. Len(done) /\ Len(done) \in Nat
  BY <1>1, RecFacts
<1>3. ASSUME x.gen # 0 PROVE x.till \in 0 .. Len(calls) /\ Own(x, calls)
  <2>1. x.till \in 0 .. Len(done) /\ x.from \in Nat /\ Own(x, done)
    BY <1>3 DEF Finished
  <2>2. x.till \in 0 .. Len(calls)
    BY <1>1, <1>2, <2>1
  <2>3. \A m \in DOMAIN calls : m \in x.from + 1 .. x.till => m \in DOMAIN done /\ calls[m] = done[m]
    BY <1>1, <1>2, <2>1
  <2>4. \A m \in DOMAIN done : m \in DOMAIN calls /\ calls[m] = done[m]
    BY <1>1, <1>2
  <2> QED
    BY <2>1, <2>2, <2>3, <2>4 DEF Own
<1> QED
  BY <1>3 DEF Finished

\* A call that is recordable.
LEMMA CalledKeeps ==
  ASSUME RecBounds, RecInv, NEW s \in Tapes, NEW kind \in {"act", "look"}, R!Called(s, kind)
  PROVE  RecInv'
<1> DEFINE one == [tape |-> s, gen |-> tapes[s].gen, kind |-> kind, run |-> store.run]
<1>1. /\ Len(done) < MaxSteps /\ done' = Append(done, one) /\ recs' = R!Recorded(s)
      /\ UNCHANGED <<tapes, store, files, pending, told>>
  BY DEF R!Called
<1>2. one \in Calls
  <2>1. tapes[s].gen \in Nat \ {0} /\ store.run \in Nat
    BY RecFacts DEF Tape
  <2> QED
    BY <2>1 DEF Calls
<1>3. ASSUME NEW q \in recs'
      PROVE  /\ Going(q, done', store.rec)
             /\ \E r \in recs :
                  q.id = r.id /\ q = (IF R!Matches(r, s) THEN R!Stepped(r, Len(done) + 1) ELSE r)
  <2>1. PICK r \in recs : q = IF R!Matches(r, s) THEN R!Stepped(r, Len(done) + 1) ELSE r
    BY <1>1 DEF R!Recorded
  <2> QED
    BY <1>1, <2>1, OwnGrows
<1> HIDE DEF one
<1>4. done' \in Seq(Calls) /\ Len(done') <= MaxSteps
  <2>1. done' \in Seq(Calls) /\ Len(done') = Len(done) + 1
    BY <1>1, <1>2, RecFacts, AppendProperties
  <2> QED
    BY <1>1, <2>1, RecFacts
<1>5. Settled' = Settled
  BY <1>1 DEF Settled
<1>6. \A x \in Settled : Finished(x, done', store.rec)
  BY <1>1, <1>2, FinishedStays, RecFacts
<1>7. Apart(recs', Settled)
  BY <1>3, RecFacts DEF Apart
<1>8. R!SavedStays' /\ R!CastsKept'
  BY <1>1, RecFacts DEF R!SavedStays, R!CastsKept
<1> QED
  BY <1>1, <1>3, <1>4, <1>5, <1>6, <1>7, <1>8, RecFacts DEF RecInv, Shelves

-----------------------------------------------------------------------------
(* Sessions, and what is started.                                          *)

\* A session changes: a restart, a lease, a cast.
LEMMA TapesTyped ==
  ASSUME RecBounds, RecInv, NEW s \in Tapes
  PROVE  /\ [tapes EXCEPT ![s].gen = @ + 1] \in [Tapes -> Tape]
         /\ [tapes EXCEPT ![s].leased = TRUE] \in [Tapes -> Tape]
         /\ \A c \in 0 .. MaxRecs : R!Attached(s, c) \in [Tapes -> Tape]
<1>1. tapes \in [Tapes -> Tape] /\ tapes[s] \in Tape
  BY RecFacts
<1>2. PICK g \in Nat \ {0}, l \in BOOLEAN, c \in 0 .. MaxRecs :
        tapes[s] = [gen |-> g, leased |-> l, cast |-> c]
  BY <1>1 DEF Tape
<1>3. PICK h \in Nat \ {0} : h = g + 1
  BY <1>2
<1>4. [tapes EXCEPT ![s].gen = @ + 1] \in [Tapes -> Tape]
  <2>1. [tapes[s] EXCEPT !.gen = h] = [gen |-> h, leased |-> l, cast |-> c]
    BY <1>2
  <2>2. [tapes[s] EXCEPT !.gen = h] \in Tape
    BY <1>2, <1>3, <2>1 DEF Tape
  <2>3. tapes[s].gen + 1 = h
    BY <1>2, <1>3
  <2> QED
    BY <1>1, <2>2, <2>3
<1>5. [tapes EXCEPT ![s].leased = TRUE] \in [Tapes -> Tape]
  <2>0. \A v : [tapes[s] EXCEPT !.leased = v] = [gen |-> g, leased |-> v, cast |-> c]
    BY <1>2
  <2>1. [tapes[s] EXCEPT !.leased = TRUE] = [gen |-> g, leased |-> TRUE, cast |-> c]
    BY <2>0
  <2>2. [tapes[s] EXCEPT !.leased = TRUE] \in Tape
    BY <1>2, <2>1 DEF Tape
  <2> QED
    BY <1>1, <2>2
<1>6. ASSUME NEW d \in 0 .. MaxRecs PROVE R!Attached(s, d) \in [Tapes -> Tape]
  <2>1. [tapes[s] EXCEPT !.cast = d] = [gen |-> g, leased |-> l, cast |-> d]
    BY <1>2
  <2>2. [tapes[s] EXCEPT !.cast = d] \in Tape
    BY <1>2, <2>1 DEF Tape
  <2> QED
    BY <1>1, <2>2 DEF R!Attached
<1> QED
  BY <1>4, <1>5, <1>6

\* A restart or a lease.
LEMMA SessionKeeps ==
  ASSUME RecBounds, RecInv, NEW s \in Tapes, R!Restart(s) \/ R!Lease(s)
  PROVE  RecInv'
<1>1. /\ R!CanTrouble /\ store' = [store EXCEPT !.troubles = @ + 1]
      /\ UNCHANGED <<done, recs, files, pending, told>>
  BY DEF R!Restart, R!Lease, R!Troubled
<1>2. tapes' \in [Tapes -> Tape]
  BY TapesTyped DEF R!Restart, R!Lease
<1>3. StoreOK(store') /\ store'.rec = store.rec /\ store'.saved = store.saved /\ store'.held = store.held
  BY <1>1, TroubledStore
<1>4. Settled' = Settled
  BY <1>1, <1>3 DEF Settled
<1>5. R!SavedStays' /\ R!CastsKept'
  BY <1>1, <1>3, RecFacts DEF R!SavedStays, R!CastsKept
<1> QED
  BY <1>1, <1>2, <1>3, <1>4, <1>5, RecFacts, RecKeep DEF Shelves

\* The next id is given.
LEMMA NextRec ==
  ASSUME RecBounds, RecInv, R!CanRecord
  PROVE  LET st == [store EXCEPT !.rec = @ + 1] IN
         /\ StoreOK(st) /\ st.rec = store.rec + 1 /\ st.saved = store.saved /\ st.held = store.held
<1> DEFINE st == [store EXCEPT !.rec = @ + 1]
<1>1. PICK n \in Nat : n = store.rec + 1
  BY RecFacts
<1>2. n + store.cast <= MaxRecs
  BY <1>1, RecFacts DEF R!CanRecord
<1>3. st = [run |-> store.run, root |-> store.root, saved |-> store.saved, held |-> store.held,
            rec |-> n, cast |-> store.cast, troubles |-> store.troubles]
  BY <1>1, RecFacts, SMTT(30)
<1> HIDE DEF st
<1>4. StoreOK(st) /\ st.rec = n /\ st.saved = store.saved /\ st.held = store.held
  BY <1>2, <1>3, RecFacts DEF StoreOK
<1> QED
  BY <1>1, <1>4 DEF st

\* What was given before stays given.
LEMMA GivenGrows ==
  ASSUME RecBounds, RecInv
  PROVE  /\ \A r \in recs : Going(r, done, store.rec + 1) /\ r.id # store.rec + 1
         /\ \A x \in Settled : Finished(x, done, store.rec + 1) /\ x.id # store.rec + 1
<1>1. store.rec \in Nat /\ store.rec + 1 \in Nat
      /\ \A i \in 1 .. store.rec : i \in 1 .. store.rec + 1 /\ i # store.rec + 1
  BY RecFacts
<1>2. ASSUME NEW r \in recs PROVE Going(r, done, store.rec + 1) /\ r.id # store.rec + 1
  BY <1>1, RecFacts DEF Going
<1>3. ASSUME NEW x \in Settled PROVE Finished(x, done, store.rec + 1) /\ x.id # store.rec + 1
  BY <1>1, RecFacts DEF Finished
<1> QED
  BY <1>2, <1>3

\* A recording starts with no steps, and from now on.
LEMMA StartKeeps ==
  ASSUME RecBounds, RecInv, NEW s \in Tapes, R!RecordStart(s)
  PROVE  RecInv'
<1>1. /\ R!CanRecord /\ store' = [store EXCEPT !.rec = @ + 1]
      /\ UNCHANGED <<tapes, done, files, pending, told>>
  BY DEF R!RecordStart
<1>2. PICK name \in Names :
        recs' = recs \cup {[id |-> store.rec + 1, name |-> name, tape |-> s, gen |-> tapes[s].gen,
                            from |-> Len(done), till |-> MaxSteps, steps |-> <<>>]}
  BY DEF R!RecordStart
<1> DEFINE new == [id |-> store.rec + 1, name |-> name, tape |-> s, gen |-> tapes[s].gen,
                   from |-> Len(done), till |-> MaxSteps, steps |-> <<>>]
<1>3. StoreOK(store') /\ store'.rec = store.rec + 1 /\ store'.saved = store.saved /\ store'.held = store.held
  BY <1>1, NextRec
<1>4. Settled' = Settled
  BY <1>1, <1>3 DEF Settled
<1>5. /\ new.id = store.rec + 1 /\ new.name = name /\ new.tape = s /\ new.gen = tapes[s].gen
      /\ new.from = Len(done) /\ new.till = MaxSteps /\ new.steps = <<>>
      /\ new = [id |-> new.id, name |-> new.name, tape |-> new.tape, gen |-> new.gen, from |-> new.from,
                till |-> new.till, steps |-> new.steps]
  OBVIOUS
<1> HIDE DEF new
<1>6. Going(new, done, store.rec + 1)
  <2>1. store.rec \in Nat /\ store.rec + 1 \in 1 .. store.rec + 1 /\ Len(done) \in 0 .. Len(done)
    BY RecFacts
  <2>2. tapes[s].gen \in Nat \ {0}
    BY RecFacts DEF Tape
  <2>3. <<>> \in Seq(Nat) /\ DOMAIN <<>> = {}
    OBVIOUS
  <2>4. \A n \in DOMAIN done : n \notin Len(done) + 1 .. MaxSteps
    BY RecFacts
  <2>5. Own(new, done)
    BY <1>5, <2>3, <2>4 DEF Own
  <2> QED
    BY <1>5, <2>1, <2>2, <2>5 DEF Going
<1>7. \A r \in recs' : Going(r, done', store'.rec)
  BY <1>1, <1>2, <1>3, <1>6, GivenGrows DEF new
<1>8. \A x \in Settled : Finished(x, done', store'.rec)
  BY <1>1, <1>3, GivenGrows
<1>9. Apart(recs', Settled)
  <2>1. recs' = recs \cup {new}
    BY <1>2 DEF new
  <2> QED
    BY <1>5, <2>1, GivenGrows, RecFacts DEF Apart
<1>10. R!SavedStays' /\ R!CastsKept'
  BY <1>1, <1>3, RecFacts DEF R!SavedStays, R!CastsKept
<1> QED
  BY <1>1, <1>3, <1>4, <1>7, <1>8, <1>9, <1>10, RecFacts DEF RecInv, Shelves

-----------------------------------------------------------------------------
(* Stops and assets.                                                       *)

\* A recording that stops is a scenario with its steps.
LEMMA StopKeeps ==
  ASSUME RecBounds, RecInv, R!RecordStop
  PROVE  RecInv'
<1>1. UNCHANGED <<tapes, done, files, told>>
  BY DEF R!RecordStop
<1>2. PICK r \in recs \cup UNION {R!ByName(n) : n \in Names} :
        /\ recs' = recs \ {r}
        /\ store' = [store EXCEPT !.saved = @ \cup {[r EXCEPT !.till = Len(done)]}]
        /\ pending' = pending \cup {[kind |-> "scenario", what |-> [r EXCEPT !.till = Len(done)]]}
  BY DEF R!RecordStop
<1>3. r \in recs
  BY <1>2 DEF R!ByName
<1> DEFINE sc == [r EXCEPT !.till = Len(done)]
           w == [kind |-> "scenario", what |-> sc]
<1>4. Going(r, done, store.rec)
  BY <1>3, RecFacts
<1>5. sc = [id |-> r.id, name |-> r.name, tape |-> r.tape, gen |-> r.gen, from |-> r.from, till |-> Len(done),
            steps |-> r.steps]
  <2>1. r = [id |-> r.id, name |-> r.name, tape |-> r.tape, gen |-> r.gen, from |-> r.from, till |-> r.till,
             steps |-> r.steps]
    BY <1>4 DEF Going
  <2> QED
    BY <2>1
<1>6. w.kind = "scenario" /\ w.what = sc
  OBVIOUS
<1>7. /\ store'.saved = store.saved \cup {sc} /\ store'.rec = store.rec /\ store'.held = store.held
      /\ StoreOK(store')
  <2>1. store' = [run |-> store.run, root |-> store.root, saved |-> store.saved \cup {sc},
                  held |-> store.held,
                  rec |-> store.rec, cast |-> store.cast, troubles |-> store.troubles]
    BY <1>2, RecFacts
  <2> HIDE DEF sc
  <2> QED
    BY <2>1, RecFacts DEF StoreOK
<1>8. pending' = pending \cup {w}
  BY <1>2
<1> HIDE DEF sc, w
<1>9. /\ sc.id = r.id /\ sc.name = r.name /\ sc.tape = r.tape /\ sc.gen = r.gen /\ sc.from = r.from
      /\ sc.till = Len(done) /\ sc.steps = r.steps
  BY <1>5
<1>10. Settled' = Settled \cup {sc}
  BY <1>1, <1>6, <1>7, <1>8 DEF Settled
<1>11. Finished(sc, done, store.rec)
  <2>1. Own(r, done) /\ r.from \in 0 .. Len(done) /\ r.till = MaxSteps
    BY <1>4 DEF Going
  <2>2. Len(done) \in Nat /\ r.from \in Nat /\ DOMAIN done = 1 .. Len(done)
        /\ Len(done) <= MaxSteps /\ MaxSteps \in Nat
    BY <2>1, RecFacts
  <2>3. \A n \in DOMAIN done : n \in r.from + 1 .. r.till <=> n \in r.from + 1 .. Len(done)
    BY <2>1, <2>2
  <2>4. Own(sc, done)
    BY <1>9, <2>1, <2>3, SMTT(30) DEF Own
  <2> QED
    BY <1>4, <1>9, <2>2, <2>4 DEF Finished, Going
<1>12. Apart(recs', Settled \cup {sc})
  BY <1>2, <1>3, <1>9, RecFacts DEF Apart
<1>13. Waiting(pending')
  BY <1>6, <1>8, RecFacts DEF Waiting
<1>14. R!SavedStays' /\ R!CastsKept'
  BY <1>1, <1>7, RecFacts DEF R!SavedStays, R!CastsKept
<1>15. \A x \in Settled' : Finished(x, done', store'.rec)
  BY <1>1, <1>7, <1>10, <1>11, RecFacts
<1>16. \A q \in recs' : Going(q, done', store'.rec)
  BY <1>1, <1>2, <1>7, RecFacts
<1> QED
  BY <1>1, <1>7, <1>10, <1>12, <1>13, <1>14, <1>15, <1>16, RecFacts DEF RecInv, Shelves

\* A scenario is written over files with its steps, and over no other's.
LEMMA WrittenStays ==
  ASSUME RecBounds, RecInv, NEW w \in pending, w.kind # "cast",
         files' = [files EXCEPT !.scenarios = R!Written(store.run, w.what)],
         told' = [told EXCEPT !.scenarios = @ \cup {[run |-> store.run, what |-> w.what]}]
  PROVE  /\ Shelves(files') /\ Shelves(told') /\ R!SavedStays'
         /\ files'.casts = files.casts /\ told'.casts = told.casts
         /\ {f.what : f \in files'.scenarios} \cup {t.what : t \in told'.scenarios} \subseteq Settled
<1> DEFINE this == [run |-> store.run, what |-> w.what]
<1>1. this.run = store.run /\ this.what = w.what
  OBVIOUS
<1>2. files' = [scenarios |-> R!Written(store.run, w.what), casts |-> files.casts]
  BY RecFacts
<1>3. told' = [scenarios |-> told.scenarios \cup {this}, casts |-> told.casts]
  BY RecFacts
<1>4. /\ R!Written(store.run, w.what) \subseteq files.scenarios \cup {this}
      /\ this \in R!Written(store.run, w.what)
      /\ \A f \in files.scenarios : f \in R!Written(store.run,
                                                    w.what) \/ (f.run = store.run /\ f.what.id = w.what.id)
  <2>1. R!Written(store.run, w.what) =
          {f \in files.scenarios : f.run # store.run \/ f.what.id # w.what.id \/ f.what.name # w.what.name}
          \cup {this}
    BY DEF R!Written
  <2> HIDE DEF this
  <2> QED
    BY <2>1
<1> HIDE DEF this
<1>5. /\ files'.scenarios \subseteq files.scenarios \cup {this} /\ this \in files'.scenarios
      /\ \A f \in files.scenarios : f \in files'.scenarios \/ (f.run = store.run /\ f.what.id = w.what.id)
      /\ told'.scenarios = told.scenarios \cup {this} /\ files'.casts = files.casts
         /\ told'.casts = told.casts
      /\ Shelves(files') /\ Shelves(told')
  <2>1. /\ files'.scenarios = R!Written(store.run, w.what) /\ files'.casts = files.casts
        /\ told'.scenarios = told.scenarios \cup {this} /\ told'.casts = told.casts
    BY <1>2, <1>3
  <2>2. Shelves(files')
    BY <1>2, <2>1 DEF Shelves
  <2>3. Shelves(told')
    BY <1>3, <2>1 DEF Shelves
  <2> QED
    BY <1>4, <2>1, <2>2, <2>3
<1>6. w.what \in Settled /\ \A t \in told.scenarios : t.what \in Settled
  BY DEF Settled
<1>7. ASSUME NEW t \in told'.scenarios
      PROVE  \E f \in files'.scenarios : f.run = t.run /\ f.what.id = t.what.id /\ f.what.steps = t.what.steps
  <2>1. CASE t = this
    BY <1>5, <2>1
  <2>2. CASE t \in told.scenarios
    <3>1. PICK f \in files.scenarios : f.run = t.run /\ f.what.id = t.what.id /\ f.what.steps = t.what.steps
      BY <2>2, RecFacts DEF R!SavedStays
    <3>2. CASE f \in files'.scenarios
      BY <3>1, <3>2
    <3>3. CASE f.run = store.run /\ f.what.id = w.what.id
      <4>1. w.what.steps = t.what.steps
        BY <1>6, <2>2, <3>1, <3>3, RecFacts DEF Apart
      <4> QED
        BY <1>1, <1>5, <3>1, <3>3, <4>1
    <3> QED
      BY <1>5, <3>2, <3>3
  <2> QED
    BY <1>5, <2>1, <2>2
<1>8. R!SavedStays'
  BY <1>7 DEF R!SavedStays
<1>9. {f.what : f \in files'.scenarios} \cup {t.what : t \in told'.scenarios} \subseteq Settled
  <2>1. \A f \in files.scenarios : f.what \in Settled
    BY DEF Settled
  <2> QED
    BY <1>1, <1>5, <1>6, <2>1
<1> QED
  BY <1>5, <1>8, <1>9

\* The second lock of a stop.
LEMMA StopFileKeeps ==
  ASSUME RecBounds, RecInv, R!RecordStopFile
  PROVE  RecInv'
<1>1. UNCHANGED <<tapes, done, recs>>
  BY DEF R!RecordStopFile
<1>2. PICK w \in pending :
        /\ w.kind = "scenario" /\ pending' = pending \ {w}
        /\ \/ UNCHANGED <<store, files, told>>
           \/ /\ files' = [files EXCEPT !.scenarios = R!Written(store.run, w.what)]
              /\ told' = [told EXCEPT !.scenarios = @ \cup {[run |-> store.run, what |-> w.what]}]
              /\ UNCHANGED store
           \/ R!CanTrouble /\ R!Troubled /\ UNCHANGED <<files, told>>
  BY DEF R!RecordStopFile
<1>3. Waiting(pending') /\ {x.what : x \in {y \in pending' : y.kind # "cast"}} \subseteq Settled
  BY <1>2, RecFacts DEF Waiting, Settled
<1>4. StoreOK(store') /\ store'.rec = store.rec /\ store'.saved = store.saved /\ store'.held = store.held
  BY <1>2, RecFacts, TroubledStore DEF R!Troubled
<1>5. store.saved \subseteq Settled
  BY DEF Settled
<1>6. /\ Shelves(files') /\ Shelves(told') /\ R!SavedStays'
      /\ files'.casts = files.casts /\ told'.casts = told.casts
      /\ {f.what : f \in files'.scenarios} \cup {t.what : t \in told'.scenarios} \subseteq Settled
  <2>1. CASE UNCHANGED <<files, told>>
    BY <2>1, RecFacts DEF Shelves, R!SavedStays, Settled
  <2>2. CASE /\ files' = [files EXCEPT !.scenarios = R!Written(store.run, w.what)]
             /\ told' = [told EXCEPT !.scenarios = @ \cup {[run |-> store.run, what |-> w.what]}]
    BY <1>2, <2>2, WrittenStays
  <2> QED
    BY <1>2, <2>1, <2>2
<1>7. Settled' \subseteq Settled
  BY <1>3, <1>4, <1>5, <1>6 DEF Settled
<1>8. R!CastsKept'
  BY <1>4, <1>6, RecFacts DEF R!CastsKept
<1> QED
  BY <1>1, <1>3, <1>4, <1>6, <1>7, <1>8, RecFacts, RecKeep

\* An asset of the ledger waits under a new id.
LEMMA AssetKeeps ==
  ASSUME RecBounds, RecInv, NEW s \in Tapes, R!Asset(s)
  PROVE  RecInv'
<1> DEFINE new == [id |-> store.rec + 1, name |-> CHOOSE n \in Names : TRUE, tape |-> s, gen |-> 0,
                   from |-> 0, till |-> Len(done), steps |-> R!Reverse(R!Touching(s))]
           w == [kind |-> "asset", what |-> new]
<1>1. /\ R!CanRecord /\ store' = [store EXCEPT !.rec = @ + 1] /\ UNCHANGED <<tapes, done, recs, files, told>>
      /\ pending' = pending \cup {w}
  BY DEF R!Asset
<1>2. StoreOK(store') /\ store'.rec = store.rec + 1 /\ store'.saved = store.saved /\ store'.held = store.held
  BY <1>1, NextRec
<1>3. new.id = store.rec + 1 /\ new.gen = 0 /\ new.name \in Names /\ w.kind = "asset" /\ w.what = new
  BY DEF RecBounds
<1> HIDE DEF new, w
<1>4. Settled' = Settled \cup {new}
  BY <1>1, <1>2, <1>3 DEF Settled
<1>5. Finished(new, done, store.rec + 1)
  <2>1. store.rec + 1 \in 1 .. store.rec + 1
    BY RecFacts
  <2> QED
    BY <1>3, <2>1 DEF Finished
<1>6. \A x \in Settled' : Finished(x, done', store'.rec)
  BY <1>1, <1>2, <1>4, <1>5, GivenGrows
<1>7. \A r \in recs' : Going(r, done', store'.rec)
  BY <1>1, <1>2, GivenGrows
<1>8. Apart(recs', Settled')
  BY <1>1, <1>3, <1>4, GivenGrows, RecFacts DEF Apart
<1>9. Waiting(pending')
  BY <1>1, <1>3, RecFacts DEF Waiting
<1>10. R!SavedStays' /\ R!CastsKept'
  BY <1>1, <1>2, RecFacts DEF R!SavedStays, R!CastsKept
<1> QED
  BY <1>1, <1>2, <1>6, <1>7, <1>8, <1>9, <1>10, RecFacts DEF RecInv, Shelves

\* An asset of a reproduction is a scenario that is there.
LEMMA ReproductionKeeps ==
  ASSUME RecBounds, RecInv, R!AssetOfReproduction
  PROVE  RecInv'
<1>1. UNCHANGED <<tapes, done, recs, store, files, told>>
  BY DEF R!AssetOfReproduction
<1>2. PICK key \in R!Keys : \E sc \in R!Resolve(key) :
        pending' = pending \cup {[kind |-> "asset", what |-> sc]}
  BY DEF R!AssetOfReproduction
<1>3. PICK sc \in R!Resolve(key) : pending' = pending \cup {[kind |-> "asset", what |-> sc]}
  BY <1>2
<1>4. sc \in Settled
  <2>1. sc \in store.saved \cup {f.what : f \in files.scenarios}
    BY <1>3 DEF R!Resolve
  <2> QED
    BY <2>1 DEF Settled
<1> DEFINE w == [kind |-> "asset", what |-> sc]
<1>5. w.kind = "asset" /\ w.what = sc /\ pending' = pending \cup {w}
  BY <1>3
<1> HIDE DEF w
<1>6. Settled' \subseteq Settled
  BY <1>1, <1>4, <1>5 DEF Settled
<1>7. Waiting(pending')
  BY <1>5, RecFacts DEF Waiting
<1>8. R!SavedStays' /\ R!CastsKept'
  BY <1>1, RecFacts DEF R!SavedStays, R!CastsKept
<1> QED
  BY <1>1, <1>6, <1>7, <1>8, RecFacts, RecKeep DEF Shelves

\* An asset is saved: memory first, then the file.
LEMMA SaveAssetKeeps ==
  ASSUME RecBounds, RecInv, R!SaveAsset
  PROVE  RecInv'
<1>1. UNCHANGED <<tapes, done, recs>>
  BY DEF R!SaveAsset
<1> DEFINE Kept(w) == [store EXCEPT !.saved = {sc \in @ : sc.id # w.what.id} \cup {w.what}]
<1>2. PICK w \in pending :
        /\ w.kind = "asset" /\ pending' = pending \ {w}
        /\ \/ store' = Kept(w) /\ UNCHANGED <<files, told>>
           \/ /\ store' = Kept(w) /\ files' = [files EXCEPT !.scenarios = R!Written(store.run, w.what)]
              /\ told' = [told EXCEPT !.scenarios = @ \cup {[run |-> store.run, what |-> w.what]}]
           \/ R!CanTrouble /\ store' = [Kept(w) EXCEPT !.troubles = @ + 1] /\ UNCHANGED <<files, told>>
  BY DEF R!SaveAsset
<1> DEFINE saved == {sc \in store.saved : sc.id # w.what.id} \cup {w.what}
<1>3. Kept(w) = [run |-> store.run, root |-> store.root, saved |-> saved, held |-> store.held,
                 rec |-> store.rec, cast |-> store.cast, troubles |-> store.troubles]
  <2>1. \A v : [store EXCEPT !.saved = v] =
                 [run |-> store.run, root |-> store.root, saved |-> v, held |-> store.held,
                  rec |-> store.rec, cast |-> store.cast, troubles |-> store.troubles]
    BY RecFacts
  <2>2. Kept(w) = [store EXCEPT !.saved = saved]
    OBVIOUS
  <2> HIDE DEF Kept, saved
  <2> QED
    BY <2>1, <2>2
<1>4. saved \subseteq Settled
  BY <1>2 DEF Settled
<1> HIDE DEF Kept, saved
<1>5. StoreOK(store') /\ store'.rec = store.rec /\ store'.saved = saved /\ store'.held = store.held
  <2>1. CASE store' = Kept(w)
    BY <1>3, <2>1, RecFacts DEF StoreOK
  <2>2. CASE R!CanTrouble /\ store' = [Kept(w) EXCEPT !.troubles = @ + 1]
    <3>1. PICK n \in Nat : n = store.troubles + 1
      BY RecFacts
    <3>2. n \in 0 .. MaxTroubles
      BY <2>2, <3>1, RecFacts DEF R!CanTrouble
    <3>3. store' = [run |-> store.run, root |-> store.root, saved |-> saved, held |-> store.held,
                    rec |-> store.rec, cast |-> store.cast, troubles |-> n]
      BY <1>3, <2>2, <3>1
    <3> QED
      BY <3>2, <3>3, RecFacts DEF StoreOK
  <2> QED
    BY <1>2, <2>1, <2>2
<1>6. Waiting(pending') /\ {x.what : x \in {y \in pending' : y.kind # "cast"}} \subseteq Settled
  BY <1>2, RecFacts DEF Waiting, Settled
<1>7. /\ Shelves(files') /\ Shelves(told') /\ R!SavedStays'
      /\ files'.casts = files.casts /\ told'.casts = told.casts
      /\ {f.what : f \in files'.scenarios} \cup {t.what : t \in told'.scenarios} \subseteq Settled
  <2>1. CASE UNCHANGED <<files, told>>
    BY <2>1, RecFacts DEF Shelves, R!SavedStays, Settled
  <2>2. CASE /\ files' = [files EXCEPT !.scenarios = R!Written(store.run, w.what)]
             /\ told' = [told EXCEPT !.scenarios = @ \cup {[run |-> store.run, what |-> w.what]}]
    BY <1>2, <2>2, WrittenStays
  <2> QED
    BY <1>2, <2>1, <2>2
<1>8. Settled' \subseteq Settled
  BY <1>4, <1>5, <1>6, <1>7 DEF Settled
<1>9. R!CastsKept'
  BY <1>5, <1>7, RecFacts DEF R!CastsKept
<1> QED
  BY <1>1, <1>5, <1>6, <1>7, <1>8, <1>9, RecFacts, RecKeep

-----------------------------------------------------------------------------
(* Casts.                                                                  *)

\* A cast is attached under a new number.
LEMMA CastStartKeeps ==
  ASSUME RecBounds, RecInv, NEW s \in Tapes, R!CastStart(s)
  PROVE  RecInv'
<1>1. /\ R!CanRecord /\ store' = [store EXCEPT !.cast = @ + 1] /\ tapes' = R!Attached(s, store.cast + 1)
      /\ UNCHANGED <<done, recs, files, pending, told>>
  BY DEF R!CastStart
<1>2. PICK n \in Nat : n = store.cast + 1
  BY RecFacts
<1>3. n \in 0 .. MaxRecs /\ store.rec + n <= MaxRecs
  BY <1>1, <1>2, RecFacts DEF R!CanRecord
<1>4. store' = [run |-> store.run, root |-> store.root, saved |-> store.saved, held |-> store.held,
                rec |-> store.rec, cast |-> n, troubles |-> store.troubles]
  BY <1>1, <1>2, RecFacts
<1>5. StoreOK(store') /\ store'.rec = store.rec /\ store'.saved = store.saved /\ store'.held = store.held
  BY <1>2, <1>3, <1>4, RecFacts DEF StoreOK
<1>6. tapes' \in [Tapes -> Tape]
  BY <1>1, <1>2, <1>3, TapesTyped
<1>7. Settled' = Settled
  BY <1>1, <1>5 DEF Settled
<1>8. R!SavedStays' /\ R!CastsKept'
  BY <1>1, <1>5, RecFacts DEF R!SavedStays, R!CastsKept
<1> QED
  BY <1>1, <1>5, <1>6, <1>7, <1>8, RecFacts, RecKeep DEF Shelves

\* A cast that stops is written, waits to be held, or is lost with an error.
LEMMA CastStopKeeps ==
  ASSUME RecBounds, RecInv, NEW s \in Tapes, R!CastStop(s)
  PROVE  RecInv'
<1>1. /\ tapes' = R!Attached(s, R!NoCast) /\ R!Keeps(tapes[s].cast) /\ tapes[s].cast # R!NoCast
      /\ UNCHANGED <<done, recs>>
  BY DEF R!CastStop
<1>2. tapes' \in [Tapes -> Tape]
  <2>1. 0 \in 0 .. MaxRecs
    BY RecFacts
  <2> QED
    BY <1>1, <2>1, TapesTyped DEF R!NoCast
<1>3. tapes[s].cast \in 1 .. MaxRecs
  <2>1. tapes[s].cast \in 0 .. MaxRecs
    BY RecFacts DEF Tape
  <2> QED
    BY <1>1, <2>1, RecFacts DEF R!NoCast
<1>4. PICK c \in 1 .. MaxRecs : c = tapes[s].cast
  BY <1>3
<1>5. \/ /\ files' = [files EXCEPT !.casts = @ \cup {c}] /\ told' = [told EXCEPT !.casts = @ \cup {c}]
         /\ UNCHANGED <<store, pending>>
      \/ pending' = pending \cup {[kind |-> "cast", what |-> c]} /\ UNCHANGED <<store, files, told>>
      \/ R!CanTrouble /\ R!Troubled /\ UNCHANGED <<files, told, pending>>
  BY <1>1, <1>4 DEF R!Keeps
<1>6. StoreOK(store') /\ store'.rec = store.rec /\ store'.saved = store.saved /\ store'.held = store.held
  BY <1>5, RecFacts, TroubledStore DEF R!Troubled
<1>7. /\ Shelves(files') /\ Shelves(told') /\ R!SavedStays' /\ R!CastsKept'
      /\ files'.scenarios = files.scenarios /\ told'.scenarios = told.scenarios
  <2>1. CASE UNCHANGED <<files, told>>
    BY <1>6, <2>1, RecFacts DEF Shelves, R!SavedStays, R!CastsKept
  <2>2. CASE files' = [files EXCEPT !.casts = @ \cup {c}] /\ told' = [told EXCEPT !.casts = @ \cup {c}]
    <3>1. files' = [scenarios |-> files.scenarios, casts |-> files.casts \cup {c}]
      BY <2>2, RecFacts
    <3>2. told' = [scenarios |-> told.scenarios, casts |-> told.casts \cup {c}]
      BY <2>2, RecFacts
    <3>3. /\ files'.scenarios = files.scenarios /\ files'.casts = files.casts \cup {c}
          /\ told'.scenarios = told.scenarios /\ told'.casts = told.casts \cup {c}
      BY <3>1, <3>2
    <3>4. Shelves(files')
      BY <3>1, <3>3 DEF Shelves
    <3>5. Shelves(told')
      BY <3>2, <3>3 DEF Shelves
    <3> QED
      BY <1>6, <3>3, <3>4, <3>5, RecFacts DEF R!SavedStays, R!CastsKept
  <2> QED
    BY <1>5, <2>1, <2>2
<1>8. Waiting(pending') /\ {x.what : x \in {y \in pending' : y.kind # "cast"}} \subseteq Settled
  <2>1. CASE pending' = pending
    BY <2>1, RecFacts DEF Settled
  <2>2. CASE pending' = pending \cup {[kind |-> "cast", what |-> c]}
    <3> DEFINE w == [kind |-> "cast", what |-> c]
    <3>1. w.kind = "cast" /\ w.what = c /\ pending' = pending \cup {w}
      BY <2>2
    <3> HIDE DEF w
    <3> QED
      BY <3>1, RecFacts DEF Waiting, Settled
  <2> QED
    BY <1>5, <2>1, <2>2
<1>9. Settled' \subseteq Settled
  BY <1>6, <1>7, <1>8 DEF Settled
<1> QED
  BY <1>1, <1>2, <1>6, <1>7, <1>8, <1>9, RecFacts, RecKeep

\* A cast is held by the run of now.
LEMMA CastHoldKeeps ==
  ASSUME RecBounds, RecInv, R!CastHold
  PROVE  RecInv'
<1>1. UNCHANGED <<tapes, done, recs, files>>
  BY DEF R!CastHold
<1>2. PICK w \in pending :
        /\ w.kind = "cast" /\ pending' = pending \ {w}
        /\ store' = [store EXCEPT !.held = @ \cup {w.what}]
        /\ told' = [told EXCEPT !.casts = @ \cup {w.what}]
  BY DEF R!CastHold
<1>3. w.what \in 1 .. MaxRecs
  BY <1>2, RecFacts DEF Waiting
<1>4. store' = [run |-> store.run, root |-> store.root, saved |-> store.saved,
                held |-> store.held \cup {w.what},
                rec |-> store.rec, cast |-> store.cast, troubles |-> store.troubles]
  BY <1>2, RecFacts
<1>5. /\ StoreOK(store') /\ store'.rec = store.rec /\ store'.saved = store.saved
      /\ store'.held = store.held \cup {w.what}
  BY <1>3, <1>4, RecFacts DEF StoreOK
<1>6. told' = [scenarios |-> told.scenarios, casts |-> told.casts \cup {w.what}]
  BY <1>2, RecFacts
<1>7. told'.scenarios = told.scenarios /\ told'.casts = told.casts \cup {w.what}
  BY <1>6
<1>8. Shelves(told')
  BY <1>6, <1>7 DEF Shelves
<1>9. Waiting(pending')
  BY <1>2, RecFacts DEF Waiting
<1>10. Settled' \subseteq Settled
  BY <1>1, <1>2, <1>5, <1>7 DEF Settled
<1>11. R!SavedStays' /\ R!CastsKept'
  BY <1>1, <1>5, <1>7, RecFacts DEF R!SavedStays, R!CastsKept
<1> QED
  BY <1>1, <1>5, <1>8, <1>9, <1>10, <1>11, RecFacts, RecKeep DEF Shelves

-----------------------------------------------------------------------------
(* The run.                                                                *)

\* A flush adds files of what is saved, and loses none.
LEMMA FlushGrows ==
  ASSUME RecBounds, RecInv
  PROVE  files.scenarios \subseteq R!FlushedScenarios /\ {f.what : f \in R!FlushedScenarios} \subseteq Settled
<1>1. files.scenarios \subseteq R!FlushedScenarios
  BY DEF R!FlushedScenarios
<1>2. ASSUME NEW f \in R!FlushedScenarios PROVE f.what \in Settled
  <2>1. CASE f \in files.scenarios
    BY <2>1 DEF Settled
  <2>2. CASE \E sc \in store.saved : f = [run |-> store.run, what |-> sc]
    BY <2>2 DEF Settled
  <2> QED
    BY <2>1, <2>2 DEF R!FlushedScenarios
<1> QED
  BY <1>1, <1>2

\* Persist.
LEMMA PersistKeeps ==
  ASSUME RecBounds, RecInv, R!Persist
  PROVE  RecInv'
<1>1. UNCHANGED <<tapes, done, recs, pending, told>>
  BY DEF R!Persist
<1>2. PICK failed \in SUBSET store.held :
        /\ failed # {} => R!CanTrouble
        /\ files' = [scenarios |-> R!FlushedScenarios, casts |-> R!Flushed(failed).casts]
        /\ store' = [store EXCEPT !.root = TRUE, !.held = R!Flushed(failed).held,
                                  !.troubles = IF failed = {} THEN @ ELSE @ + 1]
  BY DEF R!Persist
<1>3. R!Flushed(failed).held = failed /\ R!Flushed(failed).casts = files.casts \cup (store.held \ failed)
  BY DEF R!Flushed
<1>4. PICK n \in 0 .. MaxTroubles : n = IF failed = {} THEN store.troubles ELSE store.troubles + 1
  <2>1. store.troubles \in 0 .. MaxTroubles
    BY RecFacts
  <2>2. failed # {} => store.troubles + 1 \in 0 .. MaxTroubles
    BY <1>2, RecFacts DEF R!CanTrouble
  <2> QED
    BY <2>1, <2>2
<1>5. PICK yes \in BOOLEAN : yes = TRUE
  OBVIOUS
<1>6. store' = [run |-> store.run, root |-> yes, saved |-> store.saved, held |-> failed,
                rec |-> store.rec, cast |-> store.cast, troubles |-> n]
  <2>1. store' = [store EXCEPT !.root = yes, !.held = failed, !.troubles = n]
    <3>1. store' = [store EXCEPT !.root = TRUE, !.held = failed,
                                 !.troubles = IF failed = {} THEN store.troubles ELSE store.troubles + 1]
      BY <1>2, <1>3
    <3> QED
      BY <1>4, <1>5, <3>1
  <2> QED
    BY <2>1, RecFacts
<1>7. StoreOK(store') /\ store'.rec = store.rec /\ store'.saved = store.saved /\ store'.held = failed
  <2>1. failed \subseteq 1 .. MaxRecs
    BY RecFacts
  <2> QED
    BY <1>6, <2>1, RecFacts DEF StoreOK
<1>8. /\ files'.scenarios = R!FlushedScenarios /\ files'.casts = files.casts \cup (store.held \ failed)
      /\ Shelves(files')
  BY <1>2, <1>3 DEF Shelves
<1>9. Settled' \subseteq Settled
  BY <1>1, <1>7, <1>8, FlushGrows DEF Settled
<1>10. R!SavedStays'
  BY <1>1, <1>8, FlushGrows, RecFacts DEF R!SavedStays
<1>11. R!CastsKept'
  BY <1>1, <1>7, <1>8, RecFacts DEF R!CastsKept
<1> QED
  BY <1>1, <1>7, <1>8, <1>9, <1>10, <1>11, RecFacts, RecKeep DEF Shelves

\* A new run: what the old one held is in files, or is told of no more.
LEMMA NewRunKeeps ==
  ASSUME RecBounds, RecInv, R!NewRun
  PROVE  RecInv'
<1>1. /\ store.run < MaxRuns /\ recs' = {} /\ UNCHANGED <<tapes, done, pending>>
      /\ store' = [run |-> store.run + 1, root |-> FALSE, saved |-> {}, held |-> {}, rec |-> store.rec,
                   cast |-> store.cast, troubles |-> store.troubles]
  BY DEF R!NewRun, R!Fresh
<1>2. StoreOK(store') /\ store'.rec = store.rec /\ store'.saved = {} /\ store'.held = {}
  BY <1>1, RecFacts DEF StoreOK
<1>3. /\ Shelves(files') /\ Shelves(told') /\ R!CastsKept' /\ told'.scenarios = told.scenarios
      /\ files.scenarios \subseteq files'.scenarios /\ {f.what : f \in files'.scenarios} \subseteq Settled
  <2>1. CASE store.root
    <3>1. /\ files' = [scenarios |-> R!FlushedScenarios, casts |-> R!Flushed({}).casts] /\ told' = told
      BY <2>1 DEF R!NewRun
    <3>2. R!Flushed({}).casts = files.casts \cup store.held
      BY DEF R!Flushed
    <3>3. files'.scenarios = R!FlushedScenarios /\ files'.casts = files.casts \cup store.held
          /\ Shelves(files')
      BY <3>1, <3>2 DEF Shelves
    <3>4. R!CastsKept'
      BY <3>1, <3>3, RecFacts DEF R!CastsKept
    <3> QED
      BY <3>1, <3>3, <3>4, FlushGrows, RecFacts DEF Shelves
  <2>2. CASE ~store.root
    <3>1. told' = [told EXCEPT !.casts = @ \ store.held] /\ files' = files
      BY <2>2 DEF R!NewRun
    <3>2. told' = [scenarios |-> told.scenarios, casts |-> told.casts \ store.held]
      BY <3>1, RecFacts
    <3>3. told'.scenarios = told.scenarios /\ told'.casts = told.casts \ store.held
      BY <3>2
    <3>4. Shelves(told')
      BY <3>2, <3>3 DEF Shelves
    <3>5. R!CastsKept'
      BY <3>1, <3>3, RecFacts DEF R!CastsKept
    <3> QED
      BY <3>1, <3>3, <3>4, <3>5, RecFacts DEF Shelves, Settled
  <2> QED
    BY <2>1, <2>2
<1>4. Settled' \subseteq Settled
  BY <1>1, <1>2, <1>3 DEF Settled
<1>5. R!SavedStays'
  BY <1>3, RecFacts DEF R!SavedStays
<1> QED
  BY <1>1, <1>2, <1>3, <1>4, <1>5, RecFacts, RecKeep

\* A crash and a resume.
LEMMA CrashKeeps ==
  ASSUME RecBounds, RecInv, R!Crash
  PROVE  RecInv'
<1> DEFINE saved == {f.what : f \in {g \in files.scenarios : g.run = store.run}}
<1>1. /\ R!CanTrouble /\ recs' = {} /\ pending' = {} /\ UNCHANGED <<done, files>>
      /\ store' = [store EXCEPT !.saved = saved, !.held = {}, !.troubles = @ + 1]
      /\ told' = [told EXCEPT !.casts = @ \ store.held]
      /\ tapes' = [s \in Tapes |-> [gen |-> tapes[s].gen + 1, leased |-> FALSE, cast |-> 0]]
  BY DEF R!Crash, R!NoCast
<1>2. saved \subseteq {f.what : f \in files.scenarios}
  OBVIOUS
<1> HIDE DEF saved
<1>3. PICK n \in Nat : n = store.troubles + 1
  BY RecFacts
<1>4. n \in 0 .. MaxTroubles
  BY <1>1, <1>3, RecFacts DEF R!CanTrouble
<1>5. store' = [run |-> store.run, root |-> store.root, saved |-> saved, held |-> {},
                rec |-> store.rec, cast |-> store.cast, troubles |-> n]
  BY <1>1, <1>3, RecFacts
<1>6. StoreOK(store') /\ store'.rec = store.rec /\ store'.saved = saved /\ store'.held = {}
  BY <1>4, <1>5, RecFacts DEF StoreOK
<1>7. told' = [scenarios |-> told.scenarios, casts |-> told.casts \ store.held]
  BY <1>1, RecFacts
<1>8. told'.scenarios = told.scenarios /\ told'.casts = told.casts \ store.held
  BY <1>7
<1>9. Shelves(told')
  BY <1>7, <1>8 DEF Shelves
<1>10. tapes' \in [Tapes -> Tape]
  <2>1. ASSUME NEW s \in Tapes PROVE [gen |-> tapes[s].gen + 1, leased |-> FALSE, cast |-> 0] \in Tape
    <3>1. PICK g \in Nat \ {0} : g = tapes[s].gen + 1
      BY RecFacts DEF Tape
    <3>2. [gen |-> g, leased |-> FALSE, cast |-> 0] \in Tape
      BY RecFacts DEF Tape
    <3> QED
      BY <3>1, <3>2
  <2> QED
    BY <1>1, <2>1
<1>11. Settled' \subseteq Settled
  BY <1>1, <1>2, <1>6, <1>8 DEF Settled
<1>12. R!SavedStays' /\ R!CastsKept'
  BY <1>1, <1>6, <1>8, RecFacts DEF R!SavedStays, R!CastsKept
<1>13. Waiting(pending') /\ recs' \subseteq recs
  BY <1>1 DEF Waiting
<1> QED
  BY <1>1, <1>6, <1>9, <1>10, <1>11, <1>12, <1>13, RecFacts, RecKeep DEF Shelves

-----------------------------------------------------------------------------

\* Every step keeps the invariant.
LEMMA RecNext ==
  ASSUME RecBounds, RecInv, [R!Next]_recordVars
  PROVE  RecInv'
<1>1. CASE \E s \in Tapes : R!Act(s) \/ R!Look(s)
  BY <1>1, CalledKeeps DEF R!Act, R!Look
<1>2. CASE \E s \in Tapes : R!Restart(s) \/ R!Lease(s)
  BY <1>2, SessionKeeps
<1>3. CASE \E s \in Tapes : R!RecordStart(s)
  BY <1>3, StartKeeps
<1>4. CASE \E s \in Tapes : R!Asset(s)
  BY <1>4, AssetKeeps
<1>5. CASE \E s \in Tapes : R!CastStart(s) \/ R!CastStop(s)
  BY <1>5, CastStartKeeps, CastStopKeeps
<1>6. CASE UNCHANGED recordVars
  BY <1>6 DEF recordVars, RecInv, Settled, R!SavedStays, R!CastsKept
<1> QED
  BY <1>1, <1>2, <1>3, <1>4, <1>5, <1>6, StopKeeps, StopFileKeeps, ReproductionKeeps, SaveAssetKeeps,
     CastHoldKeeps, PersistKeeps, NewRunKeeps, CrashKeeps DEF R!Next

\* The properties.
LEMMA RecSafe ==
  ASSUME RecBounds, RecInv
  PROVE  R!TypeOK /\ R!OwnTraffic /\ R!SavedStays /\ R!CastsKept
<1>1. store.rec <= MaxRecs /\ \A i \in 1 .. store.rec : i \in 1 .. MaxRecs
  BY RecFacts
<1>2. \A r \in recs \cup store.saved : r.id \in 1 .. MaxRecs /\ r.name \in Names
  BY <1>1, RecFacts DEF Going, Finished, Settled
<1>3. R!TypeOK
  BY <1>2, RecFacts DEF R!TypeOK, Tape
<1>4. ASSUME NEW r \in recs \cup {sc \in store.saved : sc.gen # 0} PROVE Own(r, done)
  BY RecFacts DEF Going, Finished, Settled
<1>5. R!OwnTraffic
  BY <1>4 DEF R!OwnTraffic, Own
<1> QED
  BY <1>3, <1>5, RecFacts

-----------------------------------------------------------------------------
(* Graphs: what a run counts, and what a safe walk may press.               *)

\* The focus is on a control or nowhere, and every action that may be sent or
\* suggested has its place in the order.
GraphBounds ==
  /\ \A s \in States : s.focus \in Elements \cup {G!None}
  /\ Order \in Seq(G!Actions)
  /\ \A c \in Elements : G!Click(c) \in G!Actions
  /\ \A k \in G!DefaultKeys \cup G!Pool \cup Declared \cup Typed : G!Key(k) \in G!Actions
  /\ \A s \in States : \A h \in Hints[s.content] : G!Key(h) \in G!Actions

-----------------------------------------------------------------------------
(* The inductive invariant.                                                *)

\* Bags of edges between members of N, by an action as it is signed.
Signed == {G!Signature(a) : a \in G!Actions}
IsGraph(bag, N) == G!IsABag(bag) /\ G!BagToSet(bag) \subseteq N \X N \X Signed

GraphShapes ==
  /\ state \in States
  /\ maps = [edges |-> maps.edges, moves |-> maps.moves]
  /\ filed = [states |-> filed.states, moves |-> filed.moves]
  /\ filed.states = [form |-> filed.states.form, edges |-> filed.states.edges]
  /\ walk = [mode |-> walk.mode, allowed |-> walk.allowed, edges |-> walk.edges,
             moves |-> walk.moves, history |-> walk.history, last |-> walk.last]
  /\ walk.mode \in {G!None, "random", "semantic"}
  /\ facts = [edges |-> facts.edges, moves |-> facts.moves, acts |-> facts.acts,
              crashes |-> facts.crashes]
  /\ \A g \in {maps.edges, walk.edges, filed.states.edges, facts.edges} : IsGraph(g, States)
  /\ \A g \in {maps.moves, walk.moves, filed.moves} : IsGraph(g, Elements)

\* What the run counts and what the walk will add was really gone.
CountInv ==
  \A e \in States \X States \X Signed :
    /\ G!Count(e, maps.edges) + G!Count(e, walk.edges) <= G!Count(e, facts.edges)
    /\ G!Count(e, filed.states.edges) <= G!Count(e, facts.edges)

\* A safe walk has pressed no key of the contract: so each of them is offered
\* by the contract still, with its risk.
FenceInv ==
  (walk.mode = "semantic" /\ walk.allowed = "safe") => walk.history \cap Declared = {}

GraphInv == GraphShapes /\ CountInv /\ FenceInv /\ G!FenceHolds

-----------------------------------------------------------------------------
(* Bags.                                                                   *)

\* The empty bag.
LEMMA NoEdges ==
  /\ \A N : IsGraph(G!EmptyBag, N)
  /\ \A e : G!Count(e, G!EmptyBag) = 0
  BY DEF IsGraph, G!IsABag, G!EmptyBag, G!SetToBag, G!BagToSet, G!Count, G!BagIn

\* A bag of one edge.
LEMMA OneEdge ==
  ASSUME NEW N, NEW x \in N, NEW y \in N, NEW a \in G!Actions
  PROVE  IsGraph(G!SetToBag({<<x, y, G!Signature(a)>>}), N)
<1>1. G!Signature(a) \in Signed
  BY DEF Signed
<1> QED
  BY <1>1 DEF IsGraph, G!IsABag, G!SetToBag, G!BagToSet

\* Counts of a bag are naturals.
LEMMA CountsNat ==
  ASSUME NEW bag, NEW N, IsGraph(bag, N), NEW e
  PROVE  G!Count(e, bag) \in Nat
  BY DEF IsGraph, G!IsABag, G!Count, G!BagIn, G!BagToSet

\* A union of bags adds the counts.
LEMMA MergeAdds ==
  ASSUME NEW a, NEW b, NEW N, IsGraph(a, N), IsGraph(b, N)
  PROVE  /\ IsGraph(G!Merge(a, b), N)
         /\ \A e : G!Count(e, G!Merge(a, b)) = G!Count(e, a) + G!Count(e, b)
<1>1. /\ DOMAIN G!Merge(a, b) = DOMAIN a \cup DOMAIN b
      /\ \A e \in DOMAIN G!Merge(a, b) : G!Merge(a, b)[e] = G!Count(e, a) + G!Count(e, b)
      /\ G!Merge(a, b) = [e \in DOMAIN G!Merge(a, b) |-> G!Merge(a, b)[e]]
  BY DEF G!Merge, G!(+), G!Count, G!BagIn, G!BagToSet
<1>2. \A e : /\ G!Count(e, a) \in Nat /\ G!Count(e, b) \in Nat
             /\ e \in DOMAIN a => G!Count(e, a) > 0
             /\ e \in DOMAIN b => G!Count(e, b) > 0
             /\ e \notin DOMAIN a => G!Count(e, a) = 0
             /\ e \notin DOMAIN b => G!Count(e, b) = 0
  BY DEF IsGraph, G!IsABag, G!Count, G!BagIn, G!BagToSet
<1>3. G!IsABag(G!Merge(a, b))
  BY <1>1, <1>2 DEF G!IsABag
<1>4. DOMAIN G!Merge(a, b) \subseteq N \X N \X Signed
  BY <1>1 DEF IsGraph, G!BagToSet
<1>5. \A e : G!Count(e, G!Merge(a, b)) = G!Count(e, a) + G!Count(e, b)
  BY <1>1, <1>2 DEF G!Count, G!BagIn, G!BagToSet
<1> QED
  BY <1>3, <1>4, <1>5 DEF IsGraph, G!BagToSet

\* A move of the focus is between controls.
LEMMA MoveIsGraph ==
  ASSUME GraphBounds, NEW s \in States, NEW t \in States, NEW a \in G!Actions
  PROVE  IsGraph(G!Move(s, t, G!Signature(a)), Elements)
<1>1. CASE s.focus = G!None \/ t.focus = G!None \/ s.focus = t.focus
  BY <1>1, NoEdges DEF G!Move
<1>2. CASE ~(s.focus = G!None \/ t.focus = G!None \/ s.focus = t.focus)
  BY <1>2, OneEdge DEF G!Move, GraphBounds
<1> QED
  BY <1>1, <1>2

-----------------------------------------------------------------------------
(* Suggestions.                                                            *)

\* Every candidate has an action and a risk of the three.
LEMMA EvidenceTyped ==
  ASSUME GraphBounds, NEW s \in States, NEW known, NEW history, NEW coverage,
         NEW c \in G!Evidence(s, known, history, coverage)
  PROVE  c.action \in G!Actions /\ c.risk \in DOMAIN G!Risks
  BY DEF G!Evidence, G!Candidate, GraphBounds, G!ClassifyKey, G!Risks

\* The three risks are naturals.
LEMMA RisksNat == \A r \in DOMAIN G!Risks : G!Risks[r] \in Nat
  BY DEF G!Risks

\* Of the candidates of one action there is one with the highest risk.
LEMMA HighestRisk ==
  ASSUME NEW cs, \A c \in cs : c.risk \in DOMAIN G!Risks, NEW c \in cs
  PROVE  \E d \in cs : /\ d.action = c.action
                       /\ \A e \in cs : e.action = c.action => G!Risks[e.risk] <= G!Risks[d.risk]
<1>1. CASE \E d \in cs : d.action = c.action /\ d.risk = "unknown"
  BY <1>1 DEF G!Risks
<1>2. CASE /\ ~\E d \in cs : d.action = c.action /\ d.risk = "unknown"
           /\ \E d \in cs : d.action = c.action /\ d.risk = "mutating"
  BY <1>2 DEF G!Risks
<1>3. CASE /\ ~\E d \in cs : d.action = c.action /\ d.risk = "unknown"
           /\ ~\E d \in cs : d.action = c.action /\ d.risk = "mutating"
  BY <1>3 DEF G!Risks
<1> QED
  BY <1>1, <1>2, <1>3

\* A merged candidate has an action of its sources, and no source of a higher
\* risk.
LEMMA DedupKeeps ==
  ASSUME NEW cs, \A c \in cs : c.risk \in DOMAIN G!Risks, NEW m \in G!Dedup(cs)
  PROVE  /\ \E c \in cs : c.action = m.action
         /\ m.risk \in DOMAIN G!Risks
         /\ \A e \in cs : e.action = m.action => G!Risks[e.risk] <= G!Risks[m.risk]
<1>1. PICK c \in cs :
        m = [action |-> c.action, sources |-> {d.source : d \in {e \in cs : e.action = c.action}},
             risk |-> (CHOOSE d \in cs : /\ d.action = c.action
                                         /\ \A e \in cs : e.action = c.action =>
                                              G!Risks[e.risk] <= G!Risks[d.risk]).risk]
  BY DEF G!Dedup
<1> DEFINE top == CHOOSE d \in cs : /\ d.action = c.action
                                    /\ \A e \in cs : e.action = c.action =>
                                         G!Risks[e.risk] <= G!Risks[d.risk]
<1>2. /\ top \in cs /\ top.action = c.action
      /\ \A e \in cs : e.action = c.action => G!Risks[e.risk] <= G!Risks[top.risk]
  BY HighestRisk
<1>3. m.action = c.action /\ m.risk = top.risk
  BY <1>1
<1> HIDE DEF top
<1> QED
  BY <1>2, <1>3

\* There is a first one in the order of the list.
LEMMA FirstExists ==
  ASSUME GraphBounds, NEW cs, cs # {},
         \A c \in cs : c.action \in G!Actions /\ c.risk \in DOMAIN G!Risks
  PROVE  G!First(cs) \in cs
<1>1. \A c \in cs : G!At(c.action) \in Nat /\ G!Risks[c.risk] \in Nat
  <2>1. \A c \in cs : G!At(c.action) \in DOMAIN Order
    BY DEF G!At, G!Actions
  <2>2. DOMAIN Order \subseteq Nat
    BY DEF GraphBounds
  <2> QED
    BY <2>1, <2>2, RisksNat
<1> DEFINE levels == {G!Risks[c.risk] : c \in cs}
<1>2. levels \in SUBSET Nat /\ levels # {}
  BY <1>1
<1>3. PICK low \in levels : \A l \in levels : low <= l
  BY <1>2, LeastNat
<1> DEFINE lowest == {c \in cs : G!Risks[c.risk] = low}
           places == {G!At(c.action) : c \in lowest}
<1>4. places \in SUBSET Nat /\ places # {}
  BY <1>1, <1>3
<1>5. PICK p \in places : \A q \in places : p <= q
  BY <1>4, LeastNat
<1>6. PICK c \in lowest : G!At(c.action) = p
  BY <1>5
<1>7. \A d \in cs : G!Before(c, d)
  <2> SUFFICES ASSUME NEW d \in cs PROVE G!Before(c, d)
    OBVIOUS
  <2>1. low <= G!Risks[d.risk] /\ low \in Nat /\ G!Risks[d.risk] \in Nat /\ G!Risks[c.risk] = low
    BY <1>1, <1>2, <1>3, <1>6
  <2>2. G!Risks[d.risk] = low => G!At(c.action) <= G!At(d.action)
    BY <1>5, <1>6
  <2> HIDE DEF levels, lowest, places
  <2> QED
    BY <2>1, <2>2 DEF G!Before
<1>8. c \in cs
  BY <1>6
<1> QED
  BY <1>7, <1>8 DEF G!First

\* What a safe walk may press is a key that has no meaning here.
LEMMA SafeIsFenced ==
  ASSUME GraphBounds, NEW s \in States, NEW known, NEW history, NEW coverage,
         history \cap Declared = {},
         NEW c \in G!Suggest(s, known, history, coverage, "safe")
  PROVE  \E k : /\ c.action = G!Key(k) /\ k \in {"tab", "shift+tab", "down", "up"}
                /\ k \notin Declared \cup Hints[s.content]
<1> DEFINE cs == G!Evidence(s, known, history, coverage)
<1>1. c \in G!Dedup(cs) /\ G!Risks[c.risk] <= G!Risks["safe"]
  BY DEF G!Suggest
<1>2. \A d \in cs : d.risk \in DOMAIN G!Risks
  BY EvidenceTyped
<1>3. /\ \E d \in cs : d.action = c.action
      /\ c.risk \in DOMAIN G!Risks
      /\ \A e \in cs : e.action = c.action => G!Risks[e.risk] <= G!Risks[c.risk]
  BY <1>1, <1>2, DedupKeeps
<1>4. \A e \in cs : e.action = c.action => e.risk = "safe"
  BY <1>1, <1>2, <1>3 DEF G!Risks
<1>5. PICK d \in cs : d.action = c.action /\ d.risk = "safe"
  BY <1>3, <1>4
<1>6. PICK k \in G!DefaultKeys :
        ~G!Taken(known, s, G!Key(k)) /\ d = G!Candidate(G!Key(k), "graph", G!ClassifyKey(k, k \in Declared))
  BY <1>5 DEF G!Evidence, G!Candidate
<1>7. c.action = G!Key(k) /\ G!ClassifyKey(k, k \in Declared) = "safe"
  BY <1>5, <1>6 DEF G!Candidate
<1>8. k \in {"tab", "shift+tab", "down", "up"}
  BY <1>6, <1>7 DEF G!ClassifyKey, G!DefaultKeys
<1>9. k \notin Hints[s.content]
  <2> SUFFICES ASSUME k \in Hints[s.content] PROVE FALSE
    OBVIOUS
  <2>1. G!Candidate(G!Key(k), "affordance", "mutating") \in cs
    BY <1>6 DEF G!Evidence
  <2> QED
    BY <1>4, <1>7, <2>1 DEF G!Candidate
<1>10. k \notin Declared
  <2> SUFFICES ASSUME k \in Declared PROVE FALSE
    OBVIOUS
  <2>1. G!Candidate(G!Key(k), "contract", "mutating") \in cs
    BY <1>6 DEF G!Evidence
  <2> QED
    BY <1>4, <1>7, <2>1 DEF G!Candidate
<1> QED
  BY <1>7, <1>8, <1>9, <1>10

-----------------------------------------------------------------------------
(* The steps.                                                              *)

\* At the start nothing was done and nothing is known.
LEMMA GraphInitial ==
  ASSUME G!Init
  PROVE  GraphInv
<1>1. GraphShapes
  BY NoEdges DEF G!Init, G!NoWalk, GraphShapes
<1>2. CountInv
  BY NoEdges DEF G!Init, G!NoWalk, CountInv
<1> QED
  BY <1>1, <1>2 DEF G!Init, G!NoWalk, GraphInv, FenceInv, G!FenceHolds, G!None

\* What is sent is an edge of the facts, and a move of the run.
LEMMA SendAdds ==
  ASSUME GraphBounds, GraphShapes, NEW action \in G!Actions, NEW after \in States,
         G!Send(action, after)
  PROVE  /\ state' \in States
         /\ IsGraph(G!SetToBag({<<state, after, G!Signature(action)>>}), States)
         /\ IsGraph(G!Move(state, after, G!Signature(action)), Elements)
         /\ facts'.edges = G!Merge(facts.edges, G!SetToBag({<<state, after, G!Signature(action)>>}))
         /\ maps'.edges = maps.edges
         /\ facts' = [edges |-> facts'.edges, moves |-> facts'.moves, acts |-> facts'.acts,
                      crashes |-> facts'.crashes]
         /\ maps' = [edges |-> maps'.edges, moves |-> maps'.moves]
         /\ IsGraph(facts'.edges, States)
         /\ IsGraph(maps'.moves, Elements)
<1> DEFINE one == G!SetToBag({<<state, after, G!Signature(action)>>})
           move == G!Move(state, after, G!Signature(action))
<1>1. /\ state' = after
      /\ maps' = [maps EXCEPT !.moves = G!Merge(@, move)]
      /\ facts' = [facts EXCEPT !.edges = G!Merge(@, one), !.moves = G!Merge(@, move), !.acts = @ + 1]
  BY DEF G!Send, G!Merge
<1>2. IsGraph(one, States) /\ IsGraph(move, Elements)
  BY OneEdge, MoveIsGraph DEF GraphShapes
<1> HIDE DEF one, move
<1>3. maps' = [edges |-> maps.edges, moves |-> G!Merge(maps.moves, move)]
  BY <1>1 DEF GraphShapes
<1>4. facts' = [edges |-> G!Merge(facts.edges, one), moves |-> G!Merge(facts.moves, move),
                acts |-> facts.acts + 1, crashes |-> facts.crashes]
  BY <1>1 DEF GraphShapes
<1>5. IsGraph(facts'.edges, States)
  BY <1>2, <1>4, MergeAdds DEF GraphShapes
<1>6. IsGraph(maps'.moves, Elements)
  BY <1>2, <1>3, MergeAdds DEF GraphShapes
<1> QED
  BY <1>1, <1>2, <1>3, <1>4, <1>5, <1>6 DEF one, move

\* One more copy of an edge on both sides leaves the counts in order.
LEMMA CountsGrow ==
  ASSUME GraphShapes, CountInv, NEW one, IsGraph(one, States),
         maps'.edges = maps.edges, filed' = filed,
         facts'.edges = G!Merge(facts.edges, one),
         walk'.edges \in {walk.edges, G!Merge(walk.edges, one)}
  PROVE  CountInv'
<1> SUFFICES ASSUME NEW e \in States \X States \X Signed
             PROVE  /\ G!Count(e, maps.edges) + G!Count(e, walk'.edges) <= G!Count(e, facts'.edges)
                    /\ G!Count(e, filed.states.edges) <= G!Count(e, facts'.edges)
  BY DEF CountInv
<1>1. /\ G!Count(e, maps.edges) \in Nat /\ G!Count(e, walk.edges) \in Nat
      /\ G!Count(e, facts.edges) \in Nat /\ G!Count(e, filed.states.edges) \in Nat
      /\ G!Count(e, one) \in Nat
  BY CountsNat DEF GraphShapes
<1>2. G!Count(e, facts'.edges) = G!Count(e, facts.edges) + G!Count(e, one)
  <2>1. IsGraph(facts.edges, States)
    BY DEF GraphShapes
  <2> QED
    BY <2>1, MergeAdds, ZenonT(30)
<1>3. \/ G!Count(e, walk'.edges) = G!Count(e, walk.edges)
      \/ G!Count(e, walk'.edges) = G!Count(e, walk.edges) + G!Count(e, one)
  <2>1. IsGraph(walk.edges, States)
    BY DEF GraphShapes
  <2>2. G!Count(e, G!Merge(walk.edges, one)) = G!Count(e, walk.edges) + G!Count(e, one)
    BY <2>1, MergeAdds
  <2> QED
    BY <2>2
<1>4. /\ G!Count(e, maps.edges) + G!Count(e, walk.edges) <= G!Count(e, facts.edges)
      /\ G!Count(e, filed.states.edges) <= G!Count(e, facts.edges)
  BY DEF CountInv
<1> QED
  BY <1>1, <1>2, <1>3, <1>4

\* The agent acts.
LEMMA GraphAct ==
  ASSUME GraphBounds, GraphInv, G!Act
  PROVE  GraphInv'
<1>1. PICK k \in Typed, after \in States : G!Send(G!Key(k), after)
  BY DEF G!Act
<1>2. walk.mode = G!None /\ walk' = walk /\ filed' = filed
  BY DEF G!Act
<1> DEFINE one == G!SetToBag({<<state, after, G!Signature(G!Key(k))>>})
<1>3. G!Key(k) \in G!Actions
  BY DEF GraphBounds
<1>4. /\ state' \in States /\ IsGraph(one, States)
      /\ facts'.edges = G!Merge(facts.edges, one) /\ maps'.edges = maps.edges
      /\ facts' = [edges |-> facts'.edges, moves |-> facts'.moves, acts |-> facts'.acts,
                   crashes |-> facts'.crashes]
      /\ maps' = [edges |-> maps'.edges, moves |-> maps'.moves]
      /\ IsGraph(facts'.edges, States) /\ IsGraph(maps'.moves, Elements)
  BY <1>1, <1>3, SendAdds DEF GraphInv
<1> HIDE DEF one
<1>5. GraphShapes'
  BY <1>2, <1>4 DEF GraphInv, GraphShapes
<1>6. CountInv'
  BY <1>2, <1>4, CountsGrow DEF GraphInv
<1>7. FenceInv' /\ G!FenceHolds'
  BY <1>2 DEF FenceInv, G!FenceHolds, G!None
<1> QED
  BY <1>5, <1>6, <1>7 DEF GraphInv

\* A walk takes a step.
LEMMA GraphWalked ==
  ASSUME GraphBounds, GraphInv, NEW action \in G!Actions, NEW after \in States,
         G!Walked(action, after), walk.mode # G!None
  PROVE  /\ GraphShapes' /\ CountInv'
         /\ walk'.mode = walk.mode /\ walk'.allowed = walk.allowed
         /\ walk'.history = walk.history \cup {G!Signature(action)[2]}
         /\ walk'.last = <<state, action>>
<1> DEFINE one == G!SetToBag({<<state, after, G!Signature(action)>>})
           move == G!Move(state, after, G!Signature(action))
<1>1. /\ G!Send(action, after)
      /\ walk' = [walk EXCEPT !.edges = G!Merge(@, one),
                              !.moves = IF walk.mode = "semantic" THEN G!Merge(@, move) ELSE @,
                              !.history = @ \cup {G!Signature(action)[2]},
                              !.last = <<state, action>>]
      /\ filed' = filed
  BY DEF G!Walked, G!Merge
<1>2. /\ state' \in States /\ IsGraph(one, States) /\ IsGraph(move, Elements)
      /\ facts'.edges = G!Merge(facts.edges, one) /\ maps'.edges = maps.edges
      /\ facts' = [edges |-> facts'.edges, moves |-> facts'.moves, acts |-> facts'.acts,
                   crashes |-> facts'.crashes]
      /\ maps' = [edges |-> maps'.edges, moves |-> maps'.moves]
      /\ IsGraph(facts'.edges, States) /\ IsGraph(maps'.moves, Elements)
  BY <1>1, SendAdds DEF GraphInv
<1> HIDE DEF one, move
<1>3. walk' = [mode |-> walk.mode, allowed |-> walk.allowed, edges |-> G!Merge(walk.edges, one),
               moves |-> IF walk.mode = "semantic" THEN G!Merge(walk.moves, move) ELSE walk.moves,
               history |-> walk.history \cup {G!Signature(action)[2]}, last |-> <<state, action>>]
  BY <1>1 DEF GraphInv, GraphShapes
<1>4. IsGraph(walk'.edges, States)
  BY <1>2, <1>3, MergeAdds DEF GraphInv, GraphShapes
<1>5. IsGraph(walk'.moves, Elements)
  <2>1. IsGraph(G!Merge(walk.moves, move), Elements)
    BY <1>2, MergeAdds DEF GraphInv, GraphShapes
  <2> QED
    BY <1>3, <2>1 DEF GraphInv, GraphShapes
<1>6. GraphShapes'
  <2>1. walk' = [mode |-> walk'.mode, allowed |-> walk'.allowed, edges |-> walk'.edges,
                 moves |-> walk'.moves, history |-> walk'.history, last |-> walk'.last]
    BY <1>3
  <2>2. walk'.mode = walk.mode
    BY <1>3
  <2> QED
    BY <1>1, <1>2, <1>4, <1>5, <2>1, <2>2 DEF GraphInv, GraphShapes
<1>7. CountInv'
  BY <1>1, <1>2, <1>3, CountsGrow DEF GraphInv
<1> QED
  BY <1>3, <1>6, <1>7

\* The random explorer presses a key of its pool.
LEMMA GraphRandomStep ==
  ASSUME GraphBounds, GraphInv, G!RandomStep
  PROVE  GraphInv'
<1>1. PICK k \in G!Pool, after \in States : G!Walked(G!Key(k), after)
  BY SMTT(30) DEF G!RandomStep
<1>2. walk.mode = "random" /\ G!Key(k) \in G!Actions
  BY DEF G!RandomStep, GraphBounds
<1>3. GraphShapes' /\ CountInv' /\ walk'.mode = "random"
  BY <1>1, <1>2, GraphWalked DEF G!None
<1> QED
  BY <1>3 DEF GraphInv, FenceInv, G!FenceHolds

\* The semantic explorer takes the first of its choices.
LEMMA GraphSemanticStep ==
  ASSUME GraphBounds, GraphInv, G!SemanticStep
  PROVE  GraphInv'
<1>1. PICK after \in States : G!Walked(G!First(G!Choices).action, after)
  BY DEF G!SemanticStep
<1>2. walk.mode = "semantic" /\ G!Choices # {} /\ state \in States
  BY DEF G!SemanticStep, GraphInv, GraphShapes
<1>3. \A c \in G!Choices : c.action \in G!Actions /\ c.risk \in DOMAIN G!Risks
  <2> SUFFICES ASSUME NEW c \in G!Choices PROVE c.action \in G!Actions /\ c.risk \in DOMAIN G!Risks
    OBVIOUS
  <2> DEFINE cs == G!Evidence(state, walk.edges, walk.history, G!Nodes(walk.moves))
  <2>1. c \in G!Dedup(cs)
    BY DEF G!Choices, G!Suggest
  <2>2. \A d \in cs : d.action \in G!Actions /\ d.risk \in DOMAIN G!Risks
    BY <1>2, EvidenceTyped
  <2> HIDE DEF cs
  <2> QED
    BY <2>1, <2>2, DedupKeeps
<1>4. G!First(G!Choices) \in G!Choices
  BY <1>2, <1>3, FirstExists
<1> DEFINE action == G!First(G!Choices).action
<1>5. action \in G!Actions
  BY <1>3, <1>4
<1>6. /\ GraphShapes' /\ CountInv'
      /\ walk'.mode = "semantic" /\ walk'.allowed = walk.allowed
      /\ walk'.history = walk.history \cup {G!Signature(action)[2]}
      /\ walk'.last = <<state, action>>
  BY <1>1, <1>2, <1>5, GraphWalked DEF G!None
<1>7. ASSUME walk.allowed = "safe"
      PROVE  \E k : /\ action = G!Key(k) /\ k \in {"tab", "shift+tab", "down", "up"}
                    /\ k \notin Declared \cup Hints[state.content]
  <2>1. walk.history \cap Declared = {}
    BY <1>2, <1>7 DEF GraphInv, FenceInv
  <2>2. G!First(G!Choices) \in G!Suggest(state, walk.edges, walk.history, G!Nodes(walk.moves), "safe")
    BY <1>4, <1>7 DEF G!Choices
  <2> QED
    BY <1>2, <2>1, <2>2, SafeIsFenced
<1> HIDE DEF action
<1>8. FenceInv'
  <2> SUFFICES ASSUME walk'.allowed = "safe" PROVE walk'.history \cap Declared = {}
    BY DEF FenceInv
  <2>1. walk.history \cap Declared = {}
    BY <1>2, <1>6 DEF GraphInv, FenceInv
  <2>2. PICK k : action = G!Key(k) /\ k \in {"tab", "shift+tab", "down", "up"} /\ k \notin Declared
    BY <1>6, <1>7
  <2>3. G!Signature(action)[2] = k
    BY <2>2 DEF G!Signature, G!Spellings, G!Key
  <2> QED
    BY <1>6, <2>1, <2>2, <2>3
<1>9. G!FenceHolds'
  <2> SUFFICES ASSUME walk'.allowed = "safe"
               PROVE  /\ action[1] = "key" /\ action[2] \notin {"enter", "escape"}
                      /\ action[2] \notin Declared \cup Hints[state.content]
    BY <1>6 DEF G!FenceHolds
  <2>1. PICK k : /\ action = G!Key(k) /\ k \in {"tab", "shift+tab", "down", "up"}
                 /\ k \notin Declared \cup Hints[state.content]
    BY <1>6, <1>7
  <2> QED
    BY <2>1 DEF G!Key
<1> QED
  BY <1>6, <1>8, <1>9 DEF GraphInv

\* A walk begins, or ends with nothing kept.
LEMMA GraphBetween ==
  ASSUME GraphInv, G!Explore \/ G!Fail
  PROVE  GraphInv'
<1>1. UNCHANGED <<state, maps, filed, facts>>
  BY DEF G!Explore, G!Fail
<1>2. PICK mode \in {G!None, "random", "semantic"}, allowed \in {"safe", "mutating"} :
        walk' = [mode |-> mode, allowed |-> allowed, edges |-> G!EmptyBag, moves |-> G!EmptyBag,
                 history |-> {}, last |-> <<>>]
  <2>1. CASE G!Explore
    <3>1. PICK mode \in {"random", "semantic"}, allowed \in {"safe", "mutating"} :
            walk' = [G!NoWalk EXCEPT !.mode = mode, !.allowed = allowed]
      BY <2>1 DEF G!Explore
    <3> QED
      BY <3>1 DEF G!NoWalk
  <2>2. CASE G!Fail
    BY <2>2 DEF G!Fail, G!NoWalk
  <2> QED
    BY <2>1, <2>2
<1>3. GraphShapes'
  BY <1>1, <1>2, NoEdges DEF GraphInv, GraphShapes
<1>4. CountInv'
  <2> SUFFICES ASSUME NEW e \in States \X States \X Signed
               PROVE  /\ G!Count(e, maps.edges) + G!Count(e, G!EmptyBag) <= G!Count(e, facts.edges)
                      /\ G!Count(e, filed.states.edges) <= G!Count(e, facts.edges)
    BY <1>1, <1>2 DEF CountInv
  <2>1. /\ G!Count(e, maps.edges) \in Nat /\ G!Count(e, walk.edges) \in Nat
        /\ G!Count(e, facts.edges) \in Nat
    BY CountsNat DEF GraphInv, GraphShapes
  <2> QED
    BY <2>1, NoEdges DEF GraphInv, CountInv
<1> QED
  BY <1>2, <1>3, <1>4 DEF GraphInv, FenceInv, G!FenceHolds

\* The random walk adds its steps and writes a document without them.
LEMMA GraphFinishRandom ==
  ASSUME GraphInv, G!FinishRandom
  PROVE  GraphInv'
<1>1. /\ walk' = G!NoWalk
      /\ maps' = [edges |-> G!Merge(maps.edges, walk.edges), moves |-> maps.moves]
      /\ filed' = [states |-> [form |-> "bare", edges |-> G!EmptyBag], moves |-> filed.moves]
      /\ state' = state /\ facts' = facts
  BY DEF G!FinishRandom, G!Merge, G!Bare, GraphInv, GraphShapes
<1>2. GraphShapes'
  <2>1. IsGraph(maps'.edges, States)
    BY <1>1, MergeAdds DEF GraphInv, GraphShapes
  <2> QED
    BY <1>1, <2>1, NoEdges DEF GraphInv, GraphShapes, G!NoWalk
<1>3. CountInv'
  <2> SUFFICES ASSUME NEW e \in States \X States \X Signed
               PROVE  /\ G!Count(e, maps'.edges) + G!Count(e, G!EmptyBag) <= G!Count(e, facts.edges)
                      /\ G!Count(e, G!EmptyBag) <= G!Count(e, facts.edges)
    BY <1>1 DEF CountInv, G!NoWalk
  <2>1. /\ G!Count(e, maps.edges) \in Nat /\ G!Count(e, walk.edges) \in Nat
        /\ G!Count(e, facts.edges) \in Nat
    BY CountsNat DEF GraphInv, GraphShapes
  <2>2. G!Count(e, maps'.edges) = G!Count(e, maps.edges) + G!Count(e, walk.edges)
    BY <1>1, MergeAdds DEF GraphInv, GraphShapes
  <2> QED
    BY <2>1, <2>2, NoEdges DEF GraphInv, CountInv
<1> QED
  BY <1>1, <1>2, <1>3 DEF GraphInv, FenceInv, G!FenceHolds, G!NoWalk, G!None

\* The semantic walk merges its graphs into those of the run.
LEMMA GraphFinishSemantic ==
  ASSUME GraphInv, G!FinishSemantic
  PROVE  GraphInv'
<1>1. /\ walk' = G!NoWalk
      /\ maps' = [edges |-> G!Merge(maps.edges, walk.edges), moves |-> G!Merge(maps.moves, walk.moves)]
      /\ UNCHANGED <<state, filed, facts>>
  BY DEF G!FinishSemantic
<1>2. GraphShapes'
  <2>1. IsGraph(maps'.edges, States) /\ IsGraph(maps'.moves, Elements)
    BY <1>1, MergeAdds DEF GraphInv, GraphShapes
  <2> QED
    BY <1>1, <2>1, NoEdges DEF GraphInv, GraphShapes, G!NoWalk
<1>3. CountInv'
  <2> SUFFICES ASSUME NEW e \in States \X States \X Signed
               PROVE  /\ G!Count(e, maps'.edges) + G!Count(e, G!EmptyBag) <= G!Count(e, facts.edges)
                      /\ G!Count(e, filed.states.edges) <= G!Count(e, facts.edges)
    BY <1>1 DEF CountInv, G!NoWalk
  <2>1. /\ G!Count(e, maps.edges) \in Nat /\ G!Count(e, walk.edges) \in Nat
        /\ G!Count(e, facts.edges) \in Nat
    BY CountsNat DEF GraphInv, GraphShapes
  <2>2. G!Count(e, maps'.edges) = G!Count(e, maps.edges) + G!Count(e, walk.edges)
    BY <1>1, MergeAdds DEF GraphInv, GraphShapes
  <2> QED
    BY <2>1, <2>2, NoEdges DEF GraphInv, CountInv
<1> QED
  BY <1>1, <1>2, <1>3 DEF GraphInv, FenceInv, G!FenceHolds, G!NoWalk, G!None

\* A persist writes what the run counts.
LEMMA GraphPersist ==
  ASSUME GraphInv, G!Persist
  PROVE  GraphInv'
<1>1. /\ filed' = [states |-> [form |-> "export", edges |-> maps.edges], moves |-> maps.moves]
      /\ UNCHANGED <<state, maps, walk, facts>>
  BY DEF G!Persist, G!Export
<1>2. GraphShapes'
  BY <1>1 DEF GraphInv, GraphShapes
<1>3. CountInv'
  <2> SUFFICES ASSUME NEW e \in States \X States \X Signed
               PROVE  /\ G!Count(e, maps.edges) + G!Count(e, walk.edges) <= G!Count(e, facts.edges)
                      /\ G!Count(e, maps.edges) <= G!Count(e, facts.edges)
    BY <1>1 DEF CountInv
  <2>1. /\ G!Count(e, maps.edges) \in Nat /\ G!Count(e, walk.edges) \in Nat
        /\ G!Count(e, facts.edges) \in Nat
    BY CountsNat DEF GraphInv, GraphShapes
  <2> QED
    BY <2>1 DEF GraphInv, CountInv
<1> QED
  BY <1>1, <1>2, <1>3 DEF GraphInv, FenceInv, G!FenceHolds

\* A resume has what the directory has, or nothing.
LEMMA GraphResume ==
  ASSUME GraphInv, G!Resume
  PROVE  GraphInv'
<1>1. /\ maps' = [edges |-> G!FromExport(filed.states), moves |-> filed.moves]
      /\ state' \in States /\ walk' = G!NoWalk /\ filed' = filed
      /\ facts' = [edges |-> facts.edges, moves |-> facts.moves, acts |-> facts.acts,
                   crashes |-> facts.crashes + 1]
  BY DEF G!Resume, GraphInv, GraphShapes
<1>2. G!FromExport(filed.states) \in {filed.states.edges, G!EmptyBag}
  BY DEF G!FromExport
<1>3. GraphShapes'
  BY <1>1, <1>2, NoEdges DEF GraphInv, GraphShapes, G!NoWalk
<1>4. CountInv'
  <2> SUFFICES ASSUME NEW e \in States \X States \X Signed
               PROVE  /\ G!Count(e, G!FromExport(filed.states)) + G!Count(e, G!EmptyBag)
                           <= G!Count(e, facts.edges)
                      /\ G!Count(e, filed.states.edges) <= G!Count(e, facts.edges)
    BY <1>1 DEF CountInv, G!NoWalk
  <2>1. G!Count(e, filed.states.edges) \in Nat /\ G!Count(e, facts.edges) \in Nat
    BY CountsNat DEF GraphInv, GraphShapes
  <2> QED
    BY <1>2, <2>1, NoEdges DEF GraphInv, CountInv
<1> QED
  BY <1>1, <1>3, <1>4 DEF GraphInv, FenceInv, G!FenceHolds, G!NoWalk, G!None

\* Every step keeps the invariant.
LEMMA GraphNext ==
  ASSUME GraphBounds, GraphInv, G!Next
  PROVE  GraphInv'
<1>1. ASSUME G!Guide PROVE GraphInv'
  <2>1. UNCHANGED <<state, maps, filed, walk, facts>>
    BY <1>1 DEF G!Guide
  <2> QED
    BY <2>1 DEF GraphInv, GraphShapes, CountInv, FenceInv, G!FenceHolds
<1> QED
  BY <1>1, GraphAct, GraphRandomStep, GraphSemanticStep, GraphBetween, GraphFinishRandom,
     GraphFinishSemantic, GraphPersist, GraphResume DEF G!Next

\* And with it the properties hold.
LEMMA GraphSafe ==
  ASSUME GraphInv
  PROVE  G!TypeOK /\ G!CountsHonest /\ G!FenceHolds
<1>1. G!CountsHonest
  <2> SUFFICES ASSUME NEW e \in G!BagToSet(maps.edges)
               PROVE  G!Count(e, maps.edges) <= G!Count(e, facts.edges)
    BY DEF G!CountsHonest
  <2>1. e \in States \X States \X Signed
    BY DEF GraphInv, GraphShapes, IsGraph
  <2>2. /\ G!Count(e, maps.edges) \in Nat /\ G!Count(e, walk.edges) \in Nat
        /\ G!Count(e, facts.edges) \in Nat
    BY CountsNat DEF GraphInv, GraphShapes
  <2> QED
    BY <2>1, <2>2 DEF GraphInv, CountInv
<1>2. G!Nodes(maps.moves) \subseteq Elements
  BY DEF G!Nodes, GraphInv, GraphShapes, IsGraph
<1>3. G!BagToSet(maps.edges) \subseteq States \X States \X {G!Signature(a) : a \in G!Actions}
  BY DEF GraphInv, GraphShapes, IsGraph, Signed
<1> QED
  BY <1>1, <1>2, <1>3 DEF GraphInv, GraphShapes, IsGraph, G!TypeOK

-----------------------------------------------------------------------------
(* Checkpoints: their numbers, their files, the newest of a name.           *)

\* The bounds.
CheckBounds == MaxSeq \in Nat /\ MaxTrouble \in Nat

-----------------------------------------------------------------------------
(* The inductive invariant.                                                *)

\* A checkpoint, numbered below the counter.
Saved(cp, n) ==
  /\ cp.name \in C!AllNames /\ cp.seq \in Nat \ {0} /\ cp.seq < n

\* All that is held, in memory or on disk.
Held == {memory[n] : n \in DOMAIN memory} \cup {onDisk[f] : f \in DOMAIN onDisk}

CheckInv ==
  /\ hash \in Hashes /\ durable \in BOOLEAN /\ trouble \in 0 .. MaxTrouble
  /\ nextSeq \in 1 .. MaxSeq + 1 /\ unwritten \subseteq C!AllNames
  /\ DOMAIN memory \subseteq C!AllNames
  /\ \A n \in DOMAIN memory : memory[n].name = n
  /\ \A f \in DOMAIN onDisk : C!File(onDisk[f].name) = f
  /\ ~durable => DOMAIN onDisk = {}
  /\ \A cp \in Held : Saved(cp, nextSeq)
  /\ \A a, b \in Held : a.seq = b.seq => a = b
  /\ C!DurableIsOnDisk /\ C!NewestOfItsName

-----------------------------------------------------------------------------

\* At the start nothing is saved.
LEMMA CheckInitial ==
  ASSUME CheckBounds, C!Init
  PROVE  CheckInv
<1>1. DOMAIN memory = {} /\ DOMAIN onDisk = {}
  BY DEF C!Init
<1>2. Held = {}
  BY <1>1 DEF Held
<1>3. C!DurableIsOnDisk /\ C!NewestOfItsName
  BY <1>1 DEF C!DurableIsOnDisk, C!NewestOfItsName
<1> QED
  BY <1>1, <1>2, <1>3 DEF C!Init, CheckInv, CheckBounds

\* A save adds a checkpoint with a number of its own, to the file of its name.
LEMMA CheckSave ==
  ASSUME CheckBounds, CheckInv, C!Save
  PROVE  CheckInv'
<1>1. PICK given \in Given \cup {"none"}, ok \in BOOLEAN :
        LET name == IF given = "none" THEN C!AutoName(nextSeq) ELSE given
            cp == [name |-> name, seq |-> nextSeq, hash |-> hash] IN
        /\ nextSeq <= MaxSeq /\ C!Fate(ok) /\ (durable \/ ok) /\ C!Troubled(ok)
        /\ memory' = C!Put(memory, name, cp)
        /\ onDisk' = IF durable /\ ok THEN C!Put(onDisk, C!File(name), cp) ELSE onDisk
        /\ unwritten' = IF ok THEN unwritten \ {name} ELSE unwritten \cup {name}
        /\ nextSeq' = nextSeq + 1
        /\ compared' = <<>> /\ UNCHANGED <<hash, durable>>
  BY DEF C!Save
<1> DEFINE name == IF given = "none" THEN C!AutoName(nextSeq) ELSE given
           cp == [name |-> name, seq |-> nextSeq, hash |-> hash]
<1>2. /\ nextSeq <= MaxSeq /\ (durable \/ ok) /\ nextSeq' = nextSeq + 1
      /\ memory' = C!Put(memory, name, cp)
      /\ onDisk' = IF durable /\ ok THEN C!Put(onDisk, C!File(name), cp) ELSE onDisk
      /\ unwritten' = IF ok THEN unwritten \ {name} ELSE unwritten \cup {name}
      /\ UNCHANGED <<hash, durable>>
  BY <1>1
<1>3. trouble' \in 0 .. MaxTrouble
  BY <1>1 DEF CheckInv, CheckBounds, C!Fate, C!Troubled
<1>4. nextSeq \in 1 .. MaxSeq /\ nextSeq \in Nat
  BY <1>2 DEF CheckInv, CheckBounds
<1>5. name \in C!AllNames
  BY <1>4 DEF C!AllNames
<1>6. cp.name = name /\ cp.seq = nextSeq /\ Saved(cp, nextSeq')
  BY <1>2, <1>4, <1>5 DEF Saved
<1>7. cp = [name |-> name, seq |-> nextSeq, hash |-> hash]
  OBVIOUS
<1> HIDE DEF name, cp
<1>8. /\ DOMAIN memory' = {name} \cup DOMAIN memory
      /\ \A n \in DOMAIN memory' : memory'[n] = IF n = name THEN cp ELSE memory[n]
  BY <1>2 DEF C!Put
<1>9. /\ DOMAIN onDisk \subseteq DOMAIN onDisk'
      /\ \A f \in DOMAIN onDisk' :
           \/ f = C!File(name) /\ durable /\ ok /\ onDisk'[f] = cp
           \/ f \in DOMAIN onDisk /\ onDisk'[f] = onDisk[f]
      /\ durable /\ ok => C!File(name) \in DOMAIN onDisk' /\ onDisk'[C!File(name)] = cp
      /\ ~durable => DOMAIN onDisk' = DOMAIN onDisk
  <2>1. CASE durable /\ ok
    BY <1>2, <2>1 DEF C!Put
  <2>2. CASE ~(durable /\ ok)
    BY <1>2, <2>2
  <2> QED
    BY <2>1, <2>2
<1>10. Held' \subseteq Held \cup {cp}
  BY <1>8, <1>9 DEF Held
<1>11. \A x \in Held : Saved(x, nextSeq) /\ x.seq < nextSeq /\ x.seq \in Nat
  BY DEF CheckInv, Saved
<1>12. \A x \in Held' : Saved(x, nextSeq')
  BY <1>2, <1>4, <1>6, <1>10, <1>11 DEF Saved
<1>13. \A a, b \in Held' : a.seq = b.seq => a = b
  BY <1>4, <1>6, <1>10, <1>11 DEF CheckInv
<1>14. \A n \in DOMAIN memory' : memory'[n].name = n
  BY <1>6, <1>8 DEF CheckInv
<1>15. \A f \in DOMAIN onDisk' : C!File(onDisk'[f].name) = f
  BY <1>6, <1>9 DEF CheckInv
<1>16. C!DurableIsOnDisk'
  <2> SUFFICES ASSUME durable', NEW n \in DOMAIN memory' \ unwritten'
               PROVE  /\ C!File(n) \in DOMAIN onDisk'
                      /\ onDisk'[C!File(n)] = memory'[n] \/ onDisk'[C!File(n)].name # n
    BY DEF C!DurableIsOnDisk
  <2>1. CASE n = name
    BY <1>2, <1>8, <1>9, <2>1
  <2>2. CASE n # name
    <3>1. n \in DOMAIN memory \ unwritten /\ memory'[n] = memory[n]
      BY <1>2, <1>8, <2>2
    <3>2. C!File(n) \in DOMAIN onDisk /\ (onDisk[C!File(n)] = memory[n] \/ onDisk[C!File(n)].name # n)
      BY <1>2, <3>1 DEF CheckInv, C!DurableIsOnDisk
    <3> QED
      BY <1>6, <1>9, <2>2, <3>1, <3>2
  <2> QED
    BY <2>1, <2>2
<1>17. C!NewestOfItsName'
  <2> SUFFICES ASSUME NEW n \in DOMAIN memory', NEW f \in DOMAIN onDisk', onDisk'[f].name = n
               PROVE  onDisk'[f].seq <= memory'[n].seq
    BY DEF C!NewestOfItsName
  <2>1. CASE onDisk'[f] = cp
    BY <1>4, <1>6, <1>8, <2>1
  <2>2. CASE f \in DOMAIN onDisk /\ onDisk'[f] = onDisk[f] /\ n = name
    <3>1. onDisk[f].seq < nextSeq /\ onDisk[f].seq \in Nat
      BY <1>11, <2>2 DEF Held
    <3> QED
      BY <1>4, <1>6, <1>8, <2>2, <3>1
  <2>3. CASE f \in DOMAIN onDisk /\ onDisk'[f] = onDisk[f] /\ n # name
    BY <1>8, <2>3 DEF CheckInv, C!NewestOfItsName
  <2> QED
    BY <1>9, <2>1, <2>2, <2>3
<1>18. nextSeq' \in 1 .. MaxSeq + 1 /\ unwritten' \subseteq C!AllNames /\ DOMAIN memory' \subseteq C!AllNames
  BY <1>2, <1>4, <1>5, <1>8 DEF CheckInv, CheckBounds
<1> QED
  BY <1>2, <1>3, <1>9, <1>12, <1>13, <1>14, <1>15, <1>16, <1>17, <1>18 DEF CheckInv

\* A deleted checkpoint leaves its file.
LEMMA CheckDelete ==
  ASSUME CheckBounds, CheckInv, C!Delete
  PROVE  CheckInv'
<1>1. PICK name \in C!AllNames :
        /\ memory' = [n \in DOMAIN memory \ {name} |-> memory[n]]
        /\ unwritten' = unwritten \ {name}
  BY DEF C!Delete
<1>2. UNCHANGED <<hash, onDisk, durable, nextSeq, trouble>>
  BY DEF C!Delete
<1>3. /\ DOMAIN memory' = DOMAIN memory \ {name}
      /\ \A n \in DOMAIN memory' : n \in DOMAIN memory /\ memory'[n] = memory[n]
  BY <1>1
<1>4. Held' \subseteq Held
  BY <1>2, <1>3 DEF Held
<1>5. C!DurableIsOnDisk'
  BY <1>1, <1>2, <1>3 DEF CheckInv, C!DurableIsOnDisk
<1>6. C!NewestOfItsName'
  BY <1>2, <1>3 DEF CheckInv, C!NewestOfItsName
<1>7. \A cp \in Held' : Saved(cp, nextSeq')
  BY <1>2, <1>4 DEF CheckInv
<1> QED
  BY <1>1, <1>2, <1>3, <1>4, <1>5, <1>6, <1>7 DEF CheckInv

\* At promotion each file gets the checkpoint of one of its names.
LEMMA CheckReroot ==
  ASSUME CheckBounds, CheckInv, C!Reroot
  PROVE  CheckInv'
<1>1. PICK lost \in SUBSET DOMAIN memory :
        LET written == DOMAIN memory \ lost IN
        /\ ~durable /\ durable' = TRUE
        /\ C!Fate(lost = {}) /\ C!Troubled(lost = {})
        /\ \E final \in [{C!File(n) : n \in written} -> written] :
             /\ \A f \in DOMAIN final : C!File(final[f]) = f
             /\ onDisk' = [f \in DOMAIN final |-> memory[final[f]]]
        /\ unwritten' = lost /\ compared' = <<>>
        /\ UNCHANGED <<hash, memory, nextSeq>>
  BY DEF C!Reroot
<1> DEFINE written == DOMAIN memory \ lost
<1>2. PICK final \in [{C!File(n) : n \in written} -> written] :
        /\ \A f \in DOMAIN final : C!File(final[f]) = f
        /\ onDisk' = [f \in DOMAIN final |-> memory[final[f]]]
  BY <1>1
<1>3. /\ ~durable /\ durable' = TRUE /\ unwritten' = lost
      /\ UNCHANGED <<hash, memory, nextSeq>>
  BY <1>1
<1>4. trouble' \in 0 .. MaxTrouble
  BY <1>1 DEF CheckInv, CheckBounds, C!Fate, C!Troubled
<1>5. /\ \A f \in DOMAIN onDisk' :
           final[f] \in DOMAIN memory /\ C!File(final[f]) = f /\ onDisk'[f] = memory[final[f]]
      /\ \A n \in written : C!File(n) \in DOMAIN onDisk'
  BY <1>2
<1>6. Held' \subseteq Held
  BY <1>3, <1>5 DEF Held
<1>7. \A cp \in Held' : Saved(cp, nextSeq')
  BY <1>3, <1>6 DEF CheckInv
<1>8. \A f \in DOMAIN onDisk' : onDisk'[f].name = final[f] /\ C!File(onDisk'[f].name) = f
  BY <1>5 DEF CheckInv
<1>9. C!DurableIsOnDisk'
  BY <1>3, <1>5, <1>8 DEF C!DurableIsOnDisk
<1>10. C!NewestOfItsName'
  <2> SUFFICES ASSUME NEW n \in DOMAIN memory', NEW f \in DOMAIN onDisk', onDisk'[f].name = n
               PROVE  onDisk'[f].seq <= memory'[n].seq
    BY DEF C!NewestOfItsName
  <2>1. onDisk'[f] = memory[n] /\ memory'[n] = memory[n]
    BY <1>3, <1>5, <1>8
  <2>2. memory[n].seq \in Nat
    BY <1>3 DEF CheckInv, Held, Saved
  <2> QED
    BY <2>1, <2>2
<1> QED
  BY <1>3, <1>4, <1>6, <1>7, <1>8, <1>9, <1>10 DEF CheckInv

\* A resumed run has of each name the checkpoint in its file.
LEMMA CheckResume ==
  ASSUME CheckBounds, CheckInv, C!Resume
  PROVE  CheckInv'
<1>1. /\ durable /\ trouble < MaxTrouble /\ trouble' = trouble + 1
      /\ memory' = [name \in {onDisk[f].name : f \in DOMAIN onDisk} |->
                      (CHOOSE cp \in C!Range(onDisk) : cp.name = name)]
      /\ nextSeq' \in {1} \cup {cp.seq + 1 : cp \in C!Range(onDisk)}
      /\ \A cp \in C!Range(onDisk) : cp.seq < nextSeq'
      /\ unwritten' = {}
      /\ UNCHANGED <<hash, onDisk, durable>>
  BY DEF C!Resume
<1>2. C!Range(onDisk) = {onDisk[f] : f \in DOMAIN onDisk} /\ C!Range(onDisk) \subseteq Held
  BY DEF C!Range, Held
<1>3. \A n \in DOMAIN memory' :
        /\ C!File(n) \in DOMAIN onDisk /\ onDisk[C!File(n)].name = n
        /\ memory'[n] = onDisk[C!File(n)]
  <2> SUFFICES ASSUME NEW n \in DOMAIN memory'
               PROVE  /\ C!File(n) \in DOMAIN onDisk /\ onDisk[C!File(n)].name = n
                      /\ memory'[n] = onDisk[C!File(n)]
    OBVIOUS
  <2>1. PICK f \in DOMAIN onDisk : onDisk[f].name = n
    BY <1>1
  <2>2. f = C!File(n)
    BY <2>1 DEF CheckInv
  <2>3. memory'[n] = CHOOSE cp \in C!Range(onDisk) : cp.name = n
    BY <1>1
  <2>4. memory'[n] \in C!Range(onDisk) /\ memory'[n].name = n
    BY <1>2, <2>1, <2>3
  <2>5. PICK g \in DOMAIN onDisk : memory'[n] = onDisk[g]
    BY <1>2, <2>4
  <2>6. g = C!File(n)
    BY <2>4, <2>5 DEF CheckInv
  <2> QED
    BY <2>1, <2>2, <2>5, <2>6
<1>4. Held' \subseteq C!Range(onDisk)
  BY <1>1, <1>2, <1>3 DEF Held
<1>5. Held' \subseteq Held
  BY <1>2, <1>4
<1>6. nextSeq' \in 1 .. MaxSeq + 1
  <2>1. CASE nextSeq' = 1
    BY <2>1 DEF CheckBounds
  <2>2. CASE nextSeq' # 1
    <3>1. PICK cp \in C!Range(onDisk) : nextSeq' = cp.seq + 1
      BY <1>1, <2>2
    <3>2. cp.seq \in Nat \ {0} /\ cp.seq < nextSeq
      BY <1>2 DEF CheckInv, Saved
    <3> QED
      BY <3>1, <3>2 DEF CheckInv, CheckBounds
  <2> QED
    BY <2>1, <2>2
<1>7. \A cp \in Held' : Saved(cp, nextSeq')
  BY <1>1, <1>4, <1>5 DEF CheckInv, Saved
<1>8. C!DurableIsOnDisk'
  BY <1>1, <1>3 DEF C!DurableIsOnDisk
<1>9. C!NewestOfItsName'
  <2> SUFFICES ASSUME NEW n \in DOMAIN memory', NEW f \in DOMAIN onDisk', onDisk'[f].name = n
               PROVE  onDisk'[f].seq <= memory'[n].seq
    BY DEF C!NewestOfItsName
  <2>1. f = C!File(n) /\ onDisk'[f] = onDisk[f] /\ memory'[n] = onDisk[f] /\ onDisk[f] \in Held
    BY <1>1, <1>3, ZenonT(30) DEF CheckInv, Held
  <2>2. onDisk[f].seq \in Nat
    BY <2>1 DEF CheckInv, Saved
  <2> QED
    BY <2>1, <2>2
<1>10. DOMAIN memory' \subseteq C!AllNames
  <2> SUFFICES ASSUME NEW n \in DOMAIN memory' PROVE n \in C!AllNames
    OBVIOUS
  <2>1. onDisk[C!File(n)] \in Held /\ onDisk[C!File(n)].name = n
    BY <1>3 DEF Held
  <2> QED
    BY <2>1 DEF CheckInv, Saved
<1>11. trouble' \in 0 .. MaxTrouble
  BY <1>1 DEF CheckInv, CheckBounds
<1> QED
  BY <1>1, <1>3, <1>5, <1>6, <1>7, <1>8, <1>9, <1>10, <1>11 DEF CheckInv

\* Every step keeps the invariant.
LEMMA CheckNext ==
  ASSUME CheckBounds, CheckInv, C!Next
  PROVE  CheckInv'
<1>1. CASE C!Save \/ C!Delete \/ C!Reroot \/ C!Resume
  BY <1>1, CheckSave, CheckDelete, CheckReroot, CheckResume
<1>2. ASSUME C!Compare \/ C!Change PROVE CheckInv'
  <2>1. UNCHANGED <<memory, onDisk, durable, nextSeq, unwritten, trouble>> /\ hash' \in Hashes
    BY <1>2 DEF C!Compare, C!Change, CheckInv
  <2> QED
    BY <2>1 DEF CheckInv, Held, C!DurableIsOnDisk, C!NewestOfItsName
<1> QED
  BY <1>1, <1>2 DEF C!Next

\* And with it the properties hold.
LEMMA CheckSafe ==
  ASSUME CheckInv
  PROVE  C!TypeOK /\ C!SequenceIsIdentity /\ C!DurableIsOnDisk /\ C!NewestOfItsName
<1>1. C!Range(memory) \cup C!Range(onDisk) = Held
  BY DEF C!Range, Held
<1> QED
  BY <1>1 DEF CheckInv, C!TypeOK, C!SequenceIsIdentity

-----------------------------------------------------------------------------
(* The theorems.                                                           *)

\* The window of a probe has all that happened between its two looks and
\* nothing from before it, and a client that pages through the history
\* misses nothing it was not told of: diagnostic/mod.rs and events/, for every
\* size of the ring and every number of writes.
THEOREM SurfaceWindowsHonest == Spec => []WindowsHonest
<1> DEFINE Inv == part = "probes" => ProbeInv
<1>1. Init => Inv
  BY ProbeInit, ProbesAssumption DEF Init, ProbeBounds
<1>2. Inv /\ [Next]_vars => Inv'
  <2> SUFFICES ASSUME Inv, [Next]_vars, part' = "probes" PROVE ProbeInv'
    OBVIOUS
  <2>1. part = "probes" /\ [P!Next]_probeVars
    BY DEF Next, OthersKeep, vars
  <2> QED BY <2>1, ProbeNext, ProbesAssumption DEF ProbeBounds, probeVars, P!probeVars
<1>3. Inv => WindowsHonest
  BY ProbeSafe, ProbesAssumption DEF WindowsHonest, ProbeBounds
<1> QED BY <1>1, <1>2, <1>3, PTL DEF Spec

\* What is executed is the plan that was shown under its id, in full, on its
\* session, once, and with its risk fenced; a key goes out only right after
\* a frame that showed the focus on its control; and the moves before it
\* were seen to lead there: handlers/interact.rs and intent/plan.rs, for any
\* controls, labels, targets, verbs and bounds, whatever the application,
\* other tools and the store do meanwhile.
THEOREM SurfaceIntentsHonest == Spec => []IntentsHonest
<1> DEFINE Inv == part = "intents" => IntInv
<1>1. Init => Inv
  BY IntInit, IntentsAssumption DEF Init, IntentBounds
<1>2. Inv /\ [Next]_vars => Inv'
  <2> SUFFICES ASSUME Inv, [Next]_vars, part' = "intents" PROVE IntInv'
    OBVIOUS
  <2>1. part = "intents" /\ [I!Next]_intentVars
    BY DEF Next, OthersKeep, vars
  <2> QED BY <2>1, IntNext, IntentsAssumption DEF IntentBounds, intentVars, I!intentVars
<1>3. Inv => IntentsHonest
  BY IntSafe, IntentsAssumption DEF IntentsHonest, IntentBounds
<1> QED BY <1>1, <1>2, <1>3, PTL DEF Spec

\* A ring of keys is found reversible only when it is one, and what the
\* drivers of the audit tell as proved of the output holds of all of it:
\* audit/driver/layout.rs, interaction.rs, states.rs and visual.rs, for every
\* number of places, of clicks, of keys of a burst and of operations,
\* whatever the application answers.
THEOREM SurfaceDriversHonest == Spec => []DriversHonest
<1> DEFINE Inv == part = "drivers" => AudInv
<1>1. Init => Inv
  BY AudInit, AuditProbesAssumption DEF Init, AudBounds
<1>2. Inv /\ [Next]_vars => Inv'
  <2> SUFFICES ASSUME Inv, [Next]_vars, part' = "drivers" PROVE AudInv'
    OBVIOUS
  <2>1. part = "drivers" /\ [A!Next]_driverVars
    BY DEF Next, OthersKeep, vars
  <2> QED BY <2>1, AudNext, AuditProbesAssumption DEF AudBounds, driverVars, A!probeAuditVars
<1>3. Inv => DriversHonest
  BY AudSafe, AuditProbesAssumption DEF DriversHonest, AudBounds
<1> QED BY <1>1, <1>2, <1>3, PTL DEF Spec

\* Verdicts compare a pass with what the ledger had before it, a bundle is of
\* the latest pass, the loci of an entry are earned by what was covered, and
\* what is told to be gone was looked for: audit/compare.rs, the finding
\* store, handlers/audit.rs and workflow.rs, for every set of defects in
\* which a fingerprint tells the kind, whatever is changed, replayed or lost.
THEOREM SurfaceFindingsHonest == Spec => []FindingsHonest
<1> DEFINE Inv == part = "findings" => FindInv
<1>1. Init => Inv
  BY FindInit, FindingsAssumption DEF Init, FindBounds
<1>2. Inv /\ [Next]_vars => Inv'
  <2> SUFFICES ASSUME Inv, [Next]_vars, part' = "findings" PROVE FindInv'
    OBVIOUS
  <2>1. part = "findings" /\ [F!Next]_findVars
    BY DEF Next, OthersKeep, vars
  <2> QED BY <2>1, FindNext, FindingsAssumption DEF FindBounds, findVars, F!findingVars
<1>3. Inv => FindingsHonest
  BY FindSafe, FindingsAssumption DEF FindingsHonest, FindBounds
<1> QED BY <1>1, <1>2, <1>3, PTL DEF Spec

\* A recording has the calls of its own session and generation, in order and
\* all of them while it ran; a scenario that was told to be in a file is in
\* one, with its steps; and a cast whose stop was answered is in a file or
\* held: run/scenario_store.rs, handlers/scenario.rs, flush and resume, for
\* every number of sessions, names, recordings, runs, failed writes and
\* crashes.
THEOREM SurfaceRecordsHonest == Spec => []RecordsHonest
<1> DEFINE Inv == part = "recordings" => RecInv
<1>1. Init => Inv
  BY RecInit, RecordingsAssumption DEF Init, RecBounds
<1>2. Inv /\ [Next]_vars => Inv'
  <2> SUFFICES ASSUME Inv, [Next]_vars, part' = "recordings" PROVE RecInv'
    OBVIOUS
  <2>1. part = "recordings" /\ [R!Next]_recordVars
    BY DEF Next, OthersKeep, vars
  <2> QED BY <2>1, RecNext, RecordingsAssumption DEF RecBounds, recordVars
<1>3. Inv => RecordsHonest
  BY RecSafe, RecordingsAssumption DEF RecordsHonest, RecBounds
<1> QED BY <1>1, <1>2, <1>3, PTL DEF Spec

\* No way between two states is counted more often than it was really gone,
\* and a walk that may only do what is safe presses no key that the contract
\* or its screen gives a meaning: state_graph.rs, focus_graph.rs and
\* candidates.rs, for every application, contract and order of actions.  A
\* checkpoint is itself and the newest of its name: checkpoint/store.rs, for
\* every set of names, failed writes, promotions and resumes.
THEOREM SurfaceKeptHonest == Spec => []KeptHonest
<1> DEFINE Inv == /\ part = "graphs" => GraphInv
                  /\ part = "checkpoints" => CheckInv
<1>1. Init => Inv
  BY GraphInitial, CheckInitial, CheckpointsAssumption DEF Init, CheckBounds
<1>2. Inv /\ [Next]_vars => Inv'
  <2>1. ASSUME Inv, [Next]_vars, part' = "graphs" PROVE GraphInv'
    <3>1. part = "graphs" /\ [G!Next]_graphVars
      BY <2>1 DEF Next, OthersKeep, vars
    <3>2. CASE G!Next
      BY <2>1, <3>1, <3>2, GraphNext, GraphsAssumption DEF GraphBounds
    <3>3. CASE UNCHANGED graphVars
      BY <2>1, <3>1, <3>3
         DEF graphVars, GraphInv, GraphShapes, CountInv, FenceInv, G!FenceHolds
    <3> QED
      BY <3>1, <3>2, <3>3
  <2>2. ASSUME Inv, [Next]_vars, part' = "checkpoints" PROVE CheckInv'
    <3>1. part = "checkpoints" /\ [C!Next]_checkpointVars
      BY <2>2 DEF Next, OthersKeep, vars
    <3>2. CASE C!Next
      BY <2>2, <3>1, <3>2, CheckNext, CheckpointsAssumption DEF CheckBounds
    <3>3. CASE UNCHANGED checkpointVars
      BY <2>2, <3>1, <3>3
         DEF checkpointVars, CheckInv, Held, C!DurableIsOnDisk, C!NewestOfItsName
    <3> QED
      BY <3>1, <3>2, <3>3
  <2> QED
    BY <2>1, <2>2
<1>3. Inv => KeptHonest
  BY GraphSafe, CheckSafe DEF KeptHonest
<1> QED BY <1>1, <1>2, <1>3, PTL DEF Spec
================================================================================
