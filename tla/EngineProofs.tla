------------------------------ MODULE EngineProofs ------------------------------
(***************************************************************************)
(* For any screens, policies, budgets, number of chunks, acts and          *)
(* generations: an act that ends has its recording on again, one that      *)
(* failed before the write has not written, and what a transaction calls   *)
(* met happened after the baseline of its act.  And for any number of      *)
(* frames, size of the ring and size that is compacted: the session gets   *)
(* the native events in order and every frame is accounted for.            *)
(***************************************************************************)
EXTENDS MCEngine, FiniteSetTheorems, SequenceTheorems, ScanLemmas, TLAPS

-----------------------------------------------------------------------------
(* The types, one by one.                                                  *)

ChildType == [alive : BOOLEAN, wire : Seq(E!Unread), emitted : 0 .. MaxChunks, got : 0 .. MaxActs]
TermType == [shown : Screens, reply : BOOLEAN, clock : E!Clock, still : 0 .. Quiet]
SessType ==
  [gen : 1 .. MaxGen, last : Screens, lastReply : BOOLEAN, ingest : Seq(1 .. MaxGen),
   queue : Seq(E!Event), guard : [gen : 1 .. MaxGen, screen : Screens] \cup {None}, muted : BOOLEAN]
ActType ==
  [pc : E!Phases, policy : Policies \cup {None}, guarded : BOOLEAN, before : Screens,
   base : E!Clock, at : E!Clock, since : Nat, waited : 0 .. Budget, after : Screens,
   settle : E!Settles, acts : 0 .. MaxActs]
TxType ==
  [status : E!Statuses, settle : E!Settles, base : E!Clock, clock : E!Clock, policy : Policies]
LogType ==
  [wrote : BOOLEAN, over : Screens, answer : {"none", "ok", "stale", "refused", "error"},
   recorded : BOOLEAN]

\* What is met after the baseline.
Anchored(policy, at, base) ==
  CASE policy = "StableScreen" -> at.screen > base.screen
    [] policy = "AnyObservableChange" -> E!Interaction(at) > E!Interaction(base)
    [] policy = "CommandDone" -> at.command > base.command
    [] OTHER -> TRUE

-----------------------------------------------------------------------------
(* The invariant.                                                          *)

\* No chunk is parsed that was not emitted, and nothing is counted that was
\* not parsed.
ClockInv ==
  /\ child \in ChildType /\ term \in TermType
  /\ term.clock.out + Len(child.wire) <= child.emitted
  /\ term.clock.bell <= term.clock.out /\ term.clock.command <= term.clock.out
  /\ term.clock.screen <= term.clock.out

\* Where an act is says what it waits for.
PhaseInv ==
  /\ act \in ActType
  /\ act.pc # "idle" => act.policy \in Policies
  /\ act.pc \in {"look", "check"} => act.policy \in {"Event", "TextAppears"}
  /\ act.pc = "final" => act.policy \in {"Event", "MayBeSilent"}

\* Recording is off only inside the window, an act is recorded at its end,
\* and writes with its dispatch.
WindowInv ==
  /\ sess \in SessType /\ log \in LogType /\ tx \in TxType \cup {None}
  /\ act.pc \in {"idle", "preflight"} => ~sess.muted
  /\ act.pc # "idle" => ~log.recorded
  /\ act.pc \in {"preflight", "offset", "dispatch"} => ~log.wrote
  /\ act.pc = "idle" /\ log.recorded /\ tx.status = "FailedBeforeWrite" => ~log.wrote

\* What is about to be recorded as met is anchored, and so is what is.
AnchorInv ==
  /\ act.pc = "finish" /\ act.settle = "Met" => Anchored(act.policy, act.at, act.base)
  /\ tx # None /\ tx.status = "Sent" /\ tx.settle = "Met" =>
       Anchored(tx.policy, tx.clock, tx.base)

ActInv == ClockInv /\ PhaseInv /\ WindowInv /\ AnchorInv

\* An act writes once: no more inputs reached the child than acts began.
SentInv ==
  /\ child.got <= act.acts
  /\ act.pc \in {"preflight", "offset", "dispatch"} => child.got < act.acts

\* It says what the run checks.
LEMMA ActSafe ==
  ASSUME ActInv
  PROVE  E!TypeOK /\ E!WindowsClosed /\ E!MetIsAnchored
<1>1. E!TypeOK
  BY DEF ActInv, ClockInv, PhaseInv, WindowInv, E!TypeOK, ChildType, TermType, SessType, ActType,
         TxType, LogType
<1>2. E!WindowsClosed
  BY DEF ActInv, WindowInv, E!WindowsClosed
<1>3. E!MetIsAnchored
  BY DEF ActInv, AnchorInv, E!MetIsAnchored, Anchored
<1> QED
  BY <1>1, <1>2, <1>3

\* At first.
LEMMA ActInit ==
  ASSUME E!Init
  PROVE  ActInv
<1>1. /\ Blank \in Screens /\ 1 \in 1 .. MaxGen /\ 0 \in 0 .. MaxChunks /\ 0 \in 0 .. Quiet
      /\ 0 \in 0 .. Budget /\ 0 \in 0 .. MaxActs
  BY EngineAssumption
<1>2. E!ZeroClock \in E!Clock /\ E!Started(1) \in E!Event
  BY <1>1 DEF E!ZeroClock, E!Clock, E!Started, E!Event
<1>3. ClockInv
  BY <1>1, <1>2 DEF E!Init, ClockInv, ChildType, TermType, E!ZeroClock
<1>4. PhaseInv
  BY <1>1, <1>2 DEF E!Init, PhaseInv, ActType, E!Phases, E!Settles
<1>5. WindowInv
  <2>1. <<E!Started(1)>> \in Seq(E!Event)
    BY <1>2
  <2>2. sess \in SessType
    BY <1>1, <2>1 DEF E!Init, SessType
  <2> QED
    BY <1>1, <2>2 DEF E!Init, WindowInv, LogType
<1>6. AnchorInv
  BY DEF E!Init, AnchorInv
<1> QED
  BY <1>3, <1>4, <1>5, <1>6 DEF ActInv

-----------------------------------------------------------------------------
(* The engine.                                                             *)

\* The executor counts with the cardinality of the finite sets.
LEMMA SameCount ==
  ASSUME NEW S
  PROVE  E!Cardinality(S) = Cardinality(S)
BY Zenon DEF E!Cardinality, Cardinality

\* What is counted in a backlog is in it.
LEMMA CountGives ==
  ASSUME NEW wire \in Seq(E!Unread), NEW c
  PROVE  /\ Cardinality({n \in DOMAIN wire : wire[n].what = c}) \in Nat
         /\ Cardinality({n \in DOMAIN wire : wire[n].what = c}) <= Len(wire)
<1> DEFINE some == {n \in DOMAIN wire : wire[n].what = c}
<1>1. Len(wire) \in Nat /\ DOMAIN wire = 1 .. Len(wire)
  OBVIOUS
<1>2. IsFiniteSet(1 .. Len(wire)) /\ Cardinality(1 .. Len(wire)) = Len(wire)
  <2> DEFINE k == Len(wire)
  <2> HIDE DEF k
  <2>1. k \in Nat
    BY <1>1 DEF k
  <2>2. IsFiniteSet(1 .. k) /\ Cardinality(1 .. k) = IF 1 > k THEN 0 ELSE k - 1 + 1
    BY <2>1, FS_Interval
  <2> QED
    BY <2>1, <2>2 DEF k
<1>3. some \subseteq 1 .. Len(wire)
  BY <1>1
<1> HIDE DEF some
<1>4. IsFiniteSet(some) /\ Cardinality(some) <= Len(wire)
  BY <1>2, <1>3, FS_Subset
<1>5. Cardinality(some) \in Nat
  BY <1>4, FS_CardinalityType
<1> QED
  BY <1>4, <1>5 DEF some

\* Parsing the backlog gives the terminal its type, counts what was read, and
\* counts no more changes than there were chunks.
LEMMA PumpedGives ==
  ASSUME ClockInv
  PROVE  /\ E!Now \in TermType
         /\ E!Now.clock.out = term.clock.out + Len(child.wire)
         /\ E!Now.clock.bell <= E!Now.clock.out /\ E!Now.clock.command <= E!Now.clock.out
         /\ E!Now.clock.screen <= E!Now.clock.out
<1> DEFINE wire == child.wire
           repaints == {n \in DOMAIN wire : wire[n].what \in Screens}
           latest == CHOOSE n \in repaints : \A k \in repaints : k <= n
           bells == Cardinality({n \in DOMAIN wire : wire[n].what = Bell})
           dones == Cardinality({n \in DOMAIN wire : wire[n].what = Done})
           shown == IF repaints = {} THEN term.shown ELSE wire[latest].what
           changed == shown # term.shown
           clock == [out |-> term.clock.out + Len(wire), bell |-> term.clock.bell + bells,
                     command |-> term.clock.command + dones,
                     screen |-> IF changed THEN term.clock.screen + 1 ELSE term.clock.screen]
           still == IF changed THEN 0 ELSE term.still
           reply == IF changed THEN wire[latest].reply ELSE term.reply
<1>1. /\ wire \in Seq(E!Unread) /\ Len(wire) \in Nat /\ term \in TermType
      /\ term.shown \in Screens /\ term.reply \in BOOLEAN /\ term.still \in 0 .. Quiet
      /\ term.clock.out \in Nat /\ term.clock.bell \in Nat /\ term.clock.command \in Nat
      /\ term.clock.screen \in Nat /\ child.emitted \in 0 .. MaxChunks /\ MaxChunks \in Nat
      /\ Quiet \in Nat /\ term.clock.out + Len(wire) <= child.emitted
  BY EngineAssumption, SMTT(30) DEF ClockInv, ChildType, TermType, E!Clock
<1>2. E!Now = [term EXCEPT !.shown = shown, !.still = still, !.reply = reply, !.clock = clock]
  <2> DEFINE B == E!Cardinality({n \in DOMAIN wire : wire[n].what = Bell})
             D == E!Cardinality({n \in DOMAIN wire : wire[n].what = Done})
  <2>1. E!Now = [term EXCEPT
          !.shown = shown, !.still = IF changed THEN 0 ELSE @,
          !.reply = IF changed THEN wire[latest].reply ELSE @,
          !.clock = [out |-> @.out + Len(wire), bell |-> @.bell + B, command |-> @.command + D,
                     screen |-> IF changed THEN @.screen + 1 ELSE @.screen]]
    BY Zenon DEF E!Now, E!Pumped
  <2>2. B = bells /\ D = dones
    BY SameCount
  <2> HIDE DEF latest, bells, dones, repaints, shown, wire, B, D
  <2> QED
    BY <1>1, <2>1, <2>2 DEF TermType
<1>3. bells \in Nat /\ bells <= Len(wire) /\ dones \in Nat /\ dones <= Len(wire)
  <2> HIDE DEF wire
  <2> QED
    BY <1>1, CountGives
<1>4. repaints # {} => latest \in repaints
  <2> SUFFICES ASSUME repaints # {} PROVE latest \in repaints
    OBVIOUS
  <2>1. repaints \subseteq 1 .. Len(wire)
    BY <1>1
  <2> HIDE DEF repaints
  <2> DEFINE top == {Len(wire) - n : n \in repaints}
  <2>2. top \in SUBSET Nat /\ top # {}
    <3> HIDE DEF wire
    <3>1. \A n \in repaints : Len(wire) - n \in Nat
      BY <1>1, <2>1
    <3> QED
      BY <3>1
  <2>3. PICK x \in top : \A y \in top : x <= y
    <3> HIDE DEF top
    <3> QED
      BY <2>2, LeastNat
  <2>4. PICK n \in repaints : x = Len(wire) - n
    BY <2>3
  <2>5. \A k \in repaints : k <= n
    <3>1. ASSUME NEW k \in repaints PROVE k <= n
      <4>1. Len(wire) - n <= Len(wire) - k /\ k \in 1 .. Len(wire) /\ n \in 1 .. Len(wire)
        BY <2>1, <2>3, <2>4
      <4> QED
        BY <1>1, <4>1
    <3> QED
      BY <3>1
  <2> QED
    BY <2>5
<1>5. /\ shown \in Screens /\ (changed => repaints # {} /\ Len(wire) >= 1)
      /\ repaints # {} => wire[latest].what \in Screens /\ wire[latest].reply \in BOOLEAN
  <2>1. ASSUME repaints # {}
        PROVE  wire[latest].what \in Screens /\ wire[latest].reply \in BOOLEAN /\ Len(wire) >= 1
    <3>1. latest \in DOMAIN wire /\ wire[latest].what \in Screens
      BY <1>4, <2>1
    <3> HIDE DEF latest
    <3>2. wire[latest] \in E!Unread /\ latest \in 1 .. Len(wire)
      BY <1>1, <3>1
    <3> QED
      BY <1>1, <3>1, <3>2 DEF E!Unread
  <2> HIDE DEF latest, repaints
  <2> QED
    BY <1>1, <2>1
<1>6. still \in 0 .. Quiet /\ reply \in BOOLEAN
  <2> HIDE DEF latest, repaints, shown
  <2> QED
    BY <1>1, <1>5
<1> HIDE DEF shown, still, reply, bells, dones
<1>7. /\ clock \in E!Clock /\ clock.out = term.clock.out + Len(wire)
      /\ clock.bell <= clock.out /\ clock.command <= clock.out /\ clock.screen <= clock.out
  <2> DEFINE out == term.clock.out + Len(wire)
             bell == term.clock.bell + bells
             command == term.clock.command + dones
             screen == IF changed THEN term.clock.screen + 1 ELSE term.clock.screen
  <2>1. /\ out \in 0 .. MaxChunks /\ bell \in 0 .. MaxChunks /\ command \in 0 .. MaxChunks
        /\ screen \in 0 .. MaxChunks
        /\ bell <= out /\ command <= out /\ screen <= out
    <3>1. /\ term.clock.bell <= term.clock.out /\ term.clock.command <= term.clock.out
          /\ term.clock.screen <= term.clock.out
      BY DEF ClockInv
    <3> HIDE DEF changed, wire
    <3>2. changed => Len(wire) >= 1
      BY <1>5
    <3>3. /\ child.emitted <= MaxChunks /\ child.emitted \in Nat /\ MaxChunks \in Nat
          /\ Len(wire) \in Nat /\ term.clock.out + Len(wire) <= child.emitted
          /\ term.clock.out \in Nat /\ term.clock.bell \in Nat /\ term.clock.command \in Nat
          /\ term.clock.screen \in Nat
      BY <1>1
    <3>4. bell \in Nat /\ bell <= out
      BY <1>3, <3>1, <3>3, SMTT(30)
    <3>5. command \in Nat /\ command <= out
      BY <1>3, <3>1, <3>3
    <3>6. screen \in Nat /\ screen <= out
      BY <3>1, <3>2, <3>3
    <3>7. out \in Nat /\ out <= MaxChunks
      BY <3>3
    <3> HIDE DEF out, bell, command, screen
    <3> QED
      BY <3>3, <3>4, <3>5, <3>6, <3>7
  <2>2. clock = [out |-> out, bell |-> bell, command |-> command, screen |-> screen]
    OBVIOUS
  <2> HIDE DEF out, bell, command, screen, clock
  <2>3. clock \in E!Clock /\ clock.out = out /\ clock.bell = bell /\ clock.command = command
        /\ clock.screen = screen
    BY <2>1, <2>2 DEF E!Clock
  <2> QED
    BY <2>1, <2>3 DEF out
<1> HIDE DEF clock
<1>8. E!Now \in TermType /\ E!Now.clock = clock
  BY <1>1, <1>2, <1>5, <1>6, <1>7 DEF TermType
<1> QED
  BY <1>7, <1>8

\* A pump keeps the clock's invariant, and what it shows has its type.
LEMMA PumpSafe ==
  ASSUME ClockInv, E!Pump
  PROVE  /\ ClockInv' /\ E!Now.shown \in Screens /\ E!Now.clock \in E!Clock
         /\ E!Now \in TermType /\ term' = E!Now
<1> DEFINE now == E!Now
<1>1. /\ now \in TermType /\ now.clock.out = term.clock.out + Len(child.wire)
      /\ now.clock.bell <= now.clock.out /\ now.clock.command <= now.clock.out
      /\ now.clock.screen <= now.clock.out
  BY PumpedGives
<1>2. term' = now /\ child' = [child EXCEPT !.wire = <<>>]
  BY DEF E!Pump
<1> HIDE DEF now
<1>3. /\ child' \in ChildType /\ child'.wire = <<>> /\ child'.emitted = child.emitted
      /\ now.clock.out \in Nat /\ term.clock.out + Len(child.wire) <= child.emitted
  <2>1. /\ child \in ChildType /\ term.clock.out + Len(child.wire) <= child.emitted
        /\ <<>> \in Seq(E!Unread)
    BY DEF ClockInv
  <2>2. child' \in ChildType /\ child'.wire = <<>> /\ child'.emitted = child.emitted
    BY <1>2, <2>1 DEF ChildType
  <2>3. now.clock.out \in Nat
    BY <1>1 DEF TermType, E!Clock
  <2> QED
    BY <2>1, <2>2, <2>3
<1>4. now.clock.out + Len(<<>>) <= child.emitted
  BY <1>1, <1>3
<1>5. ClockInv'
  BY <1>1, <1>2, <1>3, <1>4 DEF ClockInv, ChildType, TermType, E!Unread, E!Clock
<1> QED
  BY <1>1, <1>2, <1>5 DEF TermType, now

\* A step that leaves the child and the terminal alone.
LEMMA ClockLeft ==
  ASSUME ClockInv, UNCHANGED <<child, term>>
  PROVE  ClockInv'
BY DEF ClockInv, ChildType, TermType, E!Unread, E!Clock, E!Chunks

\* Taking the ingest keeps the session's type and its recording.
LEMMA AbsorbedGives ==
  ASSUME NEW s \in SessType
  PROVE  E!Absorbed(s) \in SessType /\ E!Absorbed(s).muted = s.muted
<1> DEFINE facts == [n \in 1 .. Len(s.ingest) |-> [E!Output(s.gen) EXCEPT !.late = s.ingest[n] # s.gen]]
           all == s.queue \o facts
<1>1. E!Absorbed(s) = [s EXCEPT !.queue = all, !.ingest = <<>>]
  BY DEF E!Absorbed, SessType
<1>2. /\ s.gen \in 1 .. MaxGen /\ s.ingest \in Seq(1 .. MaxGen) /\ s.queue \in Seq(E!Event)
      /\ Len(s.ingest) \in Nat
  BY DEF SessType
<1>3. ASSUME NEW b \in BOOLEAN PROVE [E!Output(s.gen) EXCEPT !.late = b] \in E!Event
  BY <1>2 DEF E!Output, E!Event
<1>4. facts \in Seq(E!Event)
  <2>1. \A n \in 1 .. Len(s.ingest) : [E!Output(s.gen) EXCEPT !.late = s.ingest[n] # s.gen] \in E!Event
    BY <1>3
  <2> QED
    BY <1>2, <2>1
<1> HIDE DEF facts
<1>5. all \in Seq(E!Event)
  BY <1>2, <1>4
<1> HIDE DEF all
<1>6. <<>> \in Seq(1 .. MaxGen)
  OBVIOUS
<1> QED
  BY <1>1, <1>5, <1>6 DEF SessType

\* Likewise with the frame of an observe.
LEMMA AdvancedGives ==
  ASSUME NEW s \in SessType, NEW t \in TermType
  PROVE  E!Advanced(s, t) \in SessType /\ E!Advanced(s, t).muted = s.muted
<1> DEFINE frame == [kind |-> "screen", gen |-> s.gen, late |-> ~t.reply]
           all == IF t.shown = s.last THEN s.queue ELSE Append(s.queue, frame)
<1>1. E!Advanced(s, t) = [s EXCEPT !.last = t.shown, !.lastReply = t.reply, !.queue = all]
  BY DEF E!Advanced, SessType
<1>2. s.gen \in 1 .. MaxGen /\ s.queue \in Seq(E!Event) /\ t.shown \in Screens /\ t.reply \in BOOLEAN
  BY DEF SessType, TermType
<1>3. frame \in E!Event
  BY <1>2 DEF E!Event
<1> HIDE DEF frame
<1>4. all \in Seq(E!Event)
  BY <1>2, <1>3
<1> HIDE DEF all
<1> QED
  BY <1>1, <1>2, <1>4 DEF SessType

-----------------------------------------------------------------------------
(* The steps.                                                              *)

\* A step that leaves the transaction alone and brings no act to its finish.
LEMMA AnchorLeft ==
  ASSUME AnchorInv, UNCHANGED tx,
         act'.pc = "finish" /\ act'.settle = "Met" => Anchored(act'.policy, act'.at, act'.base)
  PROVE  AnchorInv'
BY DEF AnchorInv, Anchored, E!Interaction

\* A step outside the act.
LEMMA OutsideStep ==
  ASSUME ActInv, UNCHANGED <<act, tx, log>>, sess' \in SessType, sess'.muted = sess.muted, ClockInv'
  PROVE  ActInv'
<1>1. PhaseInv'
  BY DEF ActInv, PhaseInv, ActType, E!Phases, E!Settles, E!Clock
<1>2. WindowInv'
  BY DEF ActInv, WindowInv, SessType, E!Event, LogType, TxType, E!Statuses, E!Settles, E!Clock
<1>3. AnchorInv'
  BY DEF ActInv, AnchorInv, Anchored, E!Interaction
<1> QED
  BY <1>1, <1>2, <1>3 DEF ActInv

\* The child prints.
LEMMA EmitStep ==
  ASSUME ActInv, E!Emit
  PROVE  ActInv'
<1>1. PICK c \in E!Chunks :
        child' = [child EXCEPT !.emitted = @ + 1, !.wire = Append(@, [what |-> c, reply |-> log.wrote])]
  BY DEF E!Emit
<1> DEFINE u == [what |-> c, reply |-> log.wrote]
           wire == Append(child.wire, u)
<1>2. /\ child \in ChildType /\ child.emitted < MaxChunks /\ child.emitted \in 0 .. MaxChunks
      /\ child.wire \in Seq(E!Unread) /\ MaxChunks \in Nat /\ term \in TermType
      /\ term.clock.out \in Nat /\ Len(child.wire) \in Nat
      /\ term.clock.out + Len(child.wire) <= child.emitted
  BY EngineAssumption, SMTT(30) DEF ActInv, ClockInv, ChildType, TermType, E!Clock, E!Emit
<1>3. u \in E!Unread
  BY DEF ActInv, WindowInv, LogType, E!Unread
<1> HIDE DEF u
<1>4. wire \in Seq(E!Unread) /\ Len(wire) = Len(child.wire) + 1
  BY <1>2, <1>3
<1>5. child.emitted + 1 \in 0 .. MaxChunks /\ term.clock.out + Len(wire) <= child.emitted + 1
  BY <1>2, <1>4
<1>6. child' = [child EXCEPT !.emitted = child.emitted + 1, !.wire = wire]
  BY <1>1, <1>2 DEF ChildType, u
<1> HIDE DEF wire
<1>7. child' \in ChildType /\ child'.wire = wire /\ child'.emitted = child.emitted + 1
  BY <1>2, <1>4, <1>5, <1>6 DEF ChildType
<1>8. term' = term
  BY DEF E!Emit
<1>9. ClockInv'
  BY <1>5, <1>7, <1>8 DEF ActInv, ClockInv, ChildType, TermType, E!Unread, E!Clock, E!Chunks
<1>10. sess' \in SessType /\ sess'.muted = sess.muted
  <2>1. sess' = [sess EXCEPT !.ingest = Append(sess.ingest, sess.gen)] /\ sess \in SessType
    BY DEF E!Emit, ActInv, WindowInv
  <2>2. Append(sess.ingest, sess.gen) \in Seq(1 .. MaxGen)
    BY <2>1 DEF SessType
  <2> QED
    BY <2>1, <2>2 DEF SessType
<1> QED
  BY <1>9, <1>10, OutsideStep DEF E!Emit

\* The child exits.
LEMMA ExitStep ==
  ASSUME ActInv, E!Exit
  PROVE  ActInv'
<1>1. child \in ChildType /\ child' = [child EXCEPT !.alive = FALSE] /\ term' = term
  BY DEF ActInv, ClockInv, E!Exit
<1>2. child' \in ChildType /\ child'.wire = child.wire /\ child'.emitted = child.emitted
  BY <1>1 DEF ChildType
<1>3. ClockInv'
  BY <1>1, <1>2 DEF ActInv, ClockInv, ChildType, TermType, E!Unread, E!Clock, E!Chunks
<1>4. sess' = sess /\ sess \in SessType
  BY DEF E!Exit, ActInv, WindowInv
<1> QED
  BY <1>3, <1>4, OutsideStep DEF E!Exit

\* The child is started again.
LEMMA RestartStep ==
  ASSUME ActInv, E!Restart
  PROVE  ActInv'
<1>1. /\ child' = [child EXCEPT !.alive = TRUE, !.wire = <<>>]
      /\ term' = [shown |-> Blank, reply |-> FALSE, clock |-> E!ZeroClock, still |-> 0]
      /\ sess' = [sess EXCEPT !.gen = @ + 1, !.last = Blank, !.lastReply = FALSE,
                    !.queue = Append(@, E!Started(sess.gen + 1))]
      /\ UNCHANGED <<act, tx, log>> /\ sess.gen < MaxGen
  BY DEF E!Restart
<1>2. /\ child \in ChildType /\ child.emitted \in 0 .. MaxChunks /\ sess \in SessType
      /\ sess.gen \in 1 .. MaxGen /\ sess.queue \in Seq(E!Event)
      /\ Blank \in Screens /\ 0 \in 0 .. Quiet /\ 0 \in 0 .. MaxChunks /\ MaxGen \in Nat
  BY EngineAssumption DEF ActInv, ClockInv, WindowInv, ChildType, SessType
<1>3. child' \in ChildType /\ child'.wire = <<>> /\ child'.emitted = child.emitted
  <2>1. <<>> \in Seq(E!Unread)
    OBVIOUS
  <2> QED
    BY <1>1, <1>2, <2>1 DEF ChildType
<1>4. term' \in TermType /\ term'.clock = E!ZeroClock
  BY <1>1, <1>2 DEF TermType, E!ZeroClock, E!Clock
<1>5. ClockInv'
  BY <1>2, <1>3, <1>4 DEF ClockInv, ChildType, TermType, E!Unread, E!Clock, E!Chunks, E!ZeroClock
<1> DEFINE g == sess.gen + 1
           queued == Append(sess.queue, E!Started(g))
<1>6. g \in 1 .. MaxGen
  BY <1>1, <1>2
<1>7. sess' = [sess EXCEPT !.gen = g, !.last = Blank, !.lastReply = FALSE, !.queue = queued]
  BY <1>1, <1>2 DEF SessType
<1> HIDE DEF g
<1>8. queued \in Seq(E!Event)
  <2>1. E!Started(g) \in E!Event
    BY <1>6 DEF E!Started, E!Event
  <2> QED
    BY <1>2, <2>1
<1> HIDE DEF queued
<1>9. sess' \in SessType /\ sess'.muted = sess.muted
  BY <1>2, <1>6, <1>7, <1>8 DEF SessType
<1> QED
  BY <1>1, <1>5, <1>9, OutsideStep

\* A client observes.
LEMMA ObserveStep ==
  ASSUME ActInv, E!Observe
  PROVE  ActInv'
<1>1. sess \in SessType /\ sess.gen \in 1 .. MaxGen
  BY DEF ActInv, WindowInv, SessType
<1>2. ClockInv' /\ E!Now.shown \in Screens /\ E!Now \in TermType
  BY PumpSafe DEF ActInv, E!Observe
<1> DEFINE s == E!Advanced(E!Absorbed(sess), E!Now)
           guard == [gen |-> sess.gen, screen |-> E!Now.shown]
<1>3. s \in SessType /\ s.muted = sess.muted
  BY <1>1, <1>2, AbsorbedGives, AdvancedGives
<1>4. guard \in [gen : 1 .. MaxGen, screen : Screens]
  BY <1>1, <1>2
<1>5. sess' = [s EXCEPT !.guard = guard]
  BY DEF E!Observe
<1> HIDE DEF s, guard
<1>6. sess' \in SessType /\ sess'.muted = sess.muted
  BY <1>3, <1>4, <1>5 DEF SessType
<1> QED
  BY <1>2, <1>6, OutsideStep DEF E!Observe

\* An act begins.
LEMMA BeginStep ==
  ASSUME ActInv, NEW p \in Policies, NEW guarded \in BOOLEAN, E!Begin(p, guarded)
  PROVE  ActInv'
<1>1. /\ act.pc = "idle" /\ act.acts < MaxActs
      /\ act' = [act EXCEPT !.pc = "preflight", !.policy = p, !.guarded = guarded,
                   !.acts = @ + 1, !.waited = 0]
      /\ sess' = E!Absorbed(sess)
      /\ log' = [log EXCEPT !.wrote = FALSE, !.answer = "none", !.recorded = FALSE]
      /\ UNCHANGED <<child, term, tx>>
  BY DEF E!Begin
<1>2. /\ act \in ActType /\ act.acts \in 0 .. MaxActs /\ MaxActs \in Nat /\ 0 \in 0 .. Budget
      /\ sess \in SessType /\ ~sess.muted /\ log \in LogType
  BY <1>1, EngineAssumption DEF ActInv, PhaseInv, ActType, WindowInv
<1>3. ClockInv'
  BY <1>1, ClockLeft DEF ActInv
<1>4. act' \in ActType /\ act'.pc = "preflight" /\ act'.policy = p
  <2>1. act.acts + 1 \in 0 .. MaxActs
    BY <1>1, <1>2
  <2> QED
    BY <1>1, <1>2, <2>1 DEF ActType, E!Phases
<1>5. PhaseInv'
  BY <1>4 DEF PhaseInv, ActType, E!Phases, E!Settles, E!Clock
<1>6. sess' \in SessType /\ ~sess'.muted
  BY <1>1, <1>2, AbsorbedGives
<1>7. log' \in LogType /\ ~log'.wrote /\ ~log'.recorded
  BY <1>1, <1>2 DEF LogType
<1>8. WindowInv'
  BY <1>1, <1>4, <1>6, <1>7 DEF ActInv, WindowInv, SessType, E!Event, LogType, TxType, E!Statuses,
     E!Settles, E!Clock
<1>9. AnchorInv'
  BY <1>1, <1>4, AnchorLeft DEF ActInv
<1> QED
  BY <1>3, <1>5, <1>8, <1>9 DEF ActInv

\* The transaction, the session and the log are left in a window, or out of it.
LEMMA InWindow ==
  ASSUME ActInv, act.pc \in {"preflight", "offset", "dispatch", "wait", "look", "check", "final",
                            "nap", "finish"},
         act'.pc \notin {"idle", "preflight"}, sess' \in SessType, UNCHANGED tx,
         log' \in LogType, ~log'.recorded, act'.pc \in {"offset", "dispatch"} => ~log'.wrote
  PROVE  WindowInv'
BY DEF ActInv, WindowInv, SessType, E!Event, LogType, TxType, E!Statuses, E!Settles, E!Clock

\* The act ends without a transaction of its own.
LEMMA WindowShut ==
  ASSUME ActInv, act'.pc = "idle", sess' \in SessType, ~sess'.muted, UNCHANGED tx,
         log' \in LogType, ~log'.recorded
  PROVE  WindowInv'
BY DEF ActInv, WindowInv, SessType, E!Event, LogType, TxType, E!Statuses, E!Settles, E!Clock

\* What a change of phase leaves typed.
LEMMA PhaseGives ==
  ASSUME NEW a \in ActType,
         a.pc # "idle" => a.policy \in Policies,
         a.pc \in {"look", "check"} => a.policy \in {"Event", "TextAppears"},
         a.pc = "final" => a.policy \in {"Event", "MayBeSilent"},
         act' = a
  PROVE  PhaseInv'
BY DEF PhaseInv, ActType, E!Phases, E!Settles, E!Clock

\* The types and facts every step of an act starts from.
LEMMA ActFacts ==
  ASSUME ActInv
  PROVE  /\ act \in ActType /\ sess \in SessType /\ log \in LogType
         /\ act.pc # "idle" => act.policy \in Policies /\ log.recorded = FALSE
         /\ Budget \in Nat /\ Quiet \in Nat /\ Grace \in Nat
BY EngineAssumption DEF ActInv, PhaseInv, WindowInv, LogType

\* The guard is checked, and the window opens.
LEMMA PreflightStep ==
  ASSUME ActInv, E!Preflight
  PROVE  ActInv'
<1>1. act.pc = "preflight" /\ E!Pump /\ UNCHANGED tx
  BY DEF E!Preflight
<1>2. /\ act \in ActType /\ sess \in SessType /\ log \in LogType
      /\ act.policy \in Policies /\ log.recorded = FALSE
  BY <1>1, ActFacts
<1>3. ~sess.muted /\ ~log.wrote
  BY <1>1 DEF ActInv, WindowInv
<1>4. ClockInv' /\ E!Now.shown \in Screens /\ E!Now.clock \in E!Clock
  BY <1>1, PumpSafe DEF ActInv
<1>5. CASE /\ act' = [act EXCEPT !.pc = "idle"]
           /\ log' = [log EXCEPT !.answer = "stale"]
           /\ UNCHANGED sess
  <2>1. act' \in ActType /\ act'.pc = "idle"
    BY <1>2, <1>5 DEF ActType, E!Phases
  <2>2. PhaseInv'
    BY <2>1, PhaseGives
  <2>3. log' \in LogType /\ ~log'.recorded
    BY <1>2, <1>5 DEF LogType
  <2>4. sess' \in SessType /\ ~sess'.muted
    BY <1>2, <1>3, <1>5
  <2>5. WindowInv'
    BY <1>1, <2>1, <2>3, <2>4, WindowShut
  <2>6. AnchorInv'
    BY <1>1, <2>1, AnchorLeft DEF ActInv
  <2> QED
    BY <1>4, <2>2, <2>5, <2>6 DEF ActInv
<1>6. CASE /\ act' = [act EXCEPT !.pc = "offset", !.before = E!Now.shown,
                        !.base = E!Now.clock, !.since = Len(sess.queue)]
           /\ \E sensitive \in BOOLEAN : sess' = [sess EXCEPT !.muted = sensitive]
           /\ UNCHANGED log
  <2>1. Len(sess.queue) \in Nat
    BY <1>2 DEF SessType
  <2>2. act' \in ActType /\ act'.pc = "offset" /\ act'.policy = act.policy
    BY <1>2, <1>4, <1>6, <2>1 DEF ActType, E!Phases
  <2>3. PhaseInv'
    BY <1>2, <2>2, PhaseGives
  <2>4. sess' \in SessType
    BY <1>2, <1>6 DEF SessType
  <2>5. WindowInv'
    BY <1>1, <1>2, <1>3, <1>6, <2>2, <2>4, InWindow
  <2>6. AnchorInv'
    BY <1>1, <2>2, AnchorLeft DEF ActInv
  <2> QED
    BY <1>4, <2>3, <2>5, <2>6 DEF ActInv
<1> QED
  BY <1>5, <1>6 DEF E!Preflight

\* The offset is read.
LEMMA OffsetStep ==
  ASSUME ActInv, E!Offset
  PROVE  ActInv'
<1>1. act.pc = "offset" /\ E!Pump /\ UNCHANGED <<sess, tx, log>> /\ act' = [act EXCEPT !.pc = "dispatch"]
  BY DEF E!Offset
<1>2. /\ act \in ActType /\ sess \in SessType /\ log \in LogType
      /\ act.policy \in Policies /\ log.recorded = FALSE
  BY <1>1, ActFacts
<1>3. ~log.wrote
  BY <1>1 DEF ActInv, WindowInv
<1>4. ClockInv'
  BY <1>1, PumpSafe DEF ActInv
<1>5. act' \in ActType /\ act'.pc = "dispatch" /\ act'.policy = act.policy
  BY <1>1, <1>2 DEF ActType, E!Phases
<1>6. PhaseInv'
  BY <1>2, <1>5, PhaseGives
<1>7. WindowInv'
  BY <1>1, <1>2, <1>3, <1>5, InWindow
<1>8. AnchorInv'
  BY <1>1, <1>5, AnchorLeft DEF ActInv
<1> QED
  BY <1>4, <1>6, <1>7, <1>8 DEF ActInv

\* A transaction has its type.
LEMMA TransactionGives ==
  ASSUME act \in ActType, act.policy \in Policies, NEW status \in E!Statuses, NEW settle \in E!Settles
  PROVE  /\ E!Transaction(status, settle) \in TxType
         /\ E!Transaction(status, settle).status = status
         /\ E!Transaction(status, settle).settle = settle
         /\ E!Transaction(status, settle).policy = act.policy
         /\ E!Transaction(status, settle).base = act.base
         /\ E!Transaction(status, settle).clock = act.at
BY DEF E!Transaction, TxType, ActType

\* The input is not written, or its write fails.
LEMMA DispatchFailsStep ==
  ASSUME ActInv, E!DispatchFails
  PROVE  ActInv'
<1>1. /\ act.pc = "dispatch" /\ E!Pump /\ act' = [act EXCEPT !.pc = "idle"]
      /\ sess' = [sess EXCEPT !.muted = FALSE]
      /\ log' = [log EXCEPT !.answer = "error", !.recorded = TRUE]
  BY DEF E!DispatchFails
<1>2. /\ act \in ActType /\ sess \in SessType /\ log \in LogType
      /\ act.policy \in Policies /\ ~log.wrote
  BY <1>1, ActFacts DEF ActInv, WindowInv
<1>3. PICK status \in {"FailedBeforeWrite", "PartialOrUnknown"} :
        tx' = E!Transaction(status, "NotAttempted")
  BY DEF E!DispatchFails
<1>4. tx' \in TxType /\ tx'.settle = "NotAttempted"
  <2>1. status \in E!Statuses /\ "NotAttempted" \in E!Settles
    BY DEF E!Statuses, E!Settles
  <2> QED
    BY <1>2, <1>3, <2>1, TransactionGives
<1>5. act' \in ActType /\ act'.pc = "idle"
  BY <1>1, <1>2 DEF ActType, E!Phases
<1>6. sess' \in SessType /\ ~sess'.muted
  BY <1>1, <1>2 DEF SessType
<1>7. log' \in LogType /\ ~log'.wrote
  BY <1>1, <1>2 DEF LogType
<1>8. ClockInv'
  BY <1>1, PumpSafe DEF ActInv
<1>9. PhaseInv'
  BY <1>5, PhaseGives
<1>10. WindowInv'
  BY <1>4, <1>5, <1>6, <1>7 DEF WindowInv, SessType, E!Event, LogType, TxType, E!Statuses,
     E!Settles, E!Clock
<1>11. AnchorInv'
  BY <1>4, <1>5 DEF AnchorInv
<1> QED
  BY <1>8, <1>9, <1>10, <1>11 DEF ActInv

\* The input is written.
LEMMA DispatchStep ==
  ASSUME ActInv, SentInv, E!Dispatch
  PROVE  ActInv'
<1> DEFINE pc == CASE act.policy = "NoWait" -> "finish"
                   [] act.policy \in {"Event", "TextAppears"} -> "look"
                   [] OTHER -> "wait"
           settle == IF act.policy = "NoWait" THEN "Skipped" ELSE "TimedOut"
<1>1. /\ act.pc = "dispatch" /\ child.alive /\ term' = E!Now
      /\ child' = [child EXCEPT !.wire = <<>>, !.got = @ + 1]
      /\ log' = [log EXCEPT !.wrote = TRUE, !.over = E!Now.shown]
      /\ act' = [act EXCEPT !.pc = pc, !.settle = settle, !.after = E!Now.shown]
      /\ UNCHANGED <<sess, tx>>
  BY DEF E!Dispatch
<1>2. /\ act \in ActType /\ sess \in SessType /\ log \in LogType
      /\ act.policy \in Policies /\ log.recorded = FALSE
  BY <1>1, ActFacts
<1>3. /\ E!Now \in TermType /\ E!Now.clock.out = term.clock.out + Len(child.wire)
      /\ E!Now.clock.bell <= E!Now.clock.out /\ E!Now.clock.command <= E!Now.clock.out
      /\ E!Now.clock.screen <= E!Now.clock.out /\ E!Now.shown \in Screens
  BY PumpedGives DEF ActInv, TermType
<1>4. pc \in {"finish", "look", "wait"} /\ settle \in {"Skipped", "TimedOut"}
      /\ (pc = "look" => act.policy \in {"Event", "TextAppears"})
  OBVIOUS
<1> HIDE DEF pc, settle
<1>5. /\ act' \in ActType /\ act'.pc = pc /\ act'.policy = act.policy /\ act'.settle = settle
  BY <1>1, <1>2, <1>3, <1>4 DEF ActType, E!Phases, E!Settles
<1>6. PhaseInv'
  BY <1>2, <1>4, <1>5, PhaseGives
<1>7. log' \in LogType /\ ~log'.recorded
  BY <1>1, <1>2, <1>3 DEF LogType
<1>8. WindowInv'
  BY <1>1, <1>2, <1>4, <1>5, <1>7, InWindow
<1>9. AnchorInv'
  BY <1>1, <1>4, <1>5, AnchorLeft DEF ActInv
<1>10. ClockInv'
  <2>1. /\ child \in ChildType /\ child.got \in 0 .. MaxActs /\ <<>> \in Seq(E!Unread)
        /\ term.clock.out + Len(child.wire) <= child.emitted
    BY DEF ActInv, ClockInv, ChildType
  <2>2. child.got + 1 \in 0 .. MaxActs
    <3>1. child.got < act.acts
      BY <1>1 DEF SentInv
    <3>2. act.acts \in 0 .. MaxActs /\ MaxActs \in Nat
      BY <1>2, EngineAssumption DEF ActType
    <3> QED
      BY <2>1, <3>1, <3>2
  <2>3. /\ child' \in ChildType /\ child'.wire = <<>> /\ child'.emitted = child.emitted
    BY <1>1, <2>1, <2>2 DEF ChildType
  <2>4. E!Now.clock.out + Len(<<>>) <= child.emitted
    BY <1>3, <2>1 DEF TermType, E!Clock
  <2> QED
    BY <1>1, <1>3, <2>3, <2>4 DEF ClockInv, ChildType, TermType, E!Unread, E!Clock, E!Chunks
<1> QED
  BY <1>6, <1>8, <1>9, <1>10 DEF ActInv

\* The engine does not know the wait, or fails.
LEMMA FailStep ==
  ASSUME ActInv, E!Fail, UNCHANGED <<child, term>>, act.pc # "idle"
  PROVE  ActInv'
<1>1. /\ act' = [act EXCEPT !.pc = "idle"] /\ sess' = [sess EXCEPT !.muted = FALSE]
      /\ log' = [log EXCEPT !.answer = "error"] /\ UNCHANGED tx
  BY DEF E!Fail
<1>2. act \in ActType /\ sess \in SessType /\ log \in LogType /\ log.recorded = FALSE
  BY ActFacts
<1>3. act' \in ActType /\ act'.pc = "idle"
  BY <1>1, <1>2 DEF ActType, E!Phases
<1>4. sess' \in SessType /\ ~sess'.muted
  BY <1>1, <1>2 DEF SessType
<1>5. log' \in LogType /\ ~log'.recorded
  BY <1>1, <1>2 DEF LogType
<1>6. ClockInv' /\ AnchorInv'
  BY <1>1, <1>3, ClockLeft, AnchorLeft DEF ActInv
<1>7. PhaseInv'
  BY <1>3, PhaseGives
<1>8. WindowInv'
  BY <1>1, <1>3, <1>4, <1>5, WindowShut
<1> QED
  BY <1>6, <1>7, <1>8 DEF ActInv

\* What the evaluator calls met is anchored.
LEMMA MetGives ==
  ASSUME NEW policy, NEW t, E!MetNow(policy, t)
  PROVE  Anchored(policy, t.clock, act.base)
BY DEF E!MetNow, Anchored

\* A turn of the wait.
LEMMA PollStep ==
  ASSUME ActInv, E!Poll
  PROVE  ActInv'
<1>1. act.pc = "wait" /\ E!Pump /\ UNCHANGED <<sess, tx, log>>
  BY DEF E!Poll
<1>2. /\ act \in ActType /\ sess \in SessType /\ log \in LogType
      /\ act.policy \in Policies /\ log.recorded = FALSE
  BY <1>1, ActFacts
<1>3. ClockInv' /\ E!Now.shown \in Screens /\ E!Now.clock \in E!Clock
  BY <1>1, PumpSafe DEF ActInv
<1>4. /\ act' \in ActType /\ act'.policy = act.policy
      /\ act'.pc \in {"finish", "nap", "final"}
      /\ act'.pc = "final" => act.policy = "MayBeSilent"
      /\ act'.pc = "finish" /\ act'.settle = "Met" => Anchored(act'.policy, act'.at, act'.base)
  <2>1. CASE E!MetNow(act.policy, E!Now)
    <3> DEFINE a == [act EXCEPT !.pc = "finish", !.settle = "Met", !.at = E!Now.clock,
                       !.after = E!Now.shown]
    <3>1. act' = a
      BY <2>1 DEF E!Poll
    <3>2. /\ a \in ActType /\ a.policy = act.policy /\ a.pc = "finish"
          /\ a.at = E!Now.clock /\ a.base = act.base
      BY <1>2, <1>3 DEF ActType, E!Phases, E!Settles
    <3>3. Anchored(act.policy, E!Now.clock, act.base)
      BY <2>1, MetGives
    <3> HIDE DEF a
    <3> QED
      BY <3>1, <3>2, <3>3
  <2>2. CASE ~E!MetNow(act.policy, E!Now) /\ act.waited < E!Limit
    <3>1. act' = [act EXCEPT !.pc = "nap"]
      BY <2>2 DEF E!Poll
    <3> QED
      BY <1>2, <3>1 DEF ActType, E!Phases
  <2>3. CASE ~E!MetNow(act.policy, E!Now) /\ ~(act.waited < E!Limit) /\ act.policy = "MayBeSilent"
    <3>1. act' = [act EXCEPT !.pc = "final", !.settle = "Met"]
      BY <2>3 DEF E!Poll
    <3> QED
      BY <1>2, <2>3, <3>1 DEF ActType, E!Phases, E!Settles
  <2>4. CASE ~E!MetNow(act.policy, E!Now) /\ ~(act.waited < E!Limit) /\ act.policy # "MayBeSilent"
    <3>1. act' = [act EXCEPT !.pc = "finish", !.settle = "TimedOut", !.after = E!Now.shown]
      BY <2>4 DEF E!Poll
    <3> QED
      BY <1>2, <1>3, <3>1 DEF ActType, E!Phases, E!Settles
  <2> QED
    BY <2>1, <2>2, <2>3, <2>4
<1>5. PhaseInv'
  BY <1>2, <1>4, PhaseGives
<1>6. WindowInv'
  BY <1>1, <1>2, <1>4, InWindow
<1>7. AnchorInv'
  BY <1>1, <1>4, AnchorLeft DEF ActInv
<1> QED
  BY <1>3, <1>5, <1>6, <1>7 DEF ActInv

\* Fifteen milliseconds.
LEMMA NapStep ==
  ASSUME ActInv, E!Nap
  PROVE  ActInv'
<1> DEFINE waited == IF act.waited < Budget THEN act.waited + 1 ELSE act.waited
           pc == IF act.policy \in {"Event", "TextAppears"} THEN "look" ELSE "wait"
           still == IF term.still < Quiet THEN term.still + 1 ELSE term.still
<1>1. act.pc = "nap" /\ UNCHANGED <<child, sess, tx, log>>
  BY DEF E!Nap
<1>2. /\ act \in ActType /\ sess \in SessType /\ log \in LogType /\ Budget \in Nat /\ Quiet \in Nat
      /\ act.policy \in Policies /\ log.recorded = FALSE
  BY <1>1, ActFacts
<1>3. term \in TermType /\ term.still \in 0 .. Quiet /\ act.waited \in 0 .. Budget
  BY <1>2 DEF ActInv, ClockInv, TermType, ActType
<1>4. act' = [act EXCEPT !.waited = waited, !.pc = pc] /\ term' = [term EXCEPT !.still = still]
  BY <1>2, <1>3 DEF E!Nap, ActType, TermType
<1>5. waited \in 0 .. Budget /\ still \in 0 .. Quiet
  BY <1>2, <1>3
<1>6. pc \in {"look", "wait"} /\ (pc = "look" => act.policy \in {"Event", "TextAppears"})
  OBVIOUS
<1> HIDE DEF waited, pc, still
<1>7. act' \in ActType /\ act'.pc = pc /\ act'.policy = act.policy
  BY <1>2, <1>4, <1>5, <1>6 DEF ActType, E!Phases
<1>8. term' \in TermType /\ term'.clock = term.clock
  BY <1>3, <1>4, <1>5 DEF TermType
<1>9. ClockInv'
  BY <1>1, <1>8 DEF ActInv, ClockInv, ChildType, TermType, E!Unread, E!Clock, E!Chunks
<1>10. PhaseInv'
  BY <1>2, <1>6, <1>7, PhaseGives
<1>11. WindowInv'
  BY <1>1, <1>2, <1>6, <1>7, InWindow
<1>12. AnchorInv'
  BY <1>1, <1>6, <1>7, AnchorLeft DEF ActInv
<1> QED
  BY <1>9, <1>10, <1>11, <1>12 DEF ActInv

\* The loop takes the ingest.
LEMMA LookStep ==
  ASSUME ActInv, E!Look
  PROVE  ActInv'
<1>1. /\ act.pc = "look" /\ sess' = E!Absorbed(sess) /\ act' = [act EXCEPT !.pc = "check"]
      /\ UNCHANGED <<child, term, tx, log>>
  BY DEF E!Look
<1>2. /\ act \in ActType /\ sess \in SessType /\ log \in LogType
      /\ act.policy \in Policies /\ log.recorded = FALSE
  BY <1>1, ActFacts
<1>3. act.policy \in {"Event", "TextAppears"}
  BY <1>1 DEF ActInv, PhaseInv
<1>4. act' \in ActType /\ act'.pc = "check" /\ act'.policy = act.policy
  BY <1>1, <1>2 DEF ActType, E!Phases
<1>5. sess' \in SessType
  BY <1>1, <1>2, AbsorbedGives
<1>6. PhaseInv'
  BY <1>2, <1>3, <1>4, PhaseGives
<1>7. WindowInv'
  BY <1>1, <1>2, <1>4, <1>5, InWindow
<1>8. ClockInv' /\ AnchorInv'
  BY <1>1, <1>4, ClockLeft, AnchorLeft DEF ActInv
<1> QED
  BY <1>6, <1>7, <1>8 DEF ActInv

\* The loop reads the screen and decides.
LEMMA CheckStep ==
  ASSUME ActInv, E!Check
  PROVE  ActInv'
<1>1. act.pc = "check" /\ E!Pump /\ sess' = E!Advanced(sess, E!Now) /\ UNCHANGED <<tx, log>>
  BY DEF E!Check
<1>2. /\ act \in ActType /\ sess \in SessType /\ log \in LogType
      /\ act.policy \in Policies /\ log.recorded = FALSE
  BY <1>1, ActFacts
<1>3. act.policy \in {"Event", "TextAppears"}
  BY <1>1 DEF ActInv, PhaseInv
<1>4. ClockInv' /\ E!Now.shown \in Screens /\ E!Now \in TermType
  BY <1>1, PumpSafe DEF ActInv
<1>5. sess' \in SessType
  BY <1>1, <1>2, <1>4, AdvancedGives
<1>6. /\ act' \in ActType /\ act'.policy = act.policy /\ act'.pc \in {"final", "finish", "nap"}
      /\ act'.pc = "final" => act.policy = "Event"
  <2>1. CASE E!Matched \/ act.waited = Budget
    <3> DEFINE settle == IF E!Matched THEN "Met" ELSE "TimedOut"
               pc == IF act.policy = "Event" THEN "final" ELSE "finish"
    <3>1. act' = [act EXCEPT !.settle = settle, !.after = E!Now.shown, !.pc = pc]
      BY <2>1 DEF E!Check
    <3>2. settle \in E!Settles /\ pc \in {"final", "finish"} /\ (pc = "final" => act.policy = "Event")
      BY DEF E!Settles
    <3> HIDE DEF settle, pc
    <3> QED
      BY <1>2, <1>4, <3>1, <3>2 DEF ActType, E!Phases
  <2>2. CASE ~(E!Matched \/ act.waited = Budget)
    <3>1. act' = [act EXCEPT !.pc = "nap"]
      BY <2>2 DEF E!Check
    <3> QED
      BY <1>2, <3>1 DEF ActType, E!Phases
  <2> QED
    BY <2>1, <2>2
<1>7. PhaseInv'
  BY <1>2, <1>6, PhaseGives
<1>8. WindowInv'
  BY <1>1, <1>2, <1>5, <1>6, InWindow
<1>9. Anchored(act'.policy, act'.at, act'.base)
  BY <1>3, <1>6 DEF Anchored
<1>10. AnchorInv'
  BY <1>1, <1>9, AnchorLeft DEF ActInv
<1> QED
  BY <1>4, <1>7, <1>8, <1>10 DEF ActInv

\* One more observe.
LEMMA FinalStep ==
  ASSUME ActInv, E!Final
  PROVE  ActInv'
<1>1. /\ act.pc = "final" /\ E!Pump /\ sess' = E!Advanced(E!Absorbed(sess), E!Now)
      /\ act' = [act EXCEPT !.pc = "finish", !.after = E!Now.shown] /\ UNCHANGED <<tx, log>>
  BY DEF E!Final
<1>2. /\ act \in ActType /\ sess \in SessType /\ log \in LogType
      /\ act.policy \in Policies /\ log.recorded = FALSE
  BY <1>1, ActFacts
<1>3. act.policy \in {"Event", "MayBeSilent"}
  BY <1>1 DEF ActInv, PhaseInv
<1>4. ClockInv' /\ E!Now.shown \in Screens /\ E!Now \in TermType
  BY <1>1, PumpSafe DEF ActInv
<1>5. sess' \in SessType
  BY <1>1, <1>2, <1>4, AbsorbedGives, AdvancedGives
<1>6. act' \in ActType /\ act'.policy = act.policy /\ act'.pc = "finish"
  BY <1>1, <1>2, <1>4 DEF ActType, E!Phases
<1>7. PhaseInv'
  BY <1>2, <1>6, PhaseGives
<1>8. WindowInv'
  BY <1>1, <1>2, <1>5, <1>6, InWindow
<1>9. Anchored(act'.policy, act'.at, act'.base)
  BY <1>3, <1>6 DEF Anchored
<1>10. AnchorInv'
  BY <1>1, <1>9, AnchorLeft DEF ActInv
<1> QED
  BY <1>4, <1>7, <1>8, <1>10 DEF ActInv

\* The window closes and the sink takes or refuses the transaction.
LEMMA FinishStep ==
  ASSUME ActInv, E!Finish
  PROVE  ActInv'
<1>1. /\ act.pc = "finish" /\ E!Pump /\ act' = [act EXCEPT !.pc = "idle"]
      /\ sess' = [E!Absorbed(sess) EXCEPT !.muted = FALSE]
  BY DEF E!Finish
<1>2. /\ act \in ActType /\ sess \in SessType /\ log \in LogType
      /\ act.policy \in Policies /\ log.recorded = FALSE
  BY <1>1, ActFacts
<1>3. ClockInv'
  BY <1>1, PumpSafe DEF ActInv
<1>4. act' \in ActType /\ act'.pc = "idle"
  BY <1>1, <1>2 DEF ActType, E!Phases
<1>5. PhaseInv'
  BY <1>4, PhaseGives
<1>6. sess' \in SessType /\ ~sess'.muted
  <2> DEFINE s == E!Absorbed(sess)
  <2>1. s \in SessType /\ sess' = [s EXCEPT !.muted = FALSE]
    BY <1>1, <1>2, AbsorbedGives
  <2> HIDE DEF s
  <2> QED
    BY <2>1 DEF SessType
<1>7. CASE tx' = E!Transaction("Sent", act.settle) /\ log' = [log EXCEPT !.answer = "ok", !.recorded = TRUE]
  <2>1. "Sent" \in E!Statuses /\ act.settle \in E!Settles
    BY <1>2 DEF E!Statuses, ActType
  <2>2. /\ tx' \in TxType /\ tx'.status = "Sent" /\ tx'.settle = act.settle
        /\ tx'.policy = act.policy /\ tx'.base = act.base /\ tx'.clock = act.at
    BY <1>2, <1>7, <2>1, TransactionGives
  <2>3. log' \in LogType
    BY <1>2, <1>7 DEF LogType
  <2>4. WindowInv'
    BY <1>4, <1>6, <2>2, <2>3 DEF WindowInv, SessType, E!Event, LogType, TxType, E!Statuses,
       E!Settles, E!Clock
  <2>5. act.settle = "Met" => Anchored(act.policy, act.at, act.base)
    BY <1>1 DEF ActInv, AnchorInv
  <2>6. AnchorInv'
    BY <1>4, <2>2, <2>5 DEF AnchorInv, Anchored, E!Interaction
  <2> QED
    BY <1>3, <1>5, <2>4, <2>6 DEF ActInv
<1>8. CASE log' = [log EXCEPT !.answer = "refused"] /\ UNCHANGED tx
  <2>1. log' \in LogType /\ ~log'.recorded
    BY <1>2, <1>8 DEF LogType
  <2>2. WindowInv'
    BY <1>4, <1>6, <1>8, <2>1, WindowShut
  <2>3. AnchorInv'
    BY <1>4, <1>8, AnchorLeft DEF ActInv
  <2> QED
    BY <1>3, <1>5, <2>2, <2>3 DEF ActInv
<1> QED
  BY <1>7, <1>8 DEF E!Finish

\* Every step of an act and around it keeps the invariant.
LEMMA ActNext ==
  ASSUME ActInv, SentInv, E!Next
  PROVE  ActInv'
<1>1. CASE E!Emit
  BY <1>1, EmitStep
<1>2. CASE E!Exit
  BY <1>2, ExitStep
<1>3. CASE E!Restart
  BY <1>3, RestartStep
<1>4. CASE E!Observe
  BY <1>4, ObserveStep
<1>5. CASE \E p \in Policies, guarded \in BOOLEAN : E!Begin(p, guarded)
  BY <1>5, BeginStep
<1>6. CASE E!Preflight
  BY <1>6, PreflightStep
<1>7. CASE E!Offset
  BY <1>7, OffsetStep
<1>8. CASE E!DispatchFails
  BY <1>8, DispatchFailsStep
<1>9. CASE E!Dispatch
  BY <1>9, DispatchStep
<1>10. CASE E!Unsupported
  BY <1>10, FailStep DEF E!Unsupported
<1>11. CASE E!Poll
  BY <1>11, PollStep
<1>12. CASE E!Nap
  BY <1>12, NapStep
<1>13. CASE E!Look
  BY <1>13, LookStep
<1>14. CASE E!Check
  BY <1>14, CheckStep
<1>15. CASE E!Final
  BY <1>15, FinalStep
<1>16. CASE E!EngineFails
  BY <1>16, FailStep DEF E!EngineFails
<1>17. CASE E!Finish
  BY <1>17, FinishStep
<1> QED
  BY <1>1, <1>2, <1>3, <1>4, <1>5, <1>6, <1>7, <1>8, <1>9, <1>10, <1>11, <1>12, <1>13, <1>14,
     <1>15, <1>16, <1>17 DEF E!Next, E!Step

\* An act begins before it writes, and leaves its dispatch by its only write.
LEMMA SentNext ==
  ASSUME ActInv, SentInv, E!Next
  PROVE  SentInv'
<1>1. /\ child \in ChildType /\ child.got \in Nat /\ act \in ActType /\ act.acts \in Nat
  BY EngineAssumption DEF ActInv, ClockInv, PhaseInv, ChildType, ActType
<1>2. E!Pump => child'.got = child.got
  BY <1>1 DEF E!Pump, ChildType
<1>3. ASSUME UNCHANGED act, child'.got = child.got PROVE SentInv'
  BY <1>3 DEF SentInv
<1>4. ASSUME act'.acts = act.acts, child'.got = child.got,
             act'.pc \in {"preflight", "offset", "dispatch"} =>
               act.pc \in {"preflight", "offset", "dispatch"}
      PROVE  SentInv'
  BY <1>4 DEF SentInv
<1>5. CASE E!Emit
  <2>1. child'.got = child.got /\ UNCHANGED act
    BY <1>1, <1>5 DEF E!Emit, ChildType
  <2> QED
    BY <2>1, <1>3
<1>6. CASE E!Exit
  BY <1>1, <1>3, <1>6 DEF E!Exit, ChildType
<1>7. CASE E!Restart
  BY <1>1, <1>3, <1>7 DEF E!Restart, ChildType
<1>8. CASE E!Observe
  BY <1>2, <1>3, <1>8 DEF E!Observe
<1>9. CASE \E p \in Policies, guarded \in BOOLEAN : E!Begin(p, guarded)
  <2>1. PICK p \in Policies, guarded \in BOOLEAN : E!Begin(p, guarded)
    BY <1>9
  <2>2. /\ child' = child /\ act' = [act EXCEPT !.pc = "preflight", !.policy = p,
             !.guarded = guarded, !.acts = act.acts + 1, !.waited = 0]
    BY <1>1, <2>1 DEF E!Begin, ActType
  <2>3. act'.acts = act.acts + 1
    BY <1>1, <2>2 DEF ActType
  <2> QED
    BY <1>1, <2>2, <2>3 DEF SentInv
<1>10. CASE E!Dispatch
  <2>1. act.pc = "dispatch" /\ child' = [child EXCEPT !.wire = <<>>, !.got = child.got + 1]
    BY <1>1, <1>10 DEF E!Dispatch, ChildType
  <2>2. child'.got = child.got + 1
    BY <1>1, <2>1 DEF ChildType
  <2>3. act'.acts = act.acts /\ act'.pc \in {"finish", "look", "wait"}
    BY <1>1, <1>10 DEF E!Dispatch, ActType
  <2> QED
    BY <1>1, <2>1, <2>2, <2>3 DEF SentInv
<1>11. CASE E!Preflight
  <2>1. act.pc = "preflight" /\ act'.acts = act.acts
    BY <1>1, <1>11 DEF E!Preflight, ActType
  <2> QED
    BY <1>2, <1>4, <1>11, <2>1 DEF E!Preflight
<1>12. CASE E!Offset
  <2>1. act.pc = "offset" /\ act'.acts = act.acts
    BY <1>1, <1>12 DEF E!Offset, ActType
  <2> QED
    BY <1>2, <1>4, <1>12, <2>1 DEF E!Offset
<1>13. CASE E!DispatchFails
  BY <1>1, <1>2, <1>4, <1>13 DEF E!DispatchFails, ActType
<1>14. CASE E!Unsupported \/ E!EngineFails
  BY <1>1, <1>4, <1>14 DEF E!Unsupported, E!EngineFails, E!Fail, ActType
<1>15. CASE E!Poll
  <2>1. act'.acts = act.acts /\ act'.pc \in {"finish", "nap", "final"}
    BY <1>1, <1>15 DEF E!Poll, ActType
  <2> QED
    BY <1>2, <1>4, <1>15, <2>1 DEF E!Poll
<1>16. CASE E!Nap
  <2>1. act'.acts = act.acts /\ act'.pc \in {"look", "wait"}
    BY <1>1, <1>16 DEF E!Nap, ActType
  <2> QED
    BY <1>4, <1>16, <2>1 DEF E!Nap
<1>17. CASE E!Look
  BY <1>1, <1>4, <1>17 DEF E!Look, ActType
<1>18. CASE E!Check
  <2>1. act'.acts = act.acts /\ act'.pc \in {"final", "finish", "nap"}
    BY <1>1, <1>18 DEF E!Check, ActType
  <2> QED
    BY <1>2, <1>4, <1>18, <2>1 DEF E!Check
<1>19. CASE E!Final \/ E!Finish
  BY <1>1, <1>2, <1>4, <1>19 DEF E!Final, E!Finish, ActType
<1> QED
  BY <1>5, <1>6, <1>7, <1>8, <1>9, <1>10, <1>11, <1>12, <1>13, <1>14, <1>15, <1>16, <1>17, <1>18,
     <1>19 DEF E!Next, E!Step

\* A behaviour of the other component leaves the act alone.
LEMMA ActLeft ==
  ASSUME ActInv, SentInv, UNCHANGED actVars
  PROVE  ActInv' /\ SentInv'
<1>1. UNCHANGED <<act, tx, log, sess, child, term>>
  BY DEF actVars
<1>2. ClockInv'
  BY <1>1, ClockLeft DEF ActInv
<1>3. sess' \in SessType /\ sess'.muted = sess.muted
  BY <1>1 DEF ActInv, WindowInv
<1>4. ActInv'
  BY <1>1, <1>2, <1>3, OutsideStep
<1>5. SentInv'
  BY <1>1 DEF SentInv
<1> QED
  BY <1>4, <1>5

\* Executor: whatever way an act ends its recording is on again, a failure
\* before the write has not written, and what the sink took as met happened
\* after the baseline of its act (executor.rs, ActTransactionGuard).
THEOREM ActsAreHonest == Spec => []ActHonest
<1>1. Init => ActInv /\ SentInv
  <2> SUFFICES ASSUME Init PROVE ActInv /\ SentInv
    OBVIOUS
  <2>1. ActInv
    BY ActInit DEF Init
  <2>2. SentInv
    BY DEF Init, E!Init, SentInv
  <2> QED
    BY <2>1, <2>2
<1>2. ActInv /\ SentInv /\ [Next]_<<part, actVars, nativeVars>> => ActInv' /\ SentInv'
  <2> SUFFICES ASSUME ActInv, SentInv, [Next]_<<part, actVars, nativeVars>>
               PROVE  ActInv' /\ SentInv'
    OBVIOUS
  <2>1. CASE E!Next
    BY <2>1, ActNext, SentNext
  <2>2. CASE UNCHANGED actVars
    BY <2>2, ActLeft
  <2> QED
    BY <2>1, <2>2 DEF Next
<1>3. ActInv => ActHonest
  BY ActSafe DEF ActHonest
<1> QED
  BY <1>1, <1>2, <1>3, PTL DEF Spec

-----------------------------------------------------------------------------
(* The native channel.                                                     *)

Pcs == file.pieces
Size == Len(file.pieces)

\* The pieces are in the order of the application, an end follows its head,
\* and nothing in the file is of a frame the application has not begun.
PieceInv ==
  /\ \A m, n \in 1 .. Size : m < n => Pcs[m].frame <= Pcs[n].frame
  /\ \A m, n \in 1 .. Size : m < n /\ Pcs[n].head => Pcs[m].frame < Pcs[n].frame
  /\ \A n \in 1 .. Size :
       ~Pcs[n].head => /\ n > 1 /\ Pcs[n].end /\ Pcs[n - 1].frame = Pcs[n].frame
                       /\ Pcs[n - 1].head /\ ~Pcs[n - 1].end
  /\ \A n \in 1 .. Size :
       \/ Pcs[n].frame < app.next
       \/ Pcs[n].frame = app.next /\ app.half /\ ~Pcs[n].end
  /\ \A n \in 1 .. Size : Pcs[n].kind = "invalid" => Pcs[n].frame \in app.bad

\* A frame half written is the last thing in the file it is written to.
HalfInv ==
  app.half => /\ app.next <= MaxFrames /\ app.inode <= file.inode
              /\ app.kind = "invalid" => app.next \in app.bad
              /\ app.inode = file.inode =>
                   Size > 0 /\ Pcs[Size].frame = app.next /\ Pcs[Size].head /\ ~Pcs[Size].end

\* What is missing from the file after its first frame is lost, and so is a
\* frame that will never have its end.
GapInv ==
  /\ \A n \in 1 .. Size : \A f \in Pcs[n].frame + 1 .. app.next - 1 :
       f \in lost \/ \E m \in 1 .. Size : Pcs[m].frame = f
  /\ \A n \in 1 .. Size :
       Pcs[n].end \/ Pcs[n].frame \in lost \/ (app.half /\ Pcs[n].frame = app.next)
       \/ (n < Size /\ ~Pcs[n + 1].head)

\* The channel has read up to the end of a line; the copied tail is what it
\* had not read, and what was written after the copy is lost.
OffsetInv ==
  /\ chan.consumed <= Size
  /\ chan.consumed > 0 => Pcs[chan.consumed].end
  /\ tail # None =>
       /\ chan.consumed + Len(tail) <= Size
       /\ \A i \in 1 .. Len(tail) : tail[i] = Pcs[chan.consumed + i]
       /\ \A n \in 1 .. Size : n > chan.consumed + Len(tail) => Pcs[n].frame \in lost

\* Before everything the channel has not read yet.
Behind(x) ==
  x < app.next /\ \A n \in 1 .. Size : n > chan.consumed => x < Pcs[n].frame

\* The session has absorbed all the ring was given, in order.
RingInv ==
  /\ watermark = chan.seq /\ Len(chan.ring) <= chan.seq
  /\ chan.ring = <<>> => chan.seq = 0
  /\ Behind(chan.seq)
  /\ \A n \in DOMAIN queue : Behind(queue[n].frame)

NativeInv ==
  /\ N!TypeOK /\ N!NativeOrder /\ N!NativeAccounted
  /\ PieceInv /\ HalfInv /\ GapInv /\ OffsetInv /\ RingInv

\* It says what the run checks.
LEMMA NativeSafe ==
  ASSUME NativeInv
  PROVE  N!TypeOK /\ N!NativeOrder /\ N!NativeAccounted
BY DEF NativeInv

\* The types of what the steps read.
LEMMA NativeFacts ==
  ASSUME NativeInv
  PROVE  /\ MaxFrames \in Nat /\ Ring \in Nat /\ Ring >= 1 /\ MaxGen \in Nat
         /\ Pcs \in Seq(N!Pieces) /\ Size \in Nat /\ file.inode \in Nat
         /\ file = [inode |-> file.inode, pieces |-> Pcs]
         /\ \A n \in 1 .. Size : Pcs[n] \in N!Pieces /\ Pcs[n].frame \in Nat
         /\ app.next \in Nat /\ app.next >= 1 /\ app.next <= MaxFrames + 1 /\ app.half \in BOOLEAN
         /\ app.first \in Nat /\ app.inode \in Nat /\ app.kind \in N!Kinds
         /\ app.bad \subseteq N!Frames /\ lost \subseteq N!Frames
         /\ chan.consumed \in Nat /\ chan.seq \in Nat /\ chan.ring \in Seq(N!Frames)
         /\ queue \in Seq(N!Queued) /\ gen \in 1 .. MaxGen
<1>1. N!TypeOK
  BY DEF NativeInv
<1>2. /\ file \in [inode : Nat, pieces : Seq(N!Pieces)]
      /\ chan \in [consumed : Nat, latest : N!Frames \cup {None}, ring : Seq(N!Frames),
                   seq : 0 .. MaxFrames, accepted : SUBSET N!Frames, refused : SUBSET N!Frames]
      /\ app \in [next : 1 .. MaxFrames + 1, kind : N!Kinds, half : BOOLEAN, inode : Nat,
                  bad : SUBSET N!Frames, first : 1 .. MaxFrames + 1]
      /\ queue \in Seq(N!Queued) /\ gen \in 1 .. MaxGen /\ lost \subseteq N!Frames
  BY <1>1 DEF N!TypeOK
<1>3. MaxFrames \in Nat /\ Ring \in Nat /\ Ring >= 1 /\ MaxGen \in Nat
  BY EngineAssumption
<1>4. /\ Pcs \in Seq(N!Pieces) /\ Size \in Nat /\ file.inode \in Nat
      /\ file = [inode |-> file.inode, pieces |-> Pcs]
  BY <1>2 DEF Pcs, Size
<1>5. ASSUME NEW n \in 1 .. Size PROVE Pcs[n] \in N!Pieces /\ Pcs[n].frame \in Nat
  <2>1. Pcs[n] \in N!Pieces
    BY <1>4 DEF Pcs, Size
  <2> QED
    BY <1>3, <2>1 DEF N!Pieces, N!Frames
<1>6. /\ app.next \in Nat /\ app.next >= 1 /\ app.next <= MaxFrames + 1 /\ app.half \in BOOLEAN
      /\ app.first \in Nat /\ app.inode \in Nat /\ app.kind \in N!Kinds /\ app.bad \subseteq N!Frames
  BY <1>2, <1>3
<1>7. chan.consumed \in Nat /\ chan.seq \in Nat /\ chan.ring \in Seq(N!Frames)
  BY <1>2, <1>3
<1> QED
  BY <1>2, <1>3, <1>4, <1>5, <1>6, <1>7

\* A longer file.
LEMMA Longer ==
  ASSUME NativeInv, NEW p \in N!Pieces, file' = [file EXCEPT !.pieces = Append(@, p)]
  PROVE  /\ Pcs' \in Seq(N!Pieces) /\ Size' = Size + 1 /\ file'.inode = file.inode
         /\ \A n \in 1 .. Size : Pcs'[n] = Pcs[n]
         /\ Pcs'[Size + 1] = p
         /\ file' \in [inode : Nat, pieces : Seq(N!Pieces)]
<1>1. Pcs \in Seq(N!Pieces) /\ Size \in Nat /\ file.inode \in Nat /\ Size = Len(Pcs)
      /\ file = [inode |-> file.inode, pieces |-> Pcs]
  BY NativeFacts DEF Pcs, Size
<1> DEFINE more == Append(Pcs, p)
<1>2. /\ more \in Seq(N!Pieces) /\ Len(more) = Size + 1
      /\ \A n \in 1 .. Size : more[n] = Pcs[n]
      /\ more[Size + 1] = p
  BY <1>1
<1>3. file' = [inode |-> file.inode, pieces |-> more]
  BY <1>1 DEF Pcs
<1> HIDE DEF more
<1>4. Pcs' = more /\ Size' = Len(more) /\ file'.inode = file.inode
  BY <1>3 DEF Pcs, Size
<1>5. file' \in [inode : Nat, pieces : Seq(N!Pieces)]
  BY <1>1, <1>2, <1>3, SMTT(30)
<1>6. Pcs' \in Seq(N!Pieces) /\ Size' = Size + 1 /\ Pcs'[Size + 1] = p
  BY <1>2, <1>4
<1>7. \A n \in 1 .. Size : Pcs'[n] = Pcs[n]
  BY <1>2, <1>4
<1> QED
  BY <1>4, <1>5, <1>6, <1>7

\* The application appends a piece of its frame to the file on the path.
Appending(p) ==
  /\ file' = [file EXCEPT !.pieces = Append(@, p)]
  /\ p.frame = app.next /\ app.next <= MaxFrames
  /\ p.head => ~app.half
  /\ ~p.head => app.half /\ app.inode = file.inode /\ p.end
  /\ app'.half = ~p.end /\ app'.inode = file.inode /\ app'.first = app.first
  /\ app'.next = IF p.end THEN app.next + 1 ELSE app.next
  /\ app.bad \subseteq app'.bad
  /\ p.kind = "invalid" \/ app'.kind = "invalid" => app.next \in app'.bad
  /\ lost \subseteq lost' /\ (tail # None => app.next \in lost')
  /\ UNCHANGED <<chan, tail, queue, watermark>>

\* The order of the pieces.
LEMMA AppendingPieces ==
  ASSUME NativeInv, NEW p \in N!Pieces, Appending(p)
  PROVE  PieceInv'
<1>1. /\ Size \in Nat /\ Size' = Size + 1 /\ Pcs'[Size + 1] = p
      /\ \A n \in 1 .. Size : Pcs'[n] = Pcs[n] /\ Pcs[n].frame \in Nat
      /\ app.next \in Nat
  BY NativeFacts, Longer DEF Appending
<1>2. p.frame = app.next /\ p.head \in BOOLEAN /\ p.end \in BOOLEAN
  BY DEF Appending, N!Pieces
<1>3. /\ p.head => ~app.half
      /\ ~p.head => /\ p.end /\ Size > 0 /\ Pcs[Size].frame = app.next
                    /\ Pcs[Size].head /\ ~Pcs[Size].end
  BY DEF Appending, NativeInv, HalfInv
<1>4. \A n \in 1 .. Size : Pcs[n].frame <= app.next /\ (~app.half => Pcs[n].frame < app.next)
  BY <1>1 DEF NativeInv, PieceInv
<1>5. \A m, n \in 1 .. Size' : m < n => Pcs'[m].frame <= Pcs'[n].frame
  <2> SUFFICES ASSUME NEW m \in 1 .. Size', NEW n \in 1 .. Size', m < n
               PROVE  Pcs'[m].frame <= Pcs'[n].frame
    OBVIOUS
  <2>1. m \in 1 .. Size
    BY <1>1
  <2>2. CASE n = Size + 1
    BY <1>1, <1>2, <1>4, <2>1, <2>2
  <2>3. CASE n \in 1 .. Size
    BY <1>1, <2>1, <2>3 DEF NativeInv, PieceInv
  <2> QED
    BY <1>1, <2>2, <2>3
<1>6. \A m, n \in 1 .. Size' : m < n /\ Pcs'[n].head => Pcs'[m].frame < Pcs'[n].frame
  <2> SUFFICES ASSUME NEW m \in 1 .. Size', NEW n \in 1 .. Size', m < n, Pcs'[n].head
               PROVE  Pcs'[m].frame < Pcs'[n].frame
    OBVIOUS
  <2>1. m \in 1 .. Size
    BY <1>1
  <2>2. CASE n = Size + 1
    BY <1>1, <1>2, <1>3, <1>4, <2>1, <2>2
  <2>3. CASE n \in 1 .. Size
    BY <1>1, <2>1, <2>3 DEF NativeInv, PieceInv
  <2> QED
    BY <1>1, <2>2, <2>3
<1>7. \A n \in 1 .. Size' :
        ~Pcs'[n].head => /\ n > 1 /\ Pcs'[n].end /\ Pcs'[n - 1].frame = Pcs'[n].frame
                         /\ Pcs'[n - 1].head /\ ~Pcs'[n - 1].end
  <2> SUFFICES ASSUME NEW n \in 1 .. Size', ~Pcs'[n].head
               PROVE  /\ n > 1 /\ Pcs'[n].end /\ Pcs'[n - 1].frame = Pcs'[n].frame
                      /\ Pcs'[n - 1].head /\ ~Pcs'[n - 1].end
    OBVIOUS
  <2>1. CASE n = Size + 1
    BY <1>1, <1>2, <1>3, <2>1
  <2>2. CASE n \in 1 .. Size
    <3>1. ~Pcs[n].head /\ Pcs'[n] = Pcs[n]
      BY <1>1, <2>2
    <3>2. n > 1 /\ Pcs[n].end /\ Pcs[n - 1].frame = Pcs[n].frame /\ Pcs[n - 1].head /\ ~Pcs[n - 1].end
      BY <2>2, <3>1 DEF NativeInv, PieceInv
    <3>3. n - 1 \in 1 .. Size
      BY <1>1, <2>2, <3>2
    <3> QED
      BY <1>1, <3>1, <3>2, <3>3
  <2> QED
    BY <1>1, <2>1, <2>2
<1>8. \A n \in 1 .. Size' :
        \/ Pcs'[n].frame < app'.next
        \/ Pcs'[n].frame = app'.next /\ app'.half /\ ~Pcs'[n].end
  <2> SUFFICES ASSUME NEW n \in 1 .. Size'
               PROVE  \/ Pcs'[n].frame < app'.next
                      \/ Pcs'[n].frame = app'.next /\ app'.half /\ ~Pcs'[n].end
    OBVIOUS
  <2>1. app'.next = (IF p.end THEN app.next + 1 ELSE app.next) /\ app'.half = ~p.end
    BY DEF Appending
  <2>2. CASE n = Size + 1
    <3>1. Pcs'[n] = p
      BY <1>1, <2>2
    <3>2. CASE p.end
      BY <1>1, <1>2, <2>1, <3>1, <3>2
    <3>3. CASE ~p.end
      BY <1>2, <2>1, <3>1, <3>3
    <3> QED
      BY <3>2, <3>3
  <2>3. CASE n \in 1 .. Size
    <3>1. CASE p.end
      BY <1>1, <1>4, <2>1, <2>3, <3>1
    <3>2. CASE ~p.end
      BY <1>1, <1>2, <1>3, <1>4, <2>1, <2>3, <3>2
    <3> QED
      BY <3>1, <3>2
  <2> QED
    BY <1>1, <2>2, <2>3
<1>9. \A n \in 1 .. Size' : Pcs'[n].kind = "invalid" => Pcs'[n].frame \in app'.bad
  <2> SUFFICES ASSUME NEW n \in 1 .. Size', Pcs'[n].kind = "invalid"
               PROVE  Pcs'[n].frame \in app'.bad
    OBVIOUS
  <2>1. CASE n = Size + 1
    BY <1>1, <1>2, <2>1 DEF Appending
  <2>2. CASE n \in 1 .. Size
    <3>1. Pcs[n].frame \in app.bad
      BY <1>1, <2>2 DEF NativeInv, PieceInv
    <3> QED
      BY <1>1, <2>2, <3>1 DEF Appending
  <2> QED
    BY <1>1, <2>1, <2>2
<1> QED
  BY <1>5, <1>6, <1>7, <1>8, <1>9 DEF PieceInv

\* A step of the application leaves its half frame at the end of the file.
LEMMA AppendingHalf ==
  ASSUME NativeInv, NEW p \in N!Pieces, Appending(p)
  PROVE  HalfInv'
<1>1. /\ Size \in Nat /\ Size' = Size + 1 /\ Pcs'[Size + 1] = p
      /\ app.next \in Nat /\ file.inode \in Nat /\ file'.inode = file.inode
  BY NativeFacts, Longer DEF Appending
<1>2. CASE p.end
  <2>1. ~app'.half
    BY <1>2 DEF Appending
  <2> QED
    BY <2>1 DEF HalfInv
<1>3. CASE ~p.end
  <2>1. /\ p.head /\ p.frame = app.next /\ app'.next = app.next /\ app.next <= MaxFrames
        /\ app'.inode = file.inode
        /\ app'.kind = "invalid" => app.next \in app'.bad
    BY <1>3 DEF Appending, N!Pieces
  <2>2. Size' > 0 /\ Pcs'[Size'].frame = app'.next /\ Pcs'[Size'].head /\ ~Pcs'[Size'].end
    BY <1>1, <1>3, <2>1
  <2> QED
    BY <1>1, <2>1, <2>2 DEF HalfInv
<1> QED
  BY <1>2, <1>3

\* It fills no gap and opens none.
LEMMA AppendingGaps ==
  ASSUME NativeInv, NEW p \in N!Pieces, Appending(p)
  PROVE  GapInv'
<1>1. /\ Size \in Nat /\ Size' = Size + 1 /\ Pcs'[Size + 1] = p
      /\ \A n \in 1 .. Size : Pcs'[n] = Pcs[n] /\ Pcs[n].frame \in Nat
      /\ app.next \in Nat
  BY NativeFacts, Longer DEF Appending
<1>2. /\ p.frame = app.next /\ p.head \in BOOLEAN /\ p.end \in BOOLEAN /\ lost \subseteq lost'
      /\ p.end => app'.next = app.next + 1
      /\ ~p.end => app'.next = app.next /\ app'.half = TRUE
  BY DEF Appending, N!Pieces
<1>3. /\ p.head => ~app.half
      /\ ~p.head => /\ p.end /\ Size > 0 /\ Pcs[Size].frame = app.next
                    /\ Pcs[Size].head /\ ~Pcs[Size].end
  BY DEF Appending, NativeInv, HalfInv
<1>4. \A n \in 1 .. Size' : \A f \in Pcs'[n].frame + 1 .. app'.next - 1 :
        f \in lost' \/ \E m \in 1 .. Size' : Pcs'[m].frame = f
  <2> SUFFICES ASSUME NEW n \in 1 .. Size', NEW f \in Pcs'[n].frame + 1 .. app'.next - 1
               PROVE  f \in lost' \/ \E m \in 1 .. Size' : Pcs'[m].frame = f
    OBVIOUS
  <2>1. Size + 1 \in 1 .. Size' /\ \A m \in 1 .. Size : m \in 1 .. Size'
    BY <1>1
  <2>2. CASE f = app.next
    BY <1>1, <1>2, <2>1, <2>2
  <2>3. CASE f # app.next
    <3>1. /\ f \in Int /\ Pcs'[n].frame \in Nat /\ f >= Pcs'[n].frame + 1 /\ app'.next \in Nat
          /\ f <= app'.next - 1
      BY <1>1, <1>2
    <3>2. f <= app.next - 1
      BY <1>1, <1>2, <2>3, <3>1
    <3>3. n # Size + 1
      BY <1>1, <1>2, <3>1, <3>2
    <3>4. n \in 1 .. Size /\ f \in Pcs[n].frame + 1 .. app.next - 1
      BY <1>1, <3>1, <3>2, <3>3
    <3>5. f \in lost \/ \E m \in 1 .. Size : Pcs[m].frame = f
      BY <3>4 DEF NativeInv, GapInv
    <3> QED
      BY <1>1, <1>2, <2>1, <3>5
  <2> QED
    BY <2>2, <2>3
<1>5. \A n \in 1 .. Size' :
        Pcs'[n].end \/ Pcs'[n].frame \in lost' \/ (app'.half /\ Pcs'[n].frame = app'.next)
        \/ (n < Size' /\ ~Pcs'[n + 1].head)
  <2> SUFFICES ASSUME NEW n \in 1 .. Size', ~Pcs'[n].end, Pcs'[n].frame \notin lost'
               PROVE  (app'.half /\ Pcs'[n].frame = app'.next) \/ (n < Size' /\ ~Pcs'[n + 1].head)
    OBVIOUS
  <2>1. CASE n = Size + 1
    BY <1>1, <1>2, <2>1
  <2>2. CASE n \in 1 .. Size
    <3>1. ~Pcs[n].end /\ Pcs[n].frame \notin lost
      BY <1>1, <1>2, <2>2
    <3>2. (app.half /\ Pcs[n].frame = app.next) \/ (n < Size /\ ~Pcs[n + 1].head)
      BY <2>2, <3>1 DEF NativeInv, GapInv
    <3>3. CASE n < Size /\ ~Pcs[n + 1].head
      <4>1. n + 1 \in 1 .. Size /\ n < Size'
        BY <1>1, <3>3
      <4> QED
        BY <1>1, <3>3, <4>1
    <3>4. CASE app.half /\ Pcs[n].frame = app.next
      <4>1. ~p.head
        BY <1>3, <3>4
      <4>2. n = Size
        <5>1. Size \in 1 .. Size /\ Pcs[Size].head /\ Pcs[Size].frame = app.next
          BY <1>1, <1>3, <4>1
        <5>2. n < Size => Pcs[n].frame < Pcs[Size].frame
          BY <2>2, <5>1 DEF NativeInv, PieceInv
        <5>3. ~(n < Size)
          BY <1>1, <2>2, <3>4, <5>1, <5>2
        <5> QED
          BY <1>1, <2>2, <5>3
      <4> QED
        BY <1>1, <4>1, <4>2
    <3> QED
      BY <3>2, <3>3, <3>4
  <2> QED
    BY <1>1, <2>1, <2>2
<1> QED
  BY <1>4, <1>5 DEF GapInv

\* What the channel has read, and the tail it has copied, are where they were.
LEMMA AppendingOffset ==
  ASSUME NativeInv, NEW p \in N!Pieces, Appending(p)
  PROVE  OffsetInv'
<1>1. /\ Size \in Nat /\ Size' = Size + 1 /\ Pcs'[Size + 1] = p
      /\ \A n \in 1 .. Size : Pcs'[n] = Pcs[n]
      /\ chan.consumed \in Nat
  BY NativeFacts, Longer DEF Appending
<1>2. /\ p.frame = app.next /\ lost \subseteq lost' /\ (tail # None => app.next \in lost')
      /\ UNCHANGED <<chan, tail>>
  BY DEF Appending
<1>3. /\ chan.consumed <= Size
      /\ chan.consumed > 0 => Pcs[chan.consumed].end
  BY DEF NativeInv, OffsetInv
<1>4. chan'.consumed <= Size' /\ (chan'.consumed > 0 => Pcs'[chan'.consumed].end)
  <2>1. chan.consumed > 0 => chan.consumed \in 1 .. Size
    BY <1>1, <1>3
  <2> QED
    BY <1>1, <1>2, <1>3, <2>1
<1>5. ASSUME tail # None
      PROVE  /\ chan.consumed + Len(tail) <= Size'
             /\ \A i \in 1 .. Len(tail) : tail[i] = Pcs'[chan.consumed + i]
             /\ \A n \in 1 .. Size' : n > chan.consumed + Len(tail) => Pcs'[n].frame \in lost'
  <2>1. tail \in Seq(N!Pieces)
    BY <1>5 DEF NativeInv, N!TypeOK
  <2>2. Len(tail) \in Nat
    BY <2>1
  <2>3. /\ chan.consumed + Len(tail) <= Size
        /\ \A i \in 1 .. Len(tail) : tail[i] = Pcs[chan.consumed + i]
        /\ \A n \in 1 .. Size : n > chan.consumed + Len(tail) => Pcs[n].frame \in lost
    BY <1>5 DEF NativeInv, OffsetInv
  <2>4. \A i \in 1 .. Len(tail) : chan.consumed + i \in 1 .. Size
    BY <1>1, <2>2, <2>3
  <2>5. ASSUME NEW n \in 1 .. Size', n > chan.consumed + Len(tail) PROVE Pcs'[n].frame \in lost'
    <3>1. n \in 1 .. Size \/ n = Size + 1
      BY <1>1
    <3> QED
      BY <1>1, <1>2, <1>5, <2>3, <2>5, <3>1
  <2>6. chan.consumed + Len(tail) <= Size'
    BY <1>1, <2>2, <2>3
  <2>7. \A i \in 1 .. Len(tail) : tail[i] = Pcs'[chan.consumed + i]
    BY <1>1, <2>3, <2>4
  <2> QED
    BY <2>5, <2>6, <2>7
<1> QED
  BY <1>2, <1>4, <1>5 DEF OffsetInv

\* What was absorbed stays behind what is unread.
LEMMA AppendingRing ==
  ASSUME NativeInv, NEW p \in N!Pieces, Appending(p)
  PROVE  RingInv'
<1>1. /\ Size \in Nat /\ Size' = Size + 1 /\ Pcs'[Size + 1] = p
      /\ \A n \in 1 .. Size : Pcs'[n] = Pcs[n]
      /\ app.next \in Nat
  BY NativeFacts, Longer DEF Appending
<1>2. /\ p.frame = app.next /\ p.end \in BOOLEAN
      /\ app'.next = IF p.end THEN app.next + 1 ELSE app.next
      /\ UNCHANGED <<chan, queue, watermark>>
  BY DEF Appending, N!Pieces
<1>3. ASSUME NEW x \in Nat, Behind(x) PROVE Behind(x)'
  <2>1. x < app.next /\ \A n \in 1 .. Size : n > chan.consumed => x < Pcs[n].frame
    BY <1>3 DEF Behind
  <2>2. x < app'.next
    BY <1>1, <1>2, <2>1
  <2>3. ASSUME NEW n \in 1 .. Size', n > chan'.consumed PROVE x < Pcs'[n].frame
    <3>1. n \in 1 .. Size \/ n = Size + 1
      BY <1>1
    <3> QED
      BY <1>1, <1>2, <2>1, <2>3, <3>1
  <2> QED
    BY <2>2, <2>3 DEF Behind
<1>4. chan.seq \in Nat /\ \A n \in DOMAIN queue : queue[n].frame \in Nat
  <2>1. chan.seq \in Nat /\ queue \in Seq(N!Queued) /\ MaxFrames \in Nat
    BY NativeFacts
  <2>2. \A n \in DOMAIN queue : queue[n] \in N!Queued
    BY <2>1
  <2> QED
    BY <2>1, <2>2 DEF N!Queued, N!Frames
<1>5. Behind(chan.seq) /\ \A n \in DOMAIN queue : Behind(queue[n].frame)
  BY DEF NativeInv, RingInv
<1>6. Behind(chan.seq)' /\ \A n \in DOMAIN queue : Behind(queue[n].frame)'
  <2>1. Behind(chan.seq)'
    <3> DEFINE x == chan.seq
    <3>1. x' = x
      BY <1>2
    <3>2. Behind(x)
      BY <1>5
    <3> QED
      BY <1>2, <1>3, <1>4, <1>5 DEF Behind
  <2>2. ASSUME NEW n \in DOMAIN queue PROVE Behind(queue[n].frame)'
    BY <1>2, <1>3, <1>4, <1>5 DEF Behind
  <2> QED
    BY <2>1, <2>2
<1> QED
  BY <1>2, <1>6 DEF NativeInv, RingInv

\* Every frame is accounted for, the new one as unread.
LEMMA AppendingAccounted ==
  ASSUME NativeInv, NEW p \in N!Pieces, Appending(p)
  PROVE  N!NativeAccounted'
<1>1. /\ Size \in Nat /\ Size' = Size + 1 /\ Pcs'[Size + 1] = p
      /\ \A n \in 1 .. Size : Pcs'[n] = Pcs[n]
      /\ app.next \in Nat /\ app.first \in Nat /\ chan.consumed \in Nat
  BY NativeFacts, Longer DEF Appending
<1>2. /\ p.frame = app.next /\ p.end \in BOOLEAN /\ lost \subseteq lost' /\ app.bad \subseteq app'.bad
      /\ app'.next = IF p.end THEN app.next + 1 ELSE app.next
      /\ app'.first = app.first /\ chan' = chan
  BY DEF Appending, N!Pieces
<1>3. chan.consumed <= Size
  BY DEF NativeInv, OffsetInv
<1>4. N!Unread \subseteq N!Unread' /\ app.next \in N!Unread'
  <2>1. N!Unread = {Pcs[n].frame : n \in chan.consumed + 1 .. Size}
    BY DEF N!Unread, Pcs, Size
  <2>2. N!Unread' = {Pcs'[n].frame : n \in chan'.consumed + 1 .. Size'}
    BY DEF N!Unread, Pcs, Size
  <2>3. \A n \in chan.consumed + 1 .. Size : n \in 1 .. Size /\ n \in chan'.consumed + 1 .. Size'
    BY <1>1, <1>2
  <2>4. Size + 1 \in chan'.consumed + 1 .. Size'
    BY <1>1, <1>2, <1>3
  <2> QED
    BY <1>1, <1>2, <2>1, <2>2, <2>3, <2>4
<1>5. app.first .. app.next - 1 \subseteq chan.accepted \cup chan.refused \cup N!Unread \cup lost
  BY DEF NativeInv, N!NativeAccounted
<1>6. app'.first .. app'.next - 1 \subseteq chan'.accepted \cup chan'.refused \cup N!Unread' \cup lost'
  <2> SUFFICES ASSUME NEW f \in app'.first .. app'.next - 1
               PROVE  f \in chan'.accepted \cup chan'.refused \cup N!Unread' \cup lost'
    OBVIOUS
  <2>1. f = app.next \/ f \in app.first .. app.next - 1
    BY <1>1, <1>2
  <2> QED
    BY <1>2, <1>4, <1>5, <2>1
<1>7. chan'.refused \subseteq app'.bad \cup lost' \cup {f + 1 : f \in lost'}
  BY <1>2 DEF NativeInv, N!NativeAccounted
<1> QED
  BY <1>6, <1>7 DEF N!NativeAccounted

\* All but the types.
LEMMA AppendingKeeps ==
  ASSUME NativeInv, NEW p \in N!Pieces, Appending(p)
  PROVE  /\ N!NativeOrder' /\ N!NativeAccounted'
         /\ PieceInv' /\ HalfInv' /\ GapInv' /\ OffsetInv' /\ RingInv'
<1>1. N!NativeOrder'
  BY DEF NativeInv, N!NativeOrder, Appending
<1> QED
  BY <1>1, AppendingAccounted, AppendingPieces, AppendingHalf, AppendingGaps, AppendingOffset,
     AppendingRing

\* The application writes a line, or the head of one.
LEMMA Append1Step ==
  ASSUME NativeInv, N!Append1
  PROVE  NativeInv'
<1>1. PICK k \in N!Kinds, whole \in BOOLEAN :
        /\ N!Written(file.inode, [frame |-> app.next, kind |-> k, head |-> TRUE, end |-> whole])
        /\ app' = [app EXCEPT !.next = IF whole THEN @ + 1 ELSE @, !.kind = k,
                     !.half = ~whole, !.inode = file.inode,
                     !.bad = IF k = "invalid" THEN @ \cup {app.next} ELSE @]
  BY DEF N!Append1
<1> DEFINE p == [frame |-> app.next, kind |-> k, head |-> TRUE, end |-> whole]
           next == IF whole THEN app.next + 1 ELSE app.next
           bad == IF k = "invalid" THEN app.bad \cup {app.next} ELSE app.bad
<1>2. /\ ~app.half /\ app.next <= MaxFrames
      /\ lost' = IF tail # None THEN lost \cup {app.next} ELSE lost
      /\ UNCHANGED <<chan, tail, queue, watermark, gen, memo, served>>
  BY DEF N!Append1
<1>3. /\ MaxFrames \in Nat /\ app.next \in Nat /\ app.next >= 1 /\ file.inode \in Nat
      /\ app.bad \subseteq N!Frames /\ lost \subseteq N!Frames
      /\ N!TypeOK
  BY NativeFacts DEF NativeInv
<1>4. app.next \in N!Frames
  BY <1>2, <1>3 DEF N!Frames
<1>5. p \in N!Pieces /\ p.frame = app.next /\ p.kind = k /\ p.head = TRUE /\ p.end = whole
  BY <1>4 DEF N!Pieces
<1>6. file' = [file EXCEPT !.pieces = Append(@, p)]
  BY <1>1 DEF N!Written
<1>7. app' = [app EXCEPT !.next = next, !.kind = k, !.half = ~whole, !.inode = file.inode,
                !.bad = bad]
  BY <1>1, <1>3 DEF N!TypeOK
<1>8. next \in 1 .. MaxFrames + 1 /\ bad \subseteq N!Frames /\ app.bad \subseteq bad
  BY <1>2, <1>3, <1>4
<1>9. k = "invalid" => app.next \in bad
  OBVIOUS
<1> HIDE DEF p, next, bad
<1>10. /\ app' \in [next : 1 .. MaxFrames + 1, kind : N!Kinds, half : BOOLEAN, inode : Nat,
                    bad : SUBSET N!Frames, first : 1 .. MaxFrames + 1]
       /\ app'.next = next /\ app'.kind = k /\ app'.half = ~whole /\ app'.inode = file.inode
       /\ app'.bad = bad /\ app'.first = app.first
  BY <1>3, <1>7, <1>8 DEF N!TypeOK
<1>11. lost' \subseteq N!Frames /\ lost \subseteq lost' /\ (tail # None => app.next \in lost')
  BY <1>2, <1>3, <1>4
<1>12. Appending(p)
  BY <1>2, <1>5, <1>6, <1>8, <1>9, <1>10, <1>11 DEF Appending, next
<1>13. N!TypeOK'
  <2>1. file' \in [inode : Nat, pieces : Seq(N!Pieces)]
    BY <1>5, <1>6, Longer
  <2> QED
    BY <1>2, <1>3, <1>10, <1>11, <2>1 DEF N!TypeOK, N!Frames, N!Kinds, N!Pieces, N!Queued
<1> QED
  BY <1>5, <1>12, <1>13, AppendingKeeps DEF NativeInv

\* The application finishes a line in a file that is not on the path any more.
LEMMA EndLost ==
  ASSUME NativeInv, app.half, app.inode # file.inode, file' = file,
         app' = [app EXCEPT !.half = FALSE, !.next = @ + 1], lost' = lost \cup {app.next},
         UNCHANGED <<chan, tail, queue, watermark, gen, memo, served>>
  PROVE  NativeInv'
<1>1. /\ MaxFrames \in Nat /\ app.next \in Nat /\ app.next >= 1 /\ Size \in Nat
      /\ \A n \in 1 .. Size : Pcs[n].frame \in Nat
      /\ lost \subseteq N!Frames /\ N!TypeOK /\ app.next <= MaxFrames /\ chan.consumed \in Nat
      /\ app.first \in Nat
  BY NativeFacts DEF NativeInv, HalfInv
<1>2. app.next \in N!Frames
  BY <1>1 DEF N!Frames
<1> DEFINE next == app.next + 1
<1>3. next \in 1 .. MaxFrames + 1 /\ next \in Nat /\ app.next < next
  BY <1>1
<1>4. app' = [app EXCEPT !.half = FALSE, !.next = next]
  BY <1>1 DEF N!TypeOK
<1>n. next = app.next + 1
  OBVIOUS
<1> HIDE DEF next
<1>5. /\ app' \in [next : 1 .. MaxFrames + 1, kind : N!Kinds, half : BOOLEAN, inode : Nat,
                   bad : SUBSET N!Frames, first : 1 .. MaxFrames + 1]
      /\ app'.next = next /\ ~app'.half /\ app'.bad = app.bad /\ app'.first = app.first
  BY <1>1, <1>3, <1>4 DEF N!TypeOK
<1>6. N!TypeOK'
  BY <1>1, <1>2, <1>5 DEF N!TypeOK, N!Frames, N!Kinds, N!Pieces, N!Queued
<1>7. Pcs' = Pcs /\ Size' = Size
  BY DEF Pcs, Size
<1>8. N!NativeOrder'
  BY DEF NativeInv, N!NativeOrder
<1>9. N!NativeAccounted'
  <2>1. N!Unread' = N!Unread
    BY DEF N!Unread
  <2>2. /\ app.first .. app.next - 1 \subseteq chan.accepted \cup chan.refused \cup N!Unread \cup lost
        /\ chan.refused \subseteq app.bad \cup lost \cup {f + 1 : f \in lost}
    BY DEF NativeInv, N!NativeAccounted
  <2>3. \A f \in app'.first .. app'.next - 1 : f = app.next \/ f \in app.first .. app.next - 1
    BY <1>1, <1>5, <1>n
  <2> QED
    BY <1>5, <2>1, <2>2, <2>3 DEF N!NativeAccounted
<1>10. PieceInv'
  <2>1. \A n \in 1 .. Size : Pcs[n].frame < next
    BY <1>1, <1>3 DEF NativeInv, PieceInv
  <2> QED
    BY <1>5, <1>7, <2>1 DEF NativeInv, PieceInv
<1>11. HalfInv'
  BY <1>5 DEF HalfInv
<1>12. GapInv'
  <2>1. \A n \in 1 .. Size : \A f \in Pcs[n].frame + 1 .. next - 1 :
          f \in lost' \/ \E m \in 1 .. Size : Pcs[m].frame = f
    <3> SUFFICES ASSUME NEW n \in 1 .. Size, NEW f \in Pcs[n].frame + 1 .. next - 1
                 PROVE  f \in lost' \/ \E m \in 1 .. Size : Pcs[m].frame = f
      OBVIOUS
    <3>1. f = app.next \/ f \in Pcs[n].frame + 1 .. app.next - 1
      BY <1>1, <1>n
    <3> QED
      BY <3>1 DEF NativeInv, GapInv
  <2>2. \A n \in 1 .. Size : Pcs[n].end \/ Pcs[n].frame \in lost' \/ (n < Size /\ ~Pcs[n + 1].head)
    BY DEF NativeInv, GapInv
  <2> QED
    BY <1>5, <1>7, <2>1, <2>2 DEF GapInv
<1>13. OffsetInv'
  BY <1>7 DEF NativeInv, OffsetInv
<1>14. RingInv'
  <2>1. ASSUME NEW x \in Nat, Behind(x) PROVE Behind(x)'
    BY <1>1, <1>3, <1>5, <1>7, <2>1 DEF Behind
  <2>2. chan.seq \in Nat /\ \A n \in DOMAIN queue : queue[n].frame \in Nat
    <3>1. chan.seq \in Nat /\ queue \in Seq(N!Queued)
      BY NativeFacts
    <3>2. \A n \in DOMAIN queue : queue[n] \in N!Queued
      BY <3>1
    <3> QED
      BY <1>1, <3>1, <3>2 DEF N!Queued, N!Frames
  <2>3. Behind(chan.seq)' /\ \A n \in DOMAIN queue : Behind(queue[n].frame)'
    BY <2>1, <2>2 DEF NativeInv, RingInv, Behind
  <2> QED
    BY <2>3 DEF NativeInv, RingInv
<1> QED
  BY <1>6, <1>8, <1>9, <1>10, <1>11, <1>12, <1>13, <1>14 DEF NativeInv

\* The application writes the end of a line.
LEMMA Append2Step ==
  ASSUME NativeInv, N!Append2
  PROVE  NativeInv'
<1> DEFINE p == [frame |-> app.next, kind |-> app.kind, head |-> FALSE, end |-> TRUE]
<1>1. /\ app.half /\ N!Written(app.inode, p)
      /\ app' = [app EXCEPT !.half = FALSE, !.next = @ + 1]
      /\ lost' = IF tail # None \/ app.inode # file.inode THEN lost \cup {app.next} ELSE lost
      /\ UNCHANGED <<chan, tail, queue, watermark, gen, memo, served>>
  BY DEF N!Append2
<1>2. /\ MaxFrames \in Nat /\ app.next \in Nat /\ app.next >= 1 /\ file.inode \in Nat
      /\ app.bad \subseteq N!Frames /\ lost \subseteq N!Frames /\ app.kind \in N!Kinds
      /\ N!TypeOK /\ app.next <= MaxFrames /\ (app.kind = "invalid" => app.next \in app.bad)
  BY <1>1, NativeFacts DEF NativeInv, HalfInv
<1>3. app.next \in N!Frames
  BY <1>2 DEF N!Frames
<1>4. p \in N!Pieces /\ p.frame = app.next /\ p.kind = app.kind /\ p.head = FALSE /\ p.end = TRUE
  BY <1>2, <1>3 DEF N!Pieces
<1>5. CASE app.inode # file.inode
  BY <1>1, <1>5, EndLost DEF N!Written
<1>6. CASE app.inode = file.inode
  <2>1. file' = [file EXCEPT !.pieces = Append(@, p)]
    BY <1>1, <1>6 DEF N!Written
  <2> HIDE DEF p
  <2>2. app.next + 1 \in 1 .. MaxFrames + 1
    BY <1>2
  <2>3. /\ app' \in [next : 1 .. MaxFrames + 1, kind : N!Kinds, half : BOOLEAN, inode : Nat,
                     bad : SUBSET N!Frames, first : 1 .. MaxFrames + 1]
        /\ app'.next = app.next + 1 /\ app'.kind = app.kind /\ app'.half = FALSE
        /\ app'.inode = app.inode /\ app'.bad = app.bad /\ app'.first = app.first
    BY <1>1, <1>2, <2>2 DEF N!TypeOK
  <2>4. lost' \subseteq N!Frames /\ lost \subseteq lost' /\ (tail # None => app.next \in lost')
    BY <1>1, <1>2, <1>3
  <2>5. Appending(p)
    BY <1>1, <1>2, <1>4, <1>6, <2>1, <2>3, <2>4 DEF Appending
  <2>6. N!TypeOK'
    <3>1. file' \in [inode : Nat, pieces : Seq(N!Pieces)]
      BY <1>4, <2>1, Longer
    <3> QED
      BY <1>1, <1>2, <2>3, <2>4, <3>1 DEF N!TypeOK, N!Frames, N!Kinds, N!Pieces, N!Queued
  <2> QED
    BY <1>4, <2>5, <2>6, AppendingKeeps DEF NativeInv
<1> QED
  BY <1>5, <1>6

-----------------------------------------------------------------------------
(* Compaction, the memo and the restart.                                   *)

\* The copied tail takes the place of the file.
LEMMA RenameStep ==
  ASSUME NativeInv, N!Rename
  PROVE  NativeInv'
<1> DEFINE k == Len(tail)
           c == chan.consumed
<1>1. /\ tail # None /\ tail' = None
      /\ file' = [inode |-> file.inode + 1, pieces |-> tail]
      /\ chan' = [chan EXCEPT !.consumed = 0]
      /\ UNCHANGED <<app, queue, watermark, gen, memo, served, lost>>
  BY DEF N!Rename, N!NewOffset
<1>2. /\ MaxFrames \in Nat /\ app.next \in Nat /\ Size \in Nat /\ c \in Nat /\ file.inode \in Nat
      /\ \A n \in 1 .. Size : Pcs[n].frame \in Nat
      /\ N!TypeOK /\ app.first \in Nat /\ app.inode \in Nat
  BY NativeFacts DEF NativeInv
<1>3. tail \in Seq(N!Pieces) /\ k \in Nat
  BY <1>1, <1>2 DEF N!TypeOK
<1>4. /\ c + k <= Size
      /\ \A i \in 1 .. k : tail[i] = Pcs[c + i]
      /\ \A n \in 1 .. Size : n > c + k => Pcs[n].frame \in lost
      /\ c > 0 => Pcs[c].end
  BY <1>1 DEF NativeInv, OffsetInv
<1>5. Pcs' = tail /\ Size' = k /\ file'.inode = file.inode + 1
  BY <1>1 DEF Pcs, Size
<1>6. chan'.consumed = 0 /\ chan'.seq = chan.seq /\ chan'.ring = chan.ring /\ chan'.accepted = chan.accepted
      /\ chan'.refused = chan.refused
      /\ chan' \in [consumed : Nat, latest : N!Frames \cup {None}, ring : Seq(N!Frames),
                    seq : 0 .. MaxFrames, accepted : SUBSET N!Frames, refused : SUBSET N!Frames]
  BY <1>1, <1>2 DEF N!TypeOK
<1>7. N!TypeOK'
  <2>1. file' \in [inode : Nat, pieces : Seq(N!Pieces)]
    BY <1>1, <1>2, <1>3
  <2>2. Len(chan'.ring) <= Ring
    BY <1>2, <1>6 DEF N!TypeOK
  <2> QED
    BY <1>1, <1>2, <1>6, <2>1, <2>2 DEF N!TypeOK, N!Frames, N!Kinds, N!Pieces, N!Queued
<1>8. N!NativeOrder'
  BY <1>1 DEF NativeInv, N!NativeOrder
<1> HIDE DEF k, c
<1>9. \A i \in 1 .. k : c + i \in 1 .. Size
  BY <1>2, <1>3, <1>4
<1>10. N!NativeAccounted'
  <2>1. N!Unread = {Pcs[n].frame : n \in c + 1 .. Size}
    BY DEF N!Unread, Pcs, Size, c
  <2>2. N!Unread' = {tail[n].frame : n \in 1 .. k}
    BY <1>1, <1>6 DEF N!Unread, k
  <2>3. N!Unread \subseteq N!Unread' \cup lost
    <3> SUFFICES ASSUME NEW n \in c + 1 .. Size PROVE Pcs[n].frame \in N!Unread' \cup lost
      BY <2>1
    <3>1. CASE n > c + k
      BY <1>2, <1>4, <3>1
    <3>2. CASE ~(n > c + k)
      <4>1. n - c \in 1 .. k /\ c + (n - c) = n
        BY <1>2, <1>3, <3>2
      <4> DEFINE i == n - c
      <4>2. tail[i] = Pcs[n]
        BY <1>4, <4>1
      <4> QED
        BY <2>2, <4>1, <4>2
    <3> QED
      BY <3>1, <3>2
  <2> QED
    BY <1>1, <1>6, <2>3 DEF NativeInv, N!NativeAccounted
<1>11. PieceInv'
  <2>1. \A m, n \in 1 .. k : m < n => tail[m].frame <= tail[n].frame
    <3> SUFFICES ASSUME NEW m \in 1 .. k, NEW n \in 1 .. k, m < n
                 PROVE  tail[m].frame <= tail[n].frame
      OBVIOUS
    <3>1. c + m < c + n
      BY <1>2, <1>3
    <3> QED
      BY <1>4, <1>9, <3>1 DEF NativeInv, PieceInv
  <2>2. \A m, n \in 1 .. k : m < n /\ tail[n].head => tail[m].frame < tail[n].frame
    <3> SUFFICES ASSUME NEW m \in 1 .. k, NEW n \in 1 .. k, m < n, tail[n].head
                 PROVE  tail[m].frame < tail[n].frame
      OBVIOUS
    <3>1. c + m < c + n
      BY <1>2, <1>3
    <3> QED
      BY <1>4, <1>9, <3>1 DEF NativeInv, PieceInv
  <2>3. \A n \in 1 .. k :
          ~tail[n].head => /\ n > 1 /\ tail[n].end /\ tail[n - 1].frame = tail[n].frame
                           /\ tail[n - 1].head /\ ~tail[n - 1].end
    <3> SUFFICES ASSUME NEW n \in 1 .. k, ~tail[n].head
                 PROVE  /\ n > 1 /\ tail[n].end /\ tail[n - 1].frame = tail[n].frame
                        /\ tail[n - 1].head /\ ~tail[n - 1].end
      OBVIOUS
    <3>1. /\ c + n \in 1 .. Size /\ ~Pcs[c + n].head
      BY <1>4, <1>9
    <3>2. /\ c + n > 1 /\ Pcs[c + n].end /\ Pcs[(c + n) - 1].frame = Pcs[c + n].frame
          /\ Pcs[(c + n) - 1].head /\ ~Pcs[(c + n) - 1].end
      <4> DEFINE j == c + n
      <4>1. j \in 1 .. Size /\ ~Pcs[j].head
        BY <3>1
      <4> HIDE DEF j
      <4>2. /\ j > 1 /\ Pcs[j].end /\ Pcs[j - 1].frame = Pcs[j].frame
            /\ Pcs[j - 1].head /\ ~Pcs[j - 1].end
        BY <4>1 DEF NativeInv, PieceInv
      <4> QED
        BY <4>2 DEF j
    <3>3. n > 1
      <4>1. SUFFICES ASSUME n = 1 PROVE FALSE
        BY <1>3
      <4>2. c > 0 /\ (c + n) - 1 = c
        BY <1>2, <3>2, <4>1
      <4> QED
        BY <1>4, <3>2, <4>2
    <3>4. n - 1 \in 1 .. k /\ c + (n - 1) = (c + n) - 1
      BY <1>2, <1>3, <3>3
    <3>5. tail[n - 1] = Pcs[(c + n) - 1]
      BY <1>4, <3>4
    <3> QED
      BY <1>4, <3>2, <3>3, <3>5
  <2>4. \A n \in 1 .. k :
          \/ tail[n].frame < app.next
          \/ tail[n].frame = app.next /\ app.half /\ ~tail[n].end
    BY <1>4, <1>9 DEF NativeInv, PieceInv
  <2>5. \A n \in 1 .. k : tail[n].kind = "invalid" => tail[n].frame \in app.bad
    BY <1>4, <1>9 DEF NativeInv, PieceInv
  <2> QED
    BY <1>1, <1>5, <2>1, <2>2, <2>3, <2>4, <2>5 DEF PieceInv
<1>12. HalfInv'
  BY <1>1, <1>2, <1>5 DEF NativeInv, HalfInv
<1>13. GapInv'
  <2>1. \A n \in 1 .. k : \A f \in tail[n].frame + 1 .. app.next - 1 :
          f \in lost \/ \E m \in 1 .. k : tail[m].frame = f
    <3> SUFFICES ASSUME NEW n \in 1 .. k, NEW f \in tail[n].frame + 1 .. app.next - 1, f \notin lost
                 PROVE  \E m \in 1 .. k : tail[m].frame = f
      OBVIOUS
    <3>1. c + n \in 1 .. Size /\ tail[n] = Pcs[c + n] /\ Pcs[c + n].frame \in Nat
      BY <1>2, <1>4, <1>9
    <3>2. PICK m \in 1 .. Size : Pcs[m].frame = f
      BY <3>1 DEF NativeInv, GapInv
    <3>3. Pcs[c + n].frame < Pcs[m].frame
      BY <1>2, <3>1, <3>2
    <3>4. m > c + n
      <4>1. m = c + n \/ m < c + n \/ m > c + n
        BY <1>2, <3>1
      <4>2. m < c + n => Pcs[m].frame <= Pcs[c + n].frame
        BY <3>1 DEF NativeInv, PieceInv
      <4>3. Pcs[m].frame \in Nat
        BY <1>2
      <4> QED
        BY <3>1, <3>3, <4>1, <4>2, <4>3
    <3>5. ~(m > c + k)
      BY <1>4, <3>2
    <3>6. m - c \in 1 .. k /\ c + (m - c) = m
      BY <1>2, <1>3, <3>4, <3>5
    <3>7. tail[m - c] = Pcs[m]
      BY <1>4, <3>6
    <3> QED
      BY <3>2, <3>6, <3>7
  <2>2. \A n \in 1 .. k :
          tail[n].end \/ tail[n].frame \in lost \/ (app.half /\ tail[n].frame = app.next)
          \/ (n < k /\ ~tail[n + 1].head)
    <3> SUFFICES ASSUME NEW n \in 1 .. k, ~tail[n].end, tail[n].frame \notin lost,
                        ~(app.half /\ tail[n].frame = app.next)
                 PROVE  n < k /\ ~tail[n + 1].head
      OBVIOUS
    <3>1. c + n \in 1 .. Size /\ tail[n] = Pcs[c + n]
      BY <1>4, <1>9
    <3>2. c + n < Size /\ ~Pcs[c + n + 1].head
      BY <3>1 DEF NativeInv, GapInv
    <3>3. c + n + 1 \in 1 .. Size /\ Pcs[c + n].frame = Pcs[c + n + 1].frame
      <4> DEFINE j == c + n + 1
      <4>1. j \in 1 .. Size /\ j - 1 = c + n /\ ~Pcs[j].head
        BY <1>2, <3>1, <3>2
      <4> HIDE DEF j
      <4>2. Pcs[j - 1].frame = Pcs[j].frame
        BY <4>1 DEF NativeInv, PieceInv
      <4> QED
        BY <4>1, <4>2 DEF j
    <3>4. ~(c + n + 1 > c + k)
      BY <1>4, <3>1, <3>3
    <3>5. n < k /\ n + 1 \in 1 .. k /\ c + (n + 1) = c + n + 1
      BY <1>2, <1>3, <3>4
    <3>6. tail[n + 1] = Pcs[c + n + 1]
      BY <1>4, <3>5
    <3> QED
      BY <3>2, <3>5, <3>6
  <2> QED
    BY <1>1, <1>5, <2>1, <2>2 DEF GapInv
<1>14. OffsetInv'
  BY <1>1, <1>3, <1>5, <1>6 DEF OffsetInv
<1>15. RingInv'
  <2>1. ASSUME NEW x, Behind(x) PROVE Behind(x)'
    <3>1. x < app.next /\ \A n \in 1 .. Size : n > c => x < Pcs[n].frame
      BY <2>1 DEF Behind, c
    <3>2. ASSUME NEW n \in 1 .. k PROVE x < tail[n].frame
      <4>1. c + n \in 1 .. Size /\ c + n > c
        BY <1>2, <1>3, <1>9
      <4> QED
        BY <1>4, <3>1, <4>1
    <3> QED
      BY <1>1, <1>5, <3>1, <3>2 DEF Behind
  <2>2. /\ watermark = chan.seq /\ Len(chan.ring) <= chan.seq
        /\ chan.ring = <<>> => chan.seq = 0
        /\ Behind(chan.seq) /\ \A n \in DOMAIN queue : Behind(queue[n].frame)
    BY DEF NativeInv, RingInv
  <2>3. Behind(chan.seq)' /\ \A n \in DOMAIN queue : Behind(queue[n].frame)'
    BY <1>1, <1>6, <2>1, <2>2 DEF Behind
  <2> QED
    BY <1>1, <1>6, <2>2, <2>3 DEF RingInv
<1> QED
  BY <1>7, <1>8, <1>10, <1>11, <1>12, <1>13, <1>14, <1>15 DEF NativeInv

\* Nothing of the channel changes but the tail is forgotten.
LEMMA TailForgotten ==
  ASSUME NativeInv, tail' = None \/ tail' = tail,
         UNCHANGED <<app, file, chan, queue, watermark, gen, lost>>,
         memo' \in [key : 0 .. MaxFrames, from : N!Frames \cup {None}] \cup {None},
         served' \in [from : N!Frames \cup {None}, now : N!Frames \cup {None}]
  PROVE  NativeInv'
<1>1. N!TypeOK'
  BY DEF NativeInv, N!TypeOK, N!Frames, N!Kinds, N!Pieces, N!Queued
<1>2. N!NativeOrder' /\ N!NativeAccounted'
  BY DEF NativeInv, N!NativeOrder, N!NativeAccounted, N!Unread
<1>3. Pcs' = Pcs /\ Size' = Size
  BY DEF Pcs, Size
<1>4. PieceInv' /\ HalfInv' /\ GapInv'
  BY <1>3 DEF NativeInv, PieceInv, HalfInv, GapInv
<1>5. OffsetInv'
  BY <1>3 DEF NativeInv, OffsetInv
<1>6. RingInv'
  BY <1>3 DEF NativeInv, RingInv, Behind
<1> QED
  BY <1>1, <1>2, <1>4, <1>5, <1>6 DEF NativeInv

\* The rename fails.
LEMMA RenameFailsStep ==
  ASSUME NativeInv, N!RenameFails
  PROVE  NativeInv'
BY TailForgotten DEF N!RenameFails, NativeInv, N!TypeOK

\* A frame is fused, or the memo answers.
LEMMA FusedFrameStep ==
  ASSUME NativeInv, N!FusedFrame
  PROVE  NativeInv'
<1>1. /\ served' = [from |-> memo'.from, now |-> chan.latest]
      /\ UNCHANGED <<app, file, chan, tail, queue, watermark, gen, lost>>
      /\ (memo' = memo /\ memo # None) \/ memo' = [key |-> watermark, from |-> chan.latest]
  BY DEF N!FusedFrame
<1>2. /\ chan.latest \in N!Frames \cup {None} /\ watermark \in 0 .. MaxFrames
      /\ memo \in [key : 0 .. MaxFrames, from : N!Frames \cup {None}] \cup {None}
  BY DEF NativeInv, N!TypeOK
<1>3. memo' \in [key : 0 .. MaxFrames, from : N!Frames \cup {None}]
  BY <1>1, <1>2
<1>4. served' \in [from : N!Frames \cup {None}, now : N!Frames \cup {None}]
  BY <1>1, <1>2, <1>3
<1> QED
  BY <1>1, <1>3, <1>4, TailForgotten

\* The application is started again on an empty file.
LEMMA NativeRestartStep ==
  ASSUME NativeInv, N!Restart
  PROVE  NativeInv'
<1> DEFINE next == IF app.half THEN app.next + 1 ELSE app.next
<1>1. /\ tail = None /\ gen < MaxGen /\ gen' = gen + 1
      /\ app' = [app EXCEPT !.half = FALSE, !.next = next, !.first = next]
      /\ file' = [file EXCEPT !.pieces = <<>>]
      /\ chan' = N!NewChannel /\ watermark' = 0
      /\ UNCHANGED <<tail, queue, memo, served, lost>>
  BY DEF N!Restart
<1>2. /\ MaxFrames \in Nat /\ app.next \in Nat /\ app.next >= 1 /\ app.next <= MaxFrames + 1
      /\ MaxGen \in Nat /\ gen \in 1 .. MaxGen /\ file.inode \in Nat /\ app.half \in BOOLEAN
      /\ file = [inode |-> file.inode, pieces |-> Pcs] /\ N!TypeOK
      /\ app.half => app.next <= MaxFrames
  BY NativeFacts DEF NativeInv, HalfInv
<1>3. next \in 1 .. MaxFrames + 1 /\ next \in Nat /\ app.next <= next
  BY <1>2
<1> HIDE DEF next
<1>4. /\ app' \in [next : 1 .. MaxFrames + 1, kind : N!Kinds, half : BOOLEAN, inode : Nat,
                   bad : SUBSET N!Frames, first : 1 .. MaxFrames + 1]
      /\ app'.next = next /\ app'.first = next /\ app'.half = FALSE
  BY <1>1, <1>2, <1>3 DEF N!TypeOK
<1>5. file' = [inode |-> file.inode, pieces |-> <<>>]
  BY <1>1, <1>2
<1>6. Pcs' = <<>> /\ Size' = 0 /\ file' \in [inode : Nat, pieces : Seq(N!Pieces)]
  <2>1. <<>> \in Seq(N!Pieces) /\ Len(<<>>) = 0
    OBVIOUS
  <2> QED
    BY <1>2, <1>5, <2>1 DEF Pcs, Size
<1>7. /\ chan' \in [consumed : Nat, latest : N!Frames \cup {None}, ring : Seq(N!Frames),
                    seq : 0 .. MaxFrames, accepted : SUBSET N!Frames, refused : SUBSET N!Frames]
      /\ chan'.consumed = 0 /\ chan'.seq = 0 /\ chan'.ring = <<>> /\ chan'.refused = {}
      /\ Len(chan'.ring) = 0
  <2>1. <<>> \in Seq(N!Frames) /\ Len(<<>>) = 0
    OBVIOUS
  <2> QED
    BY <1>1, <1>2, <2>1 DEF N!NewChannel
<1>8. N!TypeOK'
  <2>1. gen' \in 1 .. MaxGen
    BY <1>1, <1>2
  <2>2. Len(chan'.ring) <= Ring
    BY <1>7, EngineAssumption
  <2>3. 0 \in 0 .. MaxFrames
    BY <1>2
  <2> QED
    BY <1>1, <1>2, <1>4, <1>6, <1>7, <2>1, <2>2, <2>3 DEF N!TypeOK, N!Frames, N!Kinds, N!Pieces, N!Queued
<1>9. N!NativeOrder'
  BY <1>1 DEF NativeInv, N!NativeOrder
<1>10. N!NativeAccounted'
  <2>1. app'.first .. app'.next - 1 = {}
    BY <1>3, <1>4
  <2> QED
    BY <1>7, <2>1 DEF N!NativeAccounted
<1>11. PieceInv' /\ GapInv'
  <2>1. \A n : n \notin 1 .. 0
    OBVIOUS
  <2> QED
    BY <1>6, <2>1 DEF PieceInv, GapInv
<1>12. HalfInv'
  BY <1>4 DEF HalfInv
<1>13. OffsetInv'
  BY <1>1, <1>6, <1>7 DEF OffsetInv
<1>14. RingInv'
  <2>1. \A n : n \notin 1 .. 0
    OBVIOUS
  <2>2. ASSUME NEW n \in DOMAIN queue PROVE Behind(queue[n].frame)'
    <3>1. queue[n].frame < app.next /\ queue[n].frame \in Nat
      <4>1. queue \in Seq(N!Queued)
        BY NativeFacts
      <4>2. queue[n] \in N!Queued
        BY <4>1
      <4> QED
        BY <1>2, <4>2 DEF N!Queued, N!Frames, NativeInv, RingInv, Behind
    <3>2. queue[n].frame < next
      BY <1>2, <1>3, <3>1
    <3> QED
      BY <1>1, <1>4, <1>6, <2>1, <3>2 DEF Behind
  <2>3. Behind(chan.seq)'
    BY <1>3, <1>4, <1>6, <1>7, <2>1 DEF Behind
  <2> QED
    BY <1>1, <1>7, <2>2, <2>3 DEF RingInv
<1> QED
  BY <1>8, <1>9, <1>10, <1>11, <1>12, <1>13, <1>14 DEF NativeInv

-----------------------------------------------------------------------------
(* Reading.                                                                *)

\* What comes after the end of a frame is of a later frame.
LEMMA EndBefore ==
  ASSUME NativeInv, NEW m \in 1 .. Size, NEW n \in 1 .. Size, m < n, Pcs[m].end
  PROVE  Pcs[m].frame < Pcs[n].frame
<1>1. CASE Pcs[n].head
  BY <1>1 DEF NativeInv, PieceInv
<1>2. CASE ~Pcs[n].head
  <2>1. n > 1 /\ Pcs[n - 1].frame = Pcs[n].frame /\ Pcs[n - 1].head /\ ~Pcs[n - 1].end
    BY <1>2 DEF NativeInv, PieceInv
  <2>2. Size \in Nat
    BY NativeFacts
  <2>3. n - 1 \in 1 .. Size /\ m < n - 1
    BY <2>1, <2>2
  <2>4. Pcs[m].frame < Pcs[n - 1].frame
    BY <2>1, <2>3 DEF NativeInv, PieceInv
  <2> QED
    BY <2>1, <2>4
<1> QED
  BY <1>1, <1>2

\* A head after a piece that ends nothing: that frame, and the one before the
\* head's, are lost.
LEMMA TornBefore ==
  ASSUME NativeInv, NEW m \in 1 .. Size, NEW n \in 1 .. Size, n = m + 1,
         Pcs[n].head, ~Pcs[m].end
  PROVE  Pcs[m].frame \in lost /\ Pcs[n].frame - 1 \in lost
<1>1. /\ Size \in Nat /\ app.next \in Nat
      /\ \A i \in 1 .. Size : Pcs[i].frame \in Nat
  BY NativeFacts
<1>2. Pcs[m].frame < Pcs[n].frame /\ Pcs[n].frame <= app.next /\ m < n
  BY <1>1 DEF NativeInv, PieceInv
<1>3. Pcs[m].frame \in lost
  <2>1. Pcs[m].frame # app.next
    BY <1>1, <1>2
  <2> QED
    BY <2>1 DEF NativeInv, GapInv
<1>4. Pcs[n].frame - 1 \in lost
  <2> DEFINE f == Pcs[n].frame - 1
  <2>1. CASE f = Pcs[m].frame
    BY <1>3, <2>1
  <2>2. CASE f # Pcs[m].frame
    <3>1. f \in Pcs[m].frame + 1 .. app.next - 1
      BY <1>1, <1>2, <2>2
    <3>2. ASSUME NEW k \in 1 .. Size, Pcs[k].frame = f PROVE FALSE
      <4>1. CASE k <= m
        <5>1. k = m \/ Pcs[k].frame <= Pcs[m].frame
          BY <4>1 DEF NativeInv, PieceInv
        <5> QED
          BY <1>1, <3>1, <3>2, <5>1
      <4>2. CASE k > m
        <5>1. k = n \/ k > n
          BY <1>1, <4>2
        <5>2. k = n \/ Pcs[n].frame <= Pcs[k].frame
          BY <5>1 DEF NativeInv, PieceInv
        <5> QED
          BY <1>1, <3>2, <5>2
      <4> QED
        BY <1>1, <4>1, <4>2
    <3> QED
      BY <3>1, <3>2 DEF NativeInv, GapInv
  <2> QED
    BY <2>1, <2>2
<1> QED
  BY <1>3, <1>4

\* What a refusal may be of.
Excused == app.bad \cup lost \cup {f + 1 : f \in lost}

\* A line of the file, from one end to the next.
IsLine(line, b) ==
  /\ line \in Seq(N!Pieces) /\ b \in Nat /\ Len(line) >= 1 /\ b + Len(line) <= Size
  /\ \A j \in 1 .. Len(line) : line[j] = Pcs[b + j]
  /\ \A j \in 1 .. Len(line) : line[j].end <=> j = Len(line)
  /\ b > 0 => Pcs[b].end

\* A line begins with a head, and what follows a piece in it is the end of
\* its frame or makes it a torn one.
LEMMA InLine ==
  ASSUME NativeInv, NEW line, NEW b, IsLine(line, b)
  PROVE  /\ line[1].head
         /\ \A j \in 2 .. Len(line) :
              IF line[j].head
              THEN line[j - 1].frame \in lost /\ line[j].frame \in {f + 1 : f \in lost}
              ELSE line[j - 1].frame = line[j].frame /\ line[j - 1].head /\ j = Len(line)
<1>1. /\ line \in Seq(N!Pieces) /\ b \in Nat /\ Len(line) \in Nat /\ Len(line) >= 1
      /\ b + Len(line) <= Size /\ Size \in Nat
      /\ \A i \in 1 .. Size : Pcs[i].frame \in Nat
  <2>1. Size \in Nat /\ \A i \in 1 .. Size : Pcs[i].frame \in Nat
    BY NativeFacts
  <2>2. line \in Seq(N!Pieces) /\ b \in Nat /\ Len(line) >= 1 /\ b + Len(line) <= Size
    BY DEF IsLine
  <2> QED
    BY <2>1, <2>2
<1>2. \A j \in 1 .. Len(line) : b + j \in 1 .. Size /\ line[j] = Pcs[b + j]
  BY <1>1 DEF IsLine
<1>3. line[1].head
  <2>1. SUFFICES ASSUME ~line[1].head PROVE FALSE
    OBVIOUS
  <2> DEFINE n == b + 1
  <2>2. n \in 1 .. Size /\ ~Pcs[n].head /\ n - 1 = b
    BY <1>1, <1>2, <2>1
  <2> HIDE DEF n
  <2>3. n > 1 /\ ~Pcs[n - 1].end
    BY <2>2 DEF NativeInv, PieceInv
  <2>4. b > 0
    BY <1>1, <2>2, <2>3 DEF n
  <2> QED
    BY <2>2, <2>3, <2>4 DEF IsLine
<1>4. ASSUME NEW j \in 2 .. Len(line)
      PROVE  IF line[j].head
             THEN line[j - 1].frame \in lost /\ line[j].frame \in {f + 1 : f \in lost}
             ELSE line[j - 1].frame = line[j].frame /\ line[j - 1].head /\ j = Len(line)
  <2> DEFINE n == b + j
             m == b + (j - 1)
  <2>1. /\ j - 1 \in 1 .. Len(line) /\ j \in 1 .. Len(line) /\ j - 1 # Len(line)
        /\ n = m + 1 /\ n - 1 = m
    BY <1>1
  <2>2. n \in 1 .. Size /\ m \in 1 .. Size /\ line[j] = Pcs[n] /\ line[j - 1] = Pcs[m]
    BY <1>2, <2>1
  <2>3. ~Pcs[m].end
    BY <2>1, <2>2 DEF IsLine
  <2> HIDE DEF n, m
  <2>4. CASE line[j].head
    <3>1. Pcs[m].frame \in lost /\ Pcs[n].frame - 1 \in lost
      BY <2>1, <2>2, <2>3, <2>4, TornBefore
    <3>2. Pcs[n].frame = (Pcs[n].frame - 1) + 1
      BY <1>1, <2>2
    <3> QED
      BY <2>2, <2>4, <3>1, <3>2
  <2>5. CASE ~line[j].head
    <3>1. Pcs[n].end /\ Pcs[n - 1].frame = Pcs[n].frame /\ Pcs[n - 1].head
      BY <2>2, <2>5 DEF NativeInv, PieceInv
    <3>2. j = Len(line)
      BY <2>1, <2>2, <3>1 DEF IsLine
    <3> QED
      BY <2>1, <2>2, <2>5, <3>1, <3>2
  <2> QED
    BY <2>4, <2>5
<1> QED
  BY <1>3, <1>4

\* A refused line is not well formed by its own fault, or was torn.
LEMMA RefusedLine ==
  ASSUME NativeInv, NEW line, NEW b, IsLine(line, b), ~N!WellFormed(line)
  PROVE  {line[j].frame : j \in 1 .. Len(line)} \subseteq Excused
<1>1. Len(line) \in Nat /\ Len(line) >= 1
  <2>1. line \in Seq(N!Pieces) /\ Len(line) >= 1
    BY DEF IsLine
  <2> QED
    BY <2>1
<1>2. line[1].frame \in Excused
  <2>1. CASE line[1].kind = "invalid"
    <3>1. b + 1 \in 1 .. Size /\ line[1] = Pcs[b + 1]
      <4>1. Size \in Nat
        BY NativeFacts
      <4>2. /\ b \in Nat /\ b + Len(line) <= Size
            /\ \A j \in 1 .. Len(line) : line[j] = Pcs[b + j]
        BY DEF IsLine
      <4> QED
        BY <1>1, <4>1, <4>2
    <3>2. Pcs[b + 1].frame \in app.bad
      BY <2>1, <3>1 DEF NativeInv, PieceInv
    <3> QED
      BY <3>1, <3>2 DEF Excused
  <2>2. CASE line[1].kind # "invalid"
    <3>1. PICK n \in 2 .. Len(line) : line[n].head
      BY <2>2, InLine DEF N!WellFormed
    <3>2. 2 \in 2 .. Len(line) /\ 2 - 1 = 1
      BY <1>1, <3>1
    <3>3. line[2].head
      <4>1. ~line[2].head => 2 = Len(line)
        BY <3>2, InLine
      <4>2. n \in Nat /\ 2 <= n /\ n <= Len(line)
        BY <1>1, <3>1
      <4>3. CASE 2 = Len(line)
        <5> DEFINE k == Len(line)
        <5>2. k = 2 /\ n <= k /\ 2 <= n /\ n \in Nat
          BY <4>2, <4>3
        <5> HIDE DEF k
        <5>1. n = 2
          BY <5>2
        <5> QED
          BY <3>1, <5>1
      <4> QED
        BY <4>1, <4>3
    <3>4. line[2 - 1].frame \in lost
      BY <3>2, <3>3, InLine
    <3> QED
      BY <3>2, <3>4 DEF Excused
  <2> QED
    BY <2>1, <2>2
<1>3. ASSUME NEW j \in 2 .. Len(line), line[j].head PROVE line[j].frame \in Excused
  BY <1>3, InLine DEF Excused
<1>4. ASSUME NEW j \in 2 .. Len(line), ~line[j].head PROVE line[j].frame \in Excused
  <2>1. line[j - 1].frame = line[j].frame /\ line[j - 1].head
    BY <1>4, InLine
  <2>2. j - 1 = 1 \/ j - 1 \in 2 .. Len(line)
    BY <1>1
  <2> QED
    BY <1>2, <1>3, <2>1, <2>2
<1>5. \A j \in 1 .. Len(line) : j = 1 \/ j \in 2 .. Len(line)
  BY <1>1
<1> QED
  BY <1>2, <1>3, <1>4, <1>5

\* One event more in the ring.
Pushed(ring, f) ==
  LET longer == Append(ring, f) IN IF Len(longer) > Ring THEN Tail(longer) ELSE longer

\* The ring ends with it and before it has the end of what it had.
LEMMA PushedGives ==
  ASSUME NEW ring \in Seq(N!Frames), Len(ring) <= Ring, NEW f \in N!Frames
  PROVE  /\ Pushed(ring, f) \in Seq(N!Frames)
         /\ Len(Pushed(ring, f)) <= Ring /\ Len(Pushed(ring, f)) >= 1
         /\ Len(Pushed(ring, f)) <= Len(ring) + 1
         /\ Pushed(ring, f)[Len(Pushed(ring, f))] = f
         /\ \A j \in 1 .. Len(Pushed(ring, f)) - 1 :
              Pushed(ring, f)[j] = ring[(Len(ring) + 1 - Len(Pushed(ring, f))) + j]
<1> DEFINE longer == Append(ring, f)
           k == Len(ring)
<1>1. Ring \in Nat /\ Ring >= 1 /\ k \in Nat /\ k <= Ring
  BY EngineAssumption
<1>2. /\ longer \in Seq(N!Frames) /\ Len(longer) = k + 1 /\ longer[k + 1] = f
      /\ \A j \in 1 .. k : longer[j] = ring[j]
  BY AppendProperties
<1>3. Pushed(ring, f) = IF Len(longer) > Ring THEN Tail(longer) ELSE longer
  BY DEF Pushed
<1> HIDE DEF longer
<1>4. CASE Len(longer) > Ring
  <2> DEFINE P == Tail(longer)
  <2>1. longer # <<>>
    BY <1>1, <1>2
  <2>2. /\ P \in Seq(N!Frames) /\ Len(P) = k
        /\ \A j \in 1 .. k : P[j] = longer[j + 1]
    BY <1>1, <1>2, <2>1, HeadTailProperties
  <2>3. Pushed(ring, f) = P
    BY <1>3, <1>4
  <2> HIDE DEF P
  <2>4. k >= 1 /\ k = Ring
    BY <1>1, <1>2, <1>4
  <2>5. P[k] = f
    BY <1>1, <1>2, <2>2, <2>4
  <2>6. ASSUME NEW j \in 1 .. k - 1 PROVE P[j] = ring[(k + 1 - k) + j]
    <3>1. j \in 1 .. k /\ j + 1 \in 1 .. k /\ (k + 1 - k) + j = j + 1
      BY <1>1
    <3> QED
      BY <1>2, <2>2, <3>1
  <2> HIDE DEF k
  <2>7. Len(P) <= Ring /\ Len(P) >= 1 /\ Len(P) <= k + 1
    BY <1>1, <2>2, <2>4
  <2> QED
    BY <2>2, <2>3, <2>5, <2>6, <2>7 DEF k
<1>5. CASE ~(Len(longer) > Ring)
  <2>3. Pushed(ring, f) = longer
    BY <1>3, <1>5
  <2>6. ASSUME NEW j \in 1 .. (k + 1) - 1 PROVE longer[j] = ring[(k + 1 - (k + 1)) + j]
    <3>1. j \in 1 .. k /\ (k + 1 - (k + 1)) + j = j
      BY <1>1
    <3> QED
      BY <1>2, <3>1
  <2> HIDE DEF k
  <2>7. Len(longer) <= Ring /\ Len(longer) >= 1 /\ Len(longer) <= k + 1
    BY <1>1, <1>2, <1>5
  <2> QED
    BY <1>2, <2>3, <2>6, <2>7 DEF k
<1> QED
  BY <1>4, <1>5

\* What the read loop carries from one piece to the next.
ScanChan == [consumed : Nat, latest : N!Frames \cup {None}, ring : Seq(N!Frames), seq : Nat,
             accepted : SUBSET N!Frames, refused : SUBSET N!Frames]
Scanned == [chan : ScanChan, line : Seq(N!Pieces)]

\* The frames of a line.
FramesOf(line) == {line[n].frame : n \in 1 .. Len(line)}

\* A line is refused with all its frames; or accepted, and enters the ring
\* when it is an event.
LEMMA IngestedGives ==
  ASSUME NEW c \in ScanChan, NEW line \in Seq(N!Pieces), Len(line) >= 1, NEW d, d = N!Ingested(c, line)
  PROVE  /\ d.consumed = c.consumed /\ d.latest \in N!Frames \cup {None} /\ DOMAIN d = DOMAIN c
         /\ d = [consumed |-> d.consumed, latest |-> d.latest, ring |-> d.ring, seq |-> d.seq,
                 accepted |-> d.accepted, refused |-> d.refused]
         /\ d.accepted \subseteq N!Frames /\ d.refused \subseteq N!Frames
         /\ c.accepted \subseteq d.accepted /\ c.refused \subseteq d.refused
         /\ FramesOf(line) \subseteq d.accepted \cup d.refused
         /\ \/ d.refused = c.refused
            \/ ~N!WellFormed(line) /\ d.refused = c.refused \cup FramesOf(line)
         /\ \/ d.seq = c.seq /\ d.ring = c.ring
            \/ N!WellFormed(line) /\ d.seq = c.seq + 1 /\ d.ring = Pushed(c.ring, line[1].frame)
<1> DEFINE F == FramesOf(line)
           f == line[1].frame
<1>1. F \subseteq N!Frames /\ f \in N!Frames
  <2>1. \A n \in 1 .. Len(line) : line[n] \in N!Pieces
    OBVIOUS
  <2>2. \A n \in 1 .. Len(line) : line[n].frame \in N!Frames
    BY <2>1 DEF N!Pieces
  <2>3. Len(line) \in Nat
    OBVIOUS
  <2>4. 1 \in 1 .. Len(line)
    BY <2>3
  <2> QED
    BY <2>2, <2>4 DEF FramesOf
<1>2. d = IF ~N!WellFormed(line) THEN [c EXCEPT !.refused = @ \cup F]
          ELSE IF line[1].kind = "snapshot"
          THEN [c EXCEPT !.latest = f, !.accepted = @ \cup F]
          ELSE [c EXCEPT !.seq = @ + 1, !.accepted = @ \cup F, !.ring = Pushed(@, f)]
  BY DEF N!Ingested, FramesOf, Pushed
<1> HIDE DEF F, f
<1>3. c = [consumed |-> c.consumed, latest |-> c.latest, ring |-> c.ring, seq |-> c.seq,
           accepted |-> c.accepted, refused |-> c.refused]
      /\ c.latest \in N!Frames \cup {None} /\ c.accepted \subseteq N!Frames /\ c.refused \subseteq N!Frames
  BY DEF ScanChan
<1>4. CASE ~N!WellFormed(line)
  <2>1. d = [consumed |-> c.consumed, latest |-> c.latest, ring |-> c.ring, seq |-> c.seq,
             accepted |-> c.accepted, refused |-> c.refused \cup F]
    BY <1>2, <1>3, <1>4
  <2> QED
    BY <1>1, <1>3, <1>4, <2>1 DEF F
<1>5. CASE N!WellFormed(line) /\ line[1].kind = "snapshot"
  <2>1. d = [consumed |-> c.consumed, latest |-> f, ring |-> c.ring, seq |-> c.seq,
             accepted |-> c.accepted \cup F, refused |-> c.refused]
    BY <1>2, <1>3, <1>5
  <2> QED
    BY <1>1, <1>3, <1>5, <2>1 DEF F
<1>6. CASE N!WellFormed(line) /\ line[1].kind # "snapshot"
  <2>1. d = [consumed |-> c.consumed, latest |-> c.latest, ring |-> Pushed(c.ring, f), seq |-> c.seq + 1,
             accepted |-> c.accepted \cup F, refused |-> c.refused]
    BY <1>2, <1>3, <1>6
  <2> QED
    BY <1>1, <1>3, <1>6, <2>1 DEF F, f
<1> QED
  BY <1>4, <1>5, <1>6

\* Before everything in the file after a piece.
Passed(x, from) ==
  x < app.next /\ \A n \in 1 .. Size : n > from => x < Pcs[n].frame

\* What of its ring a channel has over the one the poll began with.
News(c) == {j \in 1 .. Len(c.ring) : j + (c.seq - chan.seq) > Len(c.ring)}

\* The channel has taken all the lines up to a piece.
HasRead(c, to) ==
  /\ chan.seq <= c.seq /\ Len(c.ring) <= c.seq /\ Len(c.ring) <= Ring
  /\ c.ring = <<>> => c.seq = 0
  /\ Passed(c.seq, to)
  /\ c.refused \subseteq Excused
  /\ chan.accepted \subseteq c.accepted /\ chan.refused \subseteq c.refused
  /\ \A n \in chan.consumed + 1 .. to : Pcs[n].frame \in c.accepted \cup c.refused
  /\ \A j \in News(c) :
       Passed(c.ring[j], to) /\ \A q \in DOMAIN queue : queue[q].frame < c.ring[j]
  /\ \A j, k \in News(c) : j < k => c.ring[j] < c.ring[k]

\* A line more.
LEMMA LineKeeps ==
  ASSUME NativeInv, NEW c \in ScanChan, NEW line, NEW b, IsLine(line, b),
         chan.consumed <= b, HasRead(c, b), NEW d, d = N!Ingested(c, line)
  PROVE  d \in ScanChan /\ HasRead(d, b + Len(line))
<1> DEFINE f == line[1].frame
           m == b + Len(line)
           P == Pushed(c.ring, f)
           k == Len(c.ring)
<1>1. /\ line \in Seq(N!Pieces) /\ Len(line) \in Nat /\ Len(line) >= 1 /\ b \in Nat
      /\ m \in 1 .. Size /\ b + 1 \in 1 .. Size /\ b + 1 <= m /\ b < m
      /\ line[1] = Pcs[b + 1] /\ Pcs[m].end
      /\ \A n \in b + 1 .. m : n \in 1 .. Size /\ n - b \in 1 .. Len(line) /\ line[n - b] = Pcs[n]
  <2>1. /\ line \in Seq(N!Pieces) /\ b \in Nat /\ Len(line) >= 1 /\ m <= Size
        /\ \A j \in 1 .. Len(line) : line[j] = Pcs[b + j]
        /\ \A j \in 1 .. Len(line) : line[j].end <=> j = Len(line)
    BY DEF IsLine
  <2>2. Size \in Nat /\ Len(line) \in Nat
    BY <2>1, NativeFacts
  <2>3. Len(line) \in 1 .. Len(line) /\ 1 \in 1 .. Len(line)
    BY <2>1, <2>2
  <2>4. line[1] = Pcs[b + 1] /\ Pcs[m].end
    BY <2>1, <2>3
  <2>5. ASSUME NEW n \in b + 1 .. m
        PROVE  n \in 1 .. Size /\ n - b \in 1 .. Len(line) /\ line[n - b] = Pcs[n]
    <3>1. n \in 1 .. Size /\ n - b \in 1 .. Len(line) /\ b + (n - b) = n
      BY <2>1, <2>2
    <3> QED
      BY <2>1, <3>1
  <2>6. m \in 1 .. Size /\ b + 1 \in 1 .. Size /\ b + 1 <= m /\ b < m
    BY <2>1, <2>2
  <2> QED
    BY <2>1, <2>2, <2>4, <2>5, <2>6
<1> HIDE DEF m
<1>2. /\ f \in N!Frames /\ f \in Nat /\ MaxFrames \in Nat /\ Size \in Nat /\ app.next \in Nat
      /\ chan.consumed \in Nat /\ chan.seq \in Nat
      /\ \A n \in 1 .. Size : Pcs[n].frame \in Nat
  <2>1. Pcs[b + 1] \in N!Pieces
    BY <1>1, NativeFacts
  <2>2. f \in N!Frames
    BY <1>1, <2>1 DEF N!Pieces
  <2>3. MaxFrames \in Nat /\ Size \in Nat /\ app.next \in Nat /\ chan.consumed \in Nat /\ chan.seq \in Nat
    BY NativeFacts
  <2>4. \A n \in 1 .. Size : Pcs[n].frame \in Nat
    BY NativeFacts
  <2>5. f \in Nat
    BY <2>2, <2>3 DEF N!Frames
  <2> QED
    BY <2>2, <2>3, <2>4, <2>5
<1>3. f <= Pcs[m].frame /\ Pcs[m].frame < app.next
      /\ \A n \in 1 .. Size : n > m => Pcs[m].frame < Pcs[n].frame
  <2>1. f = Pcs[b + 1].frame
    BY <1>1
  <2>2. b + 1 < m => f <= Pcs[m].frame
    BY <1>1, <2>1 DEF NativeInv, PieceInv
  <2>3. b + 1 = m => f <= Pcs[m].frame
    BY <1>2, <2>1
  <2>4. Pcs[m].frame < app.next
    BY <1>1 DEF NativeInv, PieceInv
  <2>5. \A n \in 1 .. Size : n > m => Pcs[m].frame < Pcs[n].frame
    BY <1>1, EndBefore
  <2>6. m \in Nat
    BY <1>1
  <2> QED
    BY <1>1, <2>2, <2>3, <2>4, <2>5, <2>6
<1>4. Passed(f, m)
  BY <1>1, <1>2, <1>3 DEF Passed
<1>5. ASSUME NEW x \in Nat, Passed(x, b) PROVE Passed(x, m) /\ x < f
  <2>1. x < app.next /\ \A n \in 1 .. Size : n > b => x < Pcs[n].frame
    BY <1>5 DEF Passed
  <2>2. b + 1 > b /\ \A n \in 1 .. Size : n > m => n > b
    BY <1>1
  <2>3. x < Pcs[b + 1].frame
    BY <1>1, <2>1, <2>2
  <2> QED
    BY <1>1, <2>1, <2>2, <2>3 DEF Passed
<1>6. /\ c.ring \in Seq(N!Frames) /\ k \in Nat /\ c.seq \in Nat /\ k <= c.seq /\ k <= Ring
      /\ chan.seq <= c.seq /\ Passed(c.seq, b)
      /\ c.ring = <<>> => c.seq = 0
  BY DEF ScanChan, HasRead
<1>7. /\ d.latest \in N!Frames \cup {None} /\ d.consumed = c.consumed
      /\ d = [consumed |-> d.consumed, latest |-> d.latest, ring |-> d.ring, seq |-> d.seq,
              accepted |-> d.accepted, refused |-> d.refused]
      /\ d.accepted \subseteq N!Frames /\ d.refused \subseteq N!Frames
      /\ c.accepted \subseteq d.accepted /\ c.refused \subseteq d.refused
      /\ FramesOf(line) \subseteq d.accepted \cup d.refused
      /\ \/ d.refused = c.refused
         \/ ~N!WellFormed(line) /\ d.refused = c.refused \cup FramesOf(line)
      /\ \/ d.seq = c.seq /\ d.ring = c.ring
         \/ N!WellFormed(line) /\ d.seq = c.seq + 1 /\ d.ring = P
  BY <1>1, IngestedGives
<1>8. c.consumed \in Nat
  BY DEF ScanChan
<1>9. d.refused \subseteq Excused
  <2>1. c.refused \subseteq Excused
    BY DEF HasRead
  <2>2. ~N!WellFormed(line) => FramesOf(line) \subseteq Excused
    BY RefusedLine DEF FramesOf
  <2> QED
    BY <1>7, <2>1, <2>2
<1>10. chan.accepted \subseteq d.accepted /\ chan.refused \subseteq d.refused
  BY <1>7 DEF HasRead
<1>11. ASSUME NEW n \in chan.consumed + 1 .. m PROVE Pcs[n].frame \in d.accepted \cup d.refused
  <2>1. CASE n <= b
    <3>1. n \in chan.consumed + 1 .. b
      BY <1>1, <1>2, <2>1
    <3>2. Pcs[n].frame \in c.accepted \cup c.refused
      BY <3>1 DEF HasRead
    <3> QED
      BY <1>7, <3>2
  <2>2. CASE n > b
    <3>1. n \in b + 1 .. m
      BY <1>1, <1>2, <2>2
    <3>2. n - b \in 1 .. Len(line) /\ line[n - b] = Pcs[n]
      BY <1>1, <3>1
    <3>3. Pcs[n].frame \in FramesOf(line)
      BY <3>2 DEF FramesOf
    <3> QED
      BY <1>7, <3>3
  <2> QED
    BY <1>1, <1>2, <2>1, <2>2
<1>12. ASSUME NEW j \in News(c)
       PROVE  /\ j \in 1 .. k /\ c.ring[j] \in Nat /\ Passed(c.ring[j], m) /\ c.ring[j] < f
              /\ \A q \in DOMAIN queue : queue[q].frame < c.ring[j]
  <2>1. j \in 1 .. k
    BY DEF News
  <2>2. c.ring[j] \in N!Frames
    BY <1>6, <2>1
  <2>3. c.ring[j] \in Nat
    BY <1>2, <2>2 DEF N!Frames
  <2>4. Passed(c.ring[j], b) /\ \A q \in DOMAIN queue : queue[q].frame < c.ring[j]
    BY DEF HasRead
  <2> QED
    BY <1>5, <2>1, <2>3, <2>4
<1>13. CASE d.seq = c.seq /\ d.ring = c.ring
  <2>1. News(d) = News(c)
    BY <1>13 DEF News
  <2>2. d \in ScanChan
    BY <1>6, <1>7, <1>8, <1>13 DEF ScanChan
  <2>3. Passed(d.seq, m)
    BY <1>5, <1>6, <1>13
  <2>4. \A i, j \in News(d) : i < j => d.ring[i] < d.ring[j]
    BY <1>13, <2>1 DEF HasRead
  <2>5. \A j \in News(d) : Passed(d.ring[j], m) /\ \A q \in DOMAIN queue : queue[q].frame < d.ring[j]
    BY <1>12, <1>13, <2>1
  <2>6. HasRead(d, m)
    BY <1>6, <1>9, <1>10, <1>11, <1>13, <2>3, <2>4, <2>5 DEF HasRead
  <2> QED
    BY <2>2, <2>6 DEF m
<1>14. CASE d.seq = c.seq + 1 /\ d.ring = P
  <2> DEFINE l == Len(P)
             shift == k + 1 - l
  <2>1. /\ P \in Seq(N!Frames) /\ l <= Ring /\ l >= 1 /\ l <= k + 1 /\ P[l] = f /\ l \in Nat
        /\ \A j \in 1 .. l - 1 : P[j] = c.ring[shift + j]
    <3>1. Len(c.ring) <= Ring /\ f \in N!Frames /\ c.ring \in Seq(N!Frames)
      BY <1>2, <1>6
    <3> HIDE DEF f
    <3>2. /\ P \in Seq(N!Frames) /\ Len(P) <= Ring /\ Len(P) >= 1
          /\ Len(P) <= Len(c.ring) + 1 /\ P[Len(P)] = f
          /\ \A j \in 1 .. Len(P) - 1 : P[j] = c.ring[(Len(c.ring) + 1 - Len(P)) + j]
      BY <3>1, PushedGives
    <3> HIDE DEF P
    <3>3. Len(P) \in Nat
      BY <3>2
    <3> QED
      BY <3>2, <3>3
  <2> HIDE DEF P
  <2>2. d \in ScanChan
    <3>1. c.seq + 1 \in Nat
      BY <1>6
    <3> QED
      BY <1>7, <1>8, <1>14, <2>1, <3>1 DEF ScanChan
  <2>3. c.seq < f
    BY <1>5, <1>6
  <2>4. Passed(c.seq + 1, m)
    <3>1. c.seq + 1 <= f /\ c.seq + 1 \in Nat
      BY <1>2, <1>6, <2>3
    <3>2. f < app.next /\ \A n \in 1 .. Size : n > m => f < Pcs[n].frame
      BY <1>4 DEF Passed
    <3> DEFINE x == c.seq + 1
    <3> HIDE DEF x, f
    <3>3. x \in Nat /\ x <= f
      BY <3>1 DEF x
    <3>4. x < app.next
      BY <1>2, <3>2, <3>3
    <3>5. ASSUME NEW n \in 1 .. Size, n > m PROVE x < Pcs[n].frame
      BY <1>2, <3>2, <3>3, <3>5
    <3>6. Passed(x, m)
      BY <3>4, <3>5 DEF Passed
    <3> QED
      BY <3>6 DEF x
  <2>5. ASSUME NEW j \in News(d)
        PROVE  \/ j = l /\ P[j] = f
               \/ j \in 1 .. l - 1 /\ shift + j \in News(c) /\ P[j] = c.ring[shift + j]
    <3>1. j \in 1 .. l /\ j + ((c.seq + 1) - chan.seq) > l
      BY <1>14 DEF News
    <3>2. CASE j = l
      BY <2>1, <3>2
    <3>3. CASE j # l
      <4>1. j \in 1 .. l - 1
        BY <2>1, <3>1, <3>3
      <4> HIDE DEF k, l
      <4>2. shift + j \in 1 .. k /\ (shift + j) + (c.seq - chan.seq) > k
        BY <1>2, <1>6, <2>1, <3>1, <4>1, SMTT(30)
      <4>3. shift + j \in News(c)
        BY <4>2 DEF News, k
      <4> QED
        BY <2>1, <4>1, <4>3 DEF l
    <3> QED
      BY <3>2, <3>3
  <2> HIDE DEF shift, l
  <2>6. ASSUME NEW j \in News(d)
        PROVE Passed(P[j], m) /\ \A q \in DOMAIN queue : queue[q].frame < P[j]
    <3>1. CASE P[j] = f
      <4>1. ASSUME NEW q \in DOMAIN queue PROVE queue[q].frame < f
        <5>1. Behind(queue[q].frame)
          BY DEF NativeInv, RingInv
        <5>2. b + 1 > chan.consumed
          BY <1>1, <1>2
        <5> QED
          BY <1>1, <5>1, <5>2 DEF Behind
      <4> QED
        BY <1>4, <3>1, <4>1
    <3>2. CASE shift + j \in News(c) /\ P[j] = c.ring[shift + j]
      BY <1>12, <3>2
    <3> QED
      BY <2>5, <3>1, <3>2
  <2>7. ASSUME NEW i \in News(d), NEW j \in News(d), i < j PROVE P[i] < P[j]
    <3>0. i \in 1 .. l /\ j \in 1 .. l
      BY <1>14 DEF News, l
    <3>1. i # l
      BY <2>1, <2>7, <3>0 DEF l
    <3>2. shift + i \in News(c) /\ P[i] = c.ring[shift + i]
      BY <2>5, <3>1
    <3>3. CASE j = l /\ P[j] = f
      BY <1>12, <3>2, <3>3
    <3>4. CASE j \in 1 .. l - 1 /\ shift + j \in News(c) /\ P[j] = c.ring[shift + j]
      <4>1. shift + i < shift + j
        BY <1>6, <2>1, <2>7, <3>0 DEF shift, l
      <4> QED
        BY <3>2, <3>4, <4>1 DEF HasRead
    <3> QED
      BY <2>5, <3>3, <3>4
  <2>8. P # <<>>
    BY <2>1 DEF l
  <2>9. l <= c.seq + 1 /\ chan.seq <= c.seq + 1
    BY <1>2, <1>6, <2>1 DEF l
  <2>10. HasRead(d, m)
    BY <1>9, <1>10, <1>11, <1>14, <2>1, <2>4, <2>6, <2>7, <2>8, <2>9 DEF HasRead, l
  <2> QED
    BY <2>2, <2>10 DEF m
<1> QED
  BY <1>7, <1>13, <1>14

\* Where the line being read began.
From(i, r) == (chan.consumed + i) - Len(r.line)

\* What the read loop has after i pieces.
Reads(i, r) ==
  /\ r \in Scanned /\ Len(r.line) <= i
  /\ \A j \in 1 .. Len(r.line) : r.line[j] = Pcs[From(i, r) + j] /\ ~r.line[j].end
  /\ From(i, r) > 0 => Pcs[From(i, r)].end
  /\ HasRead(r.chan, From(i, r))

\* It begins with nothing read.
LEMMA ReadsNothing ==
  ASSUME NativeInv, NEW r, r = [chan |-> chan, line |-> <<>>]
  PROVE  Reads(0, r)
<1>1. /\ chan \in [consumed : Nat, latest : N!Frames \cup {None}, ring : Seq(N!Frames),
                   seq : 0 .. MaxFrames, accepted : SUBSET N!Frames, refused : SUBSET N!Frames]
      /\ Len(chan.ring) <= Ring
  BY DEF NativeInv, N!TypeOK
<1>2. chan.consumed \in Nat /\ chan.seq \in Nat /\ Len(chan.ring) \in Nat
  BY NativeFacts
<1>3. chan \in ScanChan
  BY <1>1, <1>2 DEF ScanChan
<1>4. <<>> \in Seq(N!Pieces) /\ Len(<<>>) = 0
  OBVIOUS
<1>5. r \in Scanned /\ r.chan = chan /\ Len(r.line) = 0
  BY <1>3, <1>4 DEF Scanned
<1>6. From(0, r) = chan.consumed
  BY <1>2, <1>5 DEF From
<1>7. News(chan) = {}
  BY <1>2 DEF News
<1>8. Passed(chan.seq, chan.consumed)
  BY DEF Passed, NativeInv, RingInv, Behind
<1>9. chan.refused \subseteq Excused
  BY DEF Excused, NativeInv, N!NativeAccounted
<1>10. HasRead(chan, chan.consumed)
  <2>1. chan.consumed + 1 .. chan.consumed = {}
    BY <1>2
  <2>2. chan.seq <= chan.seq
    BY <1>2
  <2>3. Len(chan.ring) <= chan.seq /\ (chan.ring = <<>> => chan.seq = 0)
    BY DEF NativeInv, RingInv
  <2> QED
    BY <1>1, <1>7, <1>8, <1>9, <2>1, <2>2, <2>3 DEF HasRead
<1>11. chan.consumed > 0 => Pcs[chan.consumed].end
  BY DEF NativeInv, OffsetInv
<1>12. Len(r.line) <= 0 /\ \A j : j \notin 1 .. Len(r.line)
  BY <1>5
<1> QED
  BY <1>5, <1>6, <1>10, <1>11, <1>12 DEF Reads

\* A piece more: of the line, or its end.
LEMMA TakenKeeps ==
  ASSUME NativeInv, NEW i \in 1 .. Size - chan.consumed, NEW r, Reads(i - 1, r)
  PROVE  Reads(i, N!Taken(r, Pcs[chan.consumed + i]))
<1> DEFINE b == From(i - 1, r)
           k == Len(r.line)
           n == chan.consumed + i
           p == Pcs[n]
           line == Append(r.line, p)
<1>1. /\ r \in Scanned /\ k <= i - 1
      /\ \A j \in 1 .. k : r.line[j] = Pcs[b + j] /\ ~r.line[j].end
      /\ b > 0 => Pcs[b].end
      /\ HasRead(r.chan, b)
  BY DEF Reads
<1>2. /\ chan.consumed \in Nat /\ Size \in Nat /\ i \in Nat /\ i >= 1
      /\ n \in 1 .. Size /\ p \in N!Pieces
  <2>1. chan.consumed \in Nat /\ Size \in Nat /\ \A m \in 1 .. Size : Pcs[m] \in N!Pieces
    BY NativeFacts
  <2> QED
    BY <2>1
<1>3. r = [chan |-> r.chan, line |-> r.line] /\ r.chan \in ScanChan /\ r.line \in Seq(N!Pieces) /\ k \in Nat
  BY <1>1 DEF Scanned
<1>4. b \in Nat /\ chan.consumed <= b /\ b + (k + 1) = n /\ b = (chan.consumed + (i - 1)) - k
  <2>1. b = (chan.consumed + (i - 1)) - k
    BY DEF From
  <2> HIDE DEF b, k
  <2> QED
    BY <1>1, <1>2, <1>3, <2>1
<1>5. /\ line \in Seq(N!Pieces) /\ Len(line) = k + 1 /\ line[k + 1] = p
      /\ \A j \in 1 .. k : line[j] = r.line[j]
  BY <1>2, <1>3, AppendProperties
<1> HIDE DEF p, line, b, k
<1>6. \A j \in 1 .. k + 1 : line[j] = Pcs[b + j] /\ (j # k + 1 => ~line[j].end)
  <2> SUFFICES ASSUME NEW j \in 1 .. k + 1
               PROVE  line[j] = Pcs[b + j] /\ (j # k + 1 => ~line[j].end)
    OBVIOUS
  <2>1. CASE j = k + 1
    BY <1>4, <1>5, <2>1 DEF p
  <2>2. CASE j # k + 1
    <3>1. j \in 1 .. k
      BY <1>3, <2>2
    <3> QED
      BY <1>1, <1>5, <3>1
  <2> QED
    BY <2>1, <2>2
<1>7. CASE p.end
  <2> DEFINE d == N!Ingested(r.chan, line)
             t == [chan |-> d, line |-> <<>>]
  <2>1. N!Taken(r, p) = t
    BY <1>7 DEF N!Taken, line
  <2>2. IsLine(line, b)
    <3>1. b + Len(line) <= Size /\ Len(line) >= 1
      BY <1>2, <1>3, <1>4, <1>5
    <3>2. \A j \in 1 .. Len(line) : line[j] = Pcs[b + j] /\ (line[j].end <=> j = Len(line))
      BY <1>3, <1>5, <1>6, <1>7
    <3> QED
      BY <1>1, <1>4, <1>5, <3>1, <3>2 DEF IsLine
  <2>3. d \in ScanChan /\ HasRead(d, b + Len(line))
    BY <1>1, <1>3, <1>4, <2>2, LineKeeps
  <2> HIDE DEF d
  <2>4. <<>> \in Seq(N!Pieces) /\ Len(<<>>) = 0
    OBVIOUS
  <2>5. t \in Scanned /\ t.chan = d /\ Len(t.line) = 0
    BY <2>3, <2>4 DEF Scanned
  <2> HIDE DEF t
  <2>6. From(i, t) = n
    BY <1>2, <2>5 DEF From
  <2>7. HasRead(t.chan, n)
    BY <1>4, <1>5, <2>3, <2>5
  <2>8. Pcs[n].end
    BY <1>7 DEF p
  <2>9. Len(t.line) <= i /\ \A j : j \notin 1 .. Len(t.line)
    BY <1>2, <2>5
  <2>10. Reads(i, t)
    BY <2>5, <2>6, <2>7, <2>8, <2>9 DEF Reads
  <2> QED
    BY <2>1, <2>10 DEF p
<1>8. CASE ~p.end
  <2> DEFINE t == [chan |-> r.chan, line |-> line]
  <2>1. N!Taken(r, p) = t
    BY <1>3, <1>8 DEF N!Taken, line
  <2>2. t \in Scanned /\ t.chan = r.chan /\ t.line = line
    BY <1>3, <1>5 DEF Scanned
  <2> HIDE DEF t
  <2>3. From(i, t) = b /\ Len(t.line) <= i
    <3>1. From(i, t) = (chan.consumed + i) - (k + 1)
      BY <1>5, <2>2 DEF From
    <3> QED
      BY <1>1, <1>2, <1>3, <1>4, <1>5, <2>2, <3>1
  <2>4. \A j \in 1 .. Len(t.line) : t.line[j] = Pcs[b + j] /\ ~t.line[j].end
    BY <1>5, <1>6, <1>8, <2>2
  <2>5. Reads(i, t)
    BY <1>1, <2>2, <2>3, <2>4 DEF Reads
  <2> QED
    BY <2>1, <2>5 DEF p
<1> QED
  BY <1>7, <1>8

\* One piece more of a channel is a channel.
LEMMA TakenTyped ==
  ASSUME NEW r \in Scanned, NEW p \in N!Pieces
  PROVE  N!Taken(r, p) \in Scanned
<1> DEFINE line == Append(r.line, p)
           d == N!Ingested(r.chan, line)
           f == line[1].frame
<1>1. r = [chan |-> r.chan, line |-> r.line] /\ r.chan \in ScanChan /\ r.line \in Seq(N!Pieces)
  BY DEF Scanned
<1>2. line \in Seq(N!Pieces) /\ Len(line) = Len(r.line) + 1 /\ Len(r.line) \in Nat
  BY <1>1, AppendProperties
<1>3. N!Taken(r, p) = [chan |-> d, line |-> <<>>] \/ N!Taken(r, p) = [chan |-> r.chan, line |-> line]
  <2>1. N!Taken(r, p) = IF p.end THEN [chan |-> d, line |-> <<>>] ELSE [r EXCEPT !.line = line]
    BY DEF N!Taken
  <2> HIDE DEF line, d
  <2>2. [r EXCEPT !.line = line] = [chan |-> r.chan, line |-> line]
    BY <1>1
  <2> QED
    BY <2>1, <2>2
<1> HIDE DEF line
<1>4. Len(line) >= 1 /\ f \in N!Frames
  <2>1. 1 \in 1 .. Len(line)
    BY <1>2
  <2>2. line[1] \in N!Pieces
    BY <1>2, <2>1
  <2> QED
    BY <1>2, <2>2 DEF N!Pieces
<1>5. /\ d.consumed = r.chan.consumed /\ d.latest \in N!Frames \cup {None}
      /\ d = [consumed |-> d.consumed, latest |-> d.latest, ring |-> d.ring, seq |-> d.seq,
              accepted |-> d.accepted, refused |-> d.refused]
      /\ d.accepted \subseteq N!Frames /\ d.refused \subseteq N!Frames
      /\ \/ d.seq = r.chan.seq /\ d.ring = r.chan.ring
         \/ d.seq = r.chan.seq + 1 /\ d.ring = Pushed(r.chan.ring, f)
  BY <1>1, <1>2, <1>4, IngestedGives
<1> HIDE DEF d, f
<1>6. r.chan.seq \in Nat /\ r.chan.ring \in Seq(N!Frames) /\ r.chan.consumed \in Nat
  BY <1>1 DEF ScanChan
<1>7. Pushed(r.chan.ring, f) \in Seq(N!Frames)
  <2> DEFINE longer == Append(r.chan.ring, f)
  <2>1. longer \in Seq(N!Frames) /\ longer # <<>>
    BY <1>4, <1>6, AppendProperties
  <2>2. Tail(longer) \in Seq(N!Frames)
    BY <2>1, HeadTailProperties
  <2> QED
    BY <2>1, <2>2 DEF Pushed
<1>8. d \in ScanChan
  <2>1. d.seq \in Nat /\ d.ring \in Seq(N!Frames)
    BY <1>5, <1>6, <1>7
  <2> QED
    BY <1>5, <1>6, <2>1 DEF ScanChan
<1>9. <<>> \in Seq(N!Pieces)
  OBVIOUS
<1>10. [chan |-> d, line |-> <<>>] \in Scanned
  BY <1>8, <1>9 DEF Scanned
<1>11. [chan |-> r.chan, line |-> line] \in Scanned
  BY <1>1, <1>2 DEF Scanned
<1> QED
  BY <1>3, <1>10, <1>11, Zenon

\* What the read loop leaves: it has read up to the start of the line it
\* could not end.
LEMMA DrainGives ==
  ASSUME NativeInv, NEW d, d = N!Drained(chan)
  PROVE  \E r : LET to == From(Size - chan.consumed, r) IN
           /\ r \in Scanned /\ HasRead(r.chan, to)
           /\ chan.consumed <= to /\ to <= Size /\ (to > 0 => Pcs[to].end)
           /\ d = [r.chan EXCEPT !.consumed = to]
<1> DEFINE unread == SubSeq(Pcs, chan.consumed + 1, Size)
           k == Size - chan.consumed
           init == [chan |-> chan, line |-> <<>>]
           f == CHOOSE g : g = [n \in 0 .. Len(unread) |->
                  IF n = 0 THEN init ELSE N!Taken(g[n - 1], unread[n])]
           step == [p \in (1 .. k) \X Scanned |-> N!Taken(p[2], Pcs[chan.consumed + p[1]])]
           P == {p \in (0 .. k) \X Scanned : Reads(p[1], p[2])}
<1>1. d = [f[Len(unread)].chan EXCEPT !.consumed = Size - Len(f[Len(unread)].line)]
  BY DEF N!Drained, Pcs, Size
<1>2. /\ Size \in Nat /\ chan.consumed \in Nat /\ k \in Nat /\ chan.consumed <= Size
      /\ \A i \in 1 .. k : chan.consumed + i \in 1 .. Size
      /\ \A n \in 1 .. Size : Pcs[n] \in N!Pieces
  <2>1. Size \in Nat /\ chan.consumed \in Nat /\ \A n \in 1 .. Size : Pcs[n] \in N!Pieces
    BY NativeFacts
  <2>2. chan.consumed <= Size
    BY DEF NativeInv, OffsetInv
  <2> QED
    BY <2>1, <2>2
<1>3. Len(unread) = k /\ \A i \in 1 .. k : unread[i] = Pcs[chan.consumed + i]
  <2> DEFINE from == chan.consumed + 1
  <2>1. from \in Int /\ Size \in Int /\ \A n \in from .. Size : Pcs[n] \in N!Pieces
    BY <1>2
  <2>2. /\ Len(SubSeq(Pcs, from, Size)) = IF from <= Size THEN Size - from + 1 ELSE 0
        /\ \A i \in 1 .. Size - from + 1 : SubSeq(Pcs, from, Size)[i] = Pcs[from + i - 1]
    BY <2>1, SubSeqProperties
  <2>3. \A i \in 1 .. k : i \in 1 .. Size - from + 1 /\ from + i - 1 = chan.consumed + i
    BY <1>2
  <2>4. (IF from <= Size THEN Size - from + 1 ELSE 0) = k
    BY <1>2
  <2> QED
    BY <2>2, <2>3, <2>4
<1> HIDE DEF unread
<1>4. init \in Scanned /\ Reads(0, init)
  <2>1. Reads(0, init)
    BY ReadsNothing
  <2> QED
    BY <2>1 DEF Reads
<1> HIDE DEF init
<1>5. step \in [(1 .. k) \X Scanned -> Scanned]
  <2>1. ASSUME NEW i \in 1 .. k, NEW r \in Scanned PROVE N!Taken(r, Pcs[chan.consumed + i]) \in Scanned
    BY <1>2, TakenTyped
  <2> QED
    BY <2>1
<1>6. \A i \in 1 .. k, r \in Scanned : step[<<i, r>>] = N!Taken(r, Pcs[chan.consumed + i])
  OBVIOUS
<1> HIDE DEF step
<1>7. f = [n \in 0 .. Len(unread) |-> IF n = 0 THEN init ELSE N!Taken(f[n - 1], unread[n])]
      /\ f \in [0 .. k -> Scanned]
  <2>1. PICK g \in [0 .. k -> Scanned] :
          \A i \in 0 .. k : g[i] = IF i = 0 THEN init ELSE step[<<i, g[i - 1]>>]
    <3>1. Scans(k, Scanned, init, step)
      BY <1>2, <1>4, <1>5, ScanExists
    <3> QED
      BY <3>1 DEF Scans, IsScan
  <2>2. \A i \in 1 .. k : g[i] = N!Taken(g[i - 1], unread[i])
    <3>1. \A i \in 1 .. k : i \in 0 .. k /\ i # 0 /\ i - 1 \in 0 .. k
      BY <1>2
    <3>2. \A i \in 1 .. k : g[i] = step[<<i, g[i - 1]>>] /\ g[i - 1] \in Scanned
      BY <2>1, <3>1
    <3> QED
      BY <1>3, <1>6, <3>2, ZenonT(30)
  <2>3. \A i \in 0 .. Len(unread) : g[i] = IF i = 0 THEN init ELSE N!Taken(g[i - 1], unread[i])
    <3>1. ASSUME NEW i \in 0 .. Len(unread)
          PROVE  g[i] = IF i = 0 THEN init ELSE N!Taken(g[i - 1], unread[i])
      <4>1. i \in 0 .. k /\ (i # 0 => i \in 1 .. k)
        BY <1>2, <1>3
      <4> QED
        BY <2>1, <2>2, <4>1
    <3> QED
      BY <3>1
  <2>4. g = [n \in 0 .. Len(unread) |-> IF n = 0 THEN init ELSE N!Taken(g[n - 1], unread[n])]
    BY <1>3, <2>1, <2>3
  <2>5. f = [n \in 0 .. Len(unread) |-> IF n = 0 THEN init ELSE N!Taken(f[n - 1], unread[n])]
    BY <2>4
  <2> HIDE DEF f
  <2>6. ASSUME NEW i \in 0 .. k PROVE f[i] \in Scanned
    <3>1. f[0] = init /\ \A j \in 1 .. k : f[j] = N!Taken(f[j - 1], unread[j])
      BY <1>2, <1>3, <2>5
    <3> DEFINE Q == {p \in (0 .. k) \X Scanned : TRUE}
    <3>2. <<0, f[0]>> \in Q
      BY <1>2, <1>4, <3>1
    <3>3. ASSUME NEW j \in 1 .. k, <<j - 1, f[j - 1]>> \in Q PROVE <<j, f[j]>> \in Q
      <4>1. f[j - 1] \in Scanned
        BY <3>3
      <4>2. unread[j] \in N!Pieces
        BY <1>2, <1>3
      <4>3. f[j] \in Scanned
        BY <3>1, <4>1, <4>2, TakenTyped
      <4>4. j \in 0 .. k
        BY <1>2
      <4> QED
        BY <4>3, <4>4
    <3> HIDE DEF Q
    <3>4. \A j \in 0 .. k : <<j, f[j]>> \in Q
      BY <1>2, <3>2, <3>3, ScanHolds
    <3> QED
      BY <3>4 DEF Q
  <2>7. f \in [0 .. k -> Scanned]
    BY <1>3, <2>5, <2>6
  <2> QED
    BY <2>5, <2>7 DEF f
<1> HIDE DEF f
<1>8. f[0] = init /\ \A i \in 1 .. k : f[i] = N!Taken(f[i - 1], Pcs[chan.consumed + i])
  BY <1>2, <1>3, <1>7
<1>9. <<0, f[0]>> \in P
  BY <1>2, <1>4, <1>8
<1>10. ASSUME NEW i \in 1 .. k, <<i - 1, f[i - 1]>> \in P PROVE <<i, f[i]>> \in P
  <2>1. Reads(i - 1, f[i - 1])
    BY <1>10
  <2>2. Reads(i, f[i])
    BY <1>8, <2>1, TakenKeeps
  <2>3. f[i] \in Scanned /\ i \in 0 .. k
    BY <1>2, <2>2 DEF Reads
  <2> QED
    BY <2>2, <2>3
<1> HIDE DEF P
<1>11. <<k, f[k]>> \in P
  <2>1. \A i \in 0 .. k : <<i, f[i]>> \in P
    BY <1>2, <1>9, <1>10, ScanHolds
  <2> QED
    BY <1>2, <2>1
<1>12. Reads(k, f[k])
  BY <1>11 DEF P
<1> DEFINE r == f[k]
           to == From(k, r)
<1>13. r \in Scanned /\ Len(r.line) <= k /\ (to > 0 => Pcs[to].end) /\ HasRead(r.chan, to)
  BY <1>12 DEF Reads
<1>14. to = (chan.consumed + k) - Len(r.line)
  BY DEF From
<1>15. Len(r.line) \in Nat
  BY <1>13 DEF Scanned
<1>16. to = Size - Len(r.line) /\ chan.consumed <= to /\ to <= Size
  <2> DEFINE l == Len(r.line)
  <2> HIDE DEF l
  <2>1. l \in Nat /\ l <= k /\ to = (chan.consumed + k) - l
    BY <1>13, <1>14, <1>15 DEF l
  <2> HIDE DEF to
  <2>2. to = Size - l /\ chan.consumed <= to /\ to <= Size
    BY <1>2, <2>1
  <2> QED
    BY <2>2 DEF l
<1>17. d = [r.chan EXCEPT !.consumed = to]
  BY <1>1, <1>3, <1>16
<1> QED
  BY <1>13, <1>16, <1>17

\* What events_since answers for what was absorbed is the news of the ring, in
\* its order; it is empty only when there is none.
LEMMA FreshGives ==
  ASSUME NativeInv, NEW c \in ScanChan, NEW to, HasRead(c, to), NEW fresh, fresh = N!Fresh(c, watermark)
  PROVE  /\ fresh \in Seq(N!Frames)
         /\ fresh = <<>> => c.seq = chan.seq
         /\ \E ofs \in Nat : \A k \in 1 .. Len(fresh) :
              ofs + k \in News(c) /\ fresh[k] = c.ring[ofs + k]
<1> DEFINE l == Len(c.ring)
           first == c.seq - l
           ofs == chan.seq - first
<1>1. /\ c.ring \in Seq(N!Frames) /\ l \in Nat /\ c.seq \in Nat /\ chan.seq \in Nat
      /\ chan.seq <= c.seq /\ l <= c.seq /\ (c.ring = <<>> => c.seq = 0)
      /\ watermark = chan.seq
  <2>1. c.ring \in Seq(N!Frames) /\ c.seq \in Nat
    BY DEF ScanChan
  <2>2. chan.seq \in Nat
    BY NativeFacts
  <2>3. watermark = chan.seq
    BY DEF NativeInv, RingInv
  <2> QED
    BY <2>1, <2>2, <2>3 DEF HasRead
<1>2. fresh = IF chan.seq <= first THEN c.ring ELSE SubSeq(c.ring, chan.seq - first + 1, l)
  BY <1>1 DEF N!Fresh
<1>3. CASE chan.seq <= first
  <2>1. fresh = c.ring
    BY <1>2, <1>3
  <2>2. c.ring = <<>> => c.seq = chan.seq
    BY <1>1
  <2>3. ASSUME NEW k \in 1 .. Len(fresh) PROVE 0 + k \in News(c) /\ fresh[k] = c.ring[0 + k]
    <3>1. k \in 1 .. l /\ 0 + k = k
      BY <2>1
    <3> HIDE DEF l
    <3>2. k + (c.seq - chan.seq) > l
      BY <1>1, <1>3, <3>1
    <3> QED
      BY <2>1, <3>1, <3>2 DEF News, l
  <2>4. 0 \in Nat
    OBVIOUS
  <2> QED
    BY <1>1, <2>1, <2>2, <2>3, <2>4
<1>4. CASE ~(chan.seq <= first)
  <2>1. ofs \in Nat /\ ofs >= 1 /\ ofs = chan.seq - (c.seq - l) /\ l - ofs = c.seq - chan.seq
    <3> HIDE DEF l
    <3> QED
      BY <1>1, <1>4
  <2> DEFINE from == ofs + 1
  <2>2. fresh = SubSeq(c.ring, from, l)
    BY <1>2, <1>4
  <2>3. \A i \in from .. l : c.ring[i] \in N!Frames
    <3>1. \A i \in from .. l : i \in 1 .. l
      BY <1>1, <2>1
    <3> QED
      BY <1>1, <3>1
  <2> HIDE DEF ofs, first
  <2>4. /\ fresh \in Seq(N!Frames)
        /\ Len(fresh) = IF from <= l THEN l - from + 1 ELSE 0
        /\ \A i \in 1 .. l - from + 1 : fresh[i] = c.ring[from + i - 1]
    <3>1. from \in Int /\ l \in Int
      BY <1>1, <2>1
    <3> HIDE DEF from, l
    <3> QED
      BY <2>2, <2>3, <3>1, SubSeqProperties
  <2>5. ASSUME fresh = <<>> PROVE c.seq = chan.seq
    <3>1. Len(fresh) = 0
      BY <2>5
    <3> HIDE DEF l
    <3>2. ~(from <= l)
      BY <1>1, <2>1, <2>4, <3>1
    <3> QED
      BY <1>1, <2>1, <3>2
  <2>6. ASSUME NEW k \in 1 .. Len(fresh) PROVE ofs + k \in News(c) /\ fresh[k] = c.ring[ofs + k]
    <3> DEFINE j == ofs + k
    <3> HIDE DEF l
    <3>0. k \in Nat /\ k >= 1 /\ from <= l /\ k <= l - from + 1
      <4> DEFINE m == Len(fresh)
      <4>1. m \in Nat /\ k \in 1 .. m /\ m = IF from <= l THEN l - from + 1 ELSE 0
        BY <2>4
      <4> HIDE DEF m, from
      <4>2. k \in Nat /\ k >= 1 /\ k <= m /\ m # 0
        BY <4>1
      <4> QED
        BY <4>1, <4>2
    <3>1. k \in 1 .. l - from + 1 /\ from + k - 1 = j /\ j \in 1 .. l
          /\ j + (c.seq - chan.seq) > l
      <4> DEFINE more == c.seq - chan.seq
      <4>1. more \in Int /\ l - ofs = more /\ ofs \in Nat /\ l \in Nat
        BY <1>1, <2>1
      <4> HIDE DEF more
      <4>2. k \in 1 .. l - from + 1 /\ from + k - 1 = j /\ j \in 1 .. l
        BY <3>0, <4>1
      <4>3. j + more > l
        BY <3>0, <4>1
      <4> QED
        BY <4>2, <4>3 DEF more
    <3> HIDE DEF j, from
    <3>2. fresh[k] = c.ring[j]
      BY <2>4, <3>1
    <3>3. j \in News(c)
      BY <3>1 DEF News, l
    <3> QED
      BY <3>2, <3>3 DEF j
  <2> QED
    BY <2>1, <2>4, <2>5, <2>6
<1> QED
  BY <1>3, <1>4

\* The channel is polled, its news absorbed, and the compaction may begin.
LEMMA NativePollStep ==
  ASSUME NativeInv, N!Poll
  PROVE  NativeInv'
<1> DEFINE c == N!Drained(chan)
           fresh == N!Fresh(c, watermark)
           new == [n \in 1 .. Len(fresh) |-> [frame |-> fresh[n], gen |-> gen]]
<1>1. ~(Len(file.pieces) < chan.consumed)
  <2>1. Size \in Nat /\ chan.consumed \in Nat
    BY NativeFacts
  <2>2. chan.consumed <= Size
    BY DEF NativeInv, OffsetInv
  <2> QED
    BY <2>1, <2>2 DEF Size
<1>2. /\ chan' = c
      /\ queue' = queue \o new
      /\ watermark' = IF fresh = <<>> THEN watermark ELSE c.seq
      /\ tail' = IF Len(file.pieces) >= Compact /\ c.consumed > 0
                 THEN SubSeq(file.pieces, c.consumed + 1, Len(file.pieces)) ELSE None
      /\ UNCHANGED <<app, file, gen, memo, served, lost>>
  BY <1>1 DEF N!Poll
<1> HIDE DEF c
<1>3. PICK r : LET to == From(Size - chan.consumed, r) IN
                 /\ r \in Scanned /\ HasRead(r.chan, to)
                 /\ chan.consumed <= to /\ to <= Size /\ (to > 0 => Pcs[to].end)
                 /\ c = [r.chan EXCEPT !.consumed = to]
  BY DrainGives DEF c
<1> DEFINE to == From(Size - chan.consumed, r)
           was == r.chan
<1>4. /\ was \in ScanChan /\ HasRead(was, to)
      /\ chan.consumed <= to /\ to <= Size /\ (to > 0 => Pcs[to].end)
      /\ c = [was EXCEPT !.consumed = to]
  BY <1>3 DEF Scanned
<1>5. to \in Nat /\ Size \in Nat /\ chan.consumed \in Nat /\ chan.seq \in Nat /\ MaxFrames \in Nat
      /\ app.next \in Nat /\ app.next <= MaxFrames + 1 /\ gen \in 1 .. MaxGen /\ app.first \in Nat
      /\ Pcs \in Seq(N!Pieces)
  <2>1. Size \in Nat /\ chan.consumed \in Nat /\ Len(r.line) \in Nat
    <3>1. r.line \in Seq(N!Pieces)
      BY <1>3 DEF Scanned
    <3> QED
      BY <3>1, NativeFacts, SMTT(30)
  <2>2. to \in Int
    BY <2>1 DEF From
  <2>3. to \in Nat
    BY <1>4, <2>1, <2>2
  <2> QED
    BY <2>1, <2>3, NativeFacts
<1> HIDE DEF to, was
<1>6. /\ c.consumed = to /\ c.latest = was.latest /\ c.ring = was.ring /\ c.seq = was.seq
      /\ c.accepted = was.accepted /\ c.refused = was.refused
      /\ c = [consumed |-> c.consumed, latest |-> c.latest, ring |-> c.ring, seq |-> c.seq,
              accepted |-> c.accepted, refused |-> c.refused]
  BY <1>4 DEF ScanChan
<1>7. c \in ScanChan /\ HasRead(c, to)
  <2>1. c \in ScanChan
    BY <1>4, <1>5, <1>6 DEF ScanChan
  <2>2. News(c) = News(was)
    BY <1>6 DEF News
  <2>3. HasRead(c, to)
    BY <1>4, <1>6, <2>2 DEF HasRead
  <2> QED
    BY <2>1, <2>3
<1>8. /\ fresh \in Seq(N!Frames)
      /\ fresh = <<>> => c.seq = chan.seq
      /\ \E ofs \in Nat : \A k \in 1 .. Len(fresh) : ofs + k \in News(c) /\ fresh[k] = c.ring[ofs + k]
  BY <1>7, FreshGives
<1> DEFINE k == Len(fresh)
           q == Len(queue)
<1> HIDE DEF fresh
<1>9. PICK ofs \in Nat : \A j \in 1 .. k : ofs + j \in News(c) /\ fresh[j] = c.ring[ofs + j]
  BY <1>8
<1>10. watermark' = c.seq /\ watermark = chan.seq
  <2>1. watermark = chan.seq
    BY DEF NativeInv, RingInv
  <2> QED
    BY <1>2, <1>8, <2>1
<1>11. k \in Nat /\ queue \in Seq(N!Queued) /\ q \in Nat
  BY <1>8, NativeFacts, SMTT(30)
<1>12. /\ c.seq \in Nat /\ c.seq < app.next /\ c.seq \in 0 .. MaxFrames
       /\ c.ring \in Seq(N!Frames) /\ Len(c.ring) <= Ring /\ Len(c.ring) <= c.seq
       /\ (c.ring = <<>> => c.seq = 0) /\ c.refused \subseteq Excused
       /\ Passed(c.seq, to)
  <2>1. c.seq \in Nat /\ c.ring \in Seq(N!Frames)
    BY <1>7 DEF ScanChan
  <2>2. Passed(c.seq, to)
    BY <1>7 DEF HasRead
  <2>3. c.seq < app.next
    BY <2>2 DEF Passed
  <2>4. c.seq \in 0 .. MaxFrames
    BY <1>5, <2>1, <2>3
  <2> QED
    BY <1>7, <2>1, <2>2, <2>3, <2>4 DEF HasRead
<1>13. /\ new \in Seq(N!Queued) /\ Len(new) = k
       /\ \A j \in 1 .. k : new[j].frame = fresh[j]
  <2>1. ASSUME NEW j \in 1 .. k PROVE [frame |-> fresh[j], gen |-> gen] \in N!Queued
    <3>1. fresh[j] \in N!Frames
      BY <1>8, <1>11
    <3> QED
      BY <1>5, <3>1 DEF N!Queued
  <2> QED
    BY <1>11, <2>1
<1> HIDE DEF new
<1>14. /\ queue' \in Seq(N!Queued) /\ Len(queue') = q + k /\ DOMAIN queue' = 1 .. q + k
       /\ \A n \in 1 .. q : queue'[n] = queue[n]
       /\ \A n \in 1 .. q + k : n > q => n - q \in 1 .. k /\ queue'[n].frame = fresh[n - q]
  <2>1. /\ queue' \in Seq(N!Queued) /\ Len(queue') = q + k
        /\ \A n \in 1 .. q + k : queue'[n] = IF n <= q THEN queue[n] ELSE new[n - q]
    <3> DEFINE both == queue \o new
    <3>1. /\ both \in Seq(N!Queued) /\ Len(both) = Len(queue) + Len(new)
          /\ \A n \in 1 .. Len(queue) + Len(new) :
               both[n] = IF n <= Len(queue) THEN queue[n] ELSE new[n - Len(queue)]
      BY <1>11, <1>13, ConcatProperties, ZenonT(30)
    <3>2. queue' = both /\ Len(new) = k
      BY <1>2, <1>13
    <3> HIDE DEF both
    <3> QED
      BY <3>1, <3>2
  <2> HIDE DEF q, k
  <2>2. \A n \in 1 .. q : n \in 1 .. q + k /\ n <= q
    BY <1>11
  <2>3. \A n \in 1 .. q + k : n > q => n - q \in 1 .. k /\ ~(n <= q)
    BY <1>11
  <2>4. \A n \in 1 .. q + k : n > q => queue'[n].frame = fresh[n - q]
    BY <1>13, <2>1, <2>3
  <2>5. \A n \in 1 .. q : queue'[n] = queue[n]
    BY <2>1, <2>2
  <2>6. DOMAIN queue' = 1 .. q + k
    BY <2>1
  <2> QED
    BY <2>1, <2>3, <2>4, <2>5, <2>6
<1>15. \A j \in 1 .. k : /\ Passed(fresh[j], to)
                         /\ \A n \in DOMAIN queue : queue[n].frame < fresh[j]
  BY <1>7, <1>9 DEF HasRead
<1>16. \A i, j \in 1 .. k : i < j => fresh[i] < fresh[j]
  <2> SUFFICES ASSUME NEW i \in 1 .. k, NEW j \in 1 .. k, i < j PROVE fresh[i] < fresh[j]
    OBVIOUS
  <2> DEFINE a == ofs + i
             b == ofs + j
  <2>1. a \in News(c) /\ b \in News(c) /\ fresh[i] = c.ring[a] /\ fresh[j] = c.ring[b]
    BY <1>9
  <2>2. a < b
    BY <1>11
  <2> HIDE DEF a, b
  <2> QED
    BY <1>7, <2>1, <2>2 DEF HasRead
<1>17. Pcs' = Pcs /\ Size' = Size
  BY <1>2 DEF Pcs, Size
<1>18. PieceInv' /\ HalfInv' /\ GapInv'
  <2>1. PieceInv /\ HalfInv /\ GapInv
    BY DEF NativeInv
  <2> QED
    BY <1>2, <1>17, <2>1 DEF PieceInv, HalfInv, GapInv
<1>19. tail' = None \/ (/\ tail' \in Seq(N!Pieces) /\ Len(tail') = Size - to
                        /\ \A i \in 1 .. Len(tail') : tail'[i] = Pcs[to + i])
  <2> DEFINE from == to + 1
             s == SubSeq(Pcs, from, Size)
  <2>1. tail' = None \/ tail' = s
    BY <1>2, <1>6 DEF Pcs, Size
  <2>2. \A i \in from .. Size : Pcs[i] \in N!Pieces
    <3>1. \A i \in from .. Size : i \in 1 .. Size
      BY <1>5
    <3> QED
      BY <3>1, NativeFacts
  <2>3. from \in Int /\ Size \in Int
    BY <1>5
  <2> HIDE DEF from
  <2>4. /\ s \in Seq(N!Pieces) /\ Len(s) = IF from <= Size THEN Size - from + 1 ELSE 0
        /\ \A i \in 1 .. Size - from + 1 : s[i] = Pcs[from + i - 1]
    BY <2>2, <2>3, SubSeqProperties
  <2> HIDE DEF s
  <2>5. Len(s) = Size - to
    BY <1>4, <1>5, <2>4 DEF from
  <2>6. \A i \in 1 .. Size - to : i \in 1 .. Size - from + 1 /\ from + i - 1 = to + i
    BY <1>5 DEF from
  <2>7. \A i \in 1 .. Size - to : s[i] = Pcs[to + i]
    BY <2>4, <2>6
  <2> QED
    BY <2>1, <2>4, <2>5, <2>7
<1>20. OffsetInv'
  <2>1. chan'.consumed = to
    BY <1>2, <1>6
  <2>2. CASE tail' = None
    BY <1>4, <1>17, <2>1, <2>2 DEF OffsetInv
  <2>3. CASE /\ tail' \in Seq(N!Pieces) /\ Len(tail') = Size - to
             /\ \A i \in 1 .. Len(tail') : tail'[i] = Pcs[to + i]
    <3>1. to + Len(tail') = Size
      BY <1>4, <1>5, <2>3
    <3>2. \A n \in 1 .. Size : ~(n > Size)
      BY <1>5
    <3>3. to + Len(tail') <= Size
      BY <1>5, <3>1
    <3> QED
      BY <1>4, <1>17, <2>1, <2>3, <3>1, <3>2, <3>3 DEF OffsetInv
  <2> QED
    BY <1>19, <2>2, <2>3
<1>23. ASSUME NEW n \in 1 .. q
       PROVE  /\ queue[n].frame \in Nat /\ n \in DOMAIN queue /\ Behind(queue[n].frame)
              /\ queue'[n].frame = queue[n].frame
  <2>1. queue[n] \in N!Queued /\ n \in DOMAIN queue
    BY <1>11
  <2>2. queue[n].frame \in Nat
    BY <1>5, <2>1 DEF N!Queued, N!Frames
  <2> QED
    BY <1>14, <2>1, <2>2 DEF NativeInv, RingInv
<1>24. ASSUME NEW j \in 1 .. k PROVE fresh[j] \in Nat
  <2>1. fresh[j] \in N!Frames
    BY <1>8, <1>11
  <2> QED
    BY <1>5, <2>1 DEF N!Frames
<1>25. RingInv'
  <2>1. ASSUME NEW n \in DOMAIN queue' PROVE Behind(queue[n].frame)'
    <3>0. n \in 1 .. q + k
      BY <1>14
    <3> HIDE DEF k, q
    <3>1. CASE n <= q
      <4>1. n \in 1 .. q
        BY <1>11, <3>0, <3>1
      <4> DEFINE x == queue[n].frame
      <4>2. x \in Nat /\ Behind(x) /\ queue'[n].frame = x
        BY <1>23, <4>1
      <4> HIDE DEF x
      <4>3. x < app'.next /\ \A m \in 1 .. Size' : m > chan'.consumed => x < Pcs'[m].frame
        <5>1. x < app.next /\ \A m \in 1 .. Size : m > chan.consumed => x < Pcs[m].frame
          BY <4>2 DEF Behind
        <5>2. \A m \in 1 .. Size : m > to => m > chan.consumed
          BY <1>4, <1>5
        <5> QED
          BY <1>2, <1>6, <1>17, <5>1, <5>2
      <4> QED
        BY <4>2, <4>3 DEF Behind
    <3>2. CASE n > q
      <4> DEFINE x == fresh[n - q]
      <4>1. n - q \in 1 .. k /\ queue'[n].frame = x
        BY <1>14, <3>0, <3>2
      <4>2. Passed(x, to)
        BY <1>15, <4>1
      <4> HIDE DEF x
      <4>3. x < app'.next /\ \A m \in 1 .. Size' : m > chan'.consumed => x < Pcs'[m].frame
        BY <1>2, <1>6, <1>17, <4>2 DEF Passed
      <4> QED
        BY <4>1, <4>3 DEF Behind
    <3> QED
      BY <1>11, <3>0, <3>1, <3>2
  <2>2. Behind(chan.seq)'
    BY <1>2, <1>6, <1>12, <1>17 DEF Passed, Behind
  <2>3. watermark' = chan'.seq /\ Len(chan'.ring) <= chan'.seq /\ (chan'.ring = <<>> => chan'.seq = 0)
    BY <1>2, <1>10, <1>12
  <2> QED
    BY <2>1, <2>2, <2>3 DEF RingInv
<1>26. N!NativeOrder'
  <2> SUFFICES ASSUME NEW m \in DOMAIN queue', NEW n \in DOMAIN queue', m < n
               PROVE  queue'[m].frame < queue'[n].frame
    BY DEF N!NativeOrder
  <2>1. m \in 1 .. q + k /\ n \in 1 .. q + k
    BY <1>14
  <2> HIDE DEF k, q
  <2>2. CASE n <= q
    <3>1. m \in 1 .. q /\ n \in 1 .. q
      BY <1>11, <2>1, <2>2
    <3>2. queue[m].frame < queue[n].frame
      BY <1>23, <3>1 DEF NativeInv, N!NativeOrder
    <3> QED
      BY <1>23, <3>1, <3>2
  <2>3. CASE n > q /\ m <= q
    <3>1. m \in 1 .. q /\ n - q \in 1 .. k /\ queue'[n].frame = fresh[n - q]
      BY <1>11, <1>14, <2>1, <2>3
    <3> QED
      BY <1>15, <1>23, <3>1
  <2>4. CASE n > q /\ m > q
    <3>1. /\ n - q \in 1 .. k /\ queue'[n].frame = fresh[n - q]
          /\ m - q \in 1 .. k /\ queue'[m].frame = fresh[m - q]
      BY <1>14, <2>1, <2>4
    <3>2. m - q < n - q
      BY <1>11, <2>1
    <3> QED
      BY <1>16, <3>1, <3>2
  <2> QED
    BY <1>11, <2>1, <2>2, <2>3, <2>4
<1>27. N!NativeAccounted'
  <2>1. app.first .. app.next - 1 \subseteq chan.accepted \cup chan.refused \cup N!Unread \cup lost
    BY DEF NativeInv, N!NativeAccounted
  <2>2. /\ chan.accepted \subseteq c.accepted /\ chan.refused \subseteq c.refused
        /\ \A n \in chan.consumed + 1 .. to : Pcs[n].frame \in c.accepted \cup c.refused
    BY <1>7 DEF HasRead
  <2>3. N!Unread' = {Pcs[n].frame : n \in to + 1 .. Size}
    BY <1>2, <1>6, <1>17 DEF N!Unread, Pcs, Size
  <2>4. N!Unread = {Pcs[n].frame : n \in chan.consumed + 1 .. Size}
    BY DEF N!Unread, Pcs, Size
  <2>5. \A n \in chan.consumed + 1 .. Size : n \in chan.consumed + 1 .. to \/ n \in to + 1 .. Size
    BY <1>4, <1>5
  <2>6. N!Unread \subseteq c.accepted \cup c.refused \cup N!Unread'
    BY <2>2, <2>3, <2>4, <2>5
  <2>7. app'.first .. app'.next - 1 \subseteq chan'.accepted \cup chan'.refused \cup N!Unread' \cup lost'
    BY <1>2, <2>1, <2>2, <2>6
  <2>8. chan'.refused \subseteq app'.bad \cup lost' \cup {f + 1 : f \in lost'}
    BY <1>2, <1>12 DEF Excused
  <2> QED
    BY <2>7, <2>8 DEF N!NativeAccounted
<1>28. N!TypeOK'
  <2>1. N!TypeOK
    BY DEF NativeInv
  <2>2. /\ chan' \in [consumed : Nat, latest : N!Frames \cup {None}, ring : Seq(N!Frames),
                      seq : 0 .. MaxFrames, accepted : SUBSET N!Frames, refused : SUBSET N!Frames]
        /\ Len(chan'.ring) <= Ring
    <3>1. c \in [consumed : Nat, latest : N!Frames \cup {None}, ring : Seq(N!Frames),
                 seq : 0 .. MaxFrames, accepted : SUBSET N!Frames, refused : SUBSET N!Frames]
      BY <1>7, <1>12 DEF ScanChan
    <3> QED
      BY <1>2, <1>12, <3>1
  <2>3. tail' \in Seq(N!Pieces) \cup {None}
    BY <1>19
  <2>4. watermark' \in 0 .. MaxFrames
    BY <1>10, <1>12
  <2>5. /\ app' \in [next : 1 .. MaxFrames + 1, kind : N!Kinds, half : BOOLEAN, inode : Nat,
                     bad : SUBSET N!Frames, first : 1 .. MaxFrames + 1]
        /\ file' \in [inode : Nat, pieces : Seq(N!Pieces)]
        /\ gen' \in 1 .. MaxGen
        /\ memo' \in [key : 0 .. MaxFrames, from : N!Frames \cup {None}] \cup {None}
        /\ served' \in [from : N!Frames \cup {None}, now : N!Frames \cup {None}]
        /\ lost' \subseteq N!Frames
    BY <1>2, <2>1 DEF N!TypeOK
  <2> QED
    BY <1>14, <2>2, <2>3, <2>4, <2>5 DEF N!TypeOK
<1> QED
  BY <1>18, <1>20, <1>25, <1>26, <1>27, <1>28 DEF NativeInv

\* At first nothing is written and nothing read.
LEMMA NativeInit ==
  ASSUME N!Init
  PROVE  NativeInv
<1>1. /\ MaxFrames \in Nat /\ Ring \in Nat /\ MaxGen \in Nat /\ MaxGen >= 1
  BY EngineAssumption
<1>2. <<>> \in Seq(N!Pieces) /\ <<>> \in Seq(N!Frames) /\ <<>> \in Seq(N!Queued) /\ Len(<<>>) = 0
  OBVIOUS
<1>3. /\ app = [next |-> 1, kind |-> "event", half |-> FALSE, inode |-> 0, bad |-> {}, first |-> 1]
      /\ file = [inode |-> 0, pieces |-> <<>>]
      /\ chan = [consumed |-> 0, latest |-> None, ring |-> <<>>, seq |-> 0,
                 accepted |-> {}, refused |-> {}]
      /\ tail = None /\ queue = <<>> /\ watermark = 0 /\ gen = 1 /\ memo = None
      /\ served = [from |-> None, now |-> None] /\ lost = {}
  BY DEF N!Init, N!NewChannel
<1>4. Pcs = <<>> /\ Size = 0 /\ chan.consumed = 0 /\ chan.seq = 0 /\ chan.ring = <<>>
      /\ Len(chan.ring) = 0 /\ app.next = 1 /\ app.first = 1 /\ ~app.half /\ chan.refused = {}
  BY <1>2, <1>3 DEF Pcs, Size
<1>5. \A n : n \notin 1 .. 0
  OBVIOUS
<1>6. N!TypeOK
  <2>1. 1 \in 1 .. MaxFrames + 1 /\ 0 \in 0 .. MaxFrames /\ 1 \in 1 .. MaxGen /\ 0 <= Ring
    BY <1>1
  <2>2. app \in [next : 1 .. MaxFrames + 1, kind : N!Kinds, half : BOOLEAN, inode : Nat,
                 bad : SUBSET N!Frames, first : 1 .. MaxFrames + 1]
    BY <1>3, <2>1 DEF N!Kinds
  <2>3. file \in [inode : Nat, pieces : Seq(N!Pieces)]
    BY <1>2, <1>3
  <2>4. chan \in [consumed : Nat, latest : N!Frames \cup {None}, ring : Seq(N!Frames),
                  seq : 0 .. MaxFrames, accepted : SUBSET N!Frames, refused : SUBSET N!Frames]
    BY <1>2, <1>3, <2>1
  <2> QED
    BY <1>2, <1>3, <1>4, <2>1, <2>2, <2>3, <2>4 DEF N!TypeOK
<1>7. DOMAIN queue = {}
  BY <1>3
<1>8. N!NativeOrder
  BY <1>7 DEF N!NativeOrder
<1>9. N!NativeAccounted
  <2>1. app.first .. app.next - 1 = {}
    BY <1>4
  <2> QED
    BY <1>4, <2>1 DEF N!NativeAccounted
<1>10. PieceInv /\ GapInv
  BY <1>4, <1>5 DEF PieceInv, GapInv
<1>11. HalfInv
  BY <1>4 DEF HalfInv
<1>12. OffsetInv
  BY <1>3, <1>4 DEF OffsetInv
<1>13. RingInv
  BY <1>3, <1>4, <1>5, <1>7 DEF RingInv, Behind
<1> QED
  BY <1>6, <1>8, <1>9, <1>10, <1>11, <1>12, <1>13 DEF NativeInv

\* Every step of the channel, of the application and of the session.
LEMMA NativeNext ==
  ASSUME NativeInv, N!Next
  PROVE  NativeInv'
BY Append1Step, Append2Step, NativePollStep, RenameStep, RenameFailsStep, FusedFrameStep,
   NativeRestartStep DEF N!Next

\* A behaviour of the other component leaves the channel alone.
LEMMA NativeLeft ==
  ASSUME NativeInv, UNCHANGED nativeVars
  PROVE  NativeInv'
<1>1. UNCHANGED <<app, file, chan, tail, queue, watermark, gen, memo, served, lost>>
  BY DEF nativeVars
<1>2. /\ memo' \in [key : 0 .. MaxFrames, from : N!Frames \cup {None}] \cup {None}
      /\ served' \in [from : N!Frames \cup {None}, now : N!Frames \cup {None}]
  BY <1>1 DEF NativeInv, N!TypeOK
<1> QED
  BY <1>1, <1>2, TailForgotten

\* NativeChannel: across torn lines, compactions and restarts the events reach
\* the session in the order they were written and none twice, and every frame
\* written is accepted, refused, unread or lost in the window of a compaction
\* (native.rs, poll and compact_if_needed).
THEOREM NativeIsFaithful == Spec => []NativeFaithful
<1>1. Init => NativeInv
  BY NativeInit DEF Init
<1>2. NativeInv /\ [Next]_<<part, actVars, nativeVars>> => NativeInv'
  <2> SUFFICES ASSUME NativeInv, [Next]_<<part, actVars, nativeVars>> PROVE NativeInv'
    OBVIOUS
  <2>1. CASE N!Next
    BY <2>1, NativeNext
  <2>2. CASE UNCHANGED nativeVars
    BY <2>2, NativeLeft
  <2> QED
    BY <2>1, <2>2 DEF Next
<1>3. NativeInv => NativeFaithful
  BY NativeSafe DEF NativeFaithful
<1> QED
  BY <1>1, <1>2, <1>3, PTL DEF Spec
=============================================================================
