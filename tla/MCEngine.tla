------------------------------ MODULE MCEngine ------------------------------
(***************************************************************************)
(* TLC instance of two components below the session that share one run:    *)
(* the act (Executor) and the native channel (NativeChannel).  A behaviour *)
(* is of one of them, chosen at the start; the other one stands still.     *)
(***************************************************************************)
EXTENDS Naturals, Sequences

CONSTANTS
  Screens, Blank, Bell, Done, Wanted, Policies, CommandWaits, EngineErrs,
  Quiet, Budget, Grace, MaxChunks, MaxActs, MaxGen, None,
  Ring, Compact, MaxFrames

ASSUME EngineAssumption ==
  /\ {Blank, Wanted} \subseteq Screens
  /\ {Bell, Done, None} \cap Screens = {}
  /\ CommandWaits \in BOOLEAN /\ EngineErrs \in BOOLEAN
  /\ {Quiet, Budget, Grace, MaxGen, Ring, Compact} \subseteq Nat \ {0}
  /\ {MaxChunks, MaxActs, MaxFrames} \subseteq Nat

VARIABLES
  part,  \* the component this behaviour is of
  child, term, sess, act, tx, log,
  app, file, chan, tail, queue, watermark, gen, memo, served, lost

actVars == <<child, term, sess, act, tx, log>>
nativeVars == <<app, file, chan, tail, queue, watermark, gen, memo, served, lost>>

E == INSTANCE Executor
N == INSTANCE NativeChannel

Init == part \in {"act", "native"} /\ E!Init /\ N!Init

Next ==
  \/ part = "act" /\ E!Next /\ UNCHANGED <<part, nativeVars>>
  \/ part = "native" /\ N!Next /\ UNCHANGED <<part, actVars>>

Spec == /\ Init /\ [][Next]_<<part, actVars, nativeVars>>
        /\ WF_actVars(part = "act" /\ E!Step)

\* Executor: recording is back on however an act ends, a failure before the
\* write has not written, and nothing from before the snapshot meets an act.
ActHonest == E!TypeOK /\ E!WindowsClosed /\ E!MetIsAnchored

\* Executor: every act ends.
EveryActEnds == E!EveryActEnds

\* NativeChannel: events arrive in the order of the application, each once,
\* and every frame is accounted for.
NativeFaithful == N!TypeOK /\ N!NativeOrder /\ N!NativeAccounted

\* Executor: an input the child received has a transaction.
SentIsRecorded == E!SentIsRecorded

\* Executor: the guarded screen is the one written over.
GuardHoldsAtWrite == E!GuardHoldsAtWrite

\* Executor: an output event carries the generation of the output.
EventsOfTheirGeneration == E!EventsOfTheirGeneration

\* NativeChannel: the memo answers for the snapshot of now.
MemoIsFresh == N!MemoIsFresh
=============================================================================
