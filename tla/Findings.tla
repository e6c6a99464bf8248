-------------------------------- MODULE Findings --------------------------------
(***************************************************************************)
(* The findings of a run and what is judged from them: audits and their    *)
(* labelled baselines (run/finding_store.rs, audit/compare.rs,             *)
(* handlers/audit.rs), bundles and diagnoses (handlers/run/diagnostics.rs, *)
(* audit/repair.rs), the source loci that coverage names for a finding     *)
(* (run/findings_impl.rs), and the live verification of one                *)
(* (handlers/workflow.rs), whose steps leave the run lock between them.    *)
(*                                                                         *)
(* The application has defects that come and go.  A finding is its rule,   *)
(* the targets of its evidence and its kind.                               *)
(***************************************************************************)
EXTENDS Naturals, Sequences, FiniteSets

CONSTANTS
  Defects,   \* defects the application may have: [rule, profile, at, kind]
  Invasive,  \* profiles that are withheld unless mutation is allowed
  MaxCalls,  \* bound: audits, explorations, verifications and resumes
  MaxChanges \* bound: changes of the application and coverage events

VARIABLES
  app,       \* the defects that are there, and how often that changed
  cover,     \* the coverage ledger: widgets, with a locus or not, and files
  book,      \* FindingStore
  disk,      \* findings.json: the ledger as it was persisted
  proof,     \* the verification under way
  answer     \* the last answer, with what was then the case

findingVars == <<app, cover, book, disk, proof, answer>>

None == <<>>  \* else a sequence of one
Profiles == {d.profile : d \in Defects}
Label == "baseline"

-----------------------------------------------------------------------------
(* Identities.                                                             *)

\* What every driven profile reports, what a withheld one does, and what a
\* transaction that cannot begin does.
Noise(p) == [rule |-> "OK", profile |-> p, at |-> <<"screen">>, kind |-> "defect"]
Gate(p) == [rule |-> "ORCH-GATED", profile |-> p, at |-> <<"gate">>, kind |-> "gate"]
TxErr(p) == [rule |-> "AUDIT-TX-ERR", profile |-> p, at |-> <<"tx">>, kind |-> "defect"]
Reports == Defects \cup UNION {{Noise(p), Gate(p), TxErr(p)} : p \in Profiles}

\* The targets of its evidence.
Evidence(f) == {f.at[n] : n \in DOMAIN f.at}

\* compare::fingerprint: the rule and all targets in any order.
Fingerprint(f) == [rule |-> f.rule, at |-> Evidence(f)]

\* Finding::instance names the rule and the first target; an audit's report
\* is pushed as the driver wrote it, with the id of its rule.
Raw(f) == [id |-> <<f.rule>>, occ |-> {}, f |-> f, refs |-> {}]
Instance(f) == [id |-> <<f.rule, Head(f.at)>>, occ |-> {Fingerprint(f)}, f |-> f, refs |-> {}]

Entries == {Raw(f) : f \in Reports} \cup {Instance(f) : f \in Reports}

-----------------------------------------------------------------------------
(* Source loci.                                                            *)

\* Loci of the widget are attested; without any, the files of the ledger
\* are leads.
LociOf(t) ==
  LET own == {c \in cover : c.widget = t /\ c.locus} IN
  IF own # {} THEN {[locus |-> c.widget, how |-> "attested"] : c \in own}
  ELSE {[locus |-> "file", how |-> "correlated"] : c \in {d \in cover : d.widget = "file"}}

\* The places of the evidence whose target a widget of the ledger matches.
Covered(e) == {n \in DOMAIN e.f.at : \E c \in cover : c.widget = e.f.at[n]}

\* extend_findings_with_source_refs: the first of them decides, for good.
JoinedAtPush(e) ==
  LET first == {n \in Covered(e) : \A k \in Covered(e) : n <= k} IN
  [e EXCEPT !.refs = UNION {LociOf(e.f.at[n]) : n \in first}]

\* join_source_refs_if_known: all of them, for a finding that has no loci yet.
Joined(e) ==
  IF e.refs # {} THEN e ELSE [e EXCEPT !.refs = UNION {LociOf(e.f.at[n]) : n \in Covered(e)}]

\* The first entry with that id, in the order in which passes came.
Lookup(id) ==
  LET with == {n \in DOMAIN book.ledger : \E e \in book.ledger[n] : e.id = id} IN
  IF with = {} THEN {}
  ELSE {e \in book.ledger[CHOOSE n \in with : \A k \in with : n <= k] : e.id = id}

Known == {e.id : e \in UNION {book.ledger[n] : n \in DOMAIN book.ledger}}

-----------------------------------------------------------------------------
(* Comparison.                                                             *)

\* compare_impl: a verdict for every finding of either side.
Compared(base, current, resolved) ==
  LET fps(set) == {Fingerprint(f) : f \in set} IN
  {[f |-> f, verdict |-> IF Fingerprint(f) \in fps(base) THEN "persisting"
                         ELSE IF Fingerprint(f) \in resolved THEN "regressed" ELSE "new"] : f \in current}
  \cup {[f |-> f, verdict |-> "fixed"] : f \in {b \in base : Fingerprint(b) \notin fps(current)}}

IsDefect(f) == f.kind = "defect"
CompareDefects(base, current) ==
  Compared({f \in base : IsDefect(f)}, {f \in current : IsDefect(f)}, {})

-----------------------------------------------------------------------------

Fresh == [ledger |-> <<>>, baseline |-> None, pass |-> None, checks |-> <<>>, calls |-> 0]
NoProof == [pc |-> "no", e |-> None, allow |-> FALSE, recheck |-> "no", saw |-> {}]

Init ==
  /\ app \in [has : SUBSET Defects, changes : {0}]
  /\ cover = {} /\ book = Fresh /\ disk = None /\ proof = NoProof /\ answer = {}

TypeOK ==
  /\ app.has \subseteq Defects /\ app.changes \in 0 .. MaxChanges
  /\ \A n \in DOMAIN book.ledger : \A e \in book.ledger[n] : [e EXCEPT !.refs = {}] \in Entries
  /\ \A one \in {book.baseline, book.pass} : Len(one) < 2 /\ \A n \in DOMAIN one : one[n] \subseteq Reports
  /\ book.calls \in 0 .. MaxCalls
  /\ proof.pc \in {"no", "replay", "recheck", "record"}

CanCall == book.calls < MaxCalls

\* The application gets better or worse.
Change ==
  /\ app.changes < MaxChanges
  /\ \E d \in Defects :
       app' = [has |-> IF d \in app.has THEN app.has \ {d} ELSE app.has \cup {d}, changes |-> app.changes + 1]
  /\ UNCHANGED <<cover, book, disk, proof, answer>>

\* Coverage names a widget, with or without its place in the source, or a file.
Cover ==
  /\ app.changes < MaxChanges
  /\ app' = [app EXCEPT !.changes = @ + 1]
  /\ \E w \in {d.at[1] : d \in Defects} \cup {"file"}, l \in BOOLEAN :
       cover' = {c \in cover : c.widget # w} \cup {[widget |-> w, locus |-> l \/ \E c \in cover : c.widget = w /\ c.locus]}
  /\ UNCHANGED <<book, disk, proof, answer>>

\* What run_profile_checked reports of a profile.
Reported(p, allow) ==
  IF p \in Invasive /\ ~allow THEN {{Gate(p)}}
  ELSE {{d \in app.has : d.profile = p} \cup {Noise(p)}} \cup (IF p \in Invasive THEN {{TxErr(p)}} ELSE {})

Pushed(pass) == [book EXCEPT !.ledger = Append(@, {JoinedAtPush(Raw(f)) : f \in pass}), !.pass = <<pass>>, !.calls = @ + 1]

\* Mutant: the pass is stored under its label before it is compared.
JudgedAfter(pass, label, to) ==
  LET base == IF label THEN <<pass>> ELSE book.baseline IN
  IF to /\ book.baseline # None
  THEN {[kind |-> "compare", base |-> book.baseline[1], pass |-> pass, verdicts |-> CompareDefects(base[1], pass)]}
  ELSE {}

\* tui_audit: the pass is compared with the baseline that there was.
Judged(pass, label, to) ==
  IF to /\ book.baseline # None
  THEN {[kind |-> "compare", base |-> book.baseline[1], pass |-> pass,
         verdicts |-> CompareDefects(book.baseline[1], pass)]}
  ELSE {}

\* tui_audit, under one job of the session: the ledger, the latest pass, the
\* comparison, and the label last.
Audit(p) ==
  /\ CanCall
  /\ \E allow, label, to \in BOOLEAN :
       /\ allow => p \in Invasive
       /\ \E pass \in Reported(p, allow) :
            /\ book' = [Pushed(pass) EXCEPT !.baseline = IF label THEN <<pass>> ELSE @]
            /\ answer' = Judged(pass, label, to)
  /\ UNCHANGED <<app, cover, disk, proof>>

\* tui_explore records a crash as an instance, with the scenario that leads to it.
Crash ==
  /\ CanCall
  /\ \E d \in app.has :
       /\ d.profile = "none"
       /\ book' = [book EXCEPT !.ledger = Append(@, {Instance(d)}), !.calls = @ + 1]
  /\ UNCHANGED <<app, cover, disk, proof, answer>>

-----------------------------------------------------------------------------
(* Questions.                                                              *)

\* Mutant: what is current is all that was ever found.
CurrentEver == IF book.pass = None THEN None
               ELSE <<UNION {{e.f : e \in book.ledger[n]} : n \in DOMAIN book.ledger}>>

\* tui_run bundle: current is what the latest pass found.
Current == book.pass

\* The verdict on the first finding compared that has the id.
BundleVerdicts(id, base, current) ==
  LET same == {c \in Compared(base, current, {}) : <<c.f.rule>> = id /\ c.f \in current}
      gone == {c \in Compared(base, current, {}) : <<c.f.rule>> = id} IN
  IF gone = {} THEN {"fixed"} ELSE {c.verdict : c \in (IF same # {} THEN same ELSE gone)}

Bundle ==
  /\ Current # None /\ book.baseline # None
  /\ \E id \in Known :
       \E v \in BundleVerdicts(id, book.baseline[1], Current[1]) :
         answer' = {[kind |-> "bundle", id |-> id, verdict |-> v,
                                   base |-> book.baseline[1], pass |-> book.pass[1]]}
  /\ UNCHANGED <<app, cover, book, disk, proof>>

\* diagnostic_contexts, tui_explain: with the loci that are known by now.
Diagnose ==
  /\ \E n \in DOMAIN book.ledger : \E e \in book.ledger[n] :
       answer' = {[kind |-> "loci", of |-> e.f, refs |-> Joined(e).refs, cover |-> cover]}
  /\ UNCHANGED <<app, cover, book, disk, proof>>

-----------------------------------------------------------------------------
(* Verification.                                                           *)

\* verify_finding, first lock: the strategy of its rule, and its scenario.
Verify ==
  /\ CanCall /\ proof = NoProof
  /\ \E id \in Known, allow \in BOOLEAN : \E e \in Lookup(id) :
       proof' = [pc |-> IF e.occ # {} THEN "replay" ELSE "recheck", e |-> e, allow |-> allow,
                 recheck |-> "no_surface", saw |-> {}]
  /\ book' = [book EXCEPT !.calls = @ + 1]
  /\ UNCHANGED <<app, cover, disk, answer>>

\* The replay is a set-up and proves nothing; a scenario that cannot load or
\* a lease ends the call.
Replay ==
  /\ proof.pc = "replay"
  /\ \/ proof' = [proof EXCEPT !.pc = IF proof.e.f.profile = "none" THEN "record" ELSE "recheck"]
     \/ proof' = NoProof
  /\ UNCHANGED <<app, cover, book, disk, answer>>

\* rule_refired: the fingerprint, the rule, or the occurrence id, which an
\* audit's report does not have.
Refired(e, pass) ==
  \E f \in pass :
    \/ Fingerprint(f) = Fingerprint(e.f) \/ f.rule = e.f.rule
    \/ Raw(f).occ = e.occ

\* Mutant: a pass that was withheld counts as one that found nothing.
RecheckedGated(e, pass) == IF Refired(e, pass \ {Gate(e.f.profile)}) THEN "refired" ELSE "clean"

Rechecked(e, pass) ==
  IF Gate(e.f.profile) \in pass THEN "gated" ELSE IF Refired(e, pass) THEN "refired" ELSE "clean"

\* The re-check of the rule's profile, in a job of the session.
Recheck ==
  /\ proof.pc = "recheck"
  /\ \E pass \in Reported(proof.e.f.profile, proof.allow) :
       proof' = [proof EXCEPT !.pc = "record", !.recheck = Rechecked(proof.e, pass), !.saw = pass]
  /\ UNCHANGED <<app, cover, book, disk, answer>>

Verdict(recheck) ==
  CASE recheck = "refired" -> "still_reproduces"
    [] recheck = "clean" -> "no_longer_reproduces"
    [] OTHER -> "undetermined"

\* Last lock: the record.
Record ==
  /\ proof.pc = "record"
  /\ book' = [book EXCEPT !.checks = Append(@, [of |-> Fingerprint(proof.e.f), verdict |-> Verdict(proof.recheck)])]
  /\ answer' = {[kind |-> "verify", of |-> proof.e.f, saw |-> proof.saw, verdict |-> Verdict(proof.recheck)]}
  /\ proof' = NoProof
  /\ UNCHANGED <<app, cover, disk>>

-----------------------------------------------------------------------------

\* findings.json holds the ledger and nothing else of the store.
Persist ==
  /\ disk # <<book.ledger>> /\ disk' = <<book.ledger>>
  /\ UNCHANGED <<app, cover, book, proof, answer>>

\* from_findings: no baselines, no latest pass and no verifications.
Resume ==
  /\ CanCall /\ disk # None
  /\ book' = [Fresh EXCEPT !.ledger = disk[1], !.calls = book.calls + 1]
  /\ proof' = NoProof
  /\ UNCHANGED <<app, cover, disk, answer>>

Next ==
  \/ Change \/ Cover \/ Crash \/ Bundle \/ Diagnose \/ Verify \/ Replay \/ Recheck \/ Record
  \/ Persist \/ Resume
  \/ \E p \in Profiles \ {"none"} : Audit(p)

-----------------------------------------------------------------------------

\* handlers/audit.rs: what was labelled before is what a pass is compared
\* with, even when the same call labels it anew, and what either side has
\* of a defect gets one verdict.
ComparedWithBefore ==
  \A a \in {b \in answer : b.kind = "compare"} :
    LET fps(set) == {Fingerprint(f) : f \in set}
        defects(set) == {f \in set : IsDefect(f)} IN
    /\ fps(defects(a.base \cup a.pass)) = fps({v.f : v \in a.verdicts})
    /\ \A v \in a.verdicts :
         /\ v.verdict = "fixed" <=> Fingerprint(v.f) \notin fps(a.pass)
         /\ v.verdict = "new" <=> Fingerprint(v.f) \notin fps(defects(a.base))
    /\ \A v, w \in a.verdicts : Fingerprint(v.f) = Fingerprint(w.f) => v.verdict = w.verdict

\* handlers/run/diagnostics.rs:93-98, "never the cumulative finding ledger":
\* what a bundle says persists is in the latest pass and in the baseline,
\* however often it was found before.
BundleIsCurrent ==
  \A a \in {b \in answer : b.kind = "bundle"} :
    /\ a.verdict = "persisting" =>
         \E f \in a.pass, g \in a.base : <<f.rule>> = a.id /\ Fingerprint(f) = Fingerprint(g)
    /\ a.verdict = "fixed" => \A f \in a.pass : <<f.rule>> # a.id

\* findings_impl.rs: a locus is attested only by coverage of a control that
\* is evidence of the finding, at the time of the answer.
LociEarned ==
  \A a \in {b \in answer : b.kind = "loci"} :
    \A r \in a.refs :
      /\ r.how = "attested" => r.locus \in Evidence(a.of)
      /\ \E c \in a.cover : c.widget = r.locus

\* handlers/workflow.rs: a finding is told to be gone only when a pass that
\* was not withheld reported nothing of its rule.
GoneWasLookedFor ==
  \A a \in {b \in answer : b.kind = "verify"} :
    a.verdict = "no_longer_reproduces" =>
      /\ a.saw # {} /\ \A f \in a.saw : f.rule \notin {a.of.rule, "ORCH-GATED"}

\* workflow.rs:608, "matching: canonical compare::fingerprint (occurrence
\* identity) both ways": a finding still reproduces when the pass reports
\* its rule.
StillMeansSeen ==
  \A a \in {b \in answer : b.kind = "verify"} :
    a.verdict = "still_reproduces" => \E f \in a.saw : f.rule = a.of.rule
=============================================================================
