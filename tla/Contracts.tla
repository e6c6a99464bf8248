----------------------------- MODULE Contracts -----------------------------
(* The tui_contract tool (src/mcp/tools/handlers/contract.rs, its check.rs *)
(* and the contract state of a run): a contract is loaded and its policy   *)
(* given to the sessions of its project, the application is checked        *)
(* against it, and the reports are compared with those kept under a label. *)
(* The calls of several clients interleave: a handler clones what it needs *)
(* under the run lock, waits for the session's actor, and takes the lock   *)
(* again.                                                                  *)
EXTENDS Naturals, Sequences, FiniteSets, Functions, SequencesExt

CONSTANTS
  Calls,      \* the calls in flight at a time
  Docs,       \* the contracts that can be loaded
  Looks,      \* what the application may look like
  Results,    \* what a check finds: <contract, look, policy> -> CheckResults
  RootOf,     \* session -> the project root of its launch cwd
  Primary,    \* the primary session of the first run
  MaxCalls,   \* bound of the model: calls
  MaxRuns     \* bound of the model: runs

VARIABLES
  now,     \* the current run: its contract, baselines and findings
  norms,   \* session -> the normalization policy it has
  calls,   \* call -> where it is
  made,    \* the calls made
  checks   \* the checks done

vars == <<now, norms, calls, made, checks>>

Sessions == DOMAIN RootOf
NoCall == [at |-> "idle"]

\* A run that begins has no contract, no baseline and no session of its own.
NewRun(n) == [id |-> n, closed |-> FALSE, contract |-> <<>>, baselines |-> <<>>, findings |-> {}]
Recorded(s) == now.id = 1

Init ==
  /\ now = NewRun(1) /\ norms = [s \in Sessions |-> <<>>]
  /\ calls = [c \in Calls |-> NoCall] /\ made = 0 /\ checks = 0

-----------------------------------------------------------------------------
(* Load.                                                                   *)

\* The project of a contract: that of the session named, else of the primary
\* session, if a launch of either is known.
Anchor(id) ==
  IF id \in Sessions /\ Recorded(id) THEN <<RootOf[id]>>
  ELSE IF Recorded(Primary) THEN <<RootOf[Primary]>> ELSE <<>>

Load(c) ==
  \E doc \in Docs, id \in Sessions \cup {"none"} :
    /\ calls[c] = NoCall /\ made < MaxCalls /\ made' = made + 1
    /\ calls' = [calls EXCEPT ![c] = [at |-> "apply", doc |-> doc, root |-> Anchor(id),
                                      todo |-> Sessions]]
    /\ UNCHANGED <<now, norms, checks>>

\* A session of another project keeps its policy, and so does one that the run
\* does not own.
Admitted(s) == Recorded(s) /\ ~now.closed
Apply(c) ==
  \E s \in Sessions :
    LET mine == calls[c].root = <<>> \/ (Recorded(s) /\ calls[c].root = <<RootOf[s]>>) IN
    /\ calls[c].at = "apply" /\ s \in calls[c].todo
    /\ calls' = [calls EXCEPT ![c].todo = @ \ {s}]
    /\ norms' = IF mine /\ Admitted(s)
                THEN [norms EXCEPT ![s] = <<[doc |-> calls[c].doc, root |-> calls[c].root]>>]
                ELSE norms
    /\ UNCHANGED <<now, made, checks>>

SetContract(c) ==
  /\ calls[c].at = "apply" /\ calls[c].todo = {}
  /\ now' = [now EXCEPT !.contract = <<calls[c].doc>>]
  /\ calls' = [calls EXCEPT ![c] = NoCall]
  /\ UNCHANGED <<norms, made, checks>>

-----------------------------------------------------------------------------
(* Status, compare and baseline: the contract is cloned, and checked in the *)
(* session's actor.                                                         *)

\* exec_policy: passive unless mutation is allowed.
Policies == {"passive", "driving"}

\* The label a report is kept under, and the one it is compared with, have
\* each a name of their own when none is given.
Labels == {"current", "baseline"}

Ask(c) ==
  \E how \in Policies, kind \in {"status", "compare", "baseline"},
     label \in Labels, base \in Labels :
    /\ calls[c] = NoCall /\ now.contract # <<>> /\ made < MaxCalls /\ made' = made + 1
    /\ kind = "status" => label = "current"
    /\ kind # "compare" => base = "baseline"
    /\ calls' = [calls EXCEPT ![c] = [at |-> "asked", kind |-> kind, how |-> how,
                                      label |-> label, base |-> base, doc |-> now.contract[1]]]
    /\ UNCHANGED <<now, norms, checks>>

\* check_contract_inner, check_contract_against: a check that is not admitted,
\* refused to a human, or in error ends the call.  What the application looks
\* like is different from check to check.
Check(c) ==
  \E goes \in BOOLEAN, look \in Looks :
    LET call == calls[c] IN
    /\ call.at = "asked"
    /\ IF goes
       THEN /\ Admitted(Primary) /\ checks' = checks + 1
            /\ calls' = [calls EXCEPT ![c] =
                 [at |-> "checked", kind |-> call.kind, label |-> call.label, base |-> call.base,
                  report |-> [id |-> checks + 1, run |-> now.id, doc |-> call.doc,
                              how |-> call.how, look |-> look,
                              results |-> Results[<<call.doc, look, call.how>>]]]]
       ELSE calls' = [calls EXCEPT ![c] = NoCall] /\ UNCHANGED checks
    /\ UNCHANGED <<now, norms, made>>

Keep(run, label, report) == [run EXCEPT !.baselines = (label :> report) @@ @]

\* Findings for a run that is closed are refused, and the refusal ignored.
AddFindings(run, new) == IF run.closed THEN run ELSE [run EXCEPT !.findings = @ \cup new]

\* ContractReport::findings: all that did not pass.
Severity(r) ==
  IF r.verdict = "fail" /\ r.required THEN "error"
  ELSE IF r.verdict \in {"fail", "warn"} THEN "warn" ELSE "info"
ReportFindings(report) ==
  {[rule |-> "check", key |-> r.key, severity |-> Severity(r)] :
     r \in {q \in Range(report.results) : q.verdict # "pass"}}

Status(c) ==
  /\ calls[c].at = "checked" /\ calls[c].kind = "status"
  /\ now' = AddFindings(now, ReportFindings(calls[c].report))
  /\ calls' = [calls EXCEPT ![c] = NoCall]
  /\ UNCHANGED <<norms, made, checks>>

Baseline(c) ==
  /\ calls[c].at = "checked" /\ calls[c].kind = "baseline"
  /\ now' = Keep(now, calls[c].label, calls[c].report)
  /\ calls' = [calls EXCEPT ![c] = NoCall]
  /\ UNCHANGED <<norms, made, checks>>

\* diff_contract_reports: each result of the current report against the first
\* of its key in the other one.
Worsened(prev, cur) ==
  \/ prev.verdict = "pass" /\ cur.verdict = "fail"
  \/ prev.verdict = "pass" /\ cur.verdict = "warn" /\ cur.required
  \/ prev.verdict = "warn" /\ cur.verdict = "fail" /\ cur.required
Improved(prev, cur) ==
  <<prev.verdict, cur.verdict>> \in {<<"fail", "pass">>, <<"warn", "pass">>, <<"fail", "warn">>}
Before(base, cur) == SelectSeq(base.results, LAMBDA r : r.key = cur.key)
Regressions(base, report) ==
  {r \in Range(report.results) : Before(base, r) # <<>> /\ Worsened(Before(base, r)[1], r)}
Fixed(base, report) ==
  {r \in Range(report.results) :
     Before(base, r) # <<>> /\ ~Worsened(Before(base, r)[1], r) /\ Improved(Before(base, r)[1], r)}

\* The report compared with is read before the new one takes its label.
Compared(run, call) ==
  LET kept == Keep(run, call.label, call.report) IN
  IF call.base \notin DOMAIN run.baselines THEN kept
  ELSE LET base == run.baselines[call.base] IN
       AddFindings(kept, {[rule |-> "regression", key |-> r.key, base |-> base,
                           report |-> call.report] : r \in Regressions(base, call.report)})

Compare(c) ==
  /\ calls[c].at = "checked" /\ calls[c].kind = "compare"
  /\ now' = Compared(now, calls[c])
  /\ calls' = [calls EXCEPT ![c] = NoCall]
  /\ UNCHANGED <<norms, made, checks>>

-----------------------------------------------------------------------------
(* The rest of the server: the run is closed, or another one begins.       *)

\* A check holds the lifecycle lease until it has its report, and no longer.
Close ==
  /\ ~now.closed /\ now' = [now EXCEPT !.closed = TRUE]
  /\ UNCHANGED <<norms, calls, made, checks>>
Begin ==
  /\ now.id < MaxRuns /\ now' = NewRun(now.id + 1)
  /\ UNCHANGED <<norms, calls, made, checks>>

Next ==
  \/ \E c \in Calls :
       Load(c) \/ Apply(c) \/ SetContract(c) \/ Ask(c) \/ Check(c) \/ Status(c) \/ Baseline(c)
         \/ Compare(c)
  \/ Close \/ Begin

Spec == Init /\ [][Next]_vars

-----------------------------------------------------------------------------
(* Properties.                                                             *)

TypeOK ==
  /\ now.id \in 1 .. MaxRuns /\ now.closed \in BOOLEAN /\ DOMAIN now.baselines \subseteq Labels
  /\ \A c \in Calls : calls[c].at \in {"idle", "apply", "asked", "checked"}
  /\ made \in 0 .. MaxCalls /\ checks \in 0 .. made

RegressionFindings == {f \in now.findings : f.rule = "regression"}

\* A regression is never found against the report that it is found in, and no
\* two labels are needed for that: whatever label is kept and compared with,
\* the comparison is with what was there before.
ComparedWithAnother == \A f \in RegressionFindings : f.base.id # f.report.id

\* A report of the same contract, under the same policy, on an application that
\* looks the same has no regression, as long as no key has two results; and a
\* check whose evidence is missing now is not one.
UnchangedIsClean ==
  \A f \in RegressionFindings :
    LET same == f.base.doc = f.report.doc /\ f.base.how = f.report.how
                  /\ f.base.look = f.report.look
        twice == \E m, n \in DOMAIN f.report.results :
                   m < n /\ f.report.results[m].key = f.report.results[n].key IN
    /\ same => twice
    /\ \E r \in Range(f.report.results) : r.key = f.key /\ r.verdict \in {"warn", "fail"}

\* A session has the policy of a contract that was loaded for its project, also
\* when loads for several projects go on at a time (contract.rs: "a foreign-root
\* session is never silently normalized by another app's policy").
PolicyOfItsProject ==
  \A s \in Sessions : norms[s] # <<>> => norms[s][1].root \in {<<>>, <<RootOf[s]>>}

\* What the baselines hold was found by a check of the contract that the call
\* read, and no label but those two is made up.
BaselinesAreChecks ==
  \A l \in DOMAIN now.baselines :
    LET b == now.baselines[l] IN
    b.id \in 1 .. checks /\ b.run <= now.id /\ b.results = Results[<<b.doc, b.look, b.how>>]

-----------------------------------------------------------------------------
(* Statements of the repository that the code does not keep; no run checks *)
(* them.                                                                   *)

\* An application that did not change did not regress.  The check that a modal
\* closes has two results of one key when it opens the modal itself; the second
\* one is compared with the first.
SameIsClean ==
  \A f \in RegressionFindings :
    ~(f.base.doc = f.report.doc /\ f.base.how = f.report.how /\ f.base.look = f.report.look)

\* The newest contract wins.  Two loads that overlap leave the policy of one
\* with the contract of the other.
PolicyIsContract ==
  (now.contract # <<>> /\ \A c \in Calls : calls[c].at # "apply") =>
    \A s \in Sessions :
      norms[s] # <<>> /\ Recorded(s) /\ RootOf[s] = RootOf[Primary] => norms[s][1].doc = now.contract[1]

\* Reports are of the run that keeps them.  The lease ends with the check.
OwnReports == \A l \in DOMAIN now.baselines : now.baselines[l].run = now.id

\* A baseline is older than what is compared with it.
BaselineIsOlder == \A f \in RegressionFindings : f.base.id < f.report.id

\* "Moving into them is a loss of evidence, surfaced separately": what passed
\* and is unverified now is in neither list of the answer.
LossIsSurfaced ==
  \A c \in Calls :
    (calls[c].at = "checked" /\ calls[c].kind = "compare" /\ calls[c].base \in DOMAIN now.baselines) =>
      LET base == now.baselines[calls[c].base]
          report == calls[c].report IN
      \A r \in Range(report.results) :
        (Before(base, r) # <<>> /\ Before(base, r)[1].verdict = "pass" /\ r.verdict = "unverified") =>
          r \in Regressions(base, report) \cup Fixed(base, report)
=============================================================================
