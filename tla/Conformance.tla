----------------------------- MODULE Conformance -----------------------------
(***************************************************************************)
(* The check of a project contract against a live session                  *)
(* (src/design/conformance.rs): document, components, interactions,        *)
(* layout, the two behaviours that are proven by driving (Escape closes    *)
(* the modal, Shift+Tab reverses Tab), the oracles that read what was      *)
(* proven, the restore and the look at what is left behind.  Passive       *)
(* policy stops before anything is driven.                                 *)
(*                                                                         *)
(* The application has a ring of controls, a modal, a size, and may be one *)
(* whose focus nobody can tell.  An observation or a key may fail, the     *)
(* latter without effect.                                                  *)
(***************************************************************************)
EXTENDS Naturals, Sequences, FiniteSets, Oracle

CONSTANTS
  Ring,      \* number of focusable controls, 0 .. Ring - 1
  Sweep,     \* Tab presses of the forward sweep (12)
  Contracts, \* what is checked: [policy, mode, component, interaction, viewport,
             \* escape, reverse, oracles]
  MaxFaults  \* bound: observations and keys that fail

VARIABLES
  contract, \* what it declares, the policy and the mode of the check
  host,     \* the application: focus, told, honest, modal, escapes, small
  check,    \* the check: where it is, counters, edges, what it took
  results,  \* [group, name, verdict, required]
  heard     \* ObservedBehavior, by the name of the oracle that reads it

conformVars == <<contract, host, check, results, heard>>

Focuses == 0 .. Ring - 1
Verdicts == {"pass", "warn", "fail", "unverified", "unsupported"}
Stages == {"start", "components", "interactions", "layout", "escape", "opened", "tab", "back",
           "oracles", "restore", "residue", "done"}

\* Every variable has its type.
TypeOK ==
  /\ contract \in Contracts
  /\ host \in [focus : Focuses, told : BOOLEAN, honest : BOOLEAN, modal : BOOLEAN,
               escapes : BOOLEAN, small : BOOLEAN, clips : BOOLEAN]
  /\ check.at \in Stages /\ check.forward \in 0 .. Sweep /\ check.faults \in 0 .. MaxFaults
  /\ results \subseteq [group : {"document", "component", "interaction", "layout", "behavior"},
                        name : STRING, verdict : Verdicts, required : BOOLEAN]
  /\ heard \in [{"escape_closes_modal", "reverse_tab_is_inverse"} -> {"yes", "no", "unknown"}]

Result(group, name, verdict, required) ==
  [group |-> group, name |-> name, verdict |-> verdict, required |-> required]
Pass(group, name) == Result(group, name, "pass", TRUE)
Fail(group, name) == Result(group, name, "fail", TRUE)
Warn(group, name) == Result(group, name, "warn", FALSE)

\* The part of a frame the oracles of the instance ask about.
Frame ==
  [focusId |-> IF host.told THEN <<host.focus>> ELSE <<>>, focusLabel |-> <<>>, reverse |-> FALSE,
   controls |-> {}, components |-> {}, text |-> <<>>, modal |-> host.modal,
   regions |-> {[id |-> "main", title |-> "main", kind |-> "panel", x |-> 0, y |-> 0,
                 width |-> 2, height |-> 1, clipped |-> host.small /\ host.clips]},
   cols |-> IF host.small THEN 1 ELSE 2, rows |-> 1]

Init ==
  /\ contract \in Contracts
  /\ host \in [focus : {0}, told : BOOLEAN, honest : BOOLEAN, modal : BOOLEAN,
               escapes : BOOLEAN, small : {FALSE}, clips : BOOLEAN]
  /\ check = [at |-> "start", forward |-> 0, left |-> 0, edges |-> {}, pre |-> host,
              faults |-> 0, blind |-> FALSE, driven |-> FALSE, residue |-> {}, verdict |-> "none"]
  /\ results = {} /\ heard = [b \in {"escape_closes_modal", "reverse_tab_is_inverse"} |-> "unknown"]

Goes(at) == check' = [check EXCEPT !.at = at]
Says(r) == results' = results \cup r

\* An observation or a key fails, and the check goes on as it does then.
Fault == check.faults < MaxFaults
FaultGoes(at) == check' = [check EXCEPT !.at = at, !.faults = @ + 1]

-----------------------------------------------------------------------------
(* Without driving.                                                        *)

ValidateDocument ==
  IF \E o \in contract.oracles : o.name \notin KnownPredicates
  THEN {Fail("document", "oracle")} ELSE {Pass("document", "schema")}

\* The groups that drive are named Unverified.
Withheld ==
  {Result("interaction", "keys", "unverified", FALSE) : i \in {contract.interaction} \ {"none"}}
  \cup (IF contract.viewport THEN {Result("layout", "viewport", "unverified", FALSE)} ELSE {})
  \cup (IF contract.escape THEN {Result("behavior", "escape", "unverified", FALSE)} ELSE {})
  \cup (IF contract.reverse THEN {Result("behavior", "reverse", "unverified", FALSE)} ELSE {})

\* check_contract_policy to the restore point, whose failure is an error.
Start ==
  /\ check.at = "start"
  /\ Says(ValidateDocument \cup (IF contract.policy = "passive" THEN Withheld ELSE {}))
  /\ \/ check' = [check EXCEPT !.at = "components", !.pre = host]
     \/ contract.policy = "driving" /\ Fault /\ FaultGoes("done")
  /\ UNCHANGED <<contract, host, heard>>

\* A declared component: on the screen, missing, optional and missing, or
\* optional and there with an oracle that fails.
ComponentResult ==
  CASE contract.component = "none" -> {}
    [] contract.component = "there" -> {Pass("component", "role")}
    [] contract.component = "missing" -> {Fail("component", "role")}
    [] contract.component = "optional" -> {Warn("component", "role")}
    [] contract.component = "weak" -> {Result("component", "role", "fail", FALSE)}

CheckComponents ==
  LET then == IF contract.policy = "passive" THEN "oracles" ELSE "interactions" IN
  /\ check.at = "components"
  /\ \/ Goes(then) /\ Says(ComponentResult)
     \/ /\ contract.component # "none" /\ Fault
        /\ FaultGoes(then) /\ Says({Fail("component", "observe")})
  /\ UNCHANGED <<contract, host, heard>>

-----------------------------------------------------------------------------
(* Driving.                                                                *)

\* The key of the declared interaction: it opens the modal, or repaints.
Presses == IF contract.interaction = "opens" THEN [host EXCEPT !.modal = TRUE] ELSE host

\* An interaction without an oracle proves nothing; a key or an observation
\* that fails is a failure of the interaction, with the key sent or not.
RunInteraction ==
  /\ check.at = "interactions" /\ UNCHANGED <<contract, heard>>
  /\ \/ contract.interaction = "none" /\ Goes("layout") /\ UNCHANGED <<host, results>>
     \/ /\ contract.interaction # "none"
        /\ host' = Presses
        /\ Says({IF contract.interaction = "opens" THEN Pass("interaction", "keys")
                 ELSE Warn("interaction", "keys")})
        /\ check' = [check EXCEPT !.at = "layout", !.driven = TRUE]
     \/ /\ contract.interaction # "none" /\ Fault
        /\ host' \in {host, Presses}
        /\ Says({Fail("interaction", "keys")})
        /\ FaultGoes("layout")

\* A viewport, and back again with the result of the second resize dropped.
CheckLayout ==
  /\ check.at = "layout" /\ UNCHANGED <<contract, heard>>
  /\ \/ Goes("escape") /\ UNCHANGED host
        /\ Says(IF ~contract.viewport THEN {}
                ELSE IF host.clips THEN {Fail("layout", "viewport")} ELSE {Pass("layout", "viewport")})
     \/ /\ contract.viewport /\ Fault /\ FaultGoes("escape")
        /\ \/ Says({Fail("layout", "viewport")}) /\ UNCHANGED host
           \/ /\ host' = [host EXCEPT !.small = TRUE]
              /\ Says(IF host.clips THEN {Fail("layout", "viewport")} ELSE {Pass("layout", "viewport")})

Escaped == IF host.escapes THEN [host EXCEPT !.modal = FALSE] ELSE host
Judged(closed) ==
  /\ heard' = [heard EXCEPT !["escape_closes_modal"] = IF closed THEN "yes" ELSE "no"]
  /\ Says({IF closed THEN Pass("behavior", "escape") ELSE Fail("behavior", "escape")})

\* Escape is pressed in a modal that was open.  A key that is not sent is a
\* failure; what cannot be seen afterwards counts as a modal that stayed.
EscapeOpen ==
  /\ check.at = "escape" /\ contract.escape /\ host.modal /\ UNCHANGED contract
  /\ \/ host' = Escaped /\ Judged(~Escaped.modal)
        /\ check' = [check EXCEPT !.at = "tab", !.driven = TRUE]
     \/ Fault /\ host' = Escaped /\ Judged(FALSE) /\ FaultGoes("tab")
     \/ Fault /\ Says({Fail("behavior", "escape")}) /\ FaultGoes("tab") /\ UNCHANGED <<host, heard>>

\* Without one, the interaction that declares modal_open is asked to open it,
\* which may fail; the observation before it may have failed, too.
EstablishModal ==
  /\ check.at = "escape" /\ contract.escape /\ UNCHANGED <<contract, heard>>
  /\ \E blind \in BOOLEAN, opened \in BOOLEAN :
       /\ ~blind => ~host.modal
       /\ opened => contract.interaction = "opens"
       /\ LET failed == blind \/ (contract.interaction = "opens" /\ ~opened) IN
          /\ failed => Fault
          /\ host' = IF opened THEN [host EXCEPT !.modal = TRUE] ELSE host
          /\ Says({IF opened THEN Pass("behavior", "escape")
                   ELSE Result("behavior", "escape", "unsupported", FALSE)})
          /\ check' = [check EXCEPT !.at = "opened", !.faults = IF failed THEN @ + 1 ELSE @,
                                    !.driven = @ \/ opened]

\* drive_escape_check: every failure on the way says not closed.
EscapeOpened ==
  /\ check.at = "opened" /\ UNCHANGED contract
  /\ \/ host.modal /\ host' = Escaped /\ Judged(~Escaped.modal) /\ Goes("tab")
     \/ host.modal /\ Fault /\ host' \in {host, Escaped} /\ Judged(FALSE) /\ FaultGoes("tab")
     \/ ~host.modal /\ Goes("tab") /\ UNCHANGED <<host, results, heard>>
     \/ Fault /\ FaultGoes("tab") /\ UNCHANGED <<host, results, heard>>

SkipEscape ==
  /\ check.at = "escape" /\ ~contract.escape
  /\ Goes("tab") /\ UNCHANGED <<contract, host, results, heard>>

Turned(f, via) == IF via = "tab" THEN (f + 1) % Ring ELSE (f + Ring - 1) % Ring

\* Where a traversal key may take the focus: an honest application turns it
\* along the ring, another lets Shift+Tab do nothing.
Lands(via) == IF host.honest \/ via = "tab" THEN Turned(host.focus, via) ELSE host.focus

EdgesWith(f, via) == IF host.told THEN check.edges \cup {<<host.focus, f, via>>} ELSE check.edges

\* The forward sweep stops when the focus does not move, or when nobody can
\* tell where it is.
Tab ==
  /\ check.at = "tab" /\ contract.reverse /\ check.forward < Sweep
  /\ UNCHANGED <<contract, results, heard>>
  /\ \/ LET f == Lands("tab")
            stays == ~host.told \/ f = host.focus IN
        /\ host' = [host EXCEPT !.focus = f]
        /\ check' = [check EXCEPT !.forward = @ + 1, !.left = @ + 1, !.driven = TRUE,
                                  !.edges = EdgesWith(f, "tab"),
                                  !.at = IF stays THEN "back" ELSE "tab"]
     \/ Fault /\ FaultGoes("back") /\ UNCHANGED host

TabsDone ==
  /\ check.at = "tab" /\ (contract.reverse => check.forward = Sweep)
  /\ Goes(IF contract.reverse THEN "back" ELSE "oracles")
  /\ UNCHANGED <<contract, host, results, heard>>

\* The reverse sweep: a key that fails makes it incomplete, an observation
\* that fails only ends it.
Back ==
  /\ check.at = "back" /\ check.left > 0
  /\ \/ LET f == Lands("shift+tab") IN
        /\ host' = [host EXCEPT !.focus = f]
        /\ check' = [check EXCEPT !.left = @ - 1, !.edges = EdgesWith(f, "shift+tab")]
        /\ UNCHANGED <<results, heard>>
     \/ /\ Fault /\ FaultGoes("oracles")
        /\ Says({Result("behavior", "reverse", "unverified", FALSE)})
        /\ UNCHANGED <<host, heard>>
     \/ /\ Fault
        /\ check' = [check EXCEPT !.left = 0, !.faults = @ + 1, !.blind = TRUE]
        /\ UNCHANGED <<host, results, heard>>
  /\ UNCHANGED contract

Other(via) == IF via = "tab" THEN "shift+tab" ELSE "tab"
\* Mutant: only that the state was left and reached again.
ReverseTabGapsLoose == {e \in check.edges : ~\E b \in check.edges : b[1] = e[2]}

ReverseTabGaps == {e \in check.edges : <<e[2], e[1], Other(e[3])>> \notin check.edges}

JudgeReverse ==
  /\ check.at = "back" /\ check.left = 0
  /\ Goes("oracles")
  /\ IF check.forward = 0
     THEN Says({Result("behavior", "reverse", "unsupported", FALSE)}) /\ UNCHANGED heard
     ELSE /\ Says({IF ReverseTabGaps = {} THEN Pass("behavior", "reverse") ELSE Fail("behavior", "reverse")})
          /\ heard' = [heard EXCEPT !["reverse_tab_is_inverse"] =
                         IF ReverseTabGaps = {} THEN "yes" ELSE "no"]
  /\ UNCHANGED <<contract, host>>

-----------------------------------------------------------------------------
(* Oracles, restore, residue, verdict.                                     *)

\* to_sub_result: whatever did not pass is a failure.
OracleResult(o) ==
  LET out == IF o.name \in Statics THEN EvalStatic(o, Frame) ELSE EvalActive(o, heard) IN
  IF out = "pass" THEN Pass("behavior", o.name) ELSE Fail("behavior", o.name)

\* How a result counts for the verdict, by the mode.
Binds(r) ==
  CASE r.verdict = "fail" -> IF r.required \/ contract.mode # "advisory" THEN "fail" ELSE "warn"
    [] r.verdict = "unverified" /\ contract.mode = "strict" -> "fail"
    [] OTHER -> r.verdict

Rank == [pass |-> 0, unsupported |-> 1, unverified |-> 2, warn |-> 3, fail |-> 4]
Overall(rs) ==
  CHOOSE v \in Verdicts :
    /\ v = "pass" \/ \E r \in rs : Binds(r) = v
    /\ \A r \in rs : Rank[Binds(r)] <= Rank[v]

\* The oracles; the passive check ends with them.
TopLevelOracles ==
  /\ check.at = "oracles"
  /\ \/ Says({OracleResult(o) : o \in contract.oracles})
        /\ check' = [check EXCEPT !.at = IF contract.policy = "passive" THEN "done" ELSE "restore",
                                  !.verdict = IF contract.policy = "passive" THEN Overall(results') ELSE @]
     \/ /\ contract.oracles # {} /\ Fault
        /\ Says({Fail("behavior", "oracles")})
        /\ check' = [check EXCEPT !.at = IF contract.policy = "passive" THEN "done" ELSE "restore",
                                  !.faults = @ + 1,
                                  !.verdict = IF contract.policy = "passive" THEN Overall(results') ELSE @]
  /\ UNCHANGED <<contract, host, heard>>

\* The size goes back, and nobody reads whether it did.
Restore ==
  /\ check.at = "restore"
  /\ \/ host' = [host EXCEPT !.small = FALSE] /\ Goes("residue")
     \/ Fault /\ FaultGoes("residue") /\ UNCHANGED host
  /\ UNCHANGED <<contract, results, heard>>

Moved ==
  (IF host.told /\ host.focus # check.pre.focus THEN {"focus"} ELSE {})
  \cup (IF host.small # check.pre.small THEN {"size"} ELSE {})

\* verify: what differs, or nothing when nobody can look.
Residue ==
  /\ check.at = "residue"
  /\ \/ check' = [check EXCEPT !.at = "done", !.residue = Moved, !.verdict = Overall(results)]
     \/ /\ Fault
        /\ check' = [check EXCEPT !.at = "done", !.faults = @ + 1, !.blind = TRUE,
                                  !.verdict = Overall(results)]
  /\ UNCHANGED <<contract, host, results, heard>>

Next ==
  \/ Start \/ CheckComponents \/ RunInteraction \/ CheckLayout
  \/ EscapeOpen \/ EstablishModal \/ EscapeOpened \/ SkipEscape
  \/ Tab \/ TabsDone \/ Back \/ JudgeReverse
  \/ TopLevelOracles \/ Restore \/ Residue

Spec == Init /\ [][Next]_conformVars

-----------------------------------------------------------------------------
(* Properties.                                                             *)

Done == check.at = "done" /\ check.verdict # "none"
Verdict(name) == {r.verdict : r \in {q \in results : q.name = name}}

\* conformance.rs, check_behavior: when every step of both sweeps was seen,
\* Shift+Tab is accused exactly when it does not reverse Tab.
ReverseFair ==
  (Done /\ host.told /\ check.faults = 0 /\ contract.policy = "driving" /\ contract.reverse) =>
    ("fail" \in Verdict("reverse") <=> ~host.honest /\ Ring > 1)

\* conformance.rs, the restore point: a check whose last look succeeded says
\* so when it left the application elsewhere; a passive one left it alone.
ResidueNamed ==
  (Done /\ ~check.blind /\ host.told) =>
    /\ (host.focus # check.pre.focus \/ host.small # check.pre.small) => check.residue # {}
    /\ contract.policy = "passive" => host = check.pre

\* conformance.rs, Verdict: PASS is never given over a claim that failed, and
\* FAIL never without one that counts in this mode.
VerdictEarned ==
  Done =>
    /\ check.verdict = "pass" => \A r \in results : r.verdict = "pass"
    /\ check.verdict = "fail" =>
         \E r \in results : \/ r.verdict = "fail" /\ (r.required \/ contract.mode # "advisory")
                            \/ r.verdict = "unverified" /\ contract.mode = "strict"

\* conformance.rs:18, the flag-backed properties are proven by driving, never
\* assumed: Shift+Tab is called the inverse only when an edge was compared.
InverseIsProven == heard["reverse_tab_is_inverse"] = "yes" => check.edges # {}

\* conformance.rs, Verdict: a check whose evidence never arrived did not fail.
UnseenIsNotFailed ==
  Done => \A o \in contract.oracles :
            (o.name \in DOMAIN heard /\ heard[o.name] = "unknown") => "fail" \notin Verdict(o.name)

\* conformance.rs, residue verification, the check's honesty ledger: a check
\* that reports nothing left has looked.
CleanIsSeen ==
  (Done /\ host.told /\ check.residue = {}) => host.focus = check.pre.focus /\ host.small = check.pre.small
=============================================================================
