--------------------------- MODULE AuditOrchestrator ---------------------------
(***************************************************************************)
(* One audit (src/audit/orchestrator.rs): which drivers a profile runs     *)
(* under a safety policy, the restarts that isolate them from each other,  *)
(* and the transaction around a driver that compares the application       *)
(* before and after (src/audit/transaction.rs).                            *)
(*                                                                         *)
(* A driver is its row of the profile table.  What it leaves in the        *)
(* application is its residue; some of it shows on the screen.             *)
(***************************************************************************)
EXTENDS Naturals, Sequences, FiniteSets, SequencesExt

CONSTANTS
  Table,  \* the live rows of PROFILES in order: [id, risk, inFull, tx, group]
  Contract, \* the row of profile=contract, which checks conformance instead
  Asked   \* profiles asked for: ids of rows and "full"

VARIABLES
  audit,    \* what was asked, and where the audit is
  todo,     \* drivers still to run
  target,   \* the application: alive, and the drivers that left residue in it
  before,   \* PreState of the transaction under way
  found,    \* ids of the orchestration and transaction findings
  ran       \* history: drivers that ran, and the residue each of them met

auditVars == <<audit, todo, target, before, found, ran>>

Risks == <<"observational", "reversible", "restart", "mutating">>
RiskOf(row) == CHOOSE n \in DOMAIN Risks : Risks[n] = row.risk
Invasive(row) == RiskOf(row) > 1
Ids == {Table[n].id : n \in DOMAIN Table}
Row(id) == Table[CHOOSE n \in DOMAIN Table : Table[n].id = id]
Policies == {"SafeOnly", "AllowMutation", "RestartBetweenMutations"}

\* Every variable has its type.
TypeOK ==
  /\ audit.ask \in Asked /\ audit.policy \in Policies /\ audit.spec \in BOOLEAN
  /\ audit.checked \in BOOLEAN
  /\ audit.pc \in {"gate", "next", "driver", "verify", "done"}
  /\ audit.mode \in {"none", "Partial", "Withheld", "Refused", "Composite", "Driving",
                     "ObservationalLive"}
  /\ audit.group \in Nat /\ audit.restarts \in Nat
  /\ todo \in Seq(Ids)
  /\ target \in [alive : BOOLEAN, left : SUBSET Ids]
  /\ before \subseteq Ids
  /\ \A r \in ran : r.id \in Ids /\ r.met \subseteq Ids

Init ==
  /\ audit \in [ask : Asked, policy : Policies, spec : BOOLEAN, checked : BOOLEAN, pc : {"gate"},
                mode : {"none"}, group : {0}, restarts : {0}]
  /\ todo = <<>>
  /\ target = [alive |-> TRUE, left |-> {}]
  /\ before = {} /\ found = {} /\ ran = {}

-----------------------------------------------------------------------------
(* The gates.                                                              *)

\* The ids of some rows, in table order.
Listed(rows) ==
  LET ids[n \in 0 .. Len(Table)] ==
        IF n = 0 THEN <<>>
        ELSE IF Table[n] \in rows THEN Append(ids[n - 1], Table[n].id) ELSE ids[n - 1]
  IN ids[Len(Table)]

\* safe-only: the observational members of full run, the others are withheld.
SafeMembers == Listed({r \in Range(Table) : r.inFull /\ ~Invasive(r)})
\* Otherwise full runs its driver groups, in table order.
Members == Listed({r \in Range(Table) : r.inFull /\ r.group > 0})

Starts(drivers, mode) ==
  /\ audit' = [audit EXCEPT !.pc = "next", !.mode = mode]
  /\ todo' = drivers
  /\ UNCHANGED <<target, before, found, ran>>

Ends(mode, finding) ==
  /\ audit' = [audit EXCEPT !.pc = "done", !.mode = mode]
  /\ found' = found \cup {finding}
  /\ UNCHANGED <<todo, target, before, ran>>

Risky == IF audit.ask = "full" THEN TRUE ELSE Invasive(Row(audit.ask))

\* run_profile_checked applies the policy; the entries that are given a
\* contract go past it.
Gated ==
  /\ audit.pc = "gate" /\ audit.checked /\ audit.policy = "SafeOnly" /\ Risky
  /\ IF audit.ask = "full"
     THEN /\ audit' = [audit EXCEPT !.pc = "next", !.mode = "Partial"]
          /\ todo' = SafeMembers
          /\ found' = {"ORCH-GATED"}
          /\ UNCHANGED <<target, before, ran>>
     ELSE Ends("Withheld", "ORCH-GATED")

\* Isolation that no launch spec can give is refused, not done without; the
\* contract profile has returned before.
RefuseDeep ==
  /\ audit.pc = "gate" /\ audit.policy = "RestartBetweenMutations" /\ ~audit.spec
  /\ Risky /\ audit.ask # Contract
  /\ Ends("Refused", "ORCH-DEEP-REFUSED")

\* Conformance runs alone and outside any transaction.
InTransaction(id) == Row(id).tx /\ id # Contract

Run ==
  /\ audit.pc = "gate"
  /\ Risky => /\ audit.policy = "SafeOnly" => ~audit.checked
              /\ audit.policy = "RestartBetweenMutations" => audit.spec \/ audit.ask = Contract
  /\ IF audit.ask = "full" THEN Starts(Members, "Composite")
     ELSE Starts(<<audit.ask>>, IF audit.ask = Contract THEN "Composite"
                               ELSE IF Row(audit.ask).tx THEN "Driving" ELSE "ObservationalLive")

-----------------------------------------------------------------------------
(* The drivers.                                                            *)

\* Mutant: a restart isolates groups of potentially mutating drivers only
\* from the group before them when that one was reversible.
NeedsRestartOnce ==
  LET row == Row(Head(todo)) IN
  /\ audit.policy = "RestartBetweenMutations" /\ audit.ask = "full"
  /\ row.group # audit.group /\ audit.restarts = 0
  /\ RiskOf(row) > 2 \/ row.group >= 4

\* Under isolation, a new group that mutates, or comes after one that does,
\* begins with a restart.
NeedsRestart ==
  LET row == Row(Head(todo)) IN
  /\ audit.policy = "RestartBetweenMutations" /\ audit.ask = "full"
  /\ row.group # audit.group /\ RiskOf(row) > 1
  /\ RiskOf(row) > 2 \/ row.group >= 4

Restart ==
  /\ audit.pc = "next" /\ todo # <<>> /\ NeedsRestart
  /\ \/ /\ target' = [alive |-> TRUE, left |-> {}]
        /\ audit' = [audit EXCEPT !.restarts = @ + 1, !.group = Row(Head(todo)).group]
        /\ found' = found \cup {"ORCH-RESTART"}
     \/ /\ target' = [target EXCEPT !.alive = FALSE]
        /\ audit' = [audit EXCEPT !.restarts = @ + 1, !.pc = "done"]
        /\ found' = found \cup {"ORCH-RESTART-FAILED", "ORCH-DEEP-ABORTED"}
  /\ UNCHANGED <<todo, before, ran>>

\* The transaction takes the state before, or fails and the driver does not
\* run at all.
Enter ==
  /\ audit.pc = "next" /\ todo # <<>> /\ ~NeedsRestart
  /\ LET row == Row(Head(todo)) IN
     \/ /\ InTransaction(row.id) => target.alive
        /\ audit' = [audit EXCEPT !.pc = "driver", !.group = row.group]
        /\ before' = target.left
        /\ UNCHANGED <<todo, found>>
     \/ /\ InTransaction(row.id)
        /\ audit' = [audit EXCEPT !.group = row.group]
        /\ todo' = Tail(todo)
        /\ found' = found \cup {"AUDIT-TX-ERR"}
        /\ UNCHANGED before
  /\ UNCHANGED <<target, ran>>

\* A driver that sends input may leave residue, or end the application.
Driver ==
  /\ audit.pc = "driver"
  /\ LET row == Row(Head(todo)) IN
     /\ \E left \in IF Invasive(row) THEN {{}, {row.id}} ELSE {{}},
           alive \in IF Invasive(row) THEN {target.alive, FALSE} ELSE {target.alive} :
          target' = [alive |-> alive, left |-> target.left \cup left]
     /\ ran' = ran \cup {[id |-> row.id, met |-> target.left]}
     /\ IF InTransaction(row.id) THEN audit' = [audit EXCEPT !.pc = "verify"] /\ UNCHANGED todo
        ELSE audit' = [audit EXCEPT !.pc = "next"] /\ todo' = Tail(todo)
  /\ UNCHANGED <<before, found>>

\* Mutant: a screen that cannot be observed is a screen without residue.
ReportedUnseen(observed) ==
  IF observed /\ target.left # before THEN {"AUDIT-RESIDUE"} ELSE {}

\* verify: no observation is not the absence of residue.
Reported(observed) ==
  IF ~observed THEN {"AUDIT-UNVERIFIED"}
  ELSE IF target.left # before THEN {"AUDIT-RESIDUE"} ELSE {}

Verify ==
  /\ audit.pc = "verify"
  /\ \E observed \in IF target.alive THEN BOOLEAN ELSE {FALSE} :
       found' = found \cup Reported(observed)
  /\ todo' = Tail(todo)
  /\ audit' = [audit EXCEPT !.pc = "next"]
  /\ UNCHANGED <<target, before, ran>>

Finish ==
  /\ audit.pc = "next" /\ todo = <<>>
  /\ audit' = [audit EXCEPT !.pc = "done"]
  /\ found' = IF audit.restarts > 0 THEN found \cup {"ORCH-DEEP-SUMMARY"} ELSE found
  /\ UNCHANGED <<todo, target, before, ran>>

Next == Gated \/ RefuseDeep \/ Run \/ Restart \/ Enter \/ Driver \/ Verify \/ Finish
Spec == Init /\ [][Next]_auditVars

-----------------------------------------------------------------------------
(* Properties.                                                             *)

\* Under RestartBetweenMutations, no driver that may mutate the application
\* meets what another one left in it.
IsolationKept ==
  audit.policy = "RestartBetweenMutations" =>
    \A r \in ran : Row(r.id).risk = "mutating" =>
      \A id \in r.met : Row(id).risk # "mutating" /\ Row(id).group # Row(r.id).group

\* When an audit ends, residue a driver of it left is named by a finding, or
\* the finding says that nobody could look.
ResidueIsReported ==
  audit.pc = "done" /\ (\E id \in target.left : InTransaction(id)) =>
    found \cap {"AUDIT-RESIDUE", "AUDIT-UNVERIFIED"} # {}

\* orchestrator.rs, included_in_full: what full runs when it may only look,
\* it also runs when it may act.
FullRunsItsMembers ==
  (audit.pc = "done" /\ audit.ask = "full" /\ audit.policy = "AllowMutation") =>
    \A id \in Ids : Row(id).inFull => \E r \in ran : r.id = id

\* orchestrator.rs, run_profile_with_contract: mutation must be asked for;
\* under the policy SafeOnly nothing that drives the application runs.
SafeOnlyLooks ==
  audit.policy = "SafeOnly" => \A r \in ran : ~Invasive(Row(r.id))
=============================================================================
