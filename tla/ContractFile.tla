---------------------------- MODULE ContractFile ----------------------------
(* The file of a drafted contract (write_contract_atomically of            *)
(* src/mcp/tools/handlers/contract.rs) and who loads it                    *)
(* (src/design/loader.rs).  The writes of several drafts may overlap, each *)
(* to a side file that is renamed; a process may die between two steps.    *)
EXTENDS Naturals, Sequences, Functions, SequencesExt

CONSTANTS
  Drafts,   \* the drafts that are written
  PathOf,   \* draft -> the path it was given
  SideOf,   \* path -> path.with_extension("yaml.tmp")
  Readable  \* the paths whose extension a draft can be written for

VARIABLES
  names,   \* the directory: name -> file
  texts,   \* file -> the draft it holds whole, "empty" or "part"
  writes,  \* draft -> where its write is
  shared,  \* the drafts that had their side file opened by another meanwhile
  loaded   \* what the last load of a path read

vars == <<names, texts, writes, shared, loaded>>

Paths == Range(PathOf)
NoWrite == [at |-> "idle"]

\* The directory is empty, or holds a contract at each path.
Init ==
  /\ \/ names = <<>> /\ texts = <<>>
     \/ names = [p \in Paths |-> 1] /\ texts = <<"old">>
  /\ writes = [d \in Drafts |-> NoWrite] /\ shared = {} /\ loaded = <<>>

\* An extension that the loader does not read is refused before anything is
\* written; else the side file is created, or truncated if it is there.
Create(d) ==
  LET side == SideOf[PathOf[d]]
      file == IF side \in DOMAIN names THEN names[side] ELSE Len(texts) + 1 IN
  /\ writes[d] = NoWrite
  /\ IF PathOf[d] \notin Readable
     THEN writes' = [writes EXCEPT ![d].at = "refused"] /\ UNCHANGED <<names, texts, shared>>
     ELSE /\ names' = (side :> file) @@ names
          /\ texts' = [n \in DOMAIN texts \cup {file} |-> IF n = file THEN "empty" ELSE texts[n]]
          /\ writes' = [writes EXCEPT ![d] = [at |-> "open", file |-> file,
                                              existed |-> PathOf[d] \in DOMAIN names]]
          /\ shared' = shared \cup {e \in Drafts : writes[e].at \in {"open", "written"}
                                                     /\ writes[e].file = file}
  /\ UNCHANGED loaded

\* write_all, sync_all: what was there is overwritten; two writers at a time
\* leave a part of each.
Write(d) ==
  \E goes \in BOOLEAN :
    LET file == writes[d].file IN
    /\ writes[d].at = "open"
    /\ texts' = [texts EXCEPT ![file] =
                   IF goes /\ @ = "empty" THEN d ELSE IF goes \/ @ # "empty" THEN "part" ELSE @]
    /\ writes' = [writes EXCEPT ![d].at = IF goes THEN "written" ELSE "failed"]
    /\ UNCHANGED <<names, shared, loaded>>

\* The rename moves whatever has the name of the side file now.
Rename(d) ==
  LET side == SideOf[PathOf[d]] IN
  /\ writes[d].at = "written"
  /\ IF side \in DOMAIN names
     THEN /\ names' = [p \in (DOMAIN names \cup {PathOf[d]}) \ {side} |->
                         IF p = PathOf[d] THEN names[side] ELSE names[p]]
          /\ writes' = [writes EXCEPT ![d].at = "answered"]
     ELSE writes' = [writes EXCEPT ![d].at = "failed"] /\ UNCHANGED names
  /\ UNCHANGED <<texts, shared, loaded>>

\* The process dies: the writes under way stop where they are, and what was
\* written of a side file stays.
Die ==
  /\ \E d \in Drafts : writes[d].at \in {"open", "written"}
  /\ writes' = [d \in Drafts |-> IF writes[d].at \in {"open", "written"}
                                 THEN [at |-> "failed"] ELSE writes[d]]
  /\ UNCHANGED <<names, texts, shared, loaded>>

\* load_design_contract: an empty document is a contract that asks for nothing
\* in YAML; a part of one is an error.
LoadFile ==
  \E p \in Paths \cap DOMAIN names :
    /\ loaded' = <<p, texts[names[p]]>> /\ UNCHANGED <<names, texts, writes, shared>>

Next == (\E d \in Drafts : Create(d) \/ Write(d) \/ Rename(d)) \/ Die \/ LoadFile

Spec == Init /\ [][Next]_vars

-----------------------------------------------------------------------------
(* Properties.                                                             *)

TypeOK ==
  /\ Range(names) \subseteq DOMAIN texts /\ shared \subseteq Drafts
  /\ \A d \in Drafts : writes[d].at \in {"idle", "refused", "open", "written", "failed", "answered"}

\* A path holds a contract that is whole, over failed writes and a death of the
\* process, as long as no two drafts had one side file open at a time.
WholeUnlessShared ==
  shared = {} =>
    /\ \A p \in Paths \cap DOMAIN names : texts[names[p]] \in Drafts \cup {"old"}
    /\ loaded # <<>> => loaded[2] \in Drafts \cup {"old"}

\* Unless side files are shared, a draft that was answered to be written is at
\* its path, or a later one for that path is; and one that was refused or failed
\* is at none.
AnsweredIsThere ==
  shared = {} =>
    \A d \in Drafts :
      LET there(e) == PathOf[e] \in DOMAIN names /\ texts[names[PathOf[e]]] = e IN
      /\ writes[d].at = "answered" =>
           \E e \in Drafts : PathOf[e] = PathOf[d] /\ writes[e].at = "answered" /\ there(e)
      /\ writes[d].at \in {"idle", "refused", "open", "failed"} => ~there(d)

-----------------------------------------------------------------------------
(* Statements of the repository that the code does not keep; no run checks *)
(* them.                                                                   *)

\* write_contract_atomically says that a contract is written atomically.  The
\* side file is the same for all drafts whose paths differ in their extension
\* alone: one is renamed while another is being written to it.
WrittenAtomically ==
  \A p \in Paths \cap DOMAIN names : texts[names[p]] \in Drafts \cup {"old"}
=============================================================================
