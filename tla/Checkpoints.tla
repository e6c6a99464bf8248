---------------------------- MODULE Checkpoints ----------------------------
(* The checkpoints of a run (src/checkpoint/store.rs, the tui_checkpoint   *)
(* tool of handlers/interact.rs, and what persistence_impl.rs does with    *)
(* them at promotion and resume).  The map in memory is what the tool      *)
(* works on; a durable run also writes each checkpoint to a file of its    *)
(* own, and a resumed run reads the files back.                            *)
EXTENDS Naturals, Sequences, Functions

CONSTANTS
  Given,      \* the names a client gives its checkpoints
  FileOf,     \* sanitize_segment: the file of each given name
  Hashes,     \* the screens
  MaxSeq,     \* bound of the model: checkpoints that are saved
  MaxTrouble  \* bound of the model: saves and promotions that fail, and crashes

VARIABLES
  hash,     \* the screen of the session
  memory,   \* checkpoints: name -> [name, seq, hash]
  files,    \* <run_dir>/<session>: file -> checkpoint
  durable,  \* run_dir is set
  nextSeq,  \* next_seq
  unwritten,  \* the names whose last write failed
  answer,   \* the answer of a comparison that was the last call
  trouble   \* failed writes and crashes

vars == <<hash, memory, files, durable, nextSeq, unwritten, answer, trouble>>

AutoName(n) == <<"cp-1", "cp-2", "cp-3", "cp-4", "cp-5">>[n]
AllNames == Given \cup {AutoName(n) : n \in 1 .. MaxSeq}
File(name) == IF name \in DOMAIN FileOf THEN FileOf[name] ELSE name

Init ==
  /\ hash \in Hashes /\ memory = <<>> /\ files = <<>> /\ durable \in BOOLEAN
  /\ nextSeq = 1 /\ unwritten = {} /\ answer = <<>> /\ trouble = 0

\* A write goes well or fails; persist writes aside and renames.
Fate(ok) == ok \/ trouble < MaxTrouble
Troubled(ok) == trouble' = IF ok THEN trouble ELSE trouble + 1

\* insert, of a map.
Put(f, x, v) == [y \in DOMAIN f \cup {x} |-> IF y = x THEN v ELSE f[y]]

\* save: the file is written before the map is changed, and a write that fails
\* is only logged.
Save ==
  \E given \in Given \cup {"none"}, ok \in BOOLEAN :
    LET name == IF given = "none" THEN AutoName(nextSeq) ELSE given
        cp == [name |-> name, seq |-> nextSeq, hash |-> hash] IN
    /\ nextSeq <= MaxSeq /\ Fate(ok) /\ (durable \/ ok) /\ Troubled(ok)
    /\ memory' = Put(memory, name, cp)
    /\ files' = IF durable /\ ok THEN Put(files, File(name), cp) ELSE files
    /\ unwritten' = IF ok THEN unwritten \ {name} ELSE unwritten \cup {name}
    /\ nextSeq' = nextSeq + 1
    /\ answer' = <<>> /\ UNCHANGED <<hash, durable>>

\* compare: hash against hash; a name that is not there is an error.
Compare ==
  \E name \in AllNames :
    /\ answer' = IF name \in DOMAIN memory
                 THEN <<[of |-> memory[name].seq, same |-> memory[name].hash = hash]>>
                 ELSE <<"no such checkpoint">>
    /\ UNCHANGED <<hash, memory, files, durable, nextSeq, unwritten, trouble>>

\* delete of a name that is there: the file stays.
Delete ==
  \E name \in AllNames :
    /\ memory' = [n \in DOMAIN memory \ {name} |-> memory[n]]
    /\ unwritten' = unwritten \ {name}
    /\ name \in DOMAIN memory /\ answer' = <<>>
    /\ UNCHANGED <<hash, files, durable, nextSeq, trouble>>

\* reroot: every checkpoint is written, in the order of a hash map: of those
\* that share a file any one stays.
Reroot ==
  \E lost \in SUBSET DOMAIN memory :
    LET written == DOMAIN memory \ lost IN
    /\ ~durable /\ durable' = TRUE
    /\ Fate(lost = {}) /\ Troubled(lost = {})
    /\ \E last \in [{File(n) : n \in written} -> written] :
         /\ \A f \in DOMAIN last : File(last[f]) = f
         /\ files' = [f \in DOMAIN last |-> memory[last[f]]]
    /\ unwritten' = lost /\ answer' = <<>>
    /\ UNCHANGED <<hash, memory, nextSeq>>

\* The process dies and the run is resumed (load_session): the map is what the
\* files hold, and the counter is ahead of them.
Resume ==
  /\ durable /\ trouble < MaxTrouble /\ trouble' = trouble + 1
  /\ memory' = [name \in {files[f].name : f \in DOMAIN files} |->
                  (CHOOSE cp \in Range(files) : cp.name = name)]
  /\ nextSeq' \in {1} \cup {cp.seq + 1 : cp \in Range(files)}
  /\ \A cp \in Range(files) : cp.seq < nextSeq'
  /\ unwritten' = {} /\ answer' = <<>>
  /\ UNCHANGED <<hash, files, durable>>

Change ==
  /\ hash' \in Hashes \ {hash} /\ answer' = <<>>
  /\ UNCHANGED <<memory, files, durable, nextSeq, unwritten, trouble>>

Next == Save \/ Compare \/ Delete \/ Reroot \/ Resume \/ Change

Spec == Init /\ [][Next]_vars

-----------------------------------------------------------------------------
(* Properties.                                                             *)

TypeOK ==
  /\ hash \in Hashes /\ durable \in BOOLEAN /\ DOMAIN memory \subseteq AllNames
  /\ nextSeq \in 1 .. MaxSeq + 1 /\ unwritten \subseteq AllNames /\ trouble \in 0 .. MaxTrouble

\* Two checkpoints of a run never share their sequence number, in memory or on
\* disk, whatever was deleted, lost or resumed: the number is their identity
\* (store.rs, load_session: "keep the sequence counter ahead of anything
\* loaded").
SequenceIsIdentity ==
  \A a, b \in Range(memory) \cup Range(files) : a.seq = b.seq => a = b

\* What is in memory of a durable run and was written is on disk, after saves,
\* promotion and resumes, unless another name has taken its file (store.rs,
\* reroot: "nothing accumulated while ephemeral may be lost").
DurableIsOnDisk ==
  durable =>
    \A name \in DOMAIN memory \ unwritten :
      /\ File(name) \in DOMAIN files
      /\ LET cp == files[File(name)] IN cp = memory[name] \/ cp.name # name

\* No file is newer than the checkpoint of its name that a comparison uses: a
\* comparison is with the last save of the name that still exists anywhere.
NewestOfItsName ==
  \A name \in DOMAIN memory, f \in DOMAIN files :
    files[f].name = name => files[f].seq <= memory[name].seq

-----------------------------------------------------------------------------
(* Statements of the repository that the code does not keep; no run checks *)
(* them.                                                                   *)

\* The store says that nothing accumulated while ephemeral may be lost.  Two
\* names that read the same once sanitized have one file, and one of the
\* checkpoints is gone after a resume.
NothingLost ==
  durable => \A name \in DOMAIN memory \ unwritten : memory[name] \in Range(files)

\* A deleted checkpoint is answered to be deleted.  Its file stays, and a
\* resumed run has it again.
DeletedIsGone ==
  durable => \A f \in DOMAIN files : files[f].name \in DOMAIN memory
=============================================================================
