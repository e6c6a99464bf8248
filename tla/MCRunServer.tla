---------------------------- MODULE MCRunServer ----------------------------
(* TLC instances of RunServer: which tools meet is chosen by each cfg.     *)
EXTENDS RunServer, TLC

\* Clients, runs and sessions are interchangeable in the safety runs.
Perms == Permutations(Clients) \cup Permutations(Runs) \cup Permutations(Sessions)
=============================================================================
