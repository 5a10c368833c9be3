----------------------------- MODULE MCTaskForge -----------------------------
(* Small instances of TaskForge: what the configurations have in common.   *)
EXTENDS TaskForgeClaims, TLC

\* Clients, ids and redirections are interchangeable: for safety runs only.
Symmetry == Permutations(Clients) \cup Permutations(Ids) \cup Permutations(Subs)

\* No guard and no property of these runs reads ret, nor abandoned where creations
\* can be abandoned, so states that differ in no more are explored once.
View == <<forgeVars, lockVars, pc, call, notified, notifying, cleaner, world>>
=============================================================================
