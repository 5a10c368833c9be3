-------------------------- MODULE NotifierHubClaims --------------------------
(* What the comments of notifier_hub say and the code does not do.         *)
EXTENDS NotifierHub

\* writing_handler.rs:81, "If duration is Some, it waits only for the given
\* time".
WaitsOnlyForTheGivenTime == \A h \in DOMAIN handlers :
  Timed(h) => handlers[h].waited <= handlers[h].duration
=============================================================================
