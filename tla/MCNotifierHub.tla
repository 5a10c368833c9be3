---------------------------- MODULE MCNotifierHub ----------------------------
(* Small instances of NotifierHub: what the configurations have in common. *)
EXTENDS NotifierHubClaims

CONSTANTS a, b    \* channel ids

\* A list with one channel twice, one with two channels, and the empty one.
Lists == {<<a, a>>, <<a, b>>, <<>>}
OneChannelTwice == {<<a, a>>}

\* Where nobody waits on a handler, no step and no property of the run reads the
\* handlers or the tasks that have finished, nor the order in which the others
\* were spawned: states that differ in these are explored once.
View == <<hubVars, channelVars, held, sent,
          [i \in Ids |-> [m \in 0 .. MaxSends |-> Pending(i, m)]]>>
=============================================================================
