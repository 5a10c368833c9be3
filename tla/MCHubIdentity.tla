---------------------------- MODULE MCHubIdentity ----------------------------
(* Small instances of HubIdentity: what the configurations have in common. *)
EXTENDS HubIdentity

CONSTANTS a, b    \* channel ids

\* A list with one channel twice, and one with two channels.
Lists == {<<a, a>>, <<a, b>>}

Symmetry == Permutations(Hubs) \cup Permutations(Addresses)

\* No step reads answer: states that differ in it only are explored once.
View == <<hubVars, channels>>
=============================================================================
