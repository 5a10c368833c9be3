---------------------------- MODULE TaskLifecycle ----------------------------
(***************************************************************************)
(* What a task forge promises to its callers, as if each call and each end *)
(* of a task were one step on one table of ids.  There is no lock, no map  *)
(* of senders, no listener, no channel and no task here.                   *)
(***************************************************************************)
EXTENDS Integers, FiniteSets, Sequences

CONSTANTS
  Ids, Clients,
  Awaited, NoCount,  \* what a cleaning may ask for
  None,              \* no cleaning is pending
  MayAbandon         \* may a creation be given up half-way?

VARIABLES
  state,      \* id -> "None", "Running", "Lost" or "Closed"
  waiting,    \* id -> the clients waiting for its creation
  told,       \* id -> clients that have been told of it and have not taken note
  cleaning,   \* the cleaning that is pending: [owner, awaited]
  listening,  \* clients that would learn of the end of their cleaning
  results     \* the ids whose results were announced, in order

taskVars  == <<state, waiting, told>>
cleanVars == <<cleaning, listening>>
vars      == <<taskVars, cleanVars, results>>

-----------------------------------------------------------------------------
Start(id) ==
  /\ state[id] \in {"None", "Closed"}
  /\ state' = [state EXCEPT ![id] = "Running"]
  /\ told' = [told EXCEPT ![id] = @ \cup waiting[id]]
  /\ waiting' = [waiting EXCEPT ![id] = {}]
  /\ UNCHANGED <<cleanVars, results>>

\* A creation given up half-way: the id is taken and has no task, and some of
\* those who were told will find that nobody tells them any more.
Abandon(id) ==
  /\ MayAbandon /\ state[id] = "Running"
  /\ state' = [state EXCEPT ![id] = "Lost"]
  /\ \E untold \in SUBSET told[id] : told' = [told EXCEPT ![id] = @ \ untold]
  /\ UNCHANGED <<waiting, cleanVars, results>>

\* Only an id that nobody knows is waited for.
Wait(c, id) ==
  /\ state[id] = "None"
  /\ waiting' = [waiting EXCEPT ![id] = @ \cup {c}]
  /\ UNCHANGED <<state, told, cleanVars, results>>

\* A client takes note of the creation it waited for, or gives up.
StopWaiting(c) ==
  /\ told' = [id \in Ids |-> told[id] \ {c}]
  /\ waiting' \in {waiting, [id \in Ids |-> waiting[id] \ {c}]}
  /\ UNCHANGED <<state, cleanVars, results>>

ForgetAll == /\ state' = [id \in Ids |-> "None"]
             /\ waiting' = [id \in Ids |-> {}]
             /\ UNCHANGED told

Closed(id)    == [state EXCEPT ![id] = "Closed"]
Satisfied(st) ==
  /\ cleaning # None
  /\ \A id \in Ids : st[id] # "Running"
  /\ cleaning.awaited \in {NoCount, Cardinality({id \in Ids : st[id] # "None"})}

\* A task ends, or one that ended before is taken for that of a lost id.
Finish(id) ==
  /\ state[id] \in {"Running", "Lost"} /\ ~Satisfied(Closed(id))
  /\ state' = Closed(id)
  /\ results' = Append(results, id)
  /\ UNCHANGED <<waiting, told, cleanVars>>

\* The end that satisfies the cleaning: everything is forgotten.  The result
\* is lost if nobody listens for the end of the cleaning.
FinishAll(id) ==
  /\ state[id] \in {"Running", "Lost"} /\ Satisfied(Closed(id))
  /\ ForgetAll
  /\ cleaning' = None
  /\ listening' = listening \ {cleaning.owner}
  /\ results' = IF cleaning.owner \in listening THEN Append(results, id) ELSE results

\* clean, when nothing runs and when something does.
CleanNow ==
  /\ \A id \in Ids : state[id] # "Running"
  /\ ForgetAll /\ UNCHANGED <<cleanVars, results>>

RequestClean(c, n) ==
  /\ \E id \in Ids : state[id] = "Running"
  /\ cleaning' = [owner |-> c, awaited |-> n]
  /\ listening' = {d \in listening : cleaning = None \/ d # cleaning.owner} \cup {c}
  /\ UNCHANGED <<taskVars, results>>

StopListening(c) ==
  /\ listening' = listening \ {c}
  /\ UNCHANGED <<taskVars, cleaning, results>>

Init ==
  /\ state = [id \in Ids |-> "None"]
  /\ waiting = [id \in Ids |-> {}] /\ told = [id \in Ids |-> {}]
  /\ cleaning = None /\ listening = {}
  /\ results = <<>>

Next ==
  \/ CleanNow
  \/ \E id \in Ids : Start(id) \/ Abandon(id) \/ Finish(id) \/ FinishAll(id)
  \/ \E c \in Clients : \/ StopWaiting(c) \/ StopListening(c)
                        \/ \E id \in Ids : Wait(c, id)
                        \/ \E n \in Awaited : RequestClean(c, n)

Spec == Init /\ [][Next]_vars
=============================================================================
