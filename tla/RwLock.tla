------------------------------- MODULE RwLock -------------------------------
(***************************************************************************)
(* The tokio::sync::RwLock that Wrapped<T> puts around a forge.  It is     *)
(* fair: requests are served in the order of a queue, so a writer that     *)
(* waits holds back every reader that comes after it.  Each process has at *)
(* most one request.  The module has no behaviour of its own: its          *)
(* operators are the lock's part of the steps of the processes using it.   *)
(***************************************************************************)
EXTENDS Naturals, Sequences, SequencesExt

CONSTANT Nobody     \* no process holds the lock for writing

VARIABLES
  writer,           \* the process writing, or Nobody
  readers,          \* the processes reading
  queue             \* the requests [proc, mode] not served yet

lockVars == <<writer, readers, queue>>

LockInit == writer = Nobody /\ readers = {} /\ queue = <<>>

\* Process p calls read() or write().
Request(p, mode) ==
  /\ queue' = Append(queue, [proc |-> p, mode |-> mode])
  /\ UNCHANGED <<writer, readers>>

\* It is the turn of the request at position i: all before it are readers
\* that could enter as well, and whoever is inside admits it.
Turn(i) ==
  /\ writer = Nobody
  /\ \A j \in 1 .. i-1 : queue[j].mode = "read"
  /\ queue[i].mode = "write" => i = 1 /\ readers = {}

Served(p, mode) ==
  \E i \in DOMAIN queue : /\ queue[i] = [proc |-> p, mode |-> mode]
                          /\ Turn(i)
                          /\ queue' = RemoveAt(queue, i)

\* A critical section without an await point is one step ...
WriteOnce(p) == Served(p, "write") /\ UNCHANGED <<writer, readers>>
ReadOnce(p)  == Served(p, "read")  /\ UNCHANGED <<writer, readers>>

\* ... and one with await points is entered, and left later.
StartWrite(p) == Served(p, "write") /\ writer' = p /\ UNCHANGED readers
StartRead(p)  == Served(p, "read") /\ readers' = readers \cup {p}
                                   /\ UNCHANGED writer
EndWrite   == writer' = Nobody /\ UNCHANGED <<readers, queue>>
EndRead(p) == readers' = readers \ {p} /\ UNCHANGED <<writer, queue>>

\* The future of a read() or a write() is dropped before it is served.
Withdraw(p) ==
  /\ \E i \in DOMAIN queue : queue[i].proc = p /\ queue' = RemoveAt(queue, i)
  /\ UNCHANGED <<writer, readers>>
=============================================================================
