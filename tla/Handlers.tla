------------------------------ MODULE Handlers ------------------------------
(***************************************************************************)
(* The requests in flight of the modules that extend this one.             *)
(*                                                                         *)
(* req[r] is the handler that request r runs: its name, the statement it   *)
(* is at, and what it has read so far.  A handler with one write that      *)
(* depends on no earlier read is one action and needs no entry.            *)
(***************************************************************************)
EXTENDS Naturals, FiniteSets

CONSTANTS
  Requests,  \* requests that may be in flight
  None       \* SQL NULL

VARIABLES
  req,     \* requests in flight
  overlap  \* chosen at the start: requests interleave, or come one at a time

Idle == [op |-> "idle"]

\* A row before its insert, as long as it is there, and after its delete.
RowStatus == {"none", "kept", "deleted"}

HandlersInit == req = [r \in Requests |-> Idle] /\ overlap \in BOOLEAN

MayStart == overlap \/ \A r \in Requests : req[r].op = "idle"

\* The first statement of a handler, which goes on with these locals.
Starts(r, locals) ==
  /\ MayStart /\ req[r].op = "idle"
  /\ req' = [req EXCEPT ![r] = locals]
  /\ UNCHANGED overlap

At(r, op) == req[r].op = op

\* A later statement.
Goes(r, locals) == req' = [req EXCEPT ![r] = locals] /\ UNCHANGED overlap

Ends(r) == req' = [req EXCEPT ![r] = Idle] /\ UNCHANGED overlap

\* A service moves, or loses to an error, only handlers of its own.
Moves(ops) == \A r \in Requests : req[r].op \notin ops \cup {"idle"} => req'[r] = req[r]

\* A handler that is done at once.
AtOnce == MayStart /\ UNCHANGED <<req, overlap>>

\* A check that throws, an error or a redeploy: what was written stays.
Dies(r) == req[r].op # "idle" /\ Ends(r)

\* How far overlapping check-then-write requests may go beyond one.
AtOnceAtMost == IF overlap THEN Cardinality(Requests) ELSE 1

\* Rows that were replaced as a whole by submission n, in a transaction
\* whose delete saw the rows `seen`: the rows that others inserted since stay.
Replaced(rows, seen, n) == (rows \ seen) \cup n
=============================================================================
