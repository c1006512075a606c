----------------------------- MODULE LendingDesk -----------------------------
(***************************************************************************)
(* What a lending library promises, with no loans, requests or database:   *)
(* a copy is on the shelf, with the one member it was lent to, or away     *)
(* (not acquired yet, lost, damaged or given up), and a member has at most *)
(* as many copies as the card allows.                                      *)
(***************************************************************************)
EXTENDS Integers, FiniteSets

CONSTANTS Copies, Members, MaxBooks

VARIABLES
  shelf,   \* the copies that can be lent
  holders  \* who has a copy

vars == <<shelf, holders>>

Init == /\ shelf = {}
        /\ holders = [c \in Copies |-> {}]

OnCard(m) == {c \in Copies : m \in holders[c]}

Acquire(c) == /\ c \notin shelf /\ holders[c] = {}
              /\ shelf' = shelf \cup {c}
              /\ UNCHANGED holders

\* Only what is on the shelf is given up.
GiveUp(c) == /\ c \in shelf
             /\ shelf' = shelf \ {c}
             /\ UNCHANGED holders

Lend(c, m) == /\ c \in shelf
              /\ Cardinality(OnCard(m)) < MaxBooks[m]
              /\ shelf' = shelf \ {c}
              /\ holders' = [holders EXCEPT ![c] = {m}]

\* A copy comes back from the member who has it, to the shelf unless it is lost
\* or damaged.
TakeBack(c) == /\ holders[c] # {}
               /\ holders' = [holders EXCEPT ![c] = {}]
               /\ shelf' \in {shelf, shelf \cup {c}}

Next == \E c \in Copies : \/ Acquire(c) \/ GiveUp(c) \/ TakeBack(c)
                          \/ \E m \in Members : Lend(c, m)

Spec == Init /\ [][Next]_vars
=============================================================================
