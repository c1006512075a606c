------------------------------ MODULE MCCampus ------------------------------
(* Instances of Campus for TLC.  A behaviour stays at the desk it starts at:  *)
(* no two desks write one table.  Only the people desk starts with a school   *)
(* that runs, only the desks of accounts with a user, and only the console    *)
(* with a database that was never seeded.                                     *)
EXTENDS Campus, TLC

VARIABLE desk

AccountsDesks == {"sessions", "lockout", "invitations"}

MCInit ==
  /\ CampusInit /\ desk \in Desks
  /\ profile = 1 => desk = "people"
  /\ (\E u \in Users : user[u] # NoUser) => desk \in AccountsDesks
  /\ catalog = {} => desk = "console"

MCSpec == MCInit /\ [][AtDesk(desk) /\ UNCHANGED desk]_<<campusVars, desk>>

Deliveries == {-2, 1}

Schools == {"north", "south"}
Staff == {"ann", "bob"}
StaffOf == [ann |-> "north", bob |-> "south"]

Symmetry == Permutations(Rooms) \cup Permutations(Residents) \cup Permutations(Requests)
=============================================================================
