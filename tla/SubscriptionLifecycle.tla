------------------------ MODULE SubscriptionLifecycle ------------------------
(***************************************************************************)
(* What SchoolOS promises about one school's subscription: the lifecycle   *)
(* ACTIVE -> GRACE -> SUSPENDED of the SubscriptionStatus enum, with the   *)
(* dates at which each move is due, and a renewal that always continues    *)
(* from the end of the period it follows.  No handlers, no charges.        *)
(***************************************************************************)
EXTENDS Integers

CONSTANTS Tenants, GraceChoices, Month, None

VARIABLES now, life

vars == <<now, life>>

Init == /\ now = 0
        /\ life = [t \in Tenants |-> [status |-> "NONE", periodEnd |-> 0,
                                      graceEndsAt |-> None]]

Begin(t) ==
  /\ life[t].status = "NONE"
  /\ life' = [life EXCEPT ![t] = [status |-> "ACTIVE", periodEnd |-> now + Month,
                                  graceEndsAt |-> None]]

\* The period is over and no payment has been confirmed.
Lapse(t) ==
  /\ life[t].status = "ACTIVE" /\ life[t].periodEnd <= now
  /\ \E g \in GraceChoices :
       life' = [life EXCEPT ![t].status = "GRACE",
                            ![t].graceEndsAt = life[t].periodEnd + g]

Suspend(t) ==
  /\ life[t].status = "GRACE" /\ life[t].graceEndsAt <= now
  /\ life' = [life EXCEPT ![t].status = "SUSPENDED"]

\* A confirmed payment buys the month that follows the current period.
Renew(t) ==
  /\ life[t].status # "NONE"
  /\ life' = [life EXCEPT ![t].status = "ACTIVE", ![t].graceEndsAt = None,
                          ![t].periodEnd = @ + Month]

Cancel(t) ==
  /\ life[t].status # "NONE"
  /\ life' = [life EXCEPT ![t].status = "CANCELED", ![t].graceEndsAt = None]

Next ==
  \/ /\ \E t \in Tenants : Begin(t) \/ Lapse(t) \/ Suspend(t) \/ Renew(t) \/ Cancel(t)
     /\ UNCHANGED now
  \/ /\ now' = now + 1
     /\ UNCHANGED life

Spec == Init /\ [][Next]_vars
==============================================================================
