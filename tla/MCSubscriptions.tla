--------------------------- MODULE MCSubscriptions ---------------------------
(* Instances of Subscriptions for TLC.                                       *)
EXTENDS Subscriptions, TLC

Symmetry == Permutations(Requests) \cup Permutations(Charges)

\* The operations that matter to the lifecycle of one subscription.
LifecycleOps == {"create", "confirm", "cancel", "settings"}

ProvisionOnly == {"create"}

\* Charges are numbers here and their rows are made in this order.  Which unused id a new
\* row gets makes no difference, and unlike symmetry the order is sound for liveness: no
\* step of the sweep or of the clock, which fairness is about, makes a charge.
IssuedInOrder ==
  \A c, d \in Charges : c < d /\ charge[d].status # "FREE" => charge[c].status # "FREE"
==============================================================================
