--------------------------- MODULE PaymentContract ---------------------------
(***************************************************************************)
(* What the payment system promises to the rest of the application: an     *)
(* intent is issued, may be settled, and a group registration that owes    *)
(* money gets its enrollments, all of them and once, on account of a       *)
(* settled intent that names it.  A group that owes nothing gets them at   *)
(* once and without an intent.                                             *)
(***************************************************************************)
EXTENDS Naturals

CONSTANTS Intents, Items, None

VARIABLES
  issued,    \* intents that exist
  owing,     \* group registrations that wait for their payment
  cleared,   \* intents whose payment was applied at least once
  names,     \* the group registration an intent names, or None
  enrolled   \* enrollments delivered per group registration

contractVars == <<issued, owing, cleared, names, enrolled>>

ContractInit ==
  /\ issued = {}
  /\ owing = {}
  /\ cleared = {}
  /\ names = [i \in Intents |-> None]
  /\ enrolled = [i \in Intents |-> 0]

\* An intent is issued, alone or together with a group that owes.
Issue(i) ==
  /\ i \notin issued
  /\ issued' = issued \cup {i}
  /\ \E g \in Intents \cup {None} : names' = [names EXCEPT ![i] = g]
  /\ \/ UNCHANGED owing
     \/ enrolled[i] = 0 /\ names'[i] = i /\ owing' = owing \cup {i}
  /\ UNCHANGED <<cleared, enrolled>>

Clear(i) ==
  /\ i \in issued
  /\ cleared' = cleared \cup {i}
  /\ UNCHANGED <<issued, owing, names, enrolled>>

\* What is delivered to group g is delivered once.
Deliver(g) ==
  /\ enrolled[g] = 0
  /\ enrolled' = [enrolled EXCEPT ![g] = Items]

DeliverPaid(g) ==
  /\ g \in owing
  /\ \E i \in cleared : names[i] = g
  /\ Deliver(g)
  /\ owing' = owing \ {g}
  /\ UNCHANGED <<issued, cleared, names>>

DeliverFree(g) ==
  /\ g \notin owing \cup issued
  /\ Deliver(g)
  /\ UNCHANGED <<issued, owing, cleared, names>>

ContractNext ==
  \E i \in Intents : Issue(i) \/ Clear(i) \/ DeliverPaid(i) \/ DeliverFree(i)

ContractSpec == ContractInit /\ [][ContractNext]_contractVars

=============================================================================
