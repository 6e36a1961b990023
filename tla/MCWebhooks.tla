----------------------------- MODULE MCWebhooks -----------------------------
(***************************************************************************)
(* Instances of Webhooks for TLC.                                          *)
(***************************************************************************)
EXTENDS Webhooks, TLC

MCTriggers == {[def |-> "a", secret |-> "s"], [def |-> "b", secret |-> "s"],
               [def |-> "b", secret |-> ""], [def |-> "bad", secret |-> None]}

MCRoles == [k \in ApiKeys |-> IF k = "operator" THEN 2 ELSE 1]

\* An operator, a viewer, a sender without a key.
MCCallers == {[key |-> "operator", client |-> "c"],
              [key |-> "viewer", client |-> "c"],
              [key |-> None, client |-> "c"]}

\* Requests of the others are refused in _check_access.
MCBusy == {[key |-> "operator", client |-> "c"]}

Symmetry == Permutations(Requests)
=============================================================================
