----------------------------- MODULE MCDispatch -----------------------------
(***************************************************************************)
(* Instances of Dispatch for TLC.                                          *)
(***************************************************************************)
EXTENDS Dispatch

\* b and c are the same definition, formatted differently; d is a workflow
\* that is refused and e is not YAML.
MCTexts == {"a", "b", "c", "d", "e"}

MCHash == [x \in MCTexts \ {"e"} |-> IF x = "c" THEN "b" ELSE x]
=============================================================================
