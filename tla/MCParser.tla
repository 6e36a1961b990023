------------------------------ MODULE MCParser ------------------------------
(***************************************************************************)
(* Instances of Parser for TLC.                                            *)
(***************************************************************************)
EXTENDS Parser

ASSUME StepsAreThree == NumSteps = 3

Lists == {<<>>} \cup {<<d>> : d \in Steps} \cup {<<d, e>> : d, e \in Steps}

Plain == [form |-> "mapping", ids |-> [s \in Steps |-> s],
          retries |-> [s \in Steps |-> 0],
          dependsOn |-> [s \in Steps |-> <<>>],
          source |-> [s \in Steps |-> {}]]

\* Every choice of depends_on lists of up to two entries, repetitions
\* included, with and without a condition on the second step.
Valid == {[Plain EXCEPT !.dependsOn = d, !.source[2] = c] :
            d \in [Steps -> Lists], c \in {{}, {1}, {3}}}

\* Definitions that are refused before the search for cycles.
Invalid ==
    {[Plain EXCEPT !.form = "malformed"], [Plain EXCEPT !.form = "scalar"],
     [Plain EXCEPT !.retries[2] = -1],
     [Plain EXCEPT !.ids[3] = 1],
     [Plain EXCEPT !.dependsOn[1] = <<2, Unknown>>],
     [Plain EXCEPT !.source[3] = {Unknown}]}

MCDefinitions == Valid \cup Invalid
=============================================================================
