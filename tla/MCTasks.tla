------------------------------ MODULE MCTasks -------------------------------
(***************************************************************************)
(* Instances of Tasks for TLC.                                             *)
(***************************************************************************)
EXTENDS Tasks

\* Texts of up to three pieces of up to 3, and one piece of up to 10.
MCTexts == (UNION {[1 .. n -> 0 .. 3] : n \in 0 .. 3}) \cup {<<n>> : n \in 4 .. 10}

\* parse_text leaves the overlap at 0.
MCCalls ==
    [strategy : {"fixed"}, size : -2 .. 9, overlap : {0, 1, 3}]
        \cup [strategy : {"structural", "semantic"}, size : -1 .. 9, overlap : {0}]

MCAlphabet == <<"business", "spam", "support">>

MCLabelLists == {<<>>, <<"spam">>, <<"business", "support", "spam">>,
                 <<"support", "business">>}
=============================================================================
