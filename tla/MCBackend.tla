----------------------------- MODULE MCBackend -----------------------------
(***************************************************************************)
(* Instances of Backend for TLC.                                           *)
(***************************************************************************)
EXTENDS Backend

CONSTANTS r1, accepted, raising

\* The first run is of the definition that is accepted; the others may race
\* with it for its version, or may raise.  Whatever happens to a definition
\* that is refused may happen to one that may raise.
MCAsked == {asked \in [Runs -> Definitions] : asked[r1] = accepted}
=============================================================================
