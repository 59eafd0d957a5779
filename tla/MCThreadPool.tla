--------------------------- MODULE MCThreadPool ---------------------------
(***************************************************************************)
(* Instances of ThreadPool for TLC.                                        *)
(***************************************************************************)
EXTENDS ThreadPool, TLC

\* Connection names are interchangeable.
Symmetry == Permutations(Conns)

NoHangUps == {}
Fin == {"fin"}
FinOrRst == {"fin", "rst"}
=============================================================================
