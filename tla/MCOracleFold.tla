----------------------------- MODULE MCOracleFold -----------------------------
(***************************************************************************)
(* OracleFold with two assets, two prices and two publish times, over every *)
(* sequence of contract calls that emits at most MaxLogs logs.             *)
(***************************************************************************)
EXTENDS OracleFold, TLC

\* The assets are interchangeable: no definition names one of them.
AssetSymmetry == Permutations(Assets)
=============================================================================
