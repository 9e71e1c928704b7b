-------------------------- MODULE MCBackgroundTask --------------------------
(* Instances of BackgroundTask for TLC: the members of each of its sets are*)
(* interchangeable.                                                        *)
EXTENDS BackgroundTask, TLC

Symmetry == UNION {Permutations(S) : S \in {Kicks, Workers, Clients, Images, Videos}}
=============================================================================
