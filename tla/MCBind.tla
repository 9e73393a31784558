------------------------------- MODULE MCBind -------------------------------
(* Small instances of Bind for TLC.                                        *)
EXTENDS Bind, TLC

\* Connections, calls and generations are only compared for equality.
Symmetry == Permutations(Path) \cup Permutations(Link) \cup Permutations(Waiter)
            \cup Permutations(Gen)
=============================================================================
