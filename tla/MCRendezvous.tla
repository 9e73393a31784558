---------------------------- MODULE MCRendezvous ----------------------------
(* Small instances of Rendezvous for TLC.                                  *)
EXTENDS Rendezvous, TLC

\* Devices, rooms, pair IDs and keys are only ever compared for equality.
Symmetry == Permutations(Device) \cup Permutations(RoomId)
            \cup Permutations(PairId) \cup Permutations(RelayKey)

\* Bound on the history: submissions that are remembered.
MaxSubmissions == 4
FewSubmissions == Cardinality(asked) <= MaxSubmissions
=============================================================================
