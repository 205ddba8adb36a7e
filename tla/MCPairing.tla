------------------------------ MODULE MCPairing ------------------------------
(* Instances of Pairing for TLC. *)
EXTENDS Pairing, TLC

Symmetry == Permutations(Node) \cup Permutations(Machine)
            \cup Permutations(Address) \cup Permutations(Nonce)
=============================================================================
