------------------------------ MODULE MCRoster ------------------------------
(***************************************************************************)
(* Small instances of Roster for TLC.                                      *)
(***************************************************************************)
EXTENDS Roster, TLC

CONSTANTS w1, w2, p1, p2, g1

OneGrant == {g1}
OneGrantAt == [id \in {g1} |-> 1]
OneGrantOf == [id \in {g1} |-> 1]
NoGrants == [id \in {} |-> 0]

Symmetry == Permutations(Workers) \union Permutations(Players)

=============================================================================
