---------------------------- MODULE MCMembership ----------------------------
(***************************************************************************)
(* TLC instance of Membership.  Requests and invitations are               *)
(* interchangeable, users are but for the founder.                         *)
(***************************************************************************)
EXTENDS Membership, TLC

Symmetry == Permutations(Requests) \cup Permutations(Invitations)
               \cup Permutations(Users \ {Founder})

=============================================================================
