----------------------- MODULE MCAccountProvisioning ------------------------
(***************************************************************************)
(* Instances of AccountProvisioning for TLC.                               *)
(***************************************************************************)
EXTENDS AccountProvisioning, TLC

(* Two processes, two subjects of one provider and two emails, of which    *)
(* one belongs to a user from before identities: every pair of sign-ins    *)
(* that can meet on a subject, on an email, on both or on neither.         *)
Symmetric == Permutations(Proc) \cup Permutations(Subject)

=============================================================================
