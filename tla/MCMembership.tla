---------------------------- MODULE MCMembership ----------------------------
(***************************************************************************)
(* Small instances of Membership for TLC: the operations offered in a run, *)
(* and which model values are interchangeable.                             *)
(***************************************************************************)
EXTENDS Membership, TLC

RightsOperations ==
  {"invite", "link", "named", "email", "join", "rights", "leave", "deleteGroup"}
PersonOperations ==
  {"group", "invite", "email", "join", "signIn", "list", "own", "create", "update", "delete",
   "use"}

Others == Permutations(Users \ {Founder})
Symmetry == Permutations(Slots) \cup Permutations(Invites) \cup Others
PersonSymmetry == Symmetry \cup Permutations(Persons)
=============================================================================
