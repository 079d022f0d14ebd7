------------------------------ MODULE MCLedger ------------------------------
(***************************************************************************)
(* Small instances of Ledger for TLC: which accounts a group starts with,  *)
(* and which model values are interchangeable.                             *)
(***************************************************************************)
EXTENDS Ledger, TLC

CONSTANTS ann, bob  \* two personal accounts

OnePerson == <<ann>>
TwoPersons == <<ann, bob>>
Nobody == <<>>

UserSymmetry == Permutations(Users)
ClearingSymmetry == Permutations(Users) \cup Permutations(Clearing)
ClearingOnly == Permutations(Clearing)
=============================================================================
