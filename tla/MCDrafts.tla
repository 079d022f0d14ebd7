------------------------------ MODULE MCDrafts ------------------------------
(***************************************************************************)
(* Drafts with one transaction, with a position and a file, or with one    *)
(* account stored at the start.                                            *)
(***************************************************************************)
EXTENDS Drafts
OneByOne == {{"transaction"}, {"account"}}
=============================================================================
