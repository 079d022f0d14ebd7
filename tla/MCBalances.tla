----------------------------- MODULE MCBalances -----------------------------
(* Values for the constants of Balances: persons 1 to 4, events 5 to 7.    *)
EXTENDS Balances, TLC

MCPersons == 1..4
MCEvents == 5..7

\* Whole values of 3, so that one set of shares serves all three split modes:
\* parts of 3, a percentage of a whole of 3, or amounts that add up to 3.
MCForms ==
  [type : {"purchase", "mimo", "transfer"}, mode : {"shares", "percent", "absolute"},
   value : {3}, rate : {1, 2},
   creditors : {1 :> 1, 1 :> 1 @@ 2 :> 2, 1 :> 1 @@ 2 :> 1 @@ 5 :> 1},
   debitors : {4 :> 3, 3 :> 1 @@ 4 :> 2, 5 :> 1 @@ 6 :> 2, 2 :> 1 @@ 7 :> 1}]

\* Money that several paid and several consumed, in all ways to divide it by
\* 4 or 6 among three and four accounts: plans with many payments.
MCSpreads ==
  [type : {"mimo"}, mode : {"shares"}, value : {3}, rate : {1},
   creditors : {f \in [1..3 -> 1..3] : TotalOf(f) \in {4, 6}},
   debitors : {f \in [4..7 -> 1..3] : TotalOf(f) = 6}]

MCDrafts == MCForms \cup MCSpreads

MCPositions ==
  [price : {1}, communist : {0, 1}, deleted : BOOLEAN,
   usages : {NoShares, 3 :> 1, 1 :> 1 @@ 6 :> 1}]

\* No events shared; a chain; a diamond; a fork with a shared end; and one
\* that the database refuses.
MCClearings ==
  {5 :> NoShares @@ 6 :> NoShares @@ 7 :> (2 :> 1 @@ 3 :> 2),
   5 :> (6 :> 1 @@ 1 :> 2) @@ 6 :> (7 :> 2 @@ 2 :> 1) @@ 7 :> (3 :> 1 @@ 4 :> 1),
   5 :> (6 :> 1 @@ 7 :> 1) @@ 6 :> (7 :> 1 @@ 3 :> 2) @@ 7 :> (1 :> 1 @@ 2 :> 1),
   5 :> (3 :> 1) @@ 6 :> (5 :> 1 @@ 7 :> 1) @@ 7 :> (5 :> 1 @@ 2 :> 2),
   5 :> (6 :> 1) @@ 6 :> (5 :> 1) @@ 7 :> NoShares}
=============================================================================
