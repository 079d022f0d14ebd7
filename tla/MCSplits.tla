------------------------------ MODULE MCSplits ------------------------------
EXTENDS Splits

\* 10 cents do not go evenly among three; half a cent more is no amount of
\* money; 1 cent is less than a cent for each.
MCValues == {-20, 0, 2, 20, 21}
MCAmounts == {-2, 0, 2, 18}
MCPercents == {0, 3333, 5000, 10000}
MCTyped == [shares |-> {-200, 0, 200, 600}, percent |-> {0, 10000, 20000}, absolute |-> {0, 1, 20}]
=============================================================================
