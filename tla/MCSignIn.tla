------------------------------ MODULE MCSignIn ------------------------------
EXTENDS SignIn, TLC

\* Requests differ by nothing but their token and how far they are, and the two
\* addresses are like each other.
Symmetry == {p @@ q : p \in Permutations(Requests), q \in Permutations(Emails)}
=============================================================================
