------------------------------ MODULE MCAccounts ------------------------------
EXTENDS Accounts, TLC

CONSTANTS s1, s2

\* "Ann" stands for a name whose capital letter SQLite does not fold.
Folded == [w \in Words |-> IF w = "Ann" THEN "ann" ELSE w]

Symmetric == Permutations(Sessions)

=============================================================================
