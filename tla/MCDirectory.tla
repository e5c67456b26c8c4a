----------------------------- MODULE MCDirectory -----------------------------
EXTENDS Directory, TLC

CONSTANTS w1, w2, p1, t1, s1, s2

\* A provider that is switched off is as good as closed to import.
SomeForms == {[on |-> TRUE, import |-> TRUE], [on |-> TRUE, import |-> FALSE],
              [on |-> FALSE, import |-> TRUE]}

Symmetric == Permutations(Instances) \cup Permutations(Sessions)

=============================================================================
