--------------------------- MODULE MCSecretsStore ---------------------------
(* The instance TLC checks: two threads that share one Store.              *)
EXTENDS SecretsStore, TLC

CONSTANTS t1, t2, i1, i2, i3, i4

MCThreads == {t1, t2}
OneStore  == [t \in MCThreads |-> "s1"]
MCInodes  == {i1, i2, i3, i4}
MCStores  == {"s1"}

\* Files are interchangeable.
FileSymmetry == Permutations(MCInodes)

=============================================================================
