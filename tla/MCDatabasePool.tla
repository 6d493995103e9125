--------------------------- MODULE MCDatabasePool ---------------------------
(* Instances of DatabasePool for TLC. *)
EXTENDS DatabasePool

CONSTANTS s1, t1, q1

\* One store, one transaction and one statement.
MCRequests == {s1, t1, q1}
\* One store and one transaction.
MCTwoRequests == {s1, t1}

MCStores == {s1}
MCTransactions == {t1}
=============================================================================
