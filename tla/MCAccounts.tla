----------------------------- MODULE MCAccounts -----------------------------
EXTENDS Accounts, TLC

Body(a, o, p) == [admin |-> a, off |-> o, password |-> p]

\* One body for each column, and one for the password alone.
OneColumn == {Body("no", "keep", FALSE), Body("keep", "yes", FALSE), Body("keep", "keep", TRUE)}

Symmetric == Permutations(Requests)
=============================================================================
