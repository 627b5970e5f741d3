------------------------------ MODULE MCLedger ------------------------------
EXTENDS Ledger, TLC

\* Calls differ by nothing but their name.
CallSymmetry == Permutations(Calls)
=============================================================================
