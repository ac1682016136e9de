------------------------------ MODULE MCAccounts ------------------------------
\* Accounts on small sets of calls.
EXTENDS Accounts
=============================================================================
