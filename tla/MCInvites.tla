------------------------------ MODULE MCInvites ------------------------------
\* Invites on small sets of calls.
EXTENDS Invites
=============================================================================
