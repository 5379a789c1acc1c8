---------------------------- MODULE MCDelegation ----------------------------
\* Small instances of Delegation; the configurations give the tasks.
EXTENDS Delegation
=============================================================================
