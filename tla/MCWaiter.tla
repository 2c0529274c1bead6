------------------------------ MODULE MCWaiter ------------------------------
EXTENDS Waiter

CONSTANTS n1, n2
=============================================================================
