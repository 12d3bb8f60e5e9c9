-------------------------- MODULE MCValidationQueue --------------------------
EXTENDS ValidationQueue

CONSTANTS t1, t2, i1, c1

=============================================================================
