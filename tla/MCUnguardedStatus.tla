------------------------ MODULE MCUnguardedStatus ------------------------
\* A small instance of UnguardedStatus for TLC.
EXTENDS UnguardedStatus

BothEditions == {"selenium", "cart"}
=============================================================================
