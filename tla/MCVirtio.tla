------------------------------ MODULE MCVirtio ------------------------------
\* Instances of VirtioService for TLC.
EXTENDS VirtioService

Backings == {<<1, 2, 3>>}
=============================================================================
