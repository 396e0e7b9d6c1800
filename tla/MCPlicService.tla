--------------------------- MODULE MCPlicService ---------------------------
\* Instances of PlicService for TLC.
EXTENDS PlicService
=============================================================================
