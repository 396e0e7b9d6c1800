--------------------------- MODULE MCUartService ---------------------------
\* Instances of UartService for TLC.
EXTENDS UartService

\* All values of ier, the values of a guest that never enables ETBEI, and of
\* one that keeps reception enabled once it is.
IerAll    == SUBSET {ERBFI, ETBEI, ELSI}
IerNoTx   == SUBSET {ERBFI, ELSI}
IerRxOnly == {{ERBFI, ELSI}}
=============================================================================
