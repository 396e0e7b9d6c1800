-------------------------- MODULE MCInterruptPath --------------------------
\* Instances of InterruptPath for TLC.
EXTENDS InterruptPath

Devices     == {UART, NET}
OpsAll      == AllOps
OpsReceive  == {"irqoff", "user", "poll", "notify"}
OpsPlic     == {"plic", "mask"}
=============================================================================
