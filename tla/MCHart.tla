------------------------------- MODULE MCHart -------------------------------
\* Instances of Hart for TLC.
EXTENDS Hart

\* Status values software writes: supervisor ready for an interrupt, machine
\* ready for one, and the three privileges an mret may be pointed at.
StS == [StatusInit EXCEPT !.sie = TRUE, !.spie = TRUE]
StM == [StatusInit EXCEPT !.mie = TRUE, !.mpie = TRUE, !.mpp = Machine]
StToS == [StatusInit EXCEPT !.mpp = Supervisor, !.spp = Supervisor]
StReserved == [StatusInit EXCEPT !.mpp = 2]
StTsr == [StatusInit EXCEPT !.mpp = Supervisor, !.tsr = TRUE]

StatusBoot == {StToS}
StatusOdd  == {StS, StM, StToS, StReserved, StTsr}

IeSei  == {{SEIP}}
IeAll  == {{SEIP, STIP}, {MTIP, SEIP}}
IpSoft == {{SSIP}}
SeiDelegated == {{}, {SEIP, SSIP}}
SeiOnly      == {{SEIP, SSIP}}
=============================================================================
