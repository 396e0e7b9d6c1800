---------------------------- MODULE MCTrapFrames ----------------------------
\* Instances of TrapFrames for TLC.
EXTENDS TrapFrames

StToS   == [StatusInit EXCEPT !.mpp = Supervisor, !.spp = Supervisor,
                              !.sie = TRUE, !.mpie = TRUE]
StToU   == [StatusInit EXCEPT !.spie = TRUE, !.mie = TRUE]
StSome  == {StToS, StToU}
IeSome  == {{SEIP, STIP}}
IpSome  == {{SSIP}}
Delegs  == {{}, {SEIP}}
=============================================================================
