------------------------------ MODULE MCTimers ------------------------------
(* Timers with halves of two bits. *)
EXTENDS Timers

MCDeadlines == {2, 5, 8}
MCEnables   == {{}, {"TM"}, {"CY", "TM", "IR"}}
=============================================================================
