------------------------------- MODULE MCMmu -------------------------------
\* Instances of Mmu for TLC: frame 0 is a root table, frame 1 a table under
\* it, frames 2 and 3 data (and a superpage); frame 7 is off the map.  The data
\* of frame 2 looks like an entry for a user page.
EXTENDS Mmu

Blank   == [v |-> FALSE, perms |-> {}, u |-> FALSE, a |-> FALSE, d |-> FALSE,
            ppn |-> 0]
Pointer(f) == [Blank EXCEPT !.v = TRUE, !.ppn = f]
Page(f, perms, u) == [v |-> TRUE, perms |-> perms, u |-> u, a |-> TRUE,
                      d |-> TRUE, ppn |-> f]

\* What the kernel stores besides: the entries of FirstTables are there already.
TopEntries  == {Pointer(1), Pointer(7), Page(3, AccessTypes, FALSE),
                Page(2, {"r", "w"}, FALSE)}
LeafEntries == {Blank, Page(7, {"x"}, TRUE),
                [Page(3, {"r", "w"}, TRUE) EXCEPT !.d = FALSE],
                [Page(2, {"r"}, TRUE) EXCEPT !.a = FALSE]}

FourFrames == {0, 1, 2, 3}
Editable == [f \in FourFrames |->
               CASE f = 0 -> TopEntries [] f = 1 -> LeafEntries [] OTHER -> {}]
Tables == {[f \in FourFrames |-> [i \in 0..1 |->
              IF f = 0 THEN (IF i = 0 THEN Pointer(1) ELSE Page(2, AccessTypes, TRUE))
              ELSE IF f = 1 THEN (IF i = 0 THEN Page(2, {"r"}, TRUE)
                                           ELSE Page(3, {"r", "w"}, FALSE))
              ELSE IF f = 2 /\ i = 0 THEN Page(3, {"r", "x"}, TRUE)
              ELSE Blank]]}
=============================================================================
