------------------------------ MODULE MC_Viewer ------------------------------
(* A signal, the intervals of which follow one another or come after a gap, and
   are too short for the larger of the two lengths of the display or not.    *)
EXTENDS Viewer

Row0(start, end, value) == [id |-> "a", start |-> start, end |-> end, value |-> value]
MCCourses == {<<Row0(0, 1, "v"), Row0(1, 2, "w"), Row0(2, 5, "v"), Row0(6, 8, "w")>>}
MCDrags == {-4}
=============================================================================
