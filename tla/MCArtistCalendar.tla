-------------------------- MODULE MCArtistCalendar --------------------------
(* A short day: two or three clients ask for overlapping periods.           *)
EXTENDS ArtistCalendar, TLC

MCOpeningHours == {0 .. 3, 1 .. 3}
MCTimeOffs == {[start |-> 1, finish |-> 2]}
MCOneDay == {0 .. 3}
MCNoTimeOffs == {}

ApptSymmetry == Permutations(Appts)
=============================================================================
