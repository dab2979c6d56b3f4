---------------------------- MODULE StudioFacts ----------------------------
(***************************************************************************)
(* What the receptionist may tell of a studio: its locations with their    *)
(* hours, and its rules, questions and aftercare texts.  Each is kept by   *)
(* requests of its own.                                                    *)
(***************************************************************************)
EXTENDS StudioLocations, StudioKnowledge

\* The locations stay usable and what clients are told of the studio is right,
\* whichever settings pages are saved and whichever answers are reviewed at once:
\* one primary location at most, hours of one save each, no rule told twice, no
\* pages that block each other, and nothing told that was not in force.
StudioFactsSafe == LocationsSafe /\ KnowledgeSafe
=============================================================================
