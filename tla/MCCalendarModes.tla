--------------------------- MODULE MCCalendarModes ---------------------------
(***************************************************************************)
(* The calendar in both deployments: with MAIA_STRIPE_CONNECT_ENABLED, as  *)
(* the constants say, and without it, where a studio may also take its     *)
(* deposits by Venmo and the artist has neither time off nor other hours.  *)
(***************************************************************************)
EXTENDS MCArtistCalendar

VARIABLE deployment

WithoutConnect == INSTANCE ArtistCalendar WITH
    ConnectEnabled <- FALSE, Providers <- {"STRIPE", "VENMO_MANUAL"},
    OpeningHours <- MCOneDay, TimeOffs <- MCNoTimeOffs

ModesInit ==
    \/ deployment = "connect" /\ Init
    \/ deployment = "legacy" /\ WithoutConnect!Init

ModesNext ==
    /\ UNCHANGED deployment
    /\ \/ deployment = "connect" /\ Next
       \/ deployment = "legacy" /\ WithoutConnect!Next

ModesSpec == ModesInit /\ [][ModesNext]_<<deployment, vars>>
=============================================================================
