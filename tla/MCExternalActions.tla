------------------------- MODULE MCExternalActions -------------------------
(* Small instances of ExternalActions: one Run with one external write. *)
EXTENDS ExternalActions

MCRun == {1}

\* The clock stands still; Lapse moves the deadline.
MCClock == {0}

MCBothModes == {"unsafe", "provider_idempotent"}
MCIdempotent == {"provider_idempotent"}
=============================================================================
