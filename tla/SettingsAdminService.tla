------------------------- MODULE SettingsAdminService -------------------------
(***************************************************************************)
(* toggleElectionStatus of services/settingsAdminService.js: the new value *)
(* is computed from a value read one statement earlier.                    *)
(***************************************************************************)
EXTENDS Database

\* The new status not computed from the old one.
StatusRead_AlwaysOpens(r) ==
    /\ Succeeds(r, "SELECT is_open")
    /\ Proceed(r, "SET is_open", NULL)

StatusRead(r) ==
    /\ Succeeds(r, "SELECT is_open")
    /\ Proceed(r, IF settings.is_open THEN "CLEAR is_open" ELSE "SET is_open", NULL)

StatusNotRead(r) ==
    /\ Fails(r, "SELECT is_open")
    /\ Answer(r, "Database error")

StatusUpdated(r) ==
    /\ Succeeds(r, "SET is_open") \/ Succeeds(r, "CLEAR is_open")
    /\ RecordAuditLog(r)

StatusNotUpdated(r) ==
    /\ Fails(r, "SET is_open") \/ Fails(r, "CLEAR is_open")
    /\ Answer(r, "Gagal update status")

SettingsAdmin(r) ==
    \/ StatusRead(r)    \/ StatusNotRead(r)
    \/ StatusUpdated(r) \/ StatusNotUpdated(r)
=============================================================================
