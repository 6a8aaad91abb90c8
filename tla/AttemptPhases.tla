----------------------------- MODULE AttemptPhases -----------------------------
(***************************************************************************)
(* The lifecycle phases of a failover attempt (include/lff/attempt.hpp)    *)
(* and the two classifications the store and the engine branch on          *)
(* (src/attempt.cpp).  "Absent" is not a phase of the code: it marks an    *)
(* attempt-table slot that holds no record.                                *)
(***************************************************************************)

\* attempt_phase_is_terminal.  Committed and Interrupted are terminal: the
\* retention code may evict them and a restart leaves them alone.
Terminal ==
    {"Refused", "Indeterminate", "Committed", "RolledBack", "Interrupted",
     "Superseded", "Aborted"}

\* The phases a restart finds in flight.
InFlight == {"Evaluated", "Authorized", "Acknowledged", "Verified"}

\* attempt_phase_holds_authority.
HoldsAuthority == {"Authorized", "Acknowledged", "Verified", "Committed"}

Phases == Terminal \cup InFlight

=============================================================================
