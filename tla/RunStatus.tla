------------------------------ MODULE RunStatus ------------------------------
(***************************************************************************)
(* The lifecycle rules of a persisted ChatRun row: which statuses exist    *)
(* and which write to the status column set_status accepts.                *)
(***************************************************************************)

ActiveStatuses   == {"queued", "running"}
TerminalStatuses == {"completed", "error", "stopped"}
KnownStatuses    == ActiveStatuses \union TerminalStatuses

\* Edges between two different statuses.  "failed", the terminal status of
\* older rows, is outside KnownStatuses and has no edge.
AllowedTransitions ==
  [queued  |-> {"running", "error", "stopped"},
   running |-> {"queued", "completed", "error", "stopped"}]

\* What set_status answers for a row that holds `current`: writing the same
\* active status again refreshes the row, a terminal row refuses every write.
ValidTransition(current, target) ==
  \/ current = target /\ current \in ActiveStatuses
  \/ current \in DOMAIN AllowedTransitions /\ target \in AllowedTransitions[current]
==============================================================================
