--------------------------- MODULE StreamLifecycle ---------------------------
(***************************************************************************)
(* What every stream of the gateway promises to its users, whatever it is  *)
(* connected to: the abstract specification of server::Stream.             *)
(*                                                                         *)
(* A stream publishes its ConnectionStatus to the dispatcher.  The rest of *)
(* the process (the order management system, the client programs) decides  *)
(* from the last published status alone whether the stream may be used.    *)
(* So a stream must be READY only while its connection is usable and only  *)
(* after it has completed its download on THAT connection.                 *)
(***************************************************************************)

CONSTANT
  RetriesUnlinked  \* BOOLEAN: a download that is pending when the link is lost
                   \* may be retried, and published, before there is another

VARIABLES
  linked,       \* the connection is usable: the client has reported Ready
                \* (or Connected, for a REST client) and not Disconnected since
  status,       \* last published status, the two download statuses merged
  downloaded    \* the download has been completed since the link came up

vars == <<linked, status, downloaded>>

\* "IDLE" stands for UNDEFINED and DISCONNECTED, "BUSY" for CONNECTING,
\* LOGIN_SENT and DOWNLOADING.
Status == {"IDLE", "BUSY", "READY"}

TypeOK ==
  /\ linked \in BOOLEAN
  /\ status \in Status
  /\ downloaded \in BOOLEAN

Init ==
  /\ linked = FALSE
  /\ status = "IDLE"
  /\ downloaded = FALSE

\* The link comes up: the download starts, or nothing needs downloading.
LinkUp ==
  /\ ~ linked
  /\ linked' = TRUE
  /\ \/ status' = "BUSY" /\ downloaded' = FALSE
     \/ status' = "READY" /\ downloaded' = TRUE

\* The download completes: READY is published in the same step.
Complete ==
  /\ linked
  /\ status = "BUSY"
  /\ status' = "READY"
  /\ downloaded' = TRUE
  /\ UNCHANGED linked

\* The link is lost: everything learned on it is void and the users are told.
LinkDown ==
  /\ linked
  /\ linked' = FALSE
  /\ status' = "IDLE"
  /\ downloaded' = FALSE

\* The download that was pending is retried without a link: it cannot complete.
RetryUnlinked ==
  /\ RetriesUnlinked
  /\ ~ linked
  /\ status' = "BUSY"
  /\ UNCHANGED <<linked, downloaded>>

Next == LinkUp \/ Complete \/ LinkDown \/ RetryUnlinked

Spec == Init /\ [][Next]_vars

=============================================================================
