----------------------- MODULE MCLogsWithPrepTracker -----------------------
(* Three logs, up to two prepared sections in each. *)
EXTENDS LogsWithPrepTracker
MCLogs == {1, 2, 3}
=============================================================================
