-------------------- MODULE MCMCPServerBackupController --------------------
(***************************************************************************)
(* Instances of MCPServerBackupController for TLC.                         *)
(***************************************************************************)
EXTENDS MCPServerBackupController

CONSTANTS a, b, ab, c1, c2

\* The name of ab contains that of a.
Names ==
  {<<x, y>> \in Backup \X Backup : x = y \/ (x = a /\ y = ab)}

Plain(schedule, storage) ==
  [schedule |-> schedule, suspend |-> FALSE, storage |-> storage]

Various ==
  {Plain("None", "Local"), Plain("Cron", "Local"), Plain("None", "S3"),
   Plain("None", "Unset"), [Plain("None", "Local") EXCEPT !.suspend = TRUE]}

Schedules ==
  {Plain("Cron", "Local"), Plain("Cron", "Placeholder"), Plain("Invalid", "Local")}
=============================================================================
