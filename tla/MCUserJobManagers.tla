--------------------------- MODULE MCUserJobManagers ---------------------------
(* A job, the same job without RunAtLoad, a newer one, and one whose settings  *)
(* the user manager does not know.                                             *)
EXTENDS UserJobManagers

MCJobs == {[body |-> "v1", atLoad |-> TRUE], [body |-> "v1", atLoad |-> FALSE],
           [body |-> "v2", atLoad |-> TRUE], [body |-> "odd", atLoad |-> TRUE]}
MCLogDirs == {[owner |-> "user", sealed |-> TRUE, shared |-> FALSE, made |-> FALSE],
              [owner |-> "user", sealed |-> FALSE, shared |-> FALSE, made |-> FALSE],
              [owner |-> "other", sealed |-> TRUE, shared |-> TRUE, made |-> FALSE]}
MCPlatforms == {"systemd", "launchd", "scheduler"}
================================================================================
