------------------------------- MODULE Shutdown -------------------------------
(***************************************************************************)
(* What the owner of a connection promises to those who stop it              *)
(* (connection.rs of the SDK, map_shutdown of runtime.rs): the connection is *)
(* cleaned up once, one report is published for everybody, and a report      *)
(* without a failure means that everything the connection owned is released. *)
(***************************************************************************)

None == "none"

VARIABLES
  stage,       \* the cleanup transaction
  report,      \* the published result
  allReleased  \* writer, reader and endpoint are gone

shutdownVars == <<stage, report, allReleased>>

Reports == {"graceful", "forced", "failure"}

ShutdownTypeOK == /\ stage \in {"open", "stopping", "stopped"}
                  /\ report \in Reports \cup {None}
                  /\ allReleased \in BOOLEAN

ShutdownInit == stage = "open" /\ report = None /\ allReleased = FALSE

\* A stop request, the end of the reader or the drop of the owner.
BeginCleanup == /\ stage = "open" /\ stage' = "stopping"
                /\ UNCHANGED <<report, allReleased>>

\* The last of the resources goes, before the report or behind it.
Let == /\ stage # "open" /\ ~allReleased /\ allReleased' = TRUE
       /\ UNCHANGED <<stage, report>>

Publish(r) == /\ stage = "stopping" /\ stage' = "stopped"
              /\ r # "failure" => allReleased
              /\ report' = r
              /\ UNCHANGED allReleased

ShutdownNext == BeginCleanup \/ Let \/ \E r \in Reports : Publish(r)

ShutdownSpec == ShutdownInit /\ [][ShutdownNext]_shutdownVars

\* A cleanup that was begun reports.
ShutdownFairness == WF_shutdownVars(\E r \in Reports : Publish(r))
=============================================================================
