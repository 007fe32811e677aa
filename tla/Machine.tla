------------------------------- MODULE Machine -------------------------------
(***************************************************************************)
(* What one machine has beside the rank it may run: its own launches and   *)
(* stops, the background service its agent runs as, the telemetry of the   *)
(* models it runs and the recipe registries it keeps.  The four meet in    *)
(* docker, the supervisor and the disk, and share no state.                *)
(***************************************************************************)
EXTENDS LocalLaunch

CONSTANTS None,
          Supervisor, Port, Dir, Home, MaxCommands, MaxFailures,
          Absent, Recipes, Pages, EnginePort, MAX_WINDOW, MaxTime, MaxLaunches,
          Registry, Url, Command, MaxOrders, MaxMishaps

VARIABLES kind, unit, loaded, enabled, linger, session, agents, again, usable, cmd,
          told, count,
          engine, current, last, poll, shown, now, launches,
          store, temp, disk, order, reset, raced, orders, mishaps

Svc == INSTANCE AgentService
Telemetry == INSTANCE LaunchTelemetry
Remotes == INSTANCE RecipeRegistries

ASSUME MachineAssumption ==
  Svc!ServiceAssumption /\ Telemetry!TelemetryAssumption /\ Remotes!RegistriesAssumption

\* What an install or an uninstall has reported stays true of every agent the
\* supervisor runs.
ReportStands == Svc!ReportStands

\* No update resets a working tree that is not a clone in the cache.
OperatorsWorkIsSafe == Remotes!OperatorsWorkIsSafe

\* The recipes of a registry come from the repository it names.
ServesWhatWasNamed == Remotes!ServesWhatWasNamed

\* A rate a page shows is of one engine.
RateIsOfOneEngine == Telemetry!RateIsOfOneEngine
=============================================================================
