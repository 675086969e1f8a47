------------------------------ MODULE Service ------------------------------
(***************************************************************************)
(* The units of nix/module.nix over IndexSync: the server's, which loads   *)
(* what is new and then serves, and a timer's (nix2rdf-index and           *)
(* nix2rdf-fetch have one script), which writes fragments, may reason, and *)
(* restarts the server; beside them a user who reasons.  systemd's and the *)
(* NixOS script's part is external: a oneshot unit runs its ExecStartPost  *)
(* only if its script, which runs under set -e, succeeded; a unit whose    *)
(* ExecStartPre failed or whose process died is started again; try-restart *)
(* does nothing to a unit that is not running.                             *)
(***************************************************************************)
EXTENDS IndexSync

CONSTANTS
  server, timer, user,   (* the units' processes and the user's            *)
  Settings,              (* whether reason.packs of the module names any   *)
  Snapshots              (* the fragments --all-snapshots selects          *)

ASSUME ServiceAssumption ==
  /\ Procs = {server, timer, user}
  /\ server # timer /\ server # user /\ timer # user
  /\ Allowed[server] = {"load --new", "serve"}
  /\ Allowed[timer] = {"reason"}
  /\ Allowed[user] = {"reason", "reason --no-load"}
  /\ Settings \subseteq BOOLEAN
  /\ Snapshots \subseteq Extracted

VARIABLES
  reasons, (* the setting of this machine: the units' scripts reason       *)
  unit,    (* the server's unit: "start" (to be started, also after
              RestartSec), "pre" (ExecStartPre) or "main" (ExecStart)      *)
  task,    (* the timer's unit: "idle", "write", "reason" or "restart"     *)
  due      (* history: what was in the store at the last restart           *)

unitVars == <<reasons, unit, task, due>>
serviceVars == <<vars, unitVars>>

ServiceInit ==
  Init /\ reasons \in Settings /\ unit = "start" /\ task = "idle" /\ due = {}

-----------------------------------------------------------------------------
(***************************************************************************)
(* nix2rdf-serve.                                                          *)
(***************************************************************************)
StartPre ==
  /\ unit = "start" /\ Begin(server, "load --new")
  /\ unit' = "pre" /\ UNCHANGED <<reasons, task, due>>

StartMain == unit = "main" /\ Begin(server, "serve") /\ UNCHANGED unitVars

ServerRuns ==
  /\ Continue(server) /\ pc'[server] # "idle"
  /\ UNCHANGED unitVars

\* The load that ends by writing the marker has succeeded.  Whatever else
\* ends is started again after RestartSec; serve does not end by itself.
ServerEnds ==
  /\ pc[server] # "serving"
  /\ Continue(server) /\ pc'[server] = "idle"
  /\ unit' = IF pc[server] = "mark" THEN "main" ELSE "start"
  /\ UNCHANGED <<reasons, task, due>>

ServerDies == Crash(server) /\ unit' = "start" /\ UNCHANGED <<reasons, task, due>>

-----------------------------------------------------------------------------
(***************************************************************************)
(* nix2rdf-index and nix2rdf-fetch.                                        *)
(***************************************************************************)
Elapses ==
  /\ task = "idle" /\ task' = "write"
  /\ UNCHANGED <<vars, reasons, unit, due>>

Writes == task = "write" /\ (\E f \in Extracted : Extract(f)) /\ UNCHANGED unitVars

AfterWrite == IF reasons THEN "reason" ELSE "restart"

HasWritten ==
  /\ task = "write" /\ task' = AfterWrite
  /\ UNCHANGED <<vars, reasons, unit, due>>

\* One command of the script fails: a network that is away, say.
WriteFails ==
  /\ task = "write" /\ crashes < MaxCrashes
  /\ crashes' = crashes + 1 /\ task' = "idle"
  /\ UNCHANGED <<storeVars, indexVars, pc, cmd, handle, already, todo, batch,
                 argVars, reasons, unit, due>>

\* reasonCmd, without --force and without --no-load, over the snapshots and
\* what they lead to.  Every run gets the same
\* ranAt here: how often the timer reasons has no bound.
BeginsReason(d) ==
  /\ task = "reason" /\ pc[timer] = "idle" /\ Present \cap Snapshots # {}
  /\ cmd' = [cmd EXCEPT ![timer] = "reason"]
  /\ target' = [target EXCEPT ![timer] = d]
  /\ existed' = [existed EXCEPT ![timer] = file[d] # 0]
  /\ ranAt' = [ranAt EXCEPT ![timer] = 1]
  /\ Goto(timer, "open")
  /\ UNCHANGED <<storeVars, indexVars, handle, already, todo, batch, crashes, unitVars>>

\* "no input graphs selected": the store may hold other fragments.
NothingToReason ==
  /\ task = "reason" /\ pc[timer] = "idle" /\ Present \cap Snapshots = {}
  /\ task' = "idle"
  /\ UNCHANGED <<vars, reasons, unit, due>>

ReasonRuns ==
  /\ Continue(timer) /\ pc'[timer] # "idle"
  /\ UNCHANGED unitVars

\* A reason that fails, as it does when the index is open elsewhere, ends the
\* unit: set -e.
ReasonEnds ==
  /\ Continue(timer) /\ pc'[timer] = "idle"
  /\ task' = IF pc[timer] = "exit" THEN "restart" ELSE "idle"
  /\ UNCHANGED <<reasons, unit, due>>

ReasonDies == Crash(timer) /\ task' = "idle" /\ UNCHANGED <<reasons, unit, due>>

\* Mutant of TryRestart: the unit is reloaded, its process goes on.
Reload ==
  /\ task = "restart" /\ task' = "idle"
  /\ UNCHANGED <<vars, reasons, unit, due>>

\* systemctl try-restart nix2rdf-serve: a unit that is still loading is let be.
TryRestart ==
  /\ task = "restart" /\ task' = "idle"
  /\ IF unit = "main"
     THEN /\ Exit(server)
          /\ unit' = "start" /\ due' = Present
          /\ UNCHANGED <<storeVars, indexVars, crashes>>
     ELSE UNCHANGED <<vars, unit, due>>
  /\ UNCHANGED reasons

-----------------------------------------------------------------------------
UserBegins ==
  /\ \E c \in Allowed[user], d \in Derived : BeginReason(user, c, d)
  /\ UNCHANGED unitVars
UserRuns == Continue(user) /\ UNCHANGED unitVars
UserDies == Crash(user) /\ UNCHANGED unitVars

ServerUnit == StartPre \/ StartMain \/ ServerRuns \/ ServerEnds
TimerUnit ==
  \/ Elapses \/ Writes \/ HasWritten \/ (\E d \in Derived : BeginsReason(d))
  \/ NothingToReason \/ ReasonRuns \/ ReasonEnds \/ TryRestart

ServiceNext ==
  \/ ServerUnit \/ ServerDies
  \/ TimerUnit \/ WriteFails \/ ReasonDies
  \/ UserBegins \/ UserRuns \/ UserDies

\* What runs runs on, systemd starts the unit, and the timer elapses again;
\* the user need not begin anything, and nothing stops the server but the
\* timer's restart and a crash.  The timer elapses every hour or day and the
\* server is started again after five seconds: the one does not meet every
\* start of the other (strong fairness of a start while the timer rests, of
\* opening the index, and of the main process).
StartAlone == task = "idle" /\ StartPre
Opens(c) == cmd[server] = c /\ pc[server] = "open" /\ ServerRuns
ServiceSpec ==
  /\ ServiceInit /\ [][ServiceNext]_serviceVars
  /\ WF_serviceVars(ServerUnit)
  /\ WF_serviceVars(TimerUnit)
  /\ WF_serviceVars(UserRuns)
  /\ SF_serviceVars(StartAlone)
  /\ SF_serviceVars(StartMain)
  /\ \A c \in {"load --new", "serve"} : SF_serviceVars(Opens(c))

-----------------------------------------------------------------------------
(***************************************************************************)
(* Properties.                                                             *)
(***************************************************************************)
\* The server "bulk-loads new fragments on start" (module.nix:11-12): once it
\* serves after a restart, what was in the store at the restart is in the
\* index, though a user wrote meanwhile and an earlier load died or failed.
RestartServesAll == pc[server] = "serving" => \A f \in due : Indexed(f)

\* "Timers write fragments and restart the server, which bulk-loads new
\* fragments on start" (module.nix:11-12): what is in the store is served in
\* the end, a user's derived graphs with their run fragments included.
TimersGetItServed ==
  \A f \in Frags : (file[f] # 0) ~> (Indexed(f) /\ pc[server] = "serving")

\* Where reason.packs is empty, its default, the server is up again and again
\* with everything in the store loaded: the loads that a crash or the lock cut
\* short, and the restarts that came while the unit was loading and so were
\* nothing, are made up for, and the endpoint does not stay down.
WrittenIsServed ==
  []<>(reasons \/ (pc[server] = "serving" /\ \A f \in Present : Indexed(f)))
=============================================================================
