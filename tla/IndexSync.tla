----------------------------- MODULE IndexSync -----------------------------
(***************************************************************************)
(* The Oxigraph index, its marker oxigraph/.loaded and the fragment files, *)
(* as the commands load, rebuild, serve, reason and gc-derived change them.*)
(* Commands are processes that may run at once and may die between two     *)
(* steps.  RocksDB's lock admits one process that opened the index for     *)
(* writing; the files and the marker are guarded by nothing.  Writing one  *)
(* file and reading one file are atomic here (AtomicStore).                *)
(***************************************************************************)
EXTENDS Naturals, FiniteSets

CONSTANTS
  Procs,        (* processes                                               *)
  Frags,        (* fragments, one per path                                 *)
  Derived,      (* those under derived/                                    *)
  RunOf,        (* RunOf[d]: the run fragment (under runs/) of d           *)
  Kept,         (* derived and run fragments of the rulesets gc-derived keeps *)
  Named,        (* the paths given to a load without --all or --new        *)
  Allowed,      (* Allowed[p]: the commands process p runs                 *)
  MaxRuns,      (* bound on rule runs, each of which stamps a run fragment *)
  MaxCrashes,   (* bound on crashes                                        *)
  NoFrag

Loads == {"load", "load --all", "load --new"}
Reasons == {"reason", "reason --no-load"}
Commands == Loads \cup Reasons \cup {"rebuild", "gc-derived", "serve"}

Runs == {RunOf[d] : d \in Derived}
Extracted == Frags \ (Derived \cup Runs)

ASSUME IndexAssumption ==
  /\ Derived \subseteq Frags /\ Named \subseteq Frags
  /\ RunOf \in [Derived -> Frags \ Derived]
  /\ Allowed \in [Procs -> SUBSET Commands]
  /\ NoFrag \notin Frags
  /\ MaxRuns \in Nat /\ MaxCrashes \in Nat

VARIABLES
  file,         (* file[f]: the version of f's content, 0 if there is none *)
  stamp,        (* the latest ranAt                                        *)
  index,        (* <<f, v>>: the quads of version v of f are in the index  *)
  loaded,       (* the lines of oxigraph/.loaded                           *)
  pc,           (* pc[p]: the step p takes next                            *)
  cmd,          (* cmd[p]: the command p runs, or "none"                   *)
  handle,       (* handle[p]: "open", "detached" (the directory was deleted
                   since) or "none"                                        *)
  already,      (* already[p]: the marker as p means to write it           *)
  todo,         (* todo[p]: the paths p has still to read or remove        *)
  batch,        (* batch[p]: what p has given to the bulk loader           *)
  target,       (* target[p]: the derived fragment p reasons about         *)
  existed,      (* existed[p]: RunResult::already_existed                  *)
  ranAt,        (* ranAt[p]: the time stamp of the run fragment p writes   *)
  crashes

storeVars == <<file, stamp>>
indexVars == <<index, loaded>>
argVars == <<target, existed, ranAt>>
vars == <<file, stamp, index, loaded, pc, cmd, handle, already, todo, batch,
          target, existed, ranAt, crashes>>

Present == {f \in Frags : file[f] # 0}
Indexed(f) == \E q \in index : q[1] = f

Init ==
  /\ file = [f \in Frags |-> 0] /\ stamp = 0
  /\ index = {} /\ loaded = {}
  /\ pc = [p \in Procs |-> "idle"]
  /\ cmd = [p \in Procs |-> "none"]
  /\ handle = [p \in Procs |-> "none"]
  /\ already = [p \in Procs |-> {}]
  /\ todo = [p \in Procs |-> {}]
  /\ batch = [p \in Procs |-> {}]
  /\ target = [p \in Procs |-> NoFrag]
  /\ existed = [p \in Procs |-> FALSE]
  /\ ranAt = [p \in Procs |-> 0]
  /\ crashes = 0

Goto(p, label) == pc' = [pc EXCEPT ![p] = label]

\* The process ends: its lock and its memory are gone.
Exit(p) ==
  /\ Goto(p, "idle")
  /\ cmd' = [cmd EXCEPT ![p] = "none"]
  /\ handle' = [handle EXCEPT ![p] = "none"]
  /\ already' = [already EXCEPT ![p] = {}]
  /\ todo' = [todo EXCEPT ![p] = {}]
  /\ batch' = [batch EXCEPT ![p] = {}]
  /\ target' = [target EXCEPT ![p] = NoFrag]
  /\ existed' = [existed EXCEPT ![p] = FALSE]
  /\ ranAt' = [ranAt EXCEPT ![p] = 0]

-----------------------------------------------------------------------------
(***************************************************************************)
(* Starting a command and opening the index.                               *)
(***************************************************************************)

\* An extractor or fetch puts a fragment in place; it never opens the index.
Extract(f) ==
  /\ f \in Extracted /\ file[f] = 0
  /\ file' = [file EXCEPT ![f] = 1]
  /\ UNCHANGED <<stamp, indexVars, pc, cmd, handle, already, todo, batch,
                 argVars, crashes>>

\* rebuild deletes the index before it opens it, the others open it.
Begin(p, c) ==
  /\ pc[p] = "idle" /\ c \in Allowed[p] \ Reasons
  /\ cmd' = [cmd EXCEPT ![p] = c]
  /\ Goto(p, IF c = "rebuild" THEN "wipe" ELSE "open")
  /\ UNCHANGED <<storeVars, indexVars, handle, already, todo, batch, argVars, crashes>>

\* reason::run: the test for the derived fragment comes first, the index is
\* opened when the rules have run.  --force ignores the test.
BeginReason(p, c, d) ==
  /\ pc[p] = "idle" /\ c \in Allowed[p] \cap Reasons /\ stamp < MaxRuns
  /\ cmd' = [cmd EXCEPT ![p] = c]
  /\ target' = [target EXCEPT ![p] = d]
  /\ stamp' = stamp + 1
  /\ ranAt' = [ranAt EXCEPT ![p] = stamp + 1]
  /\ \E force \in BOOLEAN : existed' = [existed EXCEPT ![p] = file[d] # 0 /\ ~force]
  /\ Goto(p, IF c = "reason" THEN "open" ELSE "derived")
  /\ UNCHANGED <<file, indexVars, handle, already, todo, batch, crashes>>

AfterOpen(c) ==
  CASE c \in Loads -> "marker" [] c = "rebuild" -> "list" [] c = "reason" -> "derived"
    [] c = "gc-derived" -> "list" [] c = "serve" -> "serving"

\* Mutant of Open: a database that any number of processes may open.
OpenUnlocked(p) ==
  /\ pc[p] = "open"
  /\ handle' = [handle EXCEPT ![p] = "open"]
  /\ Goto(p, AfterOpen(cmd[p]))
  /\ UNCHANGED <<storeVars, indexVars, cmd, already, todo, batch, argVars, crashes>>

\* OxStore::open takes the lock of the directory that is there now.
Open(p) ==
  /\ pc[p] = "open" /\ \A q \in Procs : handle[q] # "open"
  /\ handle' = [handle EXCEPT ![p] = "open"]
  /\ Goto(p, AfterOpen(cmd[p]))
  /\ UNCHANGED <<storeVars, indexVars, cmd, already, todo, batch, argVars, crashes>>

\* The lock is taken: an error, except for gc-derived (Graph::open(..).ok()).
OpenFails(p) ==
  /\ pc[p] = "open" /\ cmd[p] # "gc-derived" /\ \E q \in Procs : handle[q] = "open"
  /\ Exit(p)
  /\ UNCHANGED <<storeVars, indexVars, crashes>>

OpenIsOptional(p) ==
  /\ pc[p] = "open" /\ cmd[p] = "gc-derived" /\ \E q \in Procs : handle[q] = "open"
  /\ Goto(p, "list")
  /\ UNCHANGED <<storeVars, indexVars, cmd, handle, already, todo, batch,
                 argVars, crashes>>

\* remove_dir_all of the index, whoever has it open: the marker and the
\* database go one after the other, in the order of the directory.
Detached == [q \in Procs |-> IF handle[q] = "open" THEN "detached" ELSE handle[q]]

\* Mutant of WipeRest: only the marker is deleted.
WipeMarkerOnly(p) ==
  /\ pc[p] = "wipe rest"
  /\ loaded' = {}
  /\ handle' = Detached
  /\ Goto(p, "open")
  /\ UNCHANGED <<storeVars, index, cmd, already, todo, batch, argVars, crashes>>

WipeSome(p) ==
  /\ pc[p] = "wipe"
  /\ \/ loaded' = {} /\ UNCHANGED index
     \/ index' = {} /\ UNCHANGED loaded
  /\ handle' = Detached
  /\ Goto(p, "wipe rest")
  /\ UNCHANGED <<storeVars, cmd, already, todo, batch, argVars, crashes>>
WipeRest(p) ==
  /\ pc[p] = "wipe rest"
  /\ loaded' = {} /\ index' = {}
  /\ handle' = Detached
  /\ Goto(p, "open")
  /\ UNCHANGED <<storeVars, cmd, already, todo, batch, argVars, crashes>>

-----------------------------------------------------------------------------
(***************************************************************************)
(* load and rebuild, and what reason loads.                                *)
(***************************************************************************)
ReadMarker(p) ==
  /\ pc[p] = "marker"
  /\ already' = [already EXCEPT ![p] = loaded]
  /\ Goto(p, "list")
  /\ UNCHANGED <<storeVars, indexVars, cmd, handle, todo, batch, argVars, crashes>>

\* Mutant of List: the marker is written before anything is loaded.
ListAndMark(p) ==
  /\ pc[p] = "list" /\ cmd[p] \in Loads \cup {"rebuild"}
  /\ todo' = [todo EXCEPT ![p] = Present \ already[p]]
  /\ already' = [already EXCEPT ![p] = @ \cup Present]
  /\ loaded' = loaded \cup Present
  /\ Goto(p, "read")
  /\ UNCHANGED <<storeVars, index, cmd, handle, batch, argVars, crashes>>

\* The paths to load.  They are put into `already` here: nothing reads it
\* before the marker is written.  rebuild takes its own list for the marker.
List(p) ==
  /\ pc[p] = "list" /\ cmd[p] \in Loads \cup {"rebuild"}
  /\ LET paths == CASE cmd[p] = "load --new" -> Present \ already[p]
                    [] cmd[p] = "load" -> Named
                    [] OTHER -> Present
     IN /\ todo' = [todo EXCEPT ![p] = paths]
        /\ already' = IF cmd[p] \in Loads
                      THEN [already EXCEPT ![p] = @ \cup paths] ELSE already
  /\ Goto(p, "read")
  /\ UNCHANGED <<storeVars, indexVars, cmd, handle, batch, argVars, crashes>>

\* load_paths: the files are read one after the other ...
ReadFile(p, f) ==
  /\ pc[p] = "read" /\ f \in todo[p] /\ file[f] # 0
  /\ batch' = [batch EXCEPT ![p] = @ \cup {<<f, file[f]>>}]
  /\ todo' = [todo EXCEPT ![p] = @ \ {f}]
  /\ UNCHANGED <<storeVars, indexVars, pc, cmd, handle, already, argVars, crashes>>

\* ... one that is gone ends the command before anything is committed ...
ReadFails(p, f) ==
  /\ pc[p] = "read" /\ f \in todo[p] /\ file[f] = 0
  /\ Exit(p)
  /\ UNCHANGED <<storeVars, indexVars, crashes>>

AfterCommit(c) ==
  IF c = "rebuild" THEN "list again" ELSE IF c \in Loads THEN "truncate" ELSE "exit"

\* ... and one commit puts all of them into the index.  A process whose
\* directory was deleted commits to files that no one will see.
Commit(p) ==
  /\ pc[p] = "read" /\ todo[p] = {}
  /\ index' = IF handle[p] = "open" THEN index \cup batch[p] ELSE index
  /\ batch' = [batch EXCEPT ![p] = {}]
  /\ Goto(p, AfterCommit(cmd[p]))
  /\ UNCHANGED <<storeVars, loaded, cmd, handle, already, todo, argVars, crashes>>

\* The second listing of rebuild, for the marker.
ListAgain(p) ==
  /\ pc[p] = "list again"
  /\ already' = [already EXCEPT ![p] = Present]
  /\ Goto(p, "truncate")
  /\ UNCHANGED <<storeVars, indexVars, cmd, handle, todo, batch, argVars, crashes>>

\* Mutant of Mark: load takes a second listing for the marker, as rebuild does.
MarkPresent(p) ==
  /\ pc[p] = "mark"
  /\ loaded' = Present
  /\ Exit(p)
  /\ UNCHANGED <<storeVars, index, crashes>>

\* fs::write of the marker, by its path: the file is emptied, then filled.
Truncate(p) ==
  /\ pc[p] = "truncate"
  /\ loaded' = {}
  /\ Goto(p, "mark")
  /\ UNCHANGED <<storeVars, index, cmd, handle, already, todo, batch, argVars, crashes>>
Mark(p) ==
  /\ pc[p] = "mark"
  /\ loaded' = already[p]
  /\ Exit(p)
  /\ UNCHANGED <<storeVars, index, crashes>>

-----------------------------------------------------------------------------
(***************************************************************************)
(* reason: persist.                                                        *)
(***************************************************************************)
\* Store::write leaves a derived fragment that exists alone.
WriteDerived(p) ==
  /\ pc[p] = "derived"
  /\ file' = [file EXCEPT ![target[p]] = 1]
  /\ Goto(p, "run")
  /\ UNCHANGED <<stamp, indexVars, cmd, handle, already, todo, batch, argVars, crashes>>

\* Store::overwrite: every run gives the run fragment another ranAt.
OverwriteRun(p) ==
  /\ pc[p] = "run"
  /\ file' = [file EXCEPT ![RunOf[target[p]]] = ranAt[p]]
  /\ Goto(p, IF handle[p] = "none" THEN "exit" ELSE "decide")
  /\ UNCHANGED <<stamp, indexVars, cmd, handle, already, todo, batch, argVars, crashes>>

\* Both fragments are loaded, unless the run was skipped and has_derived.
\* (A detached process still sees the index as it was when it was deleted:
\* it may decide either way.)
LoadBoth(p) ==
  /\ pc[p] = "decide"
  /\ handle[p] = "open" => ~existed[p] \/ ~Indexed(target[p])
  /\ todo' = [todo EXCEPT ![p] = {target[p], RunOf[target[p]]}]
  /\ Goto(p, "read")
  /\ UNCHANGED <<storeVars, indexVars, cmd, handle, already, batch, argVars, crashes>>
LoadNeither(p) ==
  /\ pc[p] = "decide" /\ existed[p]
  /\ handle[p] = "open" => Indexed(target[p])
  /\ Goto(p, "exit")
  /\ UNCHANGED <<storeVars, indexVars, cmd, handle, already, todo, batch,
                 argVars, crashes>>

\* Mutant of Leave: the command is over but keeps the index open.
LeaveOpen(p) ==
  /\ pc[p] = "exit"
  /\ Goto(p, "idle")
  /\ UNCHANGED <<storeVars, indexVars, cmd, handle, already, todo, batch, argVars, crashes>>

Leave(p) ==
  /\ pc[p] = "exit"
  /\ Exit(p)
  /\ UNCHANGED <<storeVars, indexVars, crashes>>

-----------------------------------------------------------------------------
(***************************************************************************)
(* gc-derived and serve.                                                   *)
(***************************************************************************)
Collectable == (Derived \cup Runs) \ Kept

ListGarbage(p) ==
  /\ pc[p] = "list" /\ cmd[p] = "gc-derived"
  /\ todo' = [todo EXCEPT ![p] = Present \cap Collectable]
  /\ Goto(p, "drop")
  /\ UNCHANGED <<storeVars, indexVars, cmd, handle, already, batch, argVars, crashes>>

\* The graph of a derived fragment is dropped when the index could be opened,
\* that of a run fragment never.
DropGraph(p, f) ==
  /\ pc[p] = "drop" /\ f \in todo[p]
  /\ index' = IF f \in Derived /\ handle[p] = "open"
              THEN {q \in index : q[1] # f} ELSE index
  /\ target' = [target EXCEPT ![p] = f]
  /\ Goto(p, "unlink")
  /\ UNCHANGED <<storeVars, loaded, cmd, handle, already, todo, batch, existed, ranAt, crashes>>

\* remove_file; a file that another gc-derived removed first is an error.
Unlink(p) ==
  /\ pc[p] = "unlink" /\ file[target[p]] # 0
  /\ file' = [file EXCEPT ![target[p]] = 0]
  /\ todo' = [todo EXCEPT ![p] = @ \ {target[p]}]
  /\ target' = [target EXCEPT ![p] = NoFrag]
  /\ Goto(p, "drop")
  /\ UNCHANGED <<stamp, indexVars, cmd, handle, already, batch, existed, ranAt, crashes>>
UnlinkFails(p) ==
  /\ pc[p] = "unlink" /\ file[target[p]] = 0
  /\ Exit(p)
  /\ UNCHANGED <<storeVars, indexVars, crashes>>
Collected(p) ==
  /\ pc[p] = "drop" /\ todo[p] = {}
  /\ Exit(p)
  /\ UNCHANGED <<storeVars, indexVars, crashes>>

\* serve answers queries until it is stopped.
Stop(p) ==
  /\ pc[p] = "serving"
  /\ Exit(p)
  /\ UNCHANGED <<storeVars, indexVars, crashes>>

Crash(p) ==
  /\ pc[p] # "idle" /\ crashes < MaxCrashes
  /\ crashes' = crashes + 1
  /\ Exit(p)
  /\ UNCHANGED <<storeVars, indexVars>>

-----------------------------------------------------------------------------
\* What p does once it has begun a command.
Continue(p) ==
  \/ Open(p) \/ OpenFails(p) \/ OpenIsOptional(p)
  \/ WipeSome(p) \/ WipeRest(p)
  \/ ReadMarker(p) \/ List(p) \/ (\E f \in Frags : ReadFile(p, f) \/ ReadFails(p, f))
  \/ Commit(p) \/ ListAgain(p) \/ Truncate(p) \/ Mark(p)
  \/ WriteDerived(p) \/ OverwriteRun(p) \/ LoadBoth(p) \/ LoadNeither(p) \/ Leave(p)
  \/ ListGarbage(p) \/ (\E f \in Frags : DropGraph(p, f)) \/ Unlink(p) \/ UnlinkFails(p)
  \/ Collected(p) \/ Stop(p)

Start(p) ==
  \/ \E c \in Commands : Begin(p, c)
  \/ \E c \in Commands, d \in Derived : BeginReason(p, c, d)

Next ==
  \/ \E f \in Frags : Extract(f)
  \/ \E p \in Procs : Start(p) \/ Continue(p) \/ Crash(p)

Spec == Init /\ [][Next]_vars

-----------------------------------------------------------------------------
(***************************************************************************)
(* Properties.                                                             *)
(***************************************************************************)
Labels == {"idle", "wipe", "wipe rest", "open", "marker", "list", "read",
           "list again", "truncate", "mark", "derived", "run", "decide", "exit",
           "drop", "unlink", "serving"}

TypeOK ==
  /\ file \in [Frags -> Nat] /\ stamp \in Nat
  /\ index \in SUBSET (Frags \X Nat)
  /\ loaded \in SUBSET Frags
  /\ pc \in [Procs -> Labels]
  /\ cmd \in [Procs -> Commands \cup {"none"}]
  /\ handle \in [Procs -> {"open", "detached", "none"}]
  /\ already \in [Procs -> SUBSET Frags]
  /\ todo \in [Procs -> SUBSET Frags]
  /\ batch \in [Procs -> SUBSET (Frags \X Nat)]
  /\ target \in [Procs -> Frags \cup {NoFrag}]
  /\ existed \in [Procs -> BOOLEAN]
  /\ ranAt \in [Procs -> Nat]
  /\ crashes \in Nat
  /\ \A p \in Procs : pc[p] = "idle" => handle[p] = "none" /\ cmd[p] = "none"

\* A path in oxigraph/.loaded that gc-derived cannot have collected is in the
\* index: load --new, which passes such paths over, passes over nothing that
\* is missing, whatever commands overlap or die half-way.
MarkedIsIndexed == \A f \in loaded \ Collectable : Indexed(f)

\* reason "writes and loads the derived graph" (main.rs, Cmd::Reason): when it
\* ends well the graph is in the index, although whether to load it was
\* decided before, from has_derived, and gc-derived drops such graphs.
ReasonLeavesItLoaded ==
  \A p \in Procs :
    pc[p] = "exit" /\ cmd[p] = "reason" /\ handle[p] = "open" => Indexed(target[p])

\* When load --new is about to write the marker, what the marker will say is
\* in the index or gone from the store: the server that starts next has
\* "any fragment not yet in the index" loaded (module.nix, nix2rdf-serve).
LoadNewLoadsAll ==
  \A p \in Procs :
    pc[p] = "mark" /\ cmd[p] = "load --new" =>
      \A f \in already[p] \cap Present : Indexed(f)

\* What a rebuild would put into the index.
FromFiles == {<<f, file[f]>> : f \in Present}

\* A rebuild recreates the index from the files, after crashes as well.
RebuildRestores ==
  [][\A p \in Procs : Mark(p) /\ cmd[p] = "rebuild" =>
       index' = FromFiles /\ loaded' = Present]_vars
=============================================================================
