------------------------------ MODULE RuleRun ------------------------------
(* One rule run, from Pack::load to persist (packs.rs, reason.rs, the      *)
(* reason command of main.rs), as processes that may run at once over one  *)
(* store, while packs are edited and the tool is upgraded.  A file is the  *)
(* version it has; a hash is what was hashed; the triples a program        *)
(* derives are a function of its rules, its vocabulary and the engine, so  *)
(* they are named by the three.  Input graphs are the same for every run.  *)
EXTENDS Naturals

CONSTANTS
  Runs,        \* the processes
  ChosenPacks, \* the packs of the selection: --pack must be given
  MaxEdits,    \* bound: changes of a pack file
  MaxUpgrades, \* bound: changes of the engine
  MaxCrashes   \* bound: deaths of a process

Files == {"vocab", "rules"}

ASSUME RuleRunAssumption == ChosenPacks # {}

VARIABLES
  source,  \* the pack directories: pack -> file -> version
  engine,  \* version of the Nemo the installed tool is built with
  dirs,    \* the directories of store/packs: <<pack, content hash>>
  copies,  \* the whole files in them: <<directory, file, version>>
  derived, \* derived fragments: id -> what they were derived from
  told,    \* run fragments: id -> the derivation they describe
  run,     \* the state of each process
  mixed,   \* history: ids of a run whose vocabulary was edited in its load
  cut,     \* history: directories a process died copying into
  edited,  \* history: directories whose copying met an edit
  edits, upgrades, crashes

disk == <<dirs, copies, derived, told>>
world == <<source, engine, edits, upgrades, crashes>>
seen == <<mixed, cut, edited>>
runVars == <<world, disk, run, seen>>

-----------------------------------------------------------------------------
\* Mutant of Id: the text of the rules is not hashed beside the content.
IdOfContent(r) ==
  [hash |-> run[r].hash, text |-> [p \in ChosenPacks |-> run[r].hash[p]["rules"]]]

\* Mutant of Id: the vocabulary is left out of the content hash.
IdOfRules(r) ==
  [hash |-> [p \in ChosenPacks |-> [run[r].hash[p] EXCEPT !["vocab"] = 0]],
   text |-> run[r].text]

\* What packs hold is in the content hash; the text of the rules is hashed
\* once more, in the ruleset hash.
Id(r) == [hash |-> run[r].hash, text |-> run[r].text]
Dest(r, p) == <<p, run[r].hash[p]>>

Unread == [p \in ChosenPacks |-> 0]
Idle(force) ==
  [pc |-> "idle", force |-> force, engine |-> 0, packs |-> {}, files |-> {},
   vocab |-> Unread, text |-> Unread, hash |-> [p \in ChosenPacks |-> [f \in Files |-> 0]],
   result |-> [text |-> Unread, vocab |-> Unread, engine |-> 0]]

RunInit ==
  /\ source = [p \in ChosenPacks |-> [f \in Files |-> 0]]
  /\ engine = 0 /\ edits = 0 /\ upgrades = 0 /\ crashes = 0
  /\ dirs = {} /\ copies = {} /\ derived = <<>> /\ told = <<>>
  /\ run \in [Runs -> {Idle(TRUE), Idle(FALSE)}]
  /\ mixed = {} /\ cut = {} /\ edited = {}

\* Packs are gone through in load order.
NextPack(r) == CHOOSE p \in run[r].packs : TRUE

\* Process r, at pc, goes on as s.
Step(r, pc, s) == run[r].pc = pc /\ run' = [run EXCEPT ![r] = s]

\* What is on disk with the file of id put in place, over one that is there.
Put(files, id, content) ==
  [i \in DOMAIN files \cup {id} |-> IF i = id THEN content ELSE files[i]]

-----------------------------------------------------------------------------
\* The command is started: an upgrade from here on is not of this process.
Start(r) ==
  /\ Step(r, "idle",
          [run[r] EXCEPT !.pc = "vocab", !.packs = ChosenPacks, !.engine = engine])
  /\ UNCHANGED <<world, disk, seen>>

\* Pack::load reads vocab.ttl, then the rule files, then every file again
\* for the content hash.
ReadVocab(r) ==
  /\ Step(r, "vocab",
          [run[r] EXCEPT !.pc = "rules",
                         !.vocab[NextPack(r)] = source[NextPack(r)]["vocab"]])
  /\ UNCHANGED <<world, disk, seen>>

ReadRules(r) ==
  /\ Step(r, "rules",
          [run[r] EXCEPT !.pc = "hash",
                         !.text[NextPack(r)] = source[NextPack(r)]["rules"]])
  /\ UNCHANGED <<world, disk, seen>>

ReadHash(r) ==
  /\ Step(r, "hash",
          [run[r] EXCEPT !.pc = IF run[r].packs = {NextPack(r)} THEN "look" ELSE "vocab",
                         !.hash[NextPack(r)] = source[NextPack(r)],
                         !.packs = @ \ {NextPack(r)}])
  /\ UNCHANGED <<world, disk, seen>>

\* The derived fragment exists: it is read back, and not derived again.
Existing(r) ==
  /\ Id(r) \in DOMAIN derived /\ ~ run[r].force
  /\ Step(r, "look", [run[r] EXCEPT !.pc = "write", !.result = derived[Id(r)]])
  /\ UNCHANGED <<world, disk, seen>>

\* vocab_quads, build_program and Nemo.
Derive(r) ==
  /\ Id(r) \notin DOMAIN derived \/ run[r].force
  /\ Step(r, "look",
          [run[r] EXCEPT !.pc = "copy", !.packs = ChosenPacks,
                         !.result = [text |-> run[r].text, vocab |-> run[r].vocab,
                                     engine |-> run[r].engine]])
  /\ mixed' = IF \A p \in ChosenPacks : run[r].hash[p]["vocab"] = run[r].vocab[p]
              THEN mixed ELSE mixed \cup {Id(r)}
  /\ UNCHANGED <<world, disk, cut, edited>>

-----------------------------------------------------------------------------
\* copy_to_store: nothing to do for a pack whose directory is there.
CopySkips(r) ==
  /\ run[r].packs # {} /\ Dest(r, NextPack(r)) \in dirs
  /\ Step(r, "copy", [run[r] EXCEPT !.packs = @ \ {NextPack(r)}])
  /\ UNCHANGED <<world, disk, seen>>

\* The check, and create_dir_all: another process may come in between.
CopyBegins(r) ==
  /\ run[r].packs # {} /\ Dest(r, NextPack(r)) \notin dirs
  /\ Step(r, "copy", [run[r] EXCEPT !.pc = "mkdir", !.packs = @ \ {NextPack(r)},
                                     !.files = {NextPack(r)} \X Files])
  /\ UNCHANGED <<world, disk, seen>>

CopyMakesDir(r) ==
  /\ Step(r, "mkdir", [run[r] EXCEPT !.pc = "file"])
  /\ dirs' = dirs \cup {Dest(r, f[1]) : f \in run[r].files}
  /\ UNCHANGED <<world, copies, derived, told, seen>>

\* Mutant of CopyFile: the walk ends with the first file.
CopyFirstFile(r, p, f) ==
  /\ <<p, f>> \in run[r].files
  /\ Step(r, "file", [run[r] EXCEPT !.files = {}, !.pc = "copy"])
  /\ copies' = copies \cup {<<Dest(r, p), f, source[p][f]>>}
  /\ UNCHANGED <<world, dirs, derived, told, seen>>

\* std::fs::copy of a file as it is now, over a copy that is there.
CopyFile(r, p, f) ==
  /\ <<p, f>> \in run[r].files
  /\ Step(r, "file",
          [run[r] EXCEPT !.files = @ \ {<<p, f>>},
                         !.pc = IF run[r].files = {<<p, f>>} THEN "copy" ELSE "file"])
  /\ copies' = {c \in copies : c[1] # Dest(r, p) \/ c[2] # f}
                 \cup {<<Dest(r, p), f, source[p][f]>>}
  /\ edited' = IF source[p][f] = run[r].hash[p][f] THEN edited
               ELSE edited \cup {Dest(r, p)}
  /\ UNCHANGED <<world, dirs, derived, told, mixed, cut>>

CopyEnds(r) ==
  /\ run[r].packs = {}
  /\ Step(r, "copy", [run[r] EXCEPT !.pc = "write"])
  /\ UNCHANGED <<world, disk, seen>>

\* persist: Store::write leaves a fragment that is there, and
\* Store::overwrite replaces the run fragment.
WriteDerived(r) ==
  /\ Step(r, "write", [run[r] EXCEPT !.pc = "tell"])
  /\ derived' = IF Id(r) \in DOMAIN derived THEN derived
                ELSE Put(derived, Id(r), run[r].result)
  /\ UNCHANGED <<world, dirs, copies, told, seen>>

OverwriteRun(r) ==
  /\ Step(r, "tell", [run[r] EXCEPT !.pc = "done"])
  /\ told' = Put(told, Id(r), run[r].result)
  /\ UNCHANGED <<world, dirs, copies, derived, seen>>

\* The process dies, maybe in the middle of a copy, which is then torn, also
\* over one that was whole; the command is given again.
Crash(r) ==
  /\ crashes < MaxCrashes /\ run[r].pc \notin {"idle", "done"}
  /\ run' = [run EXCEPT ![r] = Idle(run[r].force)]
  /\ crashes' = crashes + 1
  /\ IF run[r].pc = "file"
     THEN /\ cut' = cut \cup {Dest(r, x[1]) : x \in run[r].files}
          /\ \/ UNCHANGED copies
             \/ \E x \in run[r].files :
                  copies' = {c \in copies : c[1] # Dest(r, x[1]) \/ c[2] # x[2]}
     ELSE UNCHANGED <<copies, cut>>
  /\ UNCHANGED <<source, engine, edits, upgrades, dirs, derived, told, mixed, edited>>

Edit(p, f) ==
  /\ edits < MaxEdits
  /\ source' = [source EXCEPT ![p][f] = edits + 1]
  /\ edits' = edits + 1
  /\ UNCHANGED <<engine, upgrades, crashes, disk, run, seen>>

Upgrade ==
  /\ upgrades < MaxUpgrades
  /\ engine' = engine + 1 /\ upgrades' = upgrades + 1
  /\ UNCHANGED <<source, edits, crashes, disk, run, seen>>

Load(r) == ReadVocab(r) \/ ReadRules(r) \/ ReadHash(r)

Copy(r) ==
  \/ CopySkips(r) \/ CopyBegins(r) \/ CopyMakesDir(r) \/ CopyEnds(r)
  \/ \E p \in ChosenPacks, f \in Files : CopyFile(r, p, f)

RunNext ==
  \/ \E r \in Runs :
       \/ Start(r) \/ Load(r) \/ Existing(r) \/ Derive(r)
       \/ Copy(r) \/ WriteDerived(r) \/ OverwriteRun(r) \/ Crash(r)
  \/ \E p \in ChosenPacks, f \in Files : Edit(p, f)
  \/ Upgrade

RunSpec == RunInit /\ [][RunNext]_runVars

RunsFinished == \A r \in Runs : run[r].pc = "done"

-----------------------------------------------------------------------------
\* The rules a derived fragment was derived with are those its id hashes, even
\* when a pack is edited while it is loaded; the vocabulary is not, for it is
\* read once for the facts and once for the hash (Pack::load).
DerivedOfItsId ==
  \A id \in DOMAIN derived :
    /\ derived[id].text = id.text
    /\ id \notin mixed =>
         \A p \in ChosenPacks : derived[id].vocab[p] = id.hash[p]["vocab"]

\* Every pack a derived fragment was derived with has its directory under
\* store/packs, for run copies before persist writes.  Whatever overlaps and
\* dies, the whole copies in a directory are the files its name hashes, unless
\* one was edited after it was hashed; and all of them are there, unless a
\* process is at it or has died at it: that directory is taken for a copy ever
\* after, for the next one only looks whether it exists.
PacksAreKept ==
  /\ \A id \in DOMAIN derived, p \in ChosenPacks : <<p, id.hash[p]>> \in dirs
  /\ \A c \in copies : c[1] \notin edited => c[3] = c[1][2][c[2]]
  /\ \A d \in dirs \ (edited \cup cut) :
       \/ \E r \in Runs : run[r].pc = "file" /\ d \in {Dest(r, x[1]) : x \in run[r].files}
       \/ \A f \in Files : <<d, f, d[2][f]>> \in copies

\* A run fragment describes the derived fragment beside it, though persist
\* writes over the one and leaves the other, as a run with --force shows: it is
\* there and was derived with the same rules, in any case; with the same
\* vocabulary, unless that was edited under a load; and by the same engine as
\* long as the engine stays the same.
ToldAsDerived ==
  \A id \in DOMAIN told :
    /\ id \in DOMAIN derived
    /\ told[id].text = derived[id].text
    /\ id \notin mixed => told[id].vocab = derived[id].vocab
    /\ upgrades = 0 => told[id].engine = derived[id].engine
=============================================================================
