--------------------------- MODULE RuleRunProofs ---------------------------
(***************************************************************************)
(* Proofs about RuleRun, for any processes, packs, edits, upgrades and     *)
(* crashes: what a derived fragment and its copies of packs were made of.  *)
(* About NullCanon, for any graph: renaming its nulls changes nothing, and *)
(* only facts that say the same become one.                                *)
(* About Packs, for any pack directories and any selection, cyclic and     *)
(* unknown ones included: the packs that resolve has put in order are      *)
(* packs it discovered, each once and after all that it depends on.        *)
(***************************************************************************)
EXTENDS RuleRun, NullCanon, Packs, TLAPS

-----------------------------------------------------------------------------
(***************************************************************************)
(* Types.                                                                  *)
(***************************************************************************)
Versions == [ChosenPacks -> Nat]
Contents == [Files -> Nat]
Hashes == [ChosenPacks -> Contents]
Ids == [hash : Hashes, text : Versions]
Results == [text : Versions, vocab : Versions, engine : Nat]
PackDirs == ChosenPacks \X Contents

Loading == {"vocab", "rules", "hash"}
Copying == {"copy", "mkdir", "file"}
Writing == {"write", "tell"}

RunState ==
  [pc : {"idle", "look", "done"} \cup Loading \cup Copying \cup Writing,
   force : BOOLEAN, engine : Nat, packs : SUBSET ChosenPacks,
   files : SUBSET (ChosenPacks \X Files), vocab : Versions, text : Versions,
   hash : Hashes, result : Results]

RunTypes ==
  /\ source \in Hashes /\ engine \in Nat
  /\ edits \in Nat /\ upgrades \in Nat /\ crashes \in Nat
  /\ dirs \subseteq PackDirs /\ cut \subseteq PackDirs /\ edited \subseteq PackDirs
  /\ copies \subseteq PackDirs \X Files \X Nat
  /\ derived \in [DOMAIN derived -> Results] /\ DOMAIN derived \subseteq Ids
  /\ told \in [DOMAIN told -> Results] /\ DOMAIN told \subseteq Ids
  /\ mixed \subseteq Ids
  /\ run \in [Runs -> RunState]

-----------------------------------------------------------------------------
(***************************************************************************)
(* The invariant.                                                          *)
(***************************************************************************)
\* A result under an id is what the id names.
Describes(result, id) ==
  /\ result.text = id.text
  /\ id \notin mixed => \A p \in ChosenPacks : result.vocab[p] = id.hash[p]["vocab"]
  /\ upgrades = 0 => result.engine = 0

\* A process is the tool it was started as.
EngineInv(r) == upgrades = 0 => run[r].engine = 0

\* What a run has in hand: packs to load, and a result of its own id.
HandInv(r) ==
  /\ run[r].pc \in Loading => run[r].packs # {}
  /\ run[r].pc \in Copying \cup Writing => Describes(run[r].result, Id(r))
  /\ run[r].pc = "tell" => Id(r) \in DOMAIN derived

Copies(r, p) == \E x \in run[r].files : x[1] = p

\* What a run has copied, and is copying: the directory of every pack it has
\* gone past is there, or it is the next that it makes.
CopyInv(r) ==
  /\ run[r].files # {} => run[r].pc \in {"mkdir", "file"}
  /\ run[r].pc = "mkdir" => \E p \in ChosenPacks : run[r].files = {p} \X Files
  /\ run[r].pc = "file" => \A x \in run[r].files : Dest(r, x[1]) \in dirs
  /\ run[r].pc \in Copying =>
       \A p \in ChosenPacks \ run[r].packs :
         Dest(r, p) \in dirs \/ (run[r].pc = "mkdir" /\ Copies(r, p))
  /\ run[r].pc \in Writing => \A p \in ChosenPacks : Dest(r, p) \in dirs

\* What the store says of a derivation.
StoreInv ==
  /\ upgrades = 0 => engine = 0
  /\ \A id \in DOMAIN derived :
       /\ Describes(derived[id], id)
       /\ \A p \in ChosenPacks : <<p, id.hash[p]>> \in dirs
  /\ \A id \in DOMAIN told : id \in DOMAIN derived /\ Describes(told[id], id)

\* Process r is about to copy file f into directory d.
Brings(r, d, f) == run[r].pc = "file" /\ <<d[1], f>> \in run[r].files /\ Dest(r, d[1]) = d

\* A file of a directory that met no edit is the one its name hashes, and one
\* that is missing is about to be copied, or a process died there.
DirsInv ==
  /\ \A c \in copies : c[1] \in edited \/ c[3] = c[1][2][c[2]]
  /\ \A d \in dirs \ (edited \cup cut), f \in Files :
       <<d, f, d[2][f]>> \in copies \/ \E r \in Runs : Brings(r, d, f)

RunInv ==
  /\ RunTypes /\ StoreInv /\ DirsInv
  /\ \A r \in Runs : EngineInv(r) /\ HandInv(r) /\ CopyInv(r)

-----------------------------------------------------------------------------
(***************************************************************************)
(* What each step does to the process that takes it.                       *)
(***************************************************************************)
Others(r) == \A q \in Runs \ {r} : run'[q] = run[q]

\* r goes from one step to another.
Moves(r, from, to) ==
  /\ run[r].pc = from /\ run'[r].pc = to
  /\ run' \in [Runs -> RunState] /\ Others(r)

\* r goes on as the same tool, with what it has loaded.
SameId(r) ==
  /\ run'[r].hash = run[r].hash /\ run'[r].text = run[r].text
  /\ run'[r].engine = run[r].engine

LEMMA Stepped ==
  ASSUME RunTypes, NEW r \in Runs, NEW at, NEW s \in RunState, Step(r, at, s)
  PROVE  Moves(r, at, s.pc) /\ run'[r] = s
  BY DEF RunTypes, Step, Moves, Others

LEMMA NextPackType ==
  ASSUME RunTypes, NEW r \in Runs, run[r].packs # {}
  PROVE  NextPack(r) \in run[r].packs /\ NextPack(r) \in ChosenPacks
<1>1. run[r].packs \subseteq ChosenPacks
  BY DEF RunTypes, RunState
<1>2. NextPack(r) \in run[r].packs
  BY DEF NextPack
<1>3. QED
  BY <1>1, <1>2

LEMMA IdType ==
  ASSUME RunTypes, NEW r \in Runs
  PROVE  /\ Id(r) \in Ids /\ Id(r).hash = run[r].hash /\ Id(r).text = run[r].text
         /\ \A p \in ChosenPacks : Dest(r, p) \in PackDirs
  BY DEF RunTypes, RunState, Ids, Id, Dest, PackDirs, Hashes

LEMMA StartActs ==
  ASSUME RunTypes, NEW r \in Runs, Start(r)
  PROVE  /\ Moves(r, "idle", "vocab") /\ run'[r].engine = engine
         /\ run'[r].packs = ChosenPacks /\ run'[r].files = run[r].files
<1> DEFINE s == [run[r] EXCEPT !.pc = "vocab", !.packs = ChosenPacks, !.engine = engine]
<1>1. /\ s \in RunState /\ s.pc = "vocab" /\ s.packs = ChosenPacks /\ s.files = run[r].files
      /\ s.engine = engine
  <2>1. run[r] \in RunState /\ engine \in Nat
    BY DEF RunTypes
  <2>2. s \in RunState
    BY <2>1 DEF RunState, Loading
  <2>3. /\ s.pc = "vocab" /\ s.packs = ChosenPacks /\ s.files = run[r].files
        /\ s.engine = engine
    BY <2>1 DEF RunState
  <2> HIDE DEF s
  <2>4. QED
    BY <2>2, <2>3
<1>2. Step(r, "idle", s)
  BY DEF Start
<1> HIDE DEF s
<1>3. QED
  BY <1>1, <1>2, Stepped

LEMMA ReadVocabActs ==
  ASSUME RunTypes, NEW r \in Runs, ReadVocab(r), run[r].packs # {}
  PROVE  /\ Moves(r, "vocab", "rules") /\ run'[r].engine = run[r].engine
         /\ run'[r].packs = run[r].packs /\ run'[r].files = run[r].files
<1> DEFINE p == NextPack(r)
           v == source[p]["vocab"]
           s == [run[r] EXCEPT !.pc = "rules", !.vocab[p] = v]
<1>1. p \in ChosenPacks
  BY NextPackType
<1>2. v \in Nat
  BY <1>1 DEF RunTypes, Hashes, Contents, Files
<1>3. Step(r, "vocab", s)
  BY DEF ReadVocab
<1> HIDE DEF p, v
<1>4. run[r] \in RunState
  BY DEF RunTypes
<1>5. /\ s.pc = "rules" /\ s.packs = run[r].packs /\ s.files = run[r].files
      /\ s.engine = run[r].engine
  BY <1>4 DEF RunState
<1>6. s \in RunState
  BY <1>1, <1>2, <1>4 DEF RunState, Loading, Versions
<1> HIDE DEF s
<1>7. QED
  BY <1>3, <1>5, <1>6, Stepped

LEMMA ReadRulesActs ==
  ASSUME RunTypes, NEW r \in Runs, ReadRules(r), run[r].packs # {}
  PROVE  /\ Moves(r, "rules", "hash") /\ run'[r].engine = run[r].engine
         /\ run'[r].packs = run[r].packs /\ run'[r].files = run[r].files
<1> DEFINE p == NextPack(r)
           v == source[p]["rules"]
           s == [run[r] EXCEPT !.pc = "hash", !.text[p] = v]
<1>1. p \in ChosenPacks
  BY NextPackType
<1>2. v \in Nat
  BY <1>1 DEF RunTypes, Hashes, Contents, Files
<1>3. Step(r, "rules", s)
  BY DEF ReadRules
<1> HIDE DEF p, v
<1>4. run[r] \in RunState
  BY DEF RunTypes
<1>5. /\ s.pc = "hash" /\ s.packs = run[r].packs /\ s.files = run[r].files
      /\ s.engine = run[r].engine
  BY <1>4 DEF RunState
<1>6. s \in RunState
  BY <1>1, <1>2, <1>4 DEF RunState, Loading, Versions
<1> HIDE DEF s
<1>7. QED
  BY <1>3, <1>5, <1>6, Stepped

LEMMA ReadHashActs ==
  ASSUME RunTypes, NEW r \in Runs, ReadHash(r), run[r].packs # {}
  PROVE  /\ Moves(r, "hash", run'[r].pc) /\ run'[r].pc \in {"look", "vocab"}
         /\ run'[r].pc = "vocab" => run'[r].packs # {}
         /\ run'[r].files = run[r].files /\ run'[r].engine = run[r].engine
<1> DEFINE p == NextPack(r)
           l == IF run[r].packs = {p} THEN "look" ELSE "vocab"
           s == [run[r] EXCEPT !.pc = l, !.hash[p] = source[p], !.packs = @ \ {p}]
<1>1. p \in ChosenPacks /\ p \in run[r].packs
  BY NextPackType
<1>2. source[p] \in Contents
  BY <1>1 DEF RunTypes, Hashes
<1>3. Step(r, "hash", s)
  BY DEF ReadHash
<1>4. l \in {"look", "vocab"} /\ (l = "vocab" => run[r].packs \ {p} # {})
  BY <1>1
<1> HIDE DEF p, l
<1>5. run[r] \in RunState
  BY DEF RunTypes
<1>6. /\ s.pc = l /\ s.packs = run[r].packs \ {p}
      /\ s.files = run[r].files /\ s.engine = run[r].engine
  BY <1>5 DEF RunState
<1>7. s \in RunState
  BY <1>1, <1>2, <1>4, <1>5 DEF RunState, Loading, Hashes
<1> HIDE DEF s
<1>8. QED
  BY <1>3, <1>4, <1>6, <1>7, Stepped

LEMMA ExistingActs ==
  ASSUME RunTypes, NEW r \in Runs, Existing(r)
  PROVE  /\ Moves(r, "look", "write") /\ run'[r].result = derived[Id(r)] /\ SameId(r)
         /\ Id(r) \in DOMAIN derived /\ run'[r].files = run[r].files
<1> DEFINE d == derived[Id(r)]
           s == [run[r] EXCEPT !.pc = "write", !.result = d]
<1>1. d \in Results /\ Id(r) \in DOMAIN derived
  BY DEF Existing, RunTypes
<1>2. Step(r, "look", s)
  BY DEF Existing
<1> HIDE DEF d
<1>3. /\ s \in RunState /\ s.pc = "write" /\ s.result = d
      /\ s.hash = run[r].hash /\ s.text = run[r].text /\ s.engine = run[r].engine
      /\ s.files = run[r].files
  <2>1. run[r] \in RunState
    BY DEF RunTypes
  <2>2. s \in RunState
    BY <1>1, <2>1 DEF RunState, Writing
  <2>3. /\ s.pc = "write" /\ s.result = d
        /\ s.hash = run[r].hash /\ s.text = run[r].text /\ s.engine = run[r].engine
        /\ s.files = run[r].files
    BY <2>1 DEF RunState
  <2> HIDE DEF s
  <2>4. QED
    BY <2>2, <2>3
<1> HIDE DEF s
<1>4. QED
  BY <1>1, <1>2, <1>3, Stepped DEF SameId, d

LEMMA DeriveActs ==
  ASSUME RunTypes, NEW r \in Runs, Derive(r)
  PROVE  /\ Moves(r, "look", "copy") /\ SameId(r)
         /\ run'[r].packs = ChosenPacks /\ run'[r].files = run[r].files
         /\ run'[r].result = [text |-> run[r].text, vocab |-> run[r].vocab,
                              engine |-> run[r].engine]
<1> DEFINE d == [text |-> run[r].text, vocab |-> run[r].vocab, engine |-> run[r].engine]
           s == [run[r] EXCEPT !.pc = "copy", !.packs = ChosenPacks, !.result = d]
<1>1. d \in Results
  BY DEF RunTypes, RunState, Results
<1>2. Step(r, "look", s)
  BY DEF Derive
<1> HIDE DEF d
<1>3. /\ s \in RunState /\ s.pc = "copy" /\ s.result = d /\ s.packs = ChosenPacks
      /\ s.hash = run[r].hash /\ s.text = run[r].text /\ s.engine = run[r].engine
      /\ s.files = run[r].files
  <2>1. run[r] \in RunState
    BY DEF RunTypes
  <2>2. s \in RunState
    BY <1>1, <2>1 DEF RunState, Copying
  <2>3. /\ s.pc = "copy" /\ s.result = d /\ s.packs = ChosenPacks
        /\ s.hash = run[r].hash /\ s.text = run[r].text /\ s.engine = run[r].engine
        /\ s.files = run[r].files
    BY <2>1 DEF RunState
  <2> HIDE DEF s
  <2>4. QED
    BY <2>2, <2>3
<1> HIDE DEF s
<1>4. QED
  BY <1>2, <1>3, Stepped DEF SameId, d

\* A step of the copying keeps the id and the result.
Carries(r) == SameId(r) /\ run'[r].result = run[r].result

LEMMA CopySkipsActs ==
  ASSUME RunTypes, NEW r \in Runs, CopySkips(r)
  PROVE  \E p \in ChosenPacks :
           /\ Moves(r, "copy", "copy") /\ Carries(r) /\ Dest(r, p) \in dirs
           /\ run'[r].packs = run[r].packs \ {p} /\ run'[r].files = run[r].files
<1> DEFINE p == NextPack(r)
           s == [run[r] EXCEPT !.packs = @ \ {p}]
<1>1. p \in ChosenPacks /\ Dest(r, p) \in dirs
  BY NextPackType DEF CopySkips
<1>2. Step(r, "copy", s) /\ run[r].pc = "copy"
  BY DEF CopySkips, Step
<1> HIDE DEF p
<1>3. /\ s \in RunState /\ s.pc = "copy" /\ s.packs = run[r].packs \ {p}
      /\ s.hash = run[r].hash /\ s.text = run[r].text /\ s.engine = run[r].engine
      /\ s.result = run[r].result /\ s.files = run[r].files
  <2>1. run[r] \in RunState
    BY DEF RunTypes
  <2>2. s \in RunState
    BY <1>2, <2>1 DEF RunState, Copying
  <2>3. /\ s.pc = "copy" /\ s.packs = run[r].packs \ {p}
        /\ s.hash = run[r].hash /\ s.text = run[r].text /\ s.engine = run[r].engine
        /\ s.result = run[r].result /\ s.files = run[r].files
    BY <1>2, <2>1 DEF RunState
  <2> HIDE DEF s
  <2>4. QED
    BY <2>2, <2>3
<1> HIDE DEF s
<1>4. QED
  BY <1>1, <1>2, <1>3, Stepped DEF SameId, Carries

LEMMA CopyBeginsActs ==
  ASSUME RunTypes, NEW r \in Runs, CopyBegins(r)
  PROVE  \E p \in ChosenPacks :
           /\ Moves(r, "copy", "mkdir") /\ Carries(r)
           /\ run'[r].packs = run[r].packs \ {p} /\ run'[r].files = {p} \X Files
<1> DEFINE p == NextPack(r)
           s == [run[r] EXCEPT !.pc = "mkdir", !.packs = @ \ {p}, !.files = {p} \X Files]
<1>1. p \in ChosenPacks
  BY NextPackType DEF CopyBegins
<1>2. Step(r, "copy", s)
  BY DEF CopyBegins
<1> HIDE DEF p
<1>3. /\ s \in RunState /\ s.pc = "mkdir" /\ s.packs = run[r].packs \ {p}
      /\ s.hash = run[r].hash /\ s.text = run[r].text /\ s.engine = run[r].engine
      /\ s.result = run[r].result /\ s.files = {p} \X Files
  <2>1. run[r] \in RunState
    BY DEF RunTypes
  <2>2. s \in RunState
    BY <1>1, <2>1 DEF RunState, Copying
  <2>3. /\ s.pc = "mkdir" /\ s.packs = run[r].packs \ {p}
        /\ s.hash = run[r].hash /\ s.text = run[r].text /\ s.engine = run[r].engine
        /\ s.result = run[r].result /\ s.files = {p} \X Files
    BY <2>1 DEF RunState
  <2> HIDE DEF s
  <2>4. QED
    BY <2>2, <2>3
<1> HIDE DEF s
<1>4. QED
  BY <1>1, <1>2, <1>3, Stepped DEF SameId, Carries

LEMMA CopyMakesDirActs ==
  ASSUME RunTypes, NEW r \in Runs, CopyMakesDir(r)
  PROVE  /\ Moves(r, "mkdir", "file") /\ Carries(r)
         /\ run'[r].packs = run[r].packs /\ run'[r].files = run[r].files
<1> DEFINE s == [run[r] EXCEPT !.pc = "file"]
<1>1. /\ s \in RunState /\ s.pc = "file" /\ s.packs = run[r].packs
      /\ s.hash = run[r].hash /\ s.text = run[r].text /\ s.engine = run[r].engine
      /\ s.result = run[r].result /\ s.files = run[r].files
  <2>1. run[r] \in RunState
    BY DEF RunTypes
  <2>2. s \in RunState
    BY <2>1 DEF RunState, Copying
  <2>3. /\ s.pc = "file" /\ s.packs = run[r].packs
        /\ s.hash = run[r].hash /\ s.text = run[r].text /\ s.engine = run[r].engine
        /\ s.result = run[r].result /\ s.files = run[r].files
    BY <2>1 DEF RunState
  <2> HIDE DEF s
  <2>4. QED
    BY <2>2, <2>3
<1>2. Step(r, "mkdir", s)
  BY DEF CopyMakesDir
<1> HIDE DEF s
<1>3. QED
  BY <1>1, <1>2, Stepped DEF SameId, Carries

LEMMA CopyFileActs ==
  ASSUME RunTypes, NEW r \in Runs, NEW p \in ChosenPacks, NEW f \in Files, CopyFile(r, p, f)
  PROVE  /\ Moves(r, "file", run'[r].pc) /\ Carries(r)
         /\ run'[r].pc \in {"copy", "file"}
         /\ run'[r].pc = "copy" => run'[r].files = {}
         /\ run'[r].packs = run[r].packs /\ run'[r].files = run[r].files \ {<<p, f>>}
<1> DEFINE l == IF run[r].files = {<<p, f>>} THEN "copy" ELSE "file"
           s == [run[r] EXCEPT !.files = @ \ {<<p, f>>}, !.pc = l]
<1>1. Step(r, "file", s)
  BY DEF CopyFile
<1>2. l \in {"copy", "file"} /\ (l = "copy" => run[r].files \ {<<p, f>>} = {})
  OBVIOUS
<1> HIDE DEF l
<1>3. /\ s \in RunState /\ s.pc = l /\ s.packs = run[r].packs
      /\ s.hash = run[r].hash /\ s.text = run[r].text /\ s.engine = run[r].engine
      /\ s.result = run[r].result /\ s.files = run[r].files \ {<<p, f>>}
  <2>1. run[r] \in RunState
    BY DEF RunTypes
  <2>2. s \in RunState
    BY <1>2, <2>1 DEF RunState, Copying
  <2>3. /\ s.pc = l /\ s.packs = run[r].packs
        /\ s.hash = run[r].hash /\ s.text = run[r].text /\ s.engine = run[r].engine
        /\ s.result = run[r].result /\ s.files = run[r].files \ {<<p, f>>}
    BY <2>1 DEF RunState
  <2> HIDE DEF s
  <2>4. QED
    BY <2>2, <2>3
<1> HIDE DEF s
<1>4. QED
  BY <1>1, <1>2, <1>3, Stepped DEF SameId, Carries

LEMMA PersistActs ==
  ASSUME RunTypes, NEW r \in Runs
  PROVE  /\ CopyEnds(r) => Moves(r, "copy", "write") /\ Carries(r)
         /\ WriteDerived(r) => Moves(r, "write", "tell") /\ Carries(r)
         /\ OverwriteRun(r) => Moves(r, "tell", "done") /\ Carries(r)
         /\ CopyEnds(r) \/ WriteDerived(r) \/ OverwriteRun(r) =>
              run'[r].files = run[r].files
<1>1. ASSUME NEW at, NEW l \in Writing \cup {"done"}, Step(r, at, [run[r] EXCEPT !.pc = l])
      PROVE  Moves(r, at, l) /\ Carries(r) /\ run'[r].files = run[r].files
  <2> DEFINE s == [run[r] EXCEPT !.pc = l]
  <2>1. /\ s \in RunState /\ s.pc = l
        /\ s.hash = run[r].hash /\ s.text = run[r].text /\ s.engine = run[r].engine
        /\ s.result = run[r].result /\ s.files = run[r].files
    BY DEF RunTypes, RunState
  <2>2. Step(r, at, s)
    BY <1>1
  <2> HIDE DEF s
  <2>3. QED
    BY <2>1, <2>2, Stepped DEF SameId, Carries
<1>2. QED
  BY <1>1 DEF CopyEnds, WriteDerived, OverwriteRun, Writing

LEMMA CrashActs ==
  ASSUME RunTypes, NEW r \in Runs, Crash(r)
  PROVE  /\ Moves(r, run[r].pc, "idle") /\ run'[r].files = {} /\ run'[r].engine = 0
<1> DEFINE s == Idle(run[r].force)
<1>1. s \in RunState
  <2>1. run[r].force \in BOOLEAN
    BY DEF RunTypes, RunState
  <2>2. Unread \in Versions /\ [p \in ChosenPacks |-> [f \in Files |-> 0]] \in Hashes
    BY DEF Unread, Versions, Hashes, Contents
  <2>3. [text |-> Unread, vocab |-> Unread, engine |-> 0] \in Results
    BY <2>2 DEF Results
  <2>4. QED
    BY <2>1, <2>2, <2>3 DEF Idle, RunState
<1>2. s.pc = "idle" /\ s.files = {} /\ s.engine = 0
  BY DEF Idle
<1>3. Step(r, run[r].pc, s)
  BY DEF Crash, Step
<1> HIDE DEF s
<1>4. QED
  BY <1>1, <1>2, <1>3, Stepped

-----------------------------------------------------------------------------
(***************************************************************************)
(* Types, step by step.                                                    *)
(***************************************************************************)
\* The steps of r but for its death.
Acts(r) ==
  Start(r) \/ Load(r) \/ Existing(r) \/ Derive(r) \/ Copy(r) \/ WriteDerived(r) \/ OverwriteRun(r)

LEMMA RunStateStays ==
  ASSUME RunTypes, NEW r \in Runs, HandInv(r), Acts(r) \/ Crash(r)
  PROVE  run' \in [Runs -> RunState] /\ Others(r)
<1>1. run[r].pc \in Loading => run[r].packs # {}
  BY DEF HandInv
<1>2. CASE Start(r)
  BY <1>2, StartActs DEF Moves
<1>3. CASE ReadVocab(r)
  BY <1>1, <1>3, ReadVocabActs DEF ReadVocab, Step, Moves, Loading
<1>4. CASE ReadRules(r)
  BY <1>1, <1>4, ReadRulesActs DEF ReadRules, Step, Moves, Loading
<1>5. CASE ReadHash(r)
  BY <1>1, <1>5, ReadHashActs DEF ReadHash, Step, Moves, Loading
<1>6. CASE Existing(r)
  BY <1>6, ExistingActs DEF Moves
<1>7. CASE Derive(r)
  BY <1>7, DeriveActs DEF Moves
<1>8. CASE CopySkips(r)
  BY <1>8, CopySkipsActs DEF Moves
<1>9. CASE CopyBegins(r)
  BY <1>9, CopyBeginsActs DEF Moves
<1>10. CASE CopyMakesDir(r)
  BY <1>10, CopyMakesDirActs DEF Moves
<1>11. ASSUME NEW p \in ChosenPacks, NEW f \in Files, CopyFile(r, p, f)
       PROVE  run' \in [Runs -> RunState] /\ Others(r)
  BY <1>11, CopyFileActs DEF Moves
<1>12. CASE CopyEnds(r) \/ WriteDerived(r) \/ OverwriteRun(r)
  BY <1>12, PersistActs DEF Moves
<1>13. CASE Crash(r)
  BY <1>13, CrashActs DEF Moves
<1>14. QED
  BY <1>2, <1>3, <1>4, <1>5, <1>6, <1>7, <1>8, <1>9, <1>10, <1>11, <1>12, <1>13
     DEF Acts, Load, Copy

\* What a run puts into the store: its content is under its id, the rest is
\* what it was, and it has the types of the store.
LEMMA PutContent ==
  ASSUME NEW files, NEW id, NEW content
  PROVE  /\ DOMAIN Put(files, id, content) = DOMAIN files \cup {id}
         /\ Put(files, id, content)[id] = content
         /\ \A i \in DOMAIN files : i # id => Put(files, id, content)[i] = files[i]
  BY DEF Put

LEMMA PutType ==
  ASSUME NEW files, files \in [DOMAIN files -> Results], DOMAIN files \subseteq Ids,
         NEW id \in Ids, NEW content \in Results
  PROVE  /\ Put(files, id, content) \in [DOMAIN Put(files, id, content) -> Results]
         /\ DOMAIN Put(files, id, content) \subseteq Ids
<1>1. DOMAIN Put(files, id, content) = DOMAIN files \cup {id}
  BY PutContent
<1>2. Put(files, id, content) \in [DOMAIN files \cup {id} -> Results]
  BY DEF Put
<1>3. QED
  BY <1>1, <1>2

LEMMA TypesInit == RunInit => RunTypes
<1> SUFFICES ASSUME RunInit PROVE RunTypes
  OBVIOUS
<1>1. source \in Hashes
  BY DEF RunInit, Hashes, Contents
<1>2. ASSUME NEW b \in BOOLEAN PROVE Idle(b) \in RunState
  <2>1. Unread \in Versions /\ [p \in ChosenPacks |-> [f \in Files |-> 0]] \in Hashes
    BY DEF Unread, Versions, Hashes, Contents
  <2>2. [text |-> Unread, vocab |-> Unread, engine |-> 0] \in Results
    BY <2>1 DEF Results
  <2>3. QED
    BY <2>1, <2>2 DEF Idle, RunState
<1>3. run \in [Runs -> RunState]
  BY <1>2 DEF RunInit
<1>4. DOMAIN derived = {} /\ derived \in [DOMAIN derived -> Results]
  BY DEF RunInit
<1>5. DOMAIN told = {} /\ told \in [DOMAIN told -> Results]
  BY DEF RunInit
<1>6. QED
  BY <1>1, <1>3, <1>4, <1>5 DEF RunInit, RunTypes

LEMMA TypesStep ==
  ASSUME RunTypes, \A r \in Runs : HandInv(r) /\ CopyInv(r), [RunNext]_runVars
  PROVE  RunTypes'
<1> USE DEF world, disk, seen
<1>1. ASSUME NEW r \in Runs, Acts(r) \/ Crash(r) PROVE run' \in [Runs -> RunState]
  BY <1>1, RunStateStays
<1>2. ASSUME NEW r \in Runs,
             Start(r) \/ Load(r) \/ Existing(r) \/ CopySkips(r) \/ CopyBegins(r) \/ CopyEnds(r)
      PROVE  RunTypes'
  <2>1. UNCHANGED <<world, disk, seen>>
    BY <1>2 DEF Start, Load, ReadVocab, ReadRules, ReadHash, Existing, CopySkips, CopyBegins,
       CopyEnds
  <2>2. run' \in [Runs -> RunState]
    BY <1>1, <1>2 DEF Acts, Copy
  <2>3. QED
    BY <2>1, <2>2 DEF RunTypes
<1>3. ASSUME NEW r \in Runs, Derive(r) PROVE RunTypes'
  <2>1. UNCHANGED <<world, disk, cut, edited>> /\ mixed' \subseteq mixed \cup {Id(r)}
    BY <1>3 DEF Derive
  <2>2. run' \in [Runs -> RunState]
    BY <1>1, <1>3 DEF Acts
  <2>3. QED
    BY <2>1, <2>2, IdType DEF RunTypes
<1>4. ASSUME NEW r \in Runs, CopyMakesDir(r) PROVE RunTypes'
  <2>1. /\ UNCHANGED <<world, copies, derived, told, seen>>
        /\ dirs' = dirs \cup {Dest(r, f[1]) : f \in run[r].files}
    BY <1>4 DEF CopyMakesDir
  <2>2. run' \in [Runs -> RunState]
    BY <1>1, <1>4 DEF Acts, Copy
  <2>3. \A f \in run[r].files : Dest(r, f[1]) \in PackDirs
    BY IdType DEF RunTypes, RunState
  <2>4. dirs' \subseteq PackDirs
    BY <2>1, <2>3 DEF RunTypes
  <2>5. QED
    BY <2>1, <2>2, <2>4 DEF RunTypes
<1>5. ASSUME NEW r \in Runs, NEW p \in ChosenPacks, NEW f \in Files, CopyFile(r, p, f)
      PROVE  RunTypes'
  <2>1. /\ UNCHANGED <<world, dirs, derived, told, mixed, cut>>
        /\ copies' \subseteq copies \cup {<<Dest(r, p), f, source[p][f]>>}
        /\ edited' \subseteq edited \cup {Dest(r, p)}
    BY <1>5 DEF CopyFile
  <2>2. run' \in [Runs -> RunState]
    BY <1>1, <1>5 DEF Acts, Copy
  <2>3. Dest(r, p) \in PackDirs /\ source[p][f] \in Nat
    BY IdType DEF RunTypes, Hashes, Contents
  <2>4. copies' \subseteq PackDirs \X Files \X Nat /\ edited' \subseteq PackDirs
    BY <2>1, <2>3 DEF RunTypes
  <2>5. QED
    BY <2>1, <2>2, <2>4 DEF RunTypes
<1>6. ASSUME NEW r \in Runs, WriteDerived(r) \/ OverwriteRun(r) PROVE RunTypes'
  <2>1. /\ UNCHANGED <<world, dirs, copies, seen>>
        /\ derived' \in {derived, Put(derived, Id(r), run[r].result)}
        /\ told' \in {told, Put(told, Id(r), run[r].result)}
    BY <1>6 DEF WriteDerived, OverwriteRun
  <2>2. run' \in [Runs -> RunState]
    BY <1>1, <1>6 DEF Acts
  <2>3. Id(r) \in Ids /\ run[r].result \in Results
    BY IdType DEF RunTypes, RunState
  <2>4. derived' \in [DOMAIN derived' -> Results] /\ DOMAIN derived' \subseteq Ids
    <3> DEFINE new == Put(derived, Id(r), run[r].result)
    <3>1. derived \in [DOMAIN derived -> Results] /\ DOMAIN derived \subseteq Ids
      BY DEF RunTypes
    <3>2. new \in [DOMAIN new -> Results] /\ DOMAIN new \subseteq Ids
      BY <2>3, <3>1, PutType
    <3>3. derived' \in {derived, new}
      BY <2>1
    <3> HIDE DEF new
    <3>4. CASE derived' = derived
      BY <3>1, <3>4
    <3>5. CASE derived' = new
      BY <3>2, <3>5
    <3>6. QED
      BY <3>3, <3>4, <3>5
  <2>5. told' \in [DOMAIN told' -> Results] /\ DOMAIN told' \subseteq Ids
    <3> DEFINE new == Put(told, Id(r), run[r].result)
    <3>1. told \in [DOMAIN told -> Results] /\ DOMAIN told \subseteq Ids
      BY DEF RunTypes
    <3>2. new \in [DOMAIN new -> Results] /\ DOMAIN new \subseteq Ids
      BY <2>3, <3>1, PutType
    <3>3. told' \in {told, new}
      BY <2>1
    <3> HIDE DEF new
    <3>4. CASE told' = told
      BY <3>1, <3>4
    <3>5. CASE told' = new
      BY <3>2, <3>5
    <3>6. QED
      BY <3>3, <3>4, <3>5
  <2>6. QED
    BY <2>1, <2>2, <2>4, <2>5 DEF RunTypes
<1>7. ASSUME NEW r \in Runs, Crash(r) PROVE RunTypes'
  <2>1. /\ UNCHANGED <<source, engine, edits, upgrades, dirs, derived, told, mixed, edited>>
        /\ crashes' = crashes + 1 /\ copies' \subseteq copies
        /\ cut' \subseteq cut \cup {Dest(r, f[1]) : f \in run[r].files}
    BY <1>7 DEF Crash
  <2>2. run' \in [Runs -> RunState]
    BY <1>1, <1>7
  <2>3. \A f \in run[r].files : Dest(r, f[1]) \in PackDirs
    BY IdType DEF RunTypes, RunState
  <2>4. cut' \subseteq PackDirs /\ crashes' \in Nat
    BY <2>1, <2>3 DEF RunTypes
  <2>5. QED
    BY <2>1, <2>2, <2>4 DEF RunTypes
<1>8. ASSUME NEW p \in ChosenPacks, NEW f \in Files, Edit(p, f) PROVE RunTypes'
  <2>1. /\ source' = [source EXCEPT ![p] = [@ EXCEPT ![f] = edits + 1]]
        /\ edits' = edits + 1
        /\ UNCHANGED <<engine, upgrades, crashes, disk, run, seen>>
    BY <1>8 DEF Edit
  <2>2. source' \in Hashes /\ edits' \in Nat
    BY <2>1 DEF RunTypes, Hashes, Contents
  <2>3. QED
    BY <2>1, <2>2 DEF RunTypes
<1>9. CASE Upgrade
  BY <1>9 DEF Upgrade, RunTypes
<1>10. CASE UNCHANGED runVars
  BY <1>10 DEF runVars, RunTypes
<1>11. QED
  BY <1>2, <1>3, <1>4, <1>5, <1>6, <1>7, <1>8, <1>9, <1>10 DEF RunNext, Copy

-----------------------------------------------------------------------------
(***************************************************************************)
(* What a run has in hand.                                                 *)
(***************************************************************************)
\* What only grows: the directories, what is derived, and what is excepted.
Increases ==
  /\ mixed \subseteq mixed' /\ dirs \subseteq dirs' /\ cut \subseteq cut'
  /\ DOMAIN derived \subseteq (DOMAIN derived)'
  /\ upgrades' = 0 => upgrades = 0

LEMMA RunIncreases ==
  ASSUME RunTypes, [RunNext]_runVars
  PROVE  Increases
<1> USE DEF world, disk, seen, Increases
<1>1. ASSUME NEW r \in Runs,
             Start(r) \/ Load(r) \/ Existing(r) \/ CopySkips(r) \/ CopyBegins(r) \/ CopyEnds(r)
      PROVE  Increases
  BY <1>1 DEF Start, Load, ReadVocab, ReadRules, ReadHash, Existing, CopySkips, CopyBegins,
     CopyEnds
<1>2. ASSUME NEW r \in Runs, Derive(r) \/ CopyMakesDir(r) \/ OverwriteRun(r) \/ Crash(r)
      PROVE  Increases
  BY <1>2 DEF Derive, CopyMakesDir, OverwriteRun, Crash
<1>3. ASSUME NEW r \in Runs, NEW p \in ChosenPacks, NEW f \in Files, CopyFile(r, p, f)
      PROVE  Increases
  BY <1>3 DEF CopyFile
<1>4. ASSUME NEW r \in Runs, WriteDerived(r) PROVE Increases
  <2>1. derived' = derived \/ derived' = Put(derived, Id(r), run[r].result)
    BY <1>4 DEF WriteDerived
  <2>2. DOMAIN Put(derived, Id(r), run[r].result) = DOMAIN derived \cup {Id(r)}
    BY DEF Put
  <2>3. DOMAIN derived \subseteq (DOMAIN derived)'
    BY <2>1, <2>2
  <2>4. QED
    BY <1>4, <2>3 DEF WriteDerived
<1>5. ASSUME NEW p \in ChosenPacks, NEW f \in Files, Edit(p, f) PROVE Increases
  BY <1>5 DEF Edit
<1>6. CASE Upgrade
  BY <1>6 DEF Upgrade, RunTypes
<1>7. CASE UNCHANGED runVars
  BY <1>7 DEF runVars
<1>8. QED
  BY <1>1, <1>2, <1>3, <1>4, <1>5, <1>6, <1>7 DEF RunNext, Copy

LEMMA DescribesStays ==
  ASSUME Increases, NEW result, NEW id, Describes(result, id)
  PROVE  Describes(result, id)'
  BY DEF Increases, Describes

\* A process that does not take the step.
LEMMA BystanderStays ==
  ASSUME Increases, NEW q \in Runs, run'[q] = run[q], EngineInv(q), HandInv(q), CopyInv(q)
  PROVE  EngineInv(q)' /\ HandInv(q)' /\ CopyInv(q)'
<1>1. /\ Id(q)' = Id(q) /\ \A p : Dest(q, p)' = Dest(q, p)
      /\ \A p : Copies(q, p)' = Copies(q, p)
  BY DEF Id, Dest, Copies
<1>2. HandInv(q)'
  <2>1. run[q].pc \in Copying \cup Writing => Describes(run[q].result, Id(q))'
    BY <1>1, DescribesStays DEF HandInv, Describes, Increases
  <2>2. QED
    BY <1>1, <2>1 DEF HandInv, Increases
<1>3. CopyInv(q)'
  BY <1>1 DEF CopyInv, Increases
<1>4. EngineInv(q)'
  BY DEF EngineInv, Increases
<1>5. QED
  BY <1>2, <1>3, <1>4

LEMMA EngineOwnStep ==
  ASSUME RunTypes, Increases, StoreInv, NEW r \in Runs, EngineInv(r), HandInv(r),
         Acts(r) \/ Crash(r)
  PROVE  EngineInv(r)'
<1>1. run[r].pc \in Loading => run[r].packs # {}
  BY DEF HandInv
<1>2. CASE Start(r)
  BY <1>2, StartActs DEF StoreInv, EngineInv, Increases
<1>3. ASSUME run'[r].engine = run[r].engine PROVE EngineInv(r)'
  BY <1>3 DEF EngineInv, Increases
<1>4. CASE ReadVocab(r)
  BY <1>1, <1>3, <1>4, ReadVocabActs DEF ReadVocab, Step, Loading
<1>5. CASE ReadRules(r)
  BY <1>1, <1>3, <1>5, ReadRulesActs DEF ReadRules, Step, Loading
<1>6. CASE ReadHash(r)
  BY <1>1, <1>3, <1>6, ReadHashActs DEF ReadHash, Step, Loading
<1>7. CASE Existing(r) \/ Derive(r)
  BY <1>3, <1>7, ExistingActs, DeriveActs DEF SameId
<1>8. CASE CopySkips(r) \/ CopyBegins(r) \/ CopyMakesDir(r)
  BY <1>3, <1>8, CopySkipsActs, CopyBeginsActs, CopyMakesDirActs DEF Carries, SameId
<1>9. ASSUME NEW p \in ChosenPacks, NEW f \in Files, CopyFile(r, p, f) PROVE EngineInv(r)'
  BY <1>3, <1>9, CopyFileActs DEF Carries, SameId
<1>10. CASE CopyEnds(r) \/ WriteDerived(r) \/ OverwriteRun(r)
  BY <1>3, <1>10, PersistActs DEF Carries, SameId
<1>11. CASE Crash(r)
  BY <1>11, CrashActs DEF EngineInv
<1>12. QED
  BY <1>2, <1>4, <1>5, <1>6, <1>7, <1>8, <1>9, <1>10, <1>11 DEF Acts, Load, Copy

LEMMA HandOwnStep ==
  ASSUME RunTypes, Increases, StoreInv, NEW r \in Runs, EngineInv(r), HandInv(r),
         Acts(r) \/ Crash(r)
  PROVE  HandInv(r)'
<1> USE DEF Loading, Copying, Writing
<1>1. run[r].pc \in Loading => run[r].packs # {}
  BY DEF HandInv
<1>2. CASE Start(r)
  BY <1>2, StartActs, RuleRunAssumption DEF Moves, HandInv
<1>3. CASE ReadVocab(r)
  BY <1>1, <1>3, ReadVocabActs DEF ReadVocab, Step, Moves, HandInv
<1>4. CASE ReadRules(r)
  BY <1>1, <1>4, ReadRulesActs DEF ReadRules, Step, Moves, HandInv
<1>5. CASE ReadHash(r)
  BY <1>1, <1>5, ReadHashActs DEF ReadHash, Step, Moves, HandInv
<1>6. CASE Existing(r)
  <2>1. /\ run'[r].pc = "write" /\ Id(r)' = Id(r)
        /\ run'[r].result = derived[Id(r)] /\ Id(r) \in DOMAIN derived
    BY <1>6, ExistingActs DEF Moves, SameId, Id
  <2>2. Describes(derived[Id(r)], Id(r))
    BY <2>1 DEF StoreInv
  <2>3. Describes(run[r].result, Id(r))'
    BY <2>1, <2>2 DEF Describes, Increases
  <2>4. QED
    BY <2>1, <2>3 DEF HandInv
<1>7. CASE Derive(r)
  <2> DEFINE d == [text |-> run[r].text, vocab |-> run[r].vocab, engine |-> run[r].engine]
  <2>1. run'[r].pc = "copy" /\ Id(r)' = Id(r) /\ run'[r].result = d
    BY <1>7, DeriveActs DEF Moves, SameId, Id
  <2>2. /\ UNCHANGED <<world, disk, cut, edited>>
        /\ mixed' = IF \A p \in ChosenPacks : run[r].hash[p]["vocab"] = run[r].vocab[p]
                    THEN mixed ELSE mixed \cup {Id(r)}
    BY <1>7 DEF Derive
  <2>3. Id(r).text = run[r].text /\ Id(r).hash = run[r].hash
    BY IdType
  <2>4. d.text = Id(r).text /\ d.vocab = run[r].vocab /\ d.engine = run[r].engine
    BY <2>3
  <2>5. Id(r) \notin mixed' => \A p \in ChosenPacks : d.vocab[p] = Id(r).hash[p]["vocab"]
    BY <2>2, <2>3, <2>4
  <2>6. upgrades' = 0 => d.engine = 0
    BY <2>2, <2>4 DEF world, EngineInv
  <2> HIDE DEF d
  <2>7. Describes(run[r].result, Id(r))'
    BY <2>1, <2>4, <2>5, <2>6 DEF Describes
  <2>8. QED
    BY <2>1, <2>7 DEF HandInv
<1>8. ASSUME Carries(r), run[r].pc \in Copying \cup Writing, run'[r].pc \notin Loading \cup {"tell"}
      PROVE  HandInv(r)'
  <2>1. Id(r)' = Id(r) /\ run'[r].result = run[r].result
    BY <1>8 DEF Carries, SameId, Id
  <2>2. Describes(run[r].result, Id(r))
    BY <1>8 DEF HandInv
  <2>3. Describes(run[r].result, Id(r))'
    BY <2>1, <2>2 DEF Describes, Increases
  <2>4. QED
    BY <1>8, <2>3 DEF HandInv
<1>9. CASE CopySkips(r)
  BY <1>8, <1>9, CopySkipsActs DEF Moves
<1>10. CASE CopyBegins(r)
  BY <1>8, <1>10, CopyBeginsActs DEF Moves
<1>11. CASE CopyMakesDir(r)
  BY <1>8, <1>11, CopyMakesDirActs DEF Moves
<1>12. ASSUME NEW p \in ChosenPacks, NEW f \in Files, CopyFile(r, p, f) PROVE HandInv(r)'
  BY <1>8, <1>12, CopyFileActs DEF Moves
<1>13. CASE CopyEnds(r)
  BY <1>8, <1>13, PersistActs DEF Moves
<1>14. CASE WriteDerived(r)
  <2>1. run'[r].pc = "tell" /\ run[r].pc = "write" /\ Carries(r)
    BY <1>14, PersistActs DEF Moves
  <2>2. Id(r)' = Id(r) /\ run'[r].result = run[r].result
    BY <2>1 DEF Carries, SameId, Id
  <2>3. Describes(run[r].result, Id(r))
    BY <2>1 DEF HandInv
  <2>4. Describes(run[r].result, Id(r))'
    BY <2>2, <2>3 DEF Describes, Increases
  <2>5. Id(r) \in (DOMAIN derived)'
    <3>1. CASE Id(r) \in DOMAIN derived
      BY <3>1 DEF Increases
    <3>2. CASE Id(r) \notin DOMAIN derived
      <4>1. derived' = Put(derived, Id(r), run[r].result)
        BY <1>14, <3>2 DEF WriteDerived
      <4>2. Id(r) \in DOMAIN Put(derived, Id(r), run[r].result)
        BY DEF Put
      <4>3. QED
        BY <4>1, <4>2
    <3>3. QED
      BY <3>1, <3>2
  <2>6. QED
    BY <2>1, <2>2, <2>4, <2>5 DEF HandInv
<1>15. CASE OverwriteRun(r)
  BY <1>15, PersistActs DEF Moves, HandInv
<1>16. CASE Crash(r)
  BY <1>16, CrashActs DEF Moves, HandInv
<1>17. QED
  BY <1>2, <1>3, <1>4, <1>5, <1>6, <1>7, <1>9, <1>10, <1>11, <1>12, <1>13, <1>14, <1>15,
     <1>16 DEF Acts, Load, Copy

-----------------------------------------------------------------------------
(***************************************************************************)
(* What a run has copied.                                                  *)
(***************************************************************************)
\* A step that carries the id on looks for the same directories.
LEMMA SameDest ==
  ASSUME NEW r, SameId(r)
  PROVE  \A p : Dest(r, p)' = Dest(r, p)
  BY DEF SameId, Dest

LEMMA CopyOwnStep ==
  ASSUME RunTypes, Increases, StoreInv, NEW r \in Runs, HandInv(r), CopyInv(r),
         Acts(r) \/ Crash(r)
  PROVE  CopyInv(r)'
<1> USE DEF Loading, Copying, Writing
<1>1. run[r].pc \in Loading => run[r].packs # {}
  BY DEF HandInv
<1>2. run[r].pc \notin {"mkdir", "file"} => run[r].files = {}
  BY DEF CopyInv
<1>3. ASSUME run[r].files = {}, run'[r].files = run[r].files,
             run'[r].pc \in Loading \cup {"look", "done"}
      PROVE  CopyInv(r)'
  BY <1>3 DEF CopyInv
<1>4. CASE Start(r)
  BY <1>2, <1>3, <1>4, StartActs DEF Moves
<1>5. CASE ReadVocab(r)
  BY <1>1, <1>2, <1>3, <1>5, ReadVocabActs DEF ReadVocab, Step, Moves
<1>6. CASE ReadRules(r)
  BY <1>1, <1>2, <1>3, <1>6, ReadRulesActs DEF ReadRules, Step, Moves
<1>7. CASE ReadHash(r)
  BY <1>1, <1>2, <1>3, <1>7, ReadHashActs DEF ReadHash, Step, Moves
<1>8. CASE Existing(r)
  <2>1. /\ run[r].pc = "look" /\ run'[r].pc = "write" /\ SameId(r)
        /\ run'[r].files = run[r].files /\ Id(r) \in DOMAIN derived
    BY <1>8, ExistingActs DEF Moves
  <2>2. \A p \in ChosenPacks : Dest(r, p) \in dirs
    BY <2>1, IdType DEF StoreInv, Dest
  <2>3. \A p \in ChosenPacks : (Dest(r, p) \in dirs)'
    BY <2>1, <2>2, SameDest DEF Increases
  <2>4. QED
    BY <1>2, <2>1, <2>3 DEF CopyInv
<1>9. CASE Derive(r)
  <2>1. /\ run[r].pc = "look" /\ run'[r].pc = "copy" /\ run'[r].packs = ChosenPacks
        /\ run'[r].files = run[r].files
    BY <1>9, DeriveActs DEF Moves
  <2>2. QED
    BY <1>2, <2>1 DEF CopyInv
<1>10. CASE CopySkips(r)
  <2>1. PICK p \in ChosenPacks :
           /\ run[r].pc = "copy" /\ run'[r].pc = "copy" /\ SameId(r)
           /\ Dest(r, p) \in dirs
           /\ run'[r].packs = run[r].packs \ {p} /\ run'[r].files = run[r].files
    BY <1>10, CopySkipsActs DEF Moves, Carries
  <2>2. \A x \in ChosenPacks \ run'[r].packs : Dest(r, x) \in dirs
    BY <2>1 DEF CopyInv
  <2>3. \A x \in ChosenPacks \ run'[r].packs : (Dest(r, x) \in dirs)'
    BY <2>1, <2>2, SameDest DEF Increases
  <2>4. QED
    BY <1>2, <2>1, <2>3 DEF CopyInv
<1>11. CASE CopyBegins(r)
  <2>1. PICK p \in ChosenPacks :
           /\ run[r].pc = "copy" /\ run'[r].pc = "mkdir" /\ SameId(r)
           /\ run'[r].packs = run[r].packs \ {p} /\ run'[r].files = {p} \X Files
    BY <1>11, CopyBeginsActs DEF Moves, Carries
  <2>2. \A x \in ChosenPacks \ run[r].packs : (Dest(r, x) \in dirs)'
    BY <2>1, SameDest DEF CopyInv, Increases
  <2>3. Copies(r, p)'
    <3>1. <<p, "vocab">> \in run'[r].files /\ <<p, "vocab">>[1] = p
      BY <2>1 DEF Files
    <3>2. QED
      BY <3>1 DEF Copies
  <2>4. QED
    BY <2>1, <2>2, <2>3 DEF CopyInv
<1>12. CASE CopyMakesDir(r)
  <2>1. /\ run[r].pc = "mkdir" /\ run'[r].pc = "file" /\ SameId(r)
        /\ run'[r].packs = run[r].packs /\ run'[r].files = run[r].files
    BY <1>12, CopyMakesDirActs DEF Moves, Carries
  <2>2. dirs' = dirs \cup {Dest(r, f[1]) : f \in run[r].files}
    BY <1>12 DEF CopyMakesDir
  <2>3. \A x \in run[r].files : (Dest(r, x[1]) \in dirs)'
    BY <2>1, <2>2, SameDest
  <2>4. \A p \in ChosenPacks \ run[r].packs : (Dest(r, p) \in dirs)'
    BY <2>1, <2>2, SameDest DEF CopyInv, Copies
  <2>5. QED
    BY <2>1, <2>3, <2>4 DEF CopyInv
<1>13. ASSUME NEW p \in ChosenPacks, NEW f \in Files, CopyFile(r, p, f) PROVE CopyInv(r)'
  <2>1. /\ run[r].pc = "file" /\ run'[r].pc \in {"copy", "file"} /\ SameId(r)
        /\ run'[r].pc = "copy" => run'[r].files = {}
        /\ run'[r].packs = run[r].packs /\ run'[r].files \subseteq run[r].files
    BY <1>13, CopyFileActs DEF Moves, Carries
  <2>2. \A x \in run'[r].files : (Dest(r, x[1]) \in dirs)'
    BY <2>1, SameDest DEF CopyInv, Increases
  <2>3. \A x \in ChosenPacks \ run[r].packs : (Dest(r, x) \in dirs)'
    BY <2>1, SameDest DEF CopyInv, Increases
  <2>4. QED
    BY <2>1, <2>2, <2>3 DEF CopyInv
<1>14. CASE CopyEnds(r)
  <2>1. /\ run[r].pc = "copy" /\ run'[r].pc = "write" /\ SameId(r)
        /\ run'[r].files = run[r].files /\ run[r].packs = {}
    BY <1>14, PersistActs DEF Moves, Carries, CopyEnds
  <2>2. \A x \in ChosenPacks : (Dest(r, x) \in dirs)'
    BY <2>1, SameDest DEF CopyInv, Increases
  <2>3. QED
    BY <1>2, <2>1, <2>2 DEF CopyInv
<1>15. CASE WriteDerived(r)
  <2>1. /\ run[r].pc = "write" /\ run'[r].pc = "tell" /\ SameId(r)
        /\ run'[r].files = run[r].files
    BY <1>15, PersistActs DEF Moves, Carries
  <2>2. \A x \in ChosenPacks : (Dest(r, x) \in dirs)'
    BY <2>1, SameDest DEF CopyInv, Increases
  <2>3. QED
    BY <1>2, <2>1, <2>2 DEF CopyInv
<1>16. CASE OverwriteRun(r)
  BY <1>2, <1>3, <1>16, PersistActs DEF Moves
<1>17. CASE Crash(r)
  BY <1>17, CrashActs DEF Moves, CopyInv
<1>18. QED
  BY <1>4, <1>5, <1>6, <1>7, <1>8, <1>9, <1>10, <1>11, <1>12, <1>13, <1>14, <1>15, <1>16,
     <1>17 DEF Acts, Load, Copy

-----------------------------------------------------------------------------
(***************************************************************************)
(* What the store says of a derivation.                                    *)
(***************************************************************************)
\* Where neither fragment is written, the store says what it said.
LEMMA StoreFrame ==
  ASSUME StoreInv, Increases, UNCHANGED <<derived, told>>, upgrades' = 0 => engine' = engine
  PROVE  StoreInv'
<1>1. upgrades' = 0 => engine' = 0
  BY DEF StoreInv, Increases
<1>2. ASSUME NEW id \in DOMAIN derived
      PROVE  Describes(derived[id], id)' /\ \A p \in ChosenPacks : <<p, id.hash[p]>> \in dirs'
  BY <1>2 DEF StoreInv, Increases, Describes
<1>3. ASSUME NEW id \in DOMAIN told
      PROVE  id \in DOMAIN derived /\ Describes(told[id], id)'
  BY <1>3 DEF StoreInv, Increases, Describes
<1>4. QED
  BY <1>1, <1>2, <1>3 DEF StoreInv

LEMMA StoreStep ==
  ASSUME RunTypes, Increases, StoreInv, \A r \in Runs : HandInv(r) /\ CopyInv(r),
         [RunNext]_runVars
  PROVE  StoreInv'
<1> USE DEF world, disk, seen
<1>1. ASSUME NEW r \in Runs,
             Start(r) \/ Load(r) \/ Existing(r) \/ Derive(r) \/ Copy(r) \/ Crash(r)
      PROVE  StoreInv'
  <2>1. UNCHANGED <<derived, told, engine>>
    BY <1>1 DEF Start, Load, ReadVocab, ReadRules, ReadHash, Existing, Derive, Copy, CopySkips,
       CopyBegins, CopyMakesDir, CopyFile, CopyEnds, Crash
  <2>2. QED
    BY <2>1, StoreFrame
<1>2. ASSUME NEW r \in Runs, WriteDerived(r) PROVE StoreInv'
  <2>1. UNCHANGED <<world, dirs, mixed, told>> /\ run[r].pc = "write"
    BY <1>2 DEF WriteDerived, Step
  <2>2. CASE Id(r) \in DOMAIN derived
    BY <1>2, <2>1, <2>2, StoreFrame DEF WriteDerived
  <2>3. CASE Id(r) \notin DOMAIN derived
    <3> DEFINE new == Put(derived, Id(r), run[r].result)
    <3>1. derived' = new
      BY <1>2, <2>3 DEF WriteDerived
    <3>2. /\ DOMAIN new = DOMAIN derived \cup {Id(r)} /\ new[Id(r)] = run[r].result
          /\ \A i \in DOMAIN derived : i # Id(r) => new[i] = derived[i]
      BY DEF Put
    <3> HIDE DEF new
    <3>3. /\ Describes(run[r].result, Id(r))
          /\ \A p \in ChosenPacks : <<p, Id(r).hash[p]>> \in dirs
      BY <2>1, IdType DEF HandInv, CopyInv, Writing, Dest
    <3>4. ASSUME NEW id \in DOMAIN new
          PROVE  Describes(new[id], id) /\ \A p \in ChosenPacks : <<p, id.hash[p]>> \in dirs
      <4>1. CASE id = Id(r)
        BY <3>2, <3>3, <4>1
      <4>2. CASE id # Id(r)
        BY <3>2, <3>4, <4>2 DEF StoreInv
      <4>3. QED
        BY <4>1, <4>2
    <3>5. ASSUME NEW id \in DOMAIN told PROVE id \in DOMAIN new /\ Describes(told[id], id)
      BY <3>2, <3>5 DEF StoreInv
    <3>6. upgrades = 0 => engine = 0
      BY DEF StoreInv
    <3>7. QED
      BY <2>1, <3>1, <3>4, <3>5, <3>6 DEF StoreInv, Describes
  <2>4. QED
    BY <2>2, <2>3
<1>3. ASSUME NEW r \in Runs, OverwriteRun(r) PROVE StoreInv'
  <2> DEFINE new == Put(told, Id(r), run[r].result)
  <2>1. UNCHANGED <<world, dirs, mixed, derived>> /\ run[r].pc = "tell" /\ told' = new
    BY <1>3 DEF OverwriteRun, Step
  <2>2. /\ DOMAIN new = DOMAIN told \cup {Id(r)} /\ new[Id(r)] = run[r].result
        /\ \A i \in DOMAIN told : i # Id(r) => new[i] = told[i]
    BY DEF Put
  <2> HIDE DEF new
  <2>3. Describes(run[r].result, Id(r)) /\ Id(r) \in DOMAIN derived
    BY <2>1 DEF HandInv, Writing
  <2>4. ASSUME NEW id \in DOMAIN new PROVE id \in DOMAIN derived /\ Describes(new[id], id)
    <3>1. CASE id = Id(r)
      BY <2>2, <2>3, <3>1
    <3>2. CASE id # Id(r)
      BY <2>2, <2>4, <3>2 DEF StoreInv
    <3>3. QED
      BY <3>1, <3>2
  <2>5. QED
    BY <2>1, <2>4 DEF StoreInv, Describes
<1>4. ASSUME NEW p \in ChosenPacks, NEW f \in Files, Edit(p, f) PROVE StoreInv'
  BY <1>4, StoreFrame DEF Edit
<1>5. CASE Upgrade
  <2>1. UNCHANGED <<derived, told>> /\ upgrades' # 0
    BY <1>5 DEF Upgrade, RunTypes
  <2>2. QED
    BY <2>1, StoreFrame
<1>6. CASE UNCHANGED runVars
  BY <1>6, StoreFrame DEF runVars
<1>7. QED
  BY <1>1, <1>2, <1>3, <1>4, <1>5, <1>6 DEF RunNext

-----------------------------------------------------------------------------
(***************************************************************************)
(* The directories of the packs.                                           *)
(***************************************************************************)
\* A step that copies nothing and makes no directory, of a process that is not
\* copying.
LEMMA DirsFrame ==
  ASSUME DirsInv, NEW r \in Runs, Others(r), UNCHANGED <<dirs, copies, edited>>,
         cut \subseteq cut', run[r].pc # "file"
  PROVE  DirsInv'
<1>1. ASSUME NEW d \in dirs \ (edited \cup cut'), NEW f \in Files, <<d, f, d[2][f]>> \notin copies
      PROVE  \E q \in Runs : Brings(q, d, f)'
  <2>1. PICK q \in Runs : Brings(q, d, f)
    BY <1>1 DEF DirsInv
  <2>2. q # r
    BY <2>1 DEF Brings
  <2>3. QED
    BY <2>1, <2>2 DEF Others, Brings, Dest
<1>2. QED
  BY <1>1 DEF DirsInv

\* A process that dies copying may tear a copy, of a directory that is then cut.
LEMMA DirsCut ==
  ASSUME DirsInv, NEW r \in Runs, Others(r), Crash(r), run[r].pc = "file"
  PROVE  DirsInv'
<1>1. /\ dirs' = dirs /\ edited' = edited
      /\ cut' = cut \cup {Dest(r, x[1]) : x \in run[r].files}
      /\ \/ copies' = copies
         \/ \E x \in run[r].files :
              copies' = {c \in copies : c[1] # Dest(r, x[1]) \/ c[2] # x[2]}
  BY DEF Crash
<1>2. copies' \subseteq copies /\ \A c \in copies \ copies' : c[1] \in cut'
  BY <1>1
<1>3. \A c \in copies' : c[1] \in edited' \/ c[3] = c[1][2][c[2]]
  BY <1>1, <1>2 DEF DirsInv
<1>4. ASSUME NEW d \in dirs \ (edited \cup cut'), NEW f \in Files
      PROVE  <<d, f, d[2][f]>> \in copies' \/ \E q \in Runs : Brings(q, d, f)'
  <2>1. CASE <<d, f, d[2][f]>> \in copies
    <3>1. <<d, f, d[2][f]>>[1] = d
      OBVIOUS
    <3>2. QED
      BY <1>2, <1>4, <2>1, <3>1
  <2>2. CASE <<d, f, d[2][f]>> \notin copies
    <3>1. PICK q \in Runs : Brings(q, d, f)
      BY <1>1, <1>4, <2>2 DEF DirsInv
    <3>2. q # r
      <4>1. <<d[1], f>>[1] = d[1]
        OBVIOUS
      <4>2. QED
        BY <1>1, <1>4, <3>1, <4>1 DEF Brings
    <3>3. QED
      BY <3>1, <3>2 DEF Others, Brings, Dest
  <2>3. QED
    BY <2>1, <2>2
<1>5. QED
  BY <1>1, <1>3, <1>4 DEF DirsInv

\* The directories a process makes are those of the files it goes on to copy.
LEMMA DirsMade ==
  ASSUME RunTypes, DirsInv, NEW r \in Runs, CopyInv(r), CopyMakesDir(r)
  PROVE  DirsInv'
<1>1. /\ Others(r) /\ SameId(r) /\ run'[r].files = run[r].files
      /\ run[r].pc = "mkdir" /\ run'[r].pc = "file"
      /\ UNCHANGED <<copies, cut, edited>>
      /\ dirs' = dirs \cup {Dest(r, f[1]) : f \in run[r].files}
  BY CopyMakesDirActs DEF Moves, Carries, CopyMakesDir, seen
<1>2. \A x : Dest(r, x)' = Dest(r, x)
  BY <1>1 DEF SameId, Dest
<1>3. PICK p \in ChosenPacks : run[r].files = {p} \X Files
  BY DEF CopyInv, CopyMakesDir, Step
<1>4. ASSUME NEW d \in dirs' \ (edited \cup cut), NEW f \in Files, <<d, f, d[2][f]>> \notin copies
      PROVE  \E q \in Runs : Brings(q, d, f)'
  <2>1. CASE d \in dirs
    <3>1. PICK q \in Runs : Brings(q, d, f)
      BY <1>4, <2>1 DEF DirsInv
    <3>2. q # r
      BY <1>1, <3>1 DEF Brings
    <3>3. QED
      BY <1>1, <3>1, <3>2 DEF Others, Brings, Dest
  <2>2. CASE d \notin dirs
    <3>1. d = Dest(r, p)
      BY <1>1, <1>3, <2>2
    <3>2. d[1] = p
      BY <3>1 DEF Dest
    <3>3. <<d[1], f>> \in run'[r].files
      BY <1>1, <1>3, <3>2
    <3>4. QED
      BY <1>1, <1>2, <3>1, <3>2, <3>3 DEF Brings
  <2>3. QED
    BY <2>1, <2>2
<1>5. \A c \in copies' : c[1] \in edited' \/ c[3] = c[1][2][c[2]]
  BY <1>1 DEF DirsInv
<1>6. QED
  BY <1>1, <1>4, <1>5 DEF DirsInv

\* A copied file is the one the name of its directory hashes, or the
\* directory met an edit.
LEMMA DirsCopied ==
  ASSUME RunTypes, DirsInv, NEW r \in Runs, NEW p \in ChosenPacks, NEW f \in Files,
         CopyFile(r, p, f)
  PROVE  DirsInv'
<1> DEFINE d0 == Dest(r, p)
           c0 == <<d0, f, source[p][f]>>
<1>1. /\ Others(r) /\ SameId(r) /\ run'[r].files = run[r].files \ {<<p, f>>}
      /\ run'[r].pc \in {"copy", "file"} /\ (run'[r].pc = "copy" => run'[r].files = {})
  BY CopyFileActs DEF Moves, Carries
<1>2. /\ copies' = {c \in copies : c[1] # d0 \/ c[2] # f} \cup {c0}
      /\ edited \subseteq edited' /\ cut' = cut
      /\ source[p][f] = run[r].hash[p][f] \/ d0 \in edited'
      /\ dirs' = dirs
  BY DEF CopyFile
<1>3. \A x : Dest(r, x)' = Dest(r, x)
  BY <1>1 DEF SameId, Dest
<1>4. d0[1] = p /\ d0[2][f] = run[r].hash[p][f]
  BY DEF Dest
<1>5. c0[1] = d0 /\ c0[2] = f /\ c0[3] = source[p][f]
  OBVIOUS
<1>6. d0 \in edited' \/ c0 = <<d0, f, d0[2][f]>>
  BY <1>2, <1>4
<1> HIDE DEF d0, c0
<1>7. ASSUME NEW c \in copies' PROVE c[1] \in edited' \/ c[3] = c[1][2][c[2]]
  <2>1. CASE c = c0
    BY <1>2, <1>4, <1>5, <2>1
  <2>2. CASE c # c0
    BY <1>2, <1>7, <2>2 DEF DirsInv
  <2>3. QED
    BY <2>1, <2>2
<1>8. ASSUME NEW d \in dirs \ (edited' \cup cut), NEW g \in Files
      PROVE  <<d, g, d[2][g]>> \in copies' \/ \E q \in Runs : Brings(q, d, g)'
  <2>1. CASE d = d0 /\ g = f
    BY <1>2, <1>6, <2>1
  <2>2. CASE ~ (d = d0 /\ g = f) /\ <<d, g, d[2][g]>> \in copies
    <3>1. <<d, g, d[2][g]>>[1] = d /\ <<d, g, d[2][g]>>[2] = g
      OBVIOUS
    <3>2. QED
      BY <1>2, <2>2, <3>1
  <2>3. CASE ~ (d = d0 /\ g = f) /\ <<d, g, d[2][g]>> \notin copies
    <3>1. PICK q \in Runs : Brings(q, d, g)
      BY <1>2, <1>8, <2>3 DEF DirsInv
    <3>2. CASE q = r
      <4>1. <<d[1], g>> # <<p, f>>
        BY <2>3, <3>1, <3>2 DEF d0, Brings
      <4>2. <<d[1], g>> \in run'[r].files /\ Dest(r, d[1]) = d
        BY <1>1, <3>1, <3>2, <4>1 DEF Brings
      <4>3. QED
        BY <1>1, <1>3, <4>2 DEF Brings
    <3>3. CASE q # r
      BY <1>1, <3>1, <3>3 DEF Others, Brings, Dest
    <3>4. QED
      BY <3>2, <3>3
  <2>4. QED
    BY <2>1, <2>2, <2>3
<1>9. QED
  BY <1>2, <1>7, <1>8 DEF DirsInv

LEMMA DirsStep ==
  ASSUME RunTypes, DirsInv, Increases, \A r \in Runs : HandInv(r) /\ CopyInv(r),
         [RunNext]_runVars
  PROVE  DirsInv'
<1> USE DEF world, disk, seen
<1>1. ASSUME NEW r \in Runs,
             \/ Start(r) \/ Load(r) \/ Existing(r) \/ Derive(r) \/ CopySkips(r) \/ CopyBegins(r)
             \/ CopyEnds(r) \/ WriteDerived(r) \/ OverwriteRun(r)
      PROVE  DirsInv'
  <2>1. UNCHANGED <<dirs, copies, cut, edited>> /\ run[r].pc # "file"
    BY <1>1 DEF Start, Load, ReadVocab, ReadRules, ReadHash, Existing, Derive, CopySkips,
       CopyBegins, CopyEnds, WriteDerived, OverwriteRun, Step
  <2>2. Others(r)
    BY <1>1, RunStateStays DEF Acts, Copy
  <2>3. QED
    BY <2>1, <2>2, DirsFrame
<1>2. ASSUME NEW r \in Runs, Crash(r) PROVE DirsInv'
  <2>1. Others(r)
    BY <1>2, RunStateStays
  <2>2. CASE run[r].pc = "file"
    BY <1>2, <2>1, <2>2, DirsCut
  <2>3. CASE run[r].pc # "file"
    BY <1>2, <2>1, <2>3, DirsFrame DEF Crash
  <2>4. QED
    BY <2>2, <2>3
<1>3. ASSUME NEW r \in Runs, CopyMakesDir(r) PROVE DirsInv'
  BY <1>3, DirsMade
<1>4. ASSUME NEW r \in Runs, NEW p \in ChosenPacks, NEW f \in Files, CopyFile(r, p, f)
      PROVE  DirsInv'
  BY <1>4, DirsCopied
<1>5. ASSUME UNCHANGED <<disk, run, seen>> PROVE DirsInv'
  BY <1>5 DEF DirsInv, Brings, Dest
<1>6. ASSUME NEW p \in ChosenPacks, NEW f \in Files, Edit(p, f) PROVE DirsInv'
  BY <1>5, <1>6 DEF Edit
<1>7. CASE Upgrade
  BY <1>5, <1>7 DEF Upgrade
<1>8. CASE UNCHANGED runVars
  BY <1>5, <1>8 DEF runVars
<1>9. QED
  BY <1>1, <1>2, <1>3, <1>4, <1>6, <1>7, <1>8 DEF RunNext, Copy

-----------------------------------------------------------------------------
(***************************************************************************)
(* The invariant is one, and what follows from it.                         *)
(***************************************************************************)
LEMMA RunInvInit == RunInit => RunInv
<1> SUFFICES ASSUME RunInit PROVE RunInv
  OBVIOUS
<1>1. RunTypes
  BY TypesInit
<1>2. DOMAIN derived = {} /\ DOMAIN told = {} /\ dirs = {} /\ copies = {} /\ engine = 0
  BY DEF RunInit
<1>3. StoreInv /\ DirsInv
  BY <1>2 DEF StoreInv, DirsInv
<1>4. ASSUME NEW r \in Runs PROVE EngineInv(r) /\ HandInv(r) /\ CopyInv(r)
  <2>1. run[r].pc = "idle" /\ run[r].files = {} /\ run[r].engine = 0
    BY DEF RunInit, Idle
  <2>2. QED
    BY <2>1 DEF EngineInv, HandInv, CopyInv, Loading, Copying, Writing
<1>5. QED
  BY <1>1, <1>3, <1>4 DEF RunInv

LEMMA RunInvStep == RunInv /\ [RunNext]_runVars => RunInv'
<1> SUFFICES ASSUME RunInv, [RunNext]_runVars PROVE RunInv'
  OBVIOUS
<1>1. RunTypes /\ StoreInv /\ DirsInv /\ \A r \in Runs : EngineInv(r) /\ HandInv(r) /\ CopyInv(r)
  BY DEF RunInv
<1>2. Increases
  BY <1>1, RunIncreases
<1>3. RunTypes' /\ DirsInv'
  BY <1>1, <1>2, TypesStep, DirsStep
<1>4. StoreInv'
  BY <1>1, <1>2, StoreStep
<1>5. ASSUME NEW r \in Runs, Acts(r) \/ Crash(r)
      PROVE  \A q \in Runs : EngineInv(q)' /\ HandInv(q)' /\ CopyInv(q)'
  <2>1. EngineInv(r)' /\ HandInv(r)'
    BY <1>1, <1>2, <1>5, EngineOwnStep, HandOwnStep
  <2>2. CopyInv(r)'
    BY <1>1, <1>2, <1>5, CopyOwnStep
  <2>3. Others(r)
    BY <1>1, <1>5, RunStateStays
  <2>4. ASSUME NEW q \in Runs, q # r PROVE EngineInv(q)' /\ HandInv(q)' /\ CopyInv(q)'
    BY <1>1, <1>2, <2>3, <2>4, BystanderStays DEF Others
  <2>5. QED
    BY <2>1, <2>2, <2>4
<1>6. ASSUME UNCHANGED run PROVE \A q \in Runs : EngineInv(q)' /\ HandInv(q)' /\ CopyInv(q)'
  BY <1>1, <1>2, <1>6, BystanderStays
<1>7. \A q \in Runs : EngineInv(q)' /\ HandInv(q)' /\ CopyInv(q)'
  BY <1>5, <1>6 DEF RunNext, Acts, Edit, Upgrade, runVars
<1>8. QED
  BY <1>3, <1>4, <1>7 DEF RunInv

LEMMA RunInvHolds == RunSpec => []RunInv
  BY RunInvInit, RunInvStep, PTL DEF RunSpec

\* A derived fragment was derived with the rules its id hashes, and with the
\* vocabulary its id hashes unless that was edited between the two readings
\* of Pack::load.
THEOREM RulesAreOfTheId == RunSpec => []DerivedOfItsId
<1>1. RunInv => DerivedOfItsId
  BY DEF RunInv, StoreInv, Describes, DerivedOfItsId
<1>2. QED
  BY <1>1, RunInvHolds, PTL

LEMMA KeptByInv == RunInv => PacksAreKept
<1> SUFFICES ASSUME RunInv PROVE PacksAreKept
  OBVIOUS
<1>1. RunTypes /\ StoreInv /\ DirsInv
  BY DEF RunInv
<1>2. \A id \in DOMAIN derived, p \in ChosenPacks : <<p, id.hash[p]>> \in dirs
  BY <1>1 DEF StoreInv
<1>3. \A c \in copies : c[1] \notin edited => c[3] = c[1][2][c[2]]
  BY <1>1 DEF DirsInv
<1>4. ASSUME NEW d \in dirs \ (edited \cup cut),
             \A r \in Runs :
               run[r].pc = "file" => d \notin {Dest(r, x[1]) : x \in run[r].files},
             NEW f \in Files
      PROVE  <<d, f, d[2][f]>> \in copies
  <2>1. ASSUME NEW r \in Runs PROVE ~ Brings(r, d, f)
    <3>1. <<d[1], f>>[1] = d[1]
      OBVIOUS
    <3>2. QED
      BY <1>4, <3>1 DEF Brings
  <2>2. QED
    BY <1>1, <2>1 DEF DirsInv
<1>5. QED
  BY <1>2, <1>3, <1>4 DEF PacksAreKept

\* The packs a fragment was derived with are under store/packs (copy_to_store
\* before persist), whatever overlaps and dies.  A whole copy of a file is the
\* file the directory's name hashes, also where a process died, but for edits
\* between the hash and the copy; and no file is missing, but where a process
\* is copying or has died copying, which copy_to_store never mends.
THEOREM PacksStay == RunSpec => []PacksAreKept
  BY RunInvHolds, KeptByInv, PTL

LEMMA ToldByInv == RunInv => ToldAsDerived
<1> SUFFICES ASSUME RunInv, NEW id \in DOMAIN told
             PROVE  /\ id \in DOMAIN derived
                    /\ told[id].text = derived[id].text
                    /\ id \notin mixed => told[id].vocab = derived[id].vocab
                    /\ upgrades = 0 => told[id].engine = derived[id].engine
  BY DEF ToldAsDerived
<1>1. RunTypes /\ StoreInv
  BY DEF RunInv
<1>2. id \in DOMAIN derived /\ Describes(told[id], id) /\ Describes(derived[id], id)
  BY <1>1 DEF StoreInv
<1>3. told[id] \in Results /\ derived[id] \in Results
  BY <1>1, <1>2 DEF RunTypes
<1>4. ASSUME id \notin mixed PROVE told[id].vocab = derived[id].vocab
  <2>1. \A p \in ChosenPacks : told[id].vocab[p] = derived[id].vocab[p]
    BY <1>2, <1>4 DEF Describes
  <2>2. told[id].vocab \in Versions /\ derived[id].vocab \in Versions
    BY <1>3 DEF Results
  <2>3. QED
    BY <2>1, <2>2 DEF Versions
<1>5. QED
  BY <1>2, <1>4 DEF Describes

\* A run fragment has its derived fragment beside it, derived with the same
\* rules, though persist writes the one over and leaves the other
\* (Store::overwrite, Store::write): always so.  With the same vocabulary it is
\* when no load under that id met an edit, and by the same engine when the tool
\* was never upgraded: neither is in the identity as it was used.
THEOREM RunFragmentIsTrue == RunSpec => []ToldAsDerived
  BY RunInvHolds, ToldByInv, PTL

-----------------------------------------------------------------------------
(***************************************************************************)
(* The names of nulls.                                                     *)
(***************************************************************************)
NullTypes == triples \subseteq Triples /\ (NullsNamed => canon = Canon(triples))

LEMMA NullTypesHold == NullSpec => []NullTypes
<1>1. NullInit => NullTypes
  <2>1. ASSUME NEW f \in [1 .. MaxTriples -> Triples] PROVE Range(f) \subseteq Triples
    BY DEF Range
  <2>2. QED
    BY <2>1 DEF NullInit, NullTypes, NullsNamed
<1>2. NullTypes /\ [NullNext]_nullVars => NullTypes'
  BY DEF NullTypes, NullsNamed, NullNext, Canonicalize, nullVars
<1>3. QED
  BY <1>1, <1>2, PTL DEF NullSpec

\* Two nulls that get one name are in triples that differ, beside the two, in
\* nulls only: a line holds all of a triple but which nulls are in it.
LEMMA MergedBySig ==
  ASSUME NEW T \in SUBSET Triples, Blank \notin Iris, NEW n \in Nulls, NEW m \in Nulls,
         Sig(n, T) = Sig(m, T), NEW tr \in T
  PROVE  /\ tr.s = n => \E x \in T : x.s = m /\ x.p = tr.p /\ Alike(x.o, tr.o)
         /\ tr.o = n => \E x \in T : x.o = m /\ x.p = tr.p /\ Alike(x.s, tr.s)
<1>1. ASSUME NEW x \in T, Line(x) = Line(tr)
      PROVE  x.p = tr.p /\ Alike(x.s, tr.s) /\ Alike(x.o, tr.o)
  <2>1. x.p = tr.p /\ Blot(x.s) = Blot(tr.s) /\ Blot(x.o) = Blot(tr.o)
    BY <1>1 DEF Line
  <2>2. x.s \in Terms /\ x.o \in Terms /\ tr.s \in Terms /\ tr.o \in Terms
    BY DEF Triples
  <2>3. \A t, u \in Terms : Blot(t) = Blot(u) => Alike(t, u)
    BY DEF Terms, Blot, Alike
  <2>4. QED
    BY <2>1, <2>2, <2>3
<1>2. ASSUME tr.s = n PROVE \E x \in T : x.s = m /\ x.p = tr.p /\ Alike(x.o, tr.o)
  <2>1. <<"S", Line(tr)>> \in Sig(m, T)
    BY <1>2 DEF Sig
  <2>2. PICK x \in T : x.s = m /\ Line(x) = Line(tr)
    BY <2>1 DEF Sig
  <2>3. QED
    BY <1>1, <2>2
<1>3. ASSUME tr.o = n PROVE \E x \in T : x.o = m /\ x.p = tr.p /\ Alike(x.s, tr.s)
  <2>1. <<"O", Line(tr)>> \in Sig(m, T)
    BY <1>3 DEF Sig
  <2>2. PICK x \in T : x.o = m /\ Line(x) = Line(tr)
    BY <2>1 DEF Sig
  <2>3. QED
    BY <1>1, <2>2
<1>4. QED
  BY <1>2, <1>3

\* canonicalize_nulls makes one node of two nulls only when they are in triples
\* that differ, beside the two, in nulls only: never of two that an IRI, a
\* predicate or a place in a triple tells apart, in any graph over any terms.
THEOREM TheSameAreMerged == NullSpec => []MergesOnlyTheSame
<1>1. ASSUME NullTypes PROVE MergesOnlyTheSame
  <2>1. ASSUME NEW n \in Nulls, NEW m \in Nulls, NullIri(n, triples) = NullIri(m, triples)
        PROVE  Sig(n, triples) = Sig(m, triples)
    BY <2>1 DEF NullIri
  <2>2. QED
    BY <1>1, <2>1, MergedBySig, NullAssumption DEF NullTypes, MergesOnlyTheSame
<1>2. QED
  BY <1>1, NullTypesHold, PTL

\* A triple with its nulls called otherwise, and a term.
TermOf(pi, t) == IF t \in Nulls THEN pi[t] ELSE t
TripleOf(pi, tr) == [s |-> TermOf(pi, tr.s), p |-> tr.p, o |-> TermOf(pi, tr.o)]

LEMMA TermOfTerm ==
  ASSUME NEW pi \in Bijection(Nulls, Nulls), NEW t, NEW u
  PROVE  /\ TermOf(pi, t) \in Nulls <=> t \in Nulls
         /\ t \notin Nulls => TermOf(pi, t) = t
         /\ Blot(TermOf(pi, t)) = Blot(t)
         /\ TermOf(pi, t) = TermOf(pi, u) => t = u
<1>1. pi \in [Nulls -> Nulls] /\ \A a, b \in Nulls : pi[a] = pi[b] => a = b
  BY DEF Bijection, Injection, IsInjective
<1>2. QED
  BY <1>1 DEF TermOf, Blot

\* A null has the lines it had before it was called otherwise.
LEMMA SigOfRelabelled ==
  ASSUME NEW pi \in Bijection(Nulls, Nulls), NEW T \in SUBSET Triples, NEW n \in Nulls
  PROVE  Sig(TermOf(pi, n), Relabel(pi, T)) = Sig(n, T)
<1>1. Relabel(pi, T) = {TripleOf(pi, tr) : tr \in T}
  BY DEF Relabel, TripleOf, TermOf
<1>2. \A tr : Line(TripleOf(pi, tr)) = Line(tr)
  BY TermOfTerm DEF Line, TripleOf
<1>3. \A tr : /\ TripleOf(pi, tr).s = TermOf(pi, n) <=> tr.s = n
              /\ TripleOf(pi, tr).o = TermOf(pi, n) <=> tr.o = n
  BY TermOfTerm DEF TripleOf
<1>4. {<<"S", Line(x)>> : x \in {y \in Relabel(pi, T) : y.s = TermOf(pi, n)}}
        = {<<"S", Line(tr)>> : tr \in {x \in T : x.s = n}}
  BY <1>1, <1>2, <1>3
<1>5. {<<"O", Line(x)>> : x \in {y \in Relabel(pi, T) : y.o = TermOf(pi, n)}}
        = {<<"O", Line(tr)>> : tr \in {x \in T : x.o = n}}
  BY <1>1, <1>2, <1>3
<1>6. QED
  BY <1>4, <1>5 DEF Sig

LEMMA CanonOfRelabelled ==
  ASSUME NEW pi \in Bijection(Nulls, Nulls), NEW T \in SUBSET Triples
  PROVE  Canon(Relabel(pi, T)) = Canon(T)
<1> DEFINE R == Relabel(pi, T)
           named(tr, S) == [s |-> NullIri(tr.s, S), p |-> tr.p, o |-> NullIri(tr.o, S)]
<1>1. R = {TripleOf(pi, tr) : tr \in T}
  BY DEF Relabel, TripleOf, TermOf
<1>2. ASSUME NEW t PROVE NullIri(TermOf(pi, t), R) = NullIri(t, T)
  BY TermOfTerm, SigOfRelabelled DEF NullIri
<1>3. Canon(R) = {named(x, R) : x \in R} /\ Canon(T) = {named(tr, T) : tr \in T}
  BY DEF Canon
<1> HIDE DEF R
<1>4. \A tr : named(TripleOf(pi, tr), R) = named(tr, T)
  BY <1>2 DEF TripleOf
<1> HIDE DEF named
<1>5. {named(x, R) : x \in R} = {named(tr, T) : tr \in T}
  BY <1>1, <1>4
<1>6. QED
  BY <1>3, <1>5 DEF R

\* canonicalize_nulls gives the same graph whatever labels Nemo gave the
\* nulls: the derived fragment is a function of what was derived.
THEOREM NamesAreDeterministic == NullSpec => []LabelsDoNotMatter
<1>1. NullTypes => LabelsDoNotMatter
  BY CanonOfRelabelled DEF NullTypes, LabelsDoNotMatter
<1>2. QED
  BY <1>1, NullTypesHold, PTL


-----------------------------------------------------------------------------
(***************************************************************************)
(* Packs.  LoadOrder is not inductive: that a pack which is appended has   *)
(* its dependencies before it follows from what its frame on the stack of  *)
(* visits has left, and that it is not appended twice from its name being  *)
(* on the stack once.  That they are all the packs the selection needs,    *)
(* and that a refusal has its reason, follows from what the frames have    *)
(* asked for.                                                              *)
(***************************************************************************)

\* A name, and what may be left of the dependencies of one.
AnyName == {0} \cup DOMAIN all
AnyDeps == SUBSET (selected \cup UNION {all[n].deps : n \in DOMAIN all})

\* The stack of visits: the loop over the selection at the bottom, then open
\* visits of distinct names, each with the dependencies it has returned from
\* in done.
StackInv ==
  /\ stack \in Seq([name : AnyName, deps : AnyDeps])
  /\ Len(stack) >= 1
  /\ \A i \in 2 .. Len(stack) :
       /\ stack[i].name \in visiting \cap DOMAIN all
       /\ all[stack[i].name].deps \ stack[i].deps \subseteq done
  /\ \A i, j \in 2 .. Len(stack) : stack[i].name = stack[j].name => i = j

\* What is done is what is in order, and nothing of it is open.
OrderInv ==
  /\ outcome \in Outcomes
  /\ order \in Seq(DOMAIN all)
  /\ done = Range(order)
  /\ done \cap visiting = {}

Inv == OrderInv /\ StackInv /\ LoadOrder

-----------------------------------------------------------------------------
\* What appending to a sequence does to its range.
LEMMA RangeOfAppend ==
  ASSUME NEW S, NEW s \in Seq(S), NEW e \in S
  PROVE  Range(Append(s, e)) = Range(s) \cup {e}
<1> DEFINE t == Append(s, e)
<1>1. /\ Len(t) = Len(s) + 1 /\ DOMAIN t = 1 .. Len(s) + 1
      /\ t[Len(s) + 1] = e
      /\ \A i \in 1 .. Len(s) : t[i] = s[i]
  OBVIOUS
<1>2. DOMAIN s = 1 .. Len(s) /\ Len(s) \in Nat
  OBVIOUS
<1>3. ASSUME NEW x \in Range(t) PROVE x \in Range(s) \cup {e}
  <2>1. PICK i \in 1 .. Len(s) + 1 : x = t[i]
    BY <1>1 DEF Range
  <2> QED BY <2>1, <1>1, <1>2 DEF Range
<1>4. ASSUME NEW x \in Range(s) PROVE x \in Range(t)
  <2>1. PICK i \in 1 .. Len(s) : x = s[i]
    BY <1>2 DEF Range
  <2>2. i \in DOMAIN t /\ x = t[i]
    BY <2>1, <1>1, <1>2
  <2> HIDE DEF t
  <2> QED BY <2>2 DEF Range
<1>5. e \in Range(t)
  <2>1. Len(s) + 1 \in DOMAIN t /\ t[Len(s) + 1] = e
    BY <1>1, <1>2
  <2> HIDE DEF t
  <2> QED BY <2>1 DEF Range
<1> QED BY <1>3, <1>4, <1>5

\* What an update of one element of a sequence does.
LEMMA UpdateAt ==
  ASSUME NEW S, NEW s \in Seq(S), NEW i \in 1 .. Len(s), NEW e \in S
  PROVE  /\ [s EXCEPT ![i] = e] \in Seq(S)
         /\ Len([s EXCEPT ![i] = e]) = Len(s)
         /\ \A k \in 1 .. Len(s) :
              [s EXCEPT ![i] = e][k] = IF k = i THEN e ELSE s[k]
OBVIOUS

\* A frame of visit, and what taking a name from its dependencies leaves.
LEMMA FrameWithout ==
  ASSUME NEW f \in [name : AnyName, deps : AnyDeps], NEW n
  PROVE  /\ [f EXCEPT !.deps = f.deps \ {n}] \in [name : AnyName, deps : AnyDeps]
         /\ [f EXCEPT !.deps = f.deps \ {n}].name = f.name
         /\ [f EXCEPT !.deps = f.deps \ {n}].deps = f.deps \ {n}
<1> DEFINE N == AnyName
           U == selected \cup UNION {all[m].deps : m \in DOMAIN all}
<1>1. AnyDeps = SUBSET U
  BY DEF AnyDeps
<1> HIDE DEF N, U
<1> QED BY <1>1

\* The frame at the top of a stack of visits without one of its dependencies.
Popped(s, n) == [s EXCEPT ![Len(s)].deps = @ \ {n}]

LEMMA PoppedFrom ==
  ASSUME NEW s \in Seq([name : AnyName, deps : AnyDeps]), Len(s) >= 1, NEW n
  PROVE  /\ Popped(s, n) \in Seq([name : AnyName, deps : AnyDeps])
         /\ Len(Popped(s, n)) = Len(s)
         /\ \A i \in 1 .. Len(s) :
              /\ Popped(s, n)[i].name = s[i].name
              /\ i = Len(s) => Popped(s, n)[i].deps = s[i].deps \ {n}
              /\ i # Len(s) => Popped(s, n)[i] = s[i]
<1> DEFINE F == [name : AnyName, deps : AnyDeps]
           l == Len(s)
           e == [s[l] EXCEPT !.deps = s[l].deps \ {n}]
           t == [s EXCEPT ![l] = e]
<1>1. l \in 1 .. Len(s) /\ l \in Nat
  OBVIOUS
<1>2. s[l] \in F
  <2>1. s \in Seq(F)
    OBVIOUS
  <2> HIDE DEF F
  <2> QED BY <2>1, <1>1
<1>3. e \in F /\ e.name = s[l].name /\ e.deps = s[l].deps \ {n}
  BY <1>1, <1>2, FrameWithout
<1>4. Popped(s, n) = t
  BY DEF Popped
<1> HIDE DEF F, e
<1>5. /\ t \in Seq(F) /\ Len(t) = l
      /\ \A k \in 1 .. l : t[k] = IF k = l THEN e ELSE s[k]
  <2>1. s \in Seq(F)
    BY DEF F
  <2> QED BY <2>1, <1>1, <1>3, UpdateAt
<1> HIDE DEF t, l
<1>6. \A i \in 1 .. l : /\ t[i].name = s[i].name
                        /\ i = l => t[i].deps = s[i].deps \ {n}
                        /\ i # l => t[i] = s[i]
  BY <1>3, <1>5
<1> QED BY <1>4, <1>5, <1>6 DEF F, l

-----------------------------------------------------------------------------
LEMMA InitInv == Init => Inv
<1> SUFFICES ASSUME Init PROVE Inv
  OBVIOUS
<1>1. OrderInv
  BY DEF Init, OrderInv, Outcomes, Range
<1>2. stack = <<[name |-> 0, deps |-> selected]>>
  BY DEF Init, Frame
<1>3. [name |-> 0, deps |-> selected] \in [name : AnyName, deps : AnyDeps]
  BY DEF AnyName, AnyDeps
<1>4. StackInv
  BY <1>2, <1>3 DEF StackInv
<1>5. LoadOrder
  BY DEF Init, LoadOrder
<1> QED BY <1>1, <1>4, <1>5 DEF Inv

\* A step that leaves the order, the visits and the packs alone.
LEMMA OtherVariables ==
  ASSUME Inv, UNCHANGED <<selected, all, stack, done, visiting, order>>,
         outcome' \in Outcomes
  PROVE  Inv'
BY DEF Inv, OrderInv, StackInv, LoadOrder, AnyName, AnyDeps

\* The frame at the top is one of the stack's.
LEMMA TopFrame ==
  ASSUME StackInv
  PROVE  /\ Len(stack) \in Nat /\ Len(stack) >= 1
         /\ Top \in [name : AnyName, deps : AnyDeps]
         /\ Len(stack) > 1 => Top.name \in visiting \cap DOMAIN all
<1> DEFINE F == [name : AnyName, deps : AnyDeps]
<1>1. stack \in Seq(F) /\ Len(stack) >= 1
  BY DEF StackInv
<1> HIDE DEF F
<1>2. Len(stack) \in Nat /\ Len(stack) \in 1 .. Len(stack) /\ stack[Len(stack)] \in F
  BY <1>1
<1>3. Len(stack) > 1 => Len(stack) \in 2 .. Len(stack)
  BY <1>2
<1> QED BY <1>1, <1>2, <1>3 DEF F, Top, StackInv

\* The stack after a step of visit: a name is taken from what the frame at the
\* top has left, a frame is put on top, or the top is taken off and its name
\* from what the frame below has left.
LEMMA VisitDoneStack ==
  ASSUME StackInv, NEW n, VisitDone(n)
  PROVE  /\ stack' \in Seq([name : AnyName, deps : AnyDeps])
         /\ Len(stack') = Len(stack)
         /\ \A i \in 1 .. Len(stack) :
              /\ stack'[i].name = stack[i].name
              /\ i = Len(stack) => stack'[i].deps = stack[i].deps \ {n}
              /\ i # Len(stack) => stack'[i] = stack[i]
<1>1. stack' = Popped(stack, n)
  BY DEF VisitDone, TopWithout, Popped
<1>2. stack \in Seq([name : AnyName, deps : AnyDeps]) /\ Len(stack) >= 1
  BY DEF StackInv
<1>3. /\ Popped(stack, n) \in Seq([name : AnyName, deps : AnyDeps])
      /\ Len(Popped(stack, n)) = Len(stack)
      /\ \A i \in 1 .. Len(stack) :
           /\ Popped(stack, n)[i].name = stack[i].name
           /\ i = Len(stack) => Popped(stack, n)[i].deps = stack[i].deps \ {n}
           /\ i # Len(stack) => Popped(stack, n)[i] = stack[i]
  BY <1>2, PoppedFrom
<1> QED BY <1>1, <1>3

LEMMA EnterStack ==
  ASSUME StackInv, NEW n, Enter(n)
  PROVE  /\ Frame(n, all[n].deps) \in [name : AnyName, deps : AnyDeps]
         /\ stack' \in Seq([name : AnyName, deps : AnyDeps])
         /\ Len(stack') = Len(stack) + 1
         /\ stack'[Len(stack) + 1] = Frame(n, all[n].deps)
         /\ \A i \in 1 .. Len(stack) : stack'[i] = stack[i]
<1> DEFINE f == Frame(n, all[n].deps)
           F == [name : AnyName, deps : AnyDeps]
<1>1. n \in DOMAIN all /\ stack' = Append(stack, f)
  BY DEF Enter
<1>2. f \in F
  BY <1>1 DEF Frame, AnyName, AnyDeps
<1>3. stack \in Seq(F)
  BY DEF StackInv
<1> HIDE DEF f, F
<1>4. /\ stack' \in Seq(F) /\ Len(stack') = Len(stack) + 1
      /\ stack'[Len(stack) + 1] = f
      /\ \A i \in 1 .. Len(stack) : stack'[i] = stack[i]
  BY <1>1, <1>2, <1>3
<1> QED BY <1>2, <1>4 DEF f, F

LEMMA LeaveStack ==
  ASSUME StackInv, Leave
  PROVE  /\ Len(stack) \in Nat /\ Len(stack) > 1
         /\ stack' \in Seq([name : AnyName, deps : AnyDeps])
         /\ Len(stack') = Len(stack) - 1
         /\ \A i \in 1 .. Len(stack) - 1 :
              /\ stack'[i].name = stack[i].name
              /\ i = Len(stack) - 1 => stack'[i].deps = stack[i].deps \ {Top.name}
              /\ i # Len(stack) - 1 => stack'[i] = stack[i]
<1> DEFINE F == [name : AnyName, deps : AnyDeps]
           l == Len(stack)
           n == Top.name
<1>1. l > 1 /\ stack' = Popped(Caller, n)
  BY DEF Leave, Popped
<1>2. l \in Nat /\ stack \in Seq(F)
  BY TopFrame DEF StackInv
<1>3. /\ Caller \in Seq(F) /\ Len(Caller) = l - 1
      /\ \A i \in 1 .. l - 1 : Caller[i] = stack[i]
  <2> HIDE DEF F
  <2> QED BY <1>1, <1>2 DEF Caller
<1>4. Len(Caller) >= 1
  BY <1>1, <1>2, <1>3
<1> HIDE DEF n
<1>5. /\ Popped(Caller, n) \in Seq(F) /\ Len(Popped(Caller, n)) = Len(Caller)
      /\ \A i \in 1 .. Len(Caller) :
           /\ Popped(Caller, n)[i].name = Caller[i].name
           /\ i = Len(Caller) => Popped(Caller, n)[i].deps = Caller[i].deps \ {n}
           /\ i # Len(Caller) => Popped(Caller, n)[i] = Caller[i]
  BY <1>3, <1>4, PoppedFrom
<1> HIDE DEF F
<1>6. /\ stack' \in Seq(F) /\ Len(stack') = l - 1
      /\ \A i \in 1 .. l - 1 :
           /\ stack'[i].name = stack[i].name
           /\ i = l - 1 => stack'[i].deps = stack[i].deps \ {n}
           /\ i # l - 1 => stack'[i] = stack[i]
  BY <1>1, <1>3, <1>5
<1> QED BY <1>1, <1>2, <1>6 DEF F, n

LEMMA VisitDoneInv ==
  ASSUME Inv, NEW n, VisitDone(n)
  PROVE  Inv'
<1> USE DEF Inv
<1>1. /\ n \in done /\ stack' = TopWithout(n)
      /\ UNCHANGED <<selected, all, done, visiting, order, lines, prefixes, outcome>>
  BY DEF VisitDone
<1>2. OrderInv' /\ LoadOrder' /\ AnyName' = AnyName /\ AnyDeps' = AnyDeps
  BY <1>1 DEF OrderInv, LoadOrder, AnyName, AnyDeps
<1>3. /\ stack' \in Seq([name : AnyName, deps : AnyDeps])
      /\ Len(stack') = Len(stack)
      /\ \A i \in 1 .. Len(stack) :
           /\ stack'[i].name = stack[i].name
           /\ i = Len(stack) => stack'[i].deps = stack[i].deps \ {n}
           /\ i # Len(stack) => stack'[i] = stack[i]
  BY VisitDoneStack
<1>4. ASSUME NEW i \in 2 .. Len(stack)
      PROVE  /\ stack'[i].name = stack[i].name
             /\ stack'[i].name \in visiting \cap DOMAIN all
             /\ all[stack'[i].name].deps \ stack'[i].deps \subseteq done
  <2>1. /\ i \in 1 .. Len(stack)
        /\ stack[i].name \in visiting \cap DOMAIN all
        /\ all[stack[i].name].deps \ stack[i].deps \subseteq done
    BY TopFrame DEF StackInv
  <2>2. stack'[i].name = stack[i].name
    BY <2>1, <1>3
  <2>3. stack'[i].deps \in {stack[i].deps, stack[i].deps \ {n}}
    BY <2>1, <1>3
  <2> QED BY <2>1, <2>2, <2>3, <1>1
<1>5. StackInv'
  BY <1>1, <1>2, <1>3, <1>4 DEF StackInv
<1> QED BY <1>2, <1>5

LEMMA EnterInv ==
  ASSUME Inv, NEW n, Enter(n)
  PROVE  Inv'
<1> USE DEF Inv
<1> DEFINE f == Frame(n, all[n].deps)
           F == [name : AnyName, deps : AnyDeps]
           l == Len(stack)
<1>1. /\ n \in DOMAIN all /\ n \notin done /\ n \notin visiting
      /\ visiting' = visiting \cup {n} /\ stack' = Append(stack, f)
      /\ UNCHANGED <<selected, all, done, order, lines, prefixes, outcome>>
  BY DEF Enter
<1>2. OrderInv' /\ LoadOrder' /\ AnyName' = AnyName /\ AnyDeps' = AnyDeps
  BY <1>1 DEF OrderInv, LoadOrder, AnyName, AnyDeps
<1>3. f.name = n /\ f.deps = all[n].deps /\ f \in F
  BY <1>1 DEF Frame, AnyName, AnyDeps
<1>4. stack \in Seq(F) /\ l \in Nat
  BY TopFrame DEF StackInv
<1>5. /\ stack' \in Seq(F) /\ Len(stack') = l + 1
      /\ stack'[l + 1] = f
      /\ \A i \in 1 .. l : stack'[i] = stack[i]
  BY EnterStack
<1>6. \A i \in 2 .. l : /\ stack[i].name \in visiting \cap DOMAIN all
                        /\ all[stack[i].name].deps \ stack[i].deps \subseteq done
  BY DEF StackInv
<1>7. \A i, j \in 2 .. l : stack[i].name = stack[j].name => i = j
  BY DEF StackInv
<1>8. ASSUME NEW i \in 2 .. l + 1
      PROVE  /\ stack'[i].name \in visiting' \cap DOMAIN all
             /\ all[stack'[i].name].deps \ stack'[i].deps \subseteq done
  <2> HIDE DEF f, F, l
  <2>1. CASE i = l + 1
    BY <2>1, <1>1, <1>3, <1>5
  <2>2. CASE i # l + 1
    <3>1. i \in 2 .. l /\ i \in 1 .. l
      BY <2>2, <1>4
    <3> QED BY <3>1, <1>1, <1>5, <1>6
  <2> QED BY <2>1, <2>2
<1>9. ASSUME NEW i \in 2 .. l + 1, NEW j \in 2 .. l + 1, i # j
      PROVE  stack'[i].name # stack'[j].name
  <2> HIDE DEF f, F, l
  <2>1. \A k \in 2 .. l : stack'[k].name = stack[k].name /\ stack[k].name # n
    BY <1>1, <1>4, <1>5, <1>6
  <2>2. stack'[l + 1].name = n
    BY <1>3, <1>5
  <2>3. CASE i = l + 1
    BY <2>1, <2>2, <2>3, <1>4, <1>9
  <2>4. CASE j = l + 1
    BY <2>1, <2>2, <2>4, <1>4, <1>9
  <2>5. CASE i # l + 1 /\ j # l + 1
    <3>1. i \in 2 .. l /\ j \in 2 .. l
      BY <2>5, <1>4
    <3> QED BY <3>1, <2>1, <1>7, <1>9
  <2> QED BY <2>3, <2>4, <2>5
<1>10. StackInv'
  <2> HIDE DEF f, l
  <2> QED BY <1>1, <1>2, <1>4, <1>5, <1>8, <1>9 DEF StackInv
<1> QED BY <1>2, <1>10

LEMMA LeaveInv ==
  ASSUME Inv, Leave
  PROVE  Inv'
<1> USE DEF Inv
<1> DEFINE F == [name : AnyName, deps : AnyDeps]
           l == Len(stack)
           n == Top.name
<1>1. /\ Top.deps = {} /\ l > 1
      /\ visiting' = visiting \ {n} /\ done' = done \cup {n}
      /\ order' = Append(order, n)
      /\ UNCHANGED <<selected, all, lines, prefixes, outcome>>
  BY DEF Leave
<1>2. /\ l \in Nat /\ stack \in Seq(F)
      /\ n \in visiting /\ n \in DOMAIN all /\ n \notin done
  BY <1>1, TopFrame DEF StackInv, OrderInv
<1>3. AnyName' = AnyName /\ AnyDeps' = AnyDeps
  BY <1>1 DEF AnyName, AnyDeps
<1>5. /\ stack' \in Seq(F) /\ Len(stack') = l - 1
      /\ \A i \in 1 .. l - 1 :
           /\ stack'[i].name = stack[i].name
           /\ stack'[i].deps \in {stack[i].deps, stack[i].deps \ {n}}
  BY LeaveStack
<1>6. \A i \in 2 .. l : /\ stack[i].name \in visiting \cap DOMAIN all
                        /\ all[stack[i].name].deps \ stack[i].deps \subseteq done
  BY DEF StackInv
<1>7. \A i, j \in 2 .. l : stack[i].name = stack[j].name => i = j
  BY DEF StackInv
<1>8. all[n].deps \subseteq done
  <2>1. l \in 2 .. l /\ stack[l] = Top
    BY <1>1, <1>2 DEF Top
  <2> QED BY <2>1, <1>1, <1>6
<1>9. ASSUME NEW i \in 2 .. l - 1
      PROVE  /\ stack'[i].name = stack[i].name
             /\ stack'[i].name \in visiting' \cap DOMAIN all
             /\ all[stack'[i].name].deps \ stack'[i].deps \subseteq done'
  <2>1. i \in 2 .. l /\ i \in 1 .. l - 1 /\ l \in 2 .. l /\ i # l
    BY <1>1, <1>2
  <2>2. stack[i].name # n
    <3>1. n = stack[l].name
      BY DEF Top
    <3> QED BY <2>1, <3>1, <1>7
  <2> HIDE DEF n, l, F
  <2>3. stack'[i].name = stack[i].name
        /\ stack'[i].deps \in {stack[i].deps, stack[i].deps \ {n}}
    BY <2>1, <1>5
  <2>4. /\ stack[i].name \in visiting \cap DOMAIN all
        /\ all[stack[i].name].deps \ stack[i].deps \subseteq done
    BY <2>1, <1>6
  <2> QED BY <2>2, <2>3, <2>4, <1>1
<1>10. StackInv'
  <2>1. \A i \in 2 .. l - 1 : i \in 2 .. l
    BY <1>2
  <2> HIDE DEF n, l
  <2> QED BY <2>1, <1>1, <1>2, <1>3, <1>5, <1>7, <1>9 DEF StackInv
<1>11. OrderInv'
  <2> HIDE DEF n
  <2>1. order' \in Seq(DOMAIN all) /\ Range(order') = Range(order) \cup {n}
    BY <1>1, <1>2, RangeOfAppend DEF OrderInv
  <2> QED BY <2>1, <1>1, <1>2 DEF OrderInv
<1>12. LoadOrder'
  <2> HIDE DEF n, l, F
  <2> DEFINE m == Len(order)
  <2>1. order \in Seq(DOMAIN all) /\ m \in Nat /\ DOMAIN order = 1 .. m
    BY DEF OrderInv
  <2>2. /\ DOMAIN order' = 1 .. m + 1 /\ order'[m + 1] = n
        /\ \A i \in 1 .. m : order'[i] = order[i]
    BY <1>1, <1>2, <2>1
  <2>3. \A i \in 1 .. m : order[i] \in done /\ order[i] # n
    BY <2>1, <1>2 DEF OrderInv, Range
  <2>4. \A x \in done : \E i \in 1 .. m : order[i] = x
    BY <2>1 DEF OrderInv, Range
  <2> HIDE DEF m
  <2>5. ASSUME NEW i \in 1 .. m + 1, NEW j \in 1 .. m + 1,
               order'[i] = order'[j]
        PROVE  i = j
    <3>1. CASE i \in 1 .. m /\ j \in 1 .. m
      BY <3>1, <2>1, <2>2, <2>5 DEF LoadOrder
    <3>2. CASE i = m + 1 \/ j = m + 1
      BY <3>2, <2>1, <2>2, <2>3, <2>5
    <3> QED BY <3>1, <3>2, <2>1
  <2>6. ASSUME NEW i \in 1 .. m + 1, NEW d \in all[order'[i]].deps
        PROVE  \E j \in 1 .. i - 1 : order'[j] = d
    <3>1. CASE i = m + 1
      <4>1. d \in done
        BY <3>1, <2>2, <2>6, <1>8
      <4> QED BY <3>1, <4>1, <2>1, <2>2, <2>4
    <3>2. CASE i # m + 1
      <4>1. i \in 1 .. m
        BY <3>2, <2>1
      <4>2. PICK j \in 1 .. i - 1 : order[j] = d
        BY <4>1, <2>1, <2>2, <2>6 DEF LoadOrder
      <4>3. j \in 1 .. m
        BY <4>1, <2>1
      <4> QED BY <4>2, <4>3, <2>2
    <3> QED BY <3>1, <3>2
  <2> QED BY <2>2, <2>5, <2>6, <1>1 DEF LoadOrder
<1> QED BY <1>10, <1>11, <1>12

LEMMA NextInv == Inv /\ [Next]_vars => Inv'
<1> SUFFICES ASSUME Inv, [Next]_vars PROVE Inv'
  OBVIOUS
<1>1. ASSUME NEW n, VisitDone(n) PROVE Inv'
  BY <1>1, VisitDoneInv
<1>2. ASSUME NEW n, Cycle(n) PROVE Inv'
  BY <1>2, OtherVariables DEF Cycle, Outcomes
<1>3. ASSUME NEW n, Unknown(n) PROVE Inv'
  <2>1. /\ n \notin done /\ visiting' = visiting \cup {n}
        /\ outcome' = "unknown"
        /\ UNCHANGED <<selected, all, stack, done, order, lines, prefixes>>
    BY <1>3 DEF Unknown
  <2> QED BY <2>1 DEF Inv, OrderInv, StackInv, LoadOrder, AnyName, AnyDeps, Outcomes
<1>4. ASSUME NEW n, Enter(n) PROVE Inv'
  BY <1>4, EnterInv
<1>5. CASE Leave
  BY <1>5, LeaveInv
<1>6. CASE Resolved
  BY <1>6, OtherVariables DEF Resolved, Outcomes
<1>7. CASE Collect
  BY <1>7, OtherVariables DEF Collect, Inv, OrderInv
<1>8. CASE CollectFails
  BY <1>8, OtherVariables DEF CollectFails, Outcomes
<1>9. CASE Build
  BY <1>9, OtherVariables DEF Build, Outcomes
<1>10. CASE UNCHANGED vars
  BY <1>10, OtherVariables DEF vars, Inv, OrderInv
<1> QED BY <1>1, <1>2, <1>3, <1>4, <1>5, <1>6, <1>7, <1>8, <1>9, <1>10
        DEF Next, Visit

LEMMA InvTypeOK == Inv => TypeOK
<1> SUFFICES ASSUME Inv PROVE TypeOK
  OBVIOUS
<1>1. Range(order) \subseteq DOMAIN all
  BY DEF Inv, OrderInv, Range
<1> QED BY <1>1 DEF Inv, OrderInv, StackInv, TypeOK

\* Whatever the packs and the selection, what resolve orders and has open are
\* packs that discover found, and no visit is both open and over.
THEOREM PacksTypeCorrect == Spec => []TypeOK
BY InitInv, NextInv, InvTypeOK, PTL DEF Spec

\* Whatever the packs and the selection, resolve loads a pack once and after
\* everything it depends on, the packs of a resolution that fails included.
THEOREM DependenciesFirst == Spec => []LoadOrder
<1>1. Inv => LoadOrder
  BY DEF Inv
<1> QED BY <1>1, InitInv, NextInv, PTL DEF Spec
-----------------------------------------------------------------------------
(***************************************************************************)
(* That what is loaded is what the selection needs.  LoadsTheClosure says  *)
(* nothing of the frames; that a cycle found is one, and that nothing is   *)
(* left when the loop ends, is known from what they have left.             *)
(***************************************************************************)
\* What is done or open is needed.
NeededInv ==
  /\ done \subseteq Needed
  /\ \A i \in 2 .. Len(stack) :
       stack[i].name \in Needed /\ stack[i].deps \subseteq all[stack[i].name].deps

\* The visits that are open are those on the stack, each made for a name that
\* the frame below it has left; the loop over the selection has only names of
\* the selection left, and all of them that are not done.
OpenInv ==
  /\ stack[1].deps \subseteq selected /\ selected \ stack[1].deps \subseteq done
  /\ \A i \in 1 .. Len(stack) - 1 : stack[i + 1].name \in stack[i].deps
  /\ outcome = "resolve" => visiting = {stack[i].name : i \in 2 .. Len(stack)}

OutcomeInv ==
  CASE outcome = "resolve" -> TRUE
    [] outcome = "cycle"   -> Circular(Needed)
    [] outcome = "unknown" -> ~ Needed \subseteq DOMAIN all
    [] OTHER               -> Len(stack) = 1 /\ stack[1].deps = {}

ClosureInv == Inv /\ NeededInv /\ OpenInv /\ OutcomeInv

\* What is needed holds the selection and is closed under dependencies.
LEMMA NeededIsClosed ==
  /\ Needed \subseteq Universe
  /\ selected \subseteq Needed
  /\ \A n \in Needed \cap DOMAIN all : all[n].deps \subseteq Needed
<1>1. Needed \subseteq Universe
  BY DEF Needed
<1>2. selected \subseteq Needed
  BY DEF Needed, ClosedOver, Universe
<1>3. ASSUME NEW n \in Needed \cap DOMAIN all, NEW d \in all[n].deps
      PROVE  d \in Needed
  <2>1. Needs(n) = all[n].deps
    BY <1>3 DEF Needs
  <2>2. d \in Universe
    BY <1>3, <2>1 DEF Universe
  <2>3. ASSUME NEW S \in SUBSET Universe, ClosedOver(S) PROVE d \in S
    <3>1. n \in S
      BY <2>3 DEF Needed
    <3> QED BY <3>1, <2>1, <2>3 DEF ClosedOver
  <2> QED BY <2>2, <2>3 DEF Needed
<1> QED BY <1>1, <1>2, <1>3

\* ... and is the least such set.
LEMMA NeededIsLeast ==
  ASSUME NEW S \in SUBSET Universe, ClosedOver(S)
  PROVE  Needed \subseteq S
BY DEF Needed

LEMMA NeededConstant ==
  ASSUME UNCHANGED <<selected, all>>
  PROVE  Needed' = Needed /\ (Circular(Needed))' = Circular(Needed)
<1>1. Universe' = Universe
  BY DEF Universe, Needs
<1>2. \A S : ClosedOver(S)' <=> ClosedOver(S)
  BY DEF ClosedOver, Needs
<1>3. Needed' = Needed
  BY <1>1, <1>2 DEF Needed
<1> QED BY <1>3 DEF Circular, Needs

LEMMA ClosureInit == Init => ClosureInv
<1> SUFFICES ASSUME Init PROVE ClosureInv
  OBVIOUS
<1>1. /\ stack = <<[name |-> 0, deps |-> selected]>>
      /\ done = {} /\ visiting = {} /\ outcome = "resolve"
  BY DEF Init, Frame
<1> QED BY <1>1, InitInv DEF ClosureInv, NeededInv, OpenInv, OutcomeInv
\* Every name a frame has left is needed.
LEMMA LeftIsNeeded ==
  ASSUME ClosureInv, NEW i \in 1 .. Len(stack)
  PROVE  stack[i].deps \subseteq Needed
<1>1. Len(stack) \in Nat
  BY TopFrame DEF ClosureInv, Inv
<1>2. CASE i = 1
  BY <1>2, NeededIsClosed DEF ClosureInv, OpenInv
<1>3. CASE i # 1
  <2>1. i \in 2 .. Len(stack)
    BY <1>1, <1>3
  <2>2. stack[i].name \in Needed /\ stack[i].deps \subseteq all[stack[i].name].deps
    BY <2>1 DEF ClosureInv, NeededInv
  <2>3. stack[i].name \in DOMAIN all
    BY <2>1 DEF ClosureInv, Inv, StackInv
  <2> QED BY <2>2, <2>3, NeededIsClosed
<1> QED BY <1>2, <1>3

LEMMA TopIsNeeded ==
  ASSUME ClosureInv
  PROVE  Top.deps \subseteq Needed
<1>1. Len(stack) \in 1 .. Len(stack)
  BY TopFrame DEF ClosureInv, Inv
<1> QED BY <1>1, LeftIsNeeded DEF Top

LEMMA ClosureVisitDone ==
  ASSUME ClosureInv, NEW n, VisitDone(n)
  PROVE  ClosureInv'
<1> DEFINE l == Len(stack)
<1>1. /\ n \in done /\ outcome = "resolve"
      /\ UNCHANGED <<selected, all, done, visiting, order, lines, prefixes, outcome>>
  BY DEF VisitDone, Visits
<1>2. l \in Nat /\ l >= 1
  BY TopFrame DEF ClosureInv, Inv
<1>3. /\ Len(stack') = l
      /\ \A i \in 1 .. l : /\ stack'[i].name = stack[i].name
                           /\ stack'[i].deps \in {stack[i].deps, stack[i].deps \ {n}}
                           /\ i # l => stack'[i] = stack[i]
  BY VisitDoneStack DEF ClosureInv, Inv
<1>4. Needed' = Needed
  BY <1>1, NeededConstant
<1> HIDE DEF l
<1>5. NeededInv'
  <2>1. \A i \in 2 .. l : i \in 1 .. l
    BY <1>2
  <2> QED BY <2>1, <1>1, <1>3, <1>4 DEF ClosureInv, NeededInv, l
<1>6. OpenInv'
  <2>1. /\ stack'[1].deps \subseteq selected
        /\ selected \ stack'[1].deps \subseteq done
    BY <1>1, <1>2, <1>3 DEF ClosureInv, OpenInv
  <2>2. ASSUME NEW i \in 1 .. l - 1 PROVE stack'[i + 1].name \in stack'[i].deps
    <3>1. i \in 1 .. l /\ i + 1 \in 1 .. l /\ i # l
      BY <1>2
    <3>2. stack[i + 1].name \in stack[i].deps
      BY DEF ClosureInv, OpenInv, l
    <3> QED BY <3>1, <3>2, <1>3
  <2>3. {stack'[i].name : i \in 2 .. l} = {stack[i].name : i \in 2 .. l}
    BY <1>2, <1>3
  <2>4. visiting = {stack[i].name : i \in 2 .. l}
    BY <1>1 DEF ClosureInv, OpenInv, l
  <2> QED BY <2>1, <2>2, <2>3, <2>4, <1>1, <1>3 DEF OpenInv
<1> QED BY <1>1, <1>5, <1>6, VisitDoneInv DEF ClosureInv, OutcomeInv

LEMMA ClosureEnter ==
  ASSUME ClosureInv, NEW n, Enter(n)
  PROVE  ClosureInv'
<1> DEFINE l == Len(stack)
           f == Frame(n, all[n].deps)
<1>1. /\ n \in Top.deps /\ n \in DOMAIN all /\ outcome = "resolve"
      /\ visiting' = visiting \cup {n}
      /\ UNCHANGED <<selected, all, done, order, lines, prefixes, outcome>>
  BY DEF Enter, Visits
<1>2. l \in Nat /\ l >= 1
  BY TopFrame DEF ClosureInv, Inv
<1>3. /\ Len(stack') = l + 1 /\ stack'[l + 1] = f
      /\ \A i \in 1 .. l : stack'[i] = stack[i]
  BY EnterStack DEF ClosureInv, Inv
<1>4. f.name = n /\ f.deps = all[n].deps
  BY DEF Frame
<1>5. Needed' = Needed /\ n \in Needed
  BY <1>1, NeededConstant, TopIsNeeded
<1>6. Top = stack[l]
  BY DEF Top
<1> HIDE DEF l, f
<1>7. NeededInv'
  <2>1. ASSUME NEW i \in 2 .. l + 1
        PROVE  /\ stack'[i].name \in Needed
               /\ stack'[i].deps \subseteq all[stack'[i].name].deps
    <3>1. CASE i = l + 1
      BY <3>1, <1>3, <1>4, <1>5
    <3>2. CASE i # l + 1
      <4>1. i \in 2 .. l /\ i \in 1 .. l
        BY <3>2, <1>2
      <4> QED BY <4>1, <1>3 DEF ClosureInv, NeededInv, l
    <3> QED BY <3>1, <3>2
  <2> QED BY <2>1, <1>1, <1>3, <1>5 DEF ClosureInv, NeededInv
<1>8. OpenInv'
  <2>1. stack'[1] = stack[1]
    BY <1>2, <1>3
  <2>2. ASSUME NEW i \in 1 .. l PROVE stack'[i + 1].name \in stack'[i].deps
    <3>1. CASE i = l
      BY <3>1, <1>1, <1>2, <1>3, <1>4, <1>6
    <3>2. CASE i # l
      <4>1. i \in 1 .. l - 1 /\ i + 1 \in 1 .. l
        BY <3>2, <1>2
      <4>2. stack[i + 1].name \in stack[i].deps
        BY <4>1 DEF ClosureInv, OpenInv, l
      <4> QED BY <4>1, <4>2, <1>3
    <3> QED BY <3>1, <3>2
  <2>3. visiting = {stack[i].name : i \in 2 .. l}
    BY <1>1 DEF ClosureInv, OpenInv, l
  <2>4. {stack'[i].name : i \in 2 .. l + 1} = {stack[i].name : i \in 2 .. l} \cup {n}
    <3>1. \A i \in 2 .. l + 1 : i = l + 1 \/ (i \in 2 .. l /\ i \in 1 .. l)
      BY <1>2
    <3>2. l + 1 \in 2 .. l + 1 /\ \A i \in 2 .. l : i \in 2 .. l + 1 /\ i \in 1 .. l
      BY <1>2
    <3> QED BY <3>1, <3>2, <1>3, <1>4
  <2>5. \A i \in 1 .. Len(stack') - 1 : i \in 1 .. l
    BY <1>2, <1>3
  <2>6. (\A i \in 1 .. Len(stack) - 1 : stack[i + 1].name \in stack[i].deps)'
    BY <2>2, <2>5
  <2>7. (stack[1].deps \subseteq selected /\ selected \ stack[1].deps \subseteq done)'
    BY <2>1, <1>1 DEF ClosureInv, OpenInv
  <2>8. visiting' = {stack'[i].name : i \in 2 .. Len(stack')}
    BY <2>3, <2>4, <1>1, <1>3
  <2> QED BY <2>6, <2>7, <2>8 DEF OpenInv
<1> QED BY <1>1, <1>7, <1>8, EnterInv DEF ClosureInv, OutcomeInv

LEMMA ClosureLeave ==
  ASSUME ClosureInv, Leave
  PROVE  ClosureInv'
<1> DEFINE l == Len(stack)
           n == Top.name
<1>1. /\ outcome = "resolve"
      /\ visiting' = visiting \ {n} /\ done' = done \cup {n}
      /\ UNCHANGED <<selected, all, lines, prefixes, outcome>>
  BY DEF Leave
<1>2. /\ l \in Nat /\ l > 1 /\ Len(stack') = l - 1
      /\ \A i \in 1 .. l - 1 :
           /\ stack'[i].name = stack[i].name
           /\ stack'[i].deps \in {stack[i].deps, stack[i].deps \ {n}}
           /\ i # l - 1 => stack'[i] = stack[i]
  BY LeaveStack DEF ClosureInv, Inv
<1>3. n = stack[l].name /\ l \in 2 .. l
  BY <1>2 DEF Top
<1>4. Needed' = Needed /\ n \in Needed
  BY <1>1, <1>3, NeededConstant DEF ClosureInv, NeededInv
<1>5. \A i \in 2 .. l - 1 : i \in 2 .. l /\ i \in 1 .. l - 1 /\ i # l
  BY <1>2
<1>6. \A i, j \in 2 .. l : stack[i].name = stack[j].name => i = j
  BY DEF ClosureInv, Inv, StackInv
<1> HIDE DEF l, n
<1>7. NeededInv'
  <2>1. \A i \in 2 .. l : stack[i].name \in Needed
                          /\ stack[i].deps \subseteq all[stack[i].name].deps
    BY DEF ClosureInv, NeededInv, l
  <2>2. ASSUME NEW i \in 2 .. l - 1
        PROVE  /\ stack'[i].name \in Needed
               /\ stack'[i].deps \subseteq all[stack'[i].name].deps
    BY <2>1, <1>2, <1>5
  <2> QED BY <2>2, <1>1, <1>2, <1>4 DEF ClosureInv, NeededInv
<1>8. OpenInv'
  <2>1. (stack[1].deps \subseteq selected /\ selected \ stack[1].deps \subseteq done)'
    <3>1. 1 \in 1 .. l - 1
      BY <1>2
    <3> QED BY <3>1, <1>1, <1>2 DEF ClosureInv, OpenInv
  <2>2. ASSUME NEW i \in 1 .. l - 2 PROVE stack'[i + 1].name \in stack'[i].deps
    <3>1. i \in 1 .. l - 1 /\ i + 1 \in 1 .. l - 1 /\ i # l - 1
      BY <1>2
    <3>2. stack[i + 1].name \in stack[i].deps
      BY <3>1 DEF ClosureInv, OpenInv, l
    <3> QED BY <3>1, <3>2, <1>2
  <2>3. \A i \in 1 .. Len(stack') - 1 : i \in 1 .. l - 2
    BY <1>2
  <2>4. visiting = {stack[i].name : i \in 2 .. l}
    BY <1>1 DEF ClosureInv, OpenInv, l
  <2>5. {stack'[i].name : i \in 2 .. l - 1} = {stack[i].name : i \in 2 .. l} \ {n}
    <3>1. \A i \in 2 .. l : i = l \/ i \in 2 .. l - 1
      BY <1>2
    <3> QED BY <3>1, <1>2, <1>3, <1>5, <1>6
  <2>6. visiting' = {stack'[i].name : i \in 2 .. Len(stack')}
    BY <2>4, <2>5, <1>1, <1>2
  <2>7. (\A i \in 1 .. Len(stack) - 1 : stack[i + 1].name \in stack[i].deps)'
    BY <2>2, <2>3
  <2> QED BY <2>1, <2>6, <2>7 DEF OpenInv
<1> QED BY <1>1, <1>7, <1>8, LeaveInv DEF ClosureInv, OutcomeInv
\* The cycle that visit reports: from the open visit of the name to the top.
LEMMA CycleIsOne ==
  ASSUME ClosureInv, NEW n, Cycle(n)
  PROVE  Circular(Needed)
<1> DEFINE l == Len(stack)
<1>1. n \in Top.deps /\ n \in visiting /\ outcome = "resolve"
  BY DEF Cycle, Visits
<1>2. l \in Nat
  BY TopFrame DEF ClosureInv, Inv
<1>3. PICK k \in 2 .. l : n = stack[k].name
  BY <1>1 DEF ClosureInv, OpenInv
<1> DEFINE C == {stack[i].name : i \in k .. l}
<1>4. \A i \in k .. l : i \in 2 .. l
  BY <1>2
<1>5. C \subseteq Needed /\ C # {}
  BY <1>2, <1>3, <1>4 DEF ClosureInv, NeededInv
<1>6. ASSUME NEW i \in k .. l PROVE Needs(stack[i].name) \cap C # {}
  <2>1. stack[i].deps \subseteq Needs(stack[i].name)
    BY <1>4 DEF ClosureInv, NeededInv, Inv, StackInv, Needs
  <2>2. CASE i = l
    <3>1. n \in stack[i].deps /\ n \in C
      BY <2>2, <1>1, <1>2, <1>3 DEF Top
    <3> QED BY <3>1, <2>1
  <2>3. CASE i # l
    <3>1. i \in 1 .. l - 1 /\ i + 1 \in k .. l
      BY <2>3, <1>2, <1>3
    <3>2. stack[i + 1].name \in stack[i].deps /\ stack[i + 1].name \in C
      BY <3>1 DEF ClosureInv, OpenInv
    <3> QED BY <3>2, <2>1
  <2> QED BY <2>2, <2>3
<1>7. \A m \in C : Needs(m) \cap C # {}
  BY <1>6
<1> HIDE DEF C
<1> QED BY <1>5, <1>7 DEF Circular

\* A step that leaves the order, the visits and the packs alone.
LEMMA ClosureOtherVariables ==
  ASSUME ClosureInv, UNCHANGED <<selected, all, stack, done, order>>,
         Inv', outcome' # "resolve", OutcomeInv'
  PROVE  ClosureInv'
<1>1. Needed' = Needed
  BY NeededConstant
<1> QED BY <1>1 DEF ClosureInv, NeededInv, OpenInv

LEMMA ClosureStep == ClosureInv /\ [Next]_vars => ClosureInv'
<1> SUFFICES ASSUME ClosureInv, [Next]_vars PROVE ClosureInv'
  OBVIOUS
<1>1. Inv'
  BY NextInv DEF ClosureInv
<1>2. ASSUME NEW n, VisitDone(n) PROVE ClosureInv'
  BY <1>2, ClosureVisitDone
<1>3. ASSUME NEW n, Cycle(n) PROVE ClosureInv'
  <2>1. outcome' = "cycle" /\ UNCHANGED <<selected, all, stack, done, visiting, order>>
    BY <1>3 DEF Cycle
  <2>2. Circular(Needed)'
    BY <1>3, <2>1, CycleIsOne, NeededConstant
  <2> QED BY <1>1, <2>1, <2>2, ClosureOtherVariables DEF OutcomeInv
<1>4. ASSUME NEW n, Unknown(n) PROVE ClosureInv'
  <2>1. /\ outcome' = "unknown" /\ n \in Top.deps /\ n \notin DOMAIN all
        /\ UNCHANGED <<selected, all, stack, done, order>>
    BY <1>4 DEF Unknown, Visits
  <2>2. (~ Needed \subseteq DOMAIN all)'
    BY <2>1, TopIsNeeded, NeededConstant
  <2> QED BY <1>1, <2>1, <2>2, ClosureOtherVariables DEF OutcomeInv
<1>5. ASSUME NEW n, Enter(n) PROVE ClosureInv'
  BY <1>5, ClosureEnter
<1>6. CASE Leave
  BY <1>6, ClosureLeave
<1>7. CASE Resolved
  <2>1. /\ outcome' = "collect" /\ stack[Len(stack)].deps = {} /\ Len(stack) = 1
        /\ UNCHANGED <<selected, all, stack, done, visiting, order>>
    BY <1>7 DEF Resolved, Top
  <2>2. OutcomeInv'
    BY <2>1 DEF OutcomeInv
  <2> QED BY <1>1, <2>1, <2>2, ClosureOtherVariables
<1>8. CASE Collect \/ CollectFails \/ Build
  <2>1. /\ outcome = "collect" /\ outcome' \notin {"resolve", "cycle", "unknown"}
        /\ UNCHANGED <<selected, all, stack, done, visiting, order>>
    BY <1>8 DEF Collect, CollectFails, Build
  <2>2. OutcomeInv'
    BY <2>1 DEF ClosureInv, OutcomeInv
  <2> QED BY <1>1, <2>1, <2>2, ClosureOtherVariables
<1>9. CASE UNCHANGED vars
  <2>1. Needed' = Needed /\ Circular(Needed)' = Circular(Needed)
    BY <1>9, NeededConstant DEF vars
  <2> QED BY <1>1, <1>9, <2>1 DEF vars, ClosureInv, NeededInv, OpenInv, OutcomeInv
<1> QED BY <1>2, <1>3, <1>4, <1>5, <1>6, <1>7, <1>8, <1>9 DEF Next, Visit

\* When the loop over the selection has nothing left, what is done is closed.
LEMMA DoneIsNeeded ==
  ASSUME ClosureInv, Len(stack) = 1, stack[1].deps = {}
  PROVE  Range(order) = Needed
<1>1. done \subseteq DOMAIN all /\ done = Range(order)
  BY InvTypeOK DEF ClosureInv, Inv, OrderInv, TypeOK
<1>2. selected \subseteq done
  BY DEF ClosureInv, OpenInv
<1>3. ASSUME NEW n \in done PROVE Needs(n) \subseteq done
  <2>1. PICK i \in DOMAIN order : order[i] = n
    BY <1>1 DEF Range
  <2>2. Len(order) \in Nat /\ DOMAIN order = 1 .. Len(order)
    BY DEF ClosureInv, Inv, OrderInv
  <2>3. ASSUME NEW d \in all[n].deps PROVE d \in done
    <3>1. PICK j \in 1 .. i - 1 : order[j] = d
      BY <2>1 DEF ClosureInv, Inv, LoadOrder
    <3>2. j \in DOMAIN order
      BY <2>2
    <3> QED BY <3>1, <3>2, <1>1 DEF Range
  <2> QED BY <2>3, <1>1 DEF Needs
<1>4. done \subseteq Universe
  BY NeededIsClosed DEF ClosureInv, NeededInv
<1>5. Needed \subseteq done
  BY <1>2, <1>3, <1>4, NeededIsLeast DEF ClosedOver
<1> QED BY <1>1, <1>5 DEF ClosureInv, NeededInv

\* Whatever the packs and the selection, a resolution that returns has loaded
\* what the selection needs and nothing else, and one that fails had a cycle
\* or an unknown name among it.
THEOREM TheClosureIsLoaded == Spec => []LoadsTheClosure
<1>1. ClosureInv => LoadsTheClosure
  <2> SUFFICES ASSUME ClosureInv PROVE LoadsTheClosure
    OBVIOUS
  <2>1. CASE outcome = "resolve"
    BY <2>1 DEF LoadsTheClosure, ClosureInv, NeededInv, Inv, OrderInv
  <2>2. CASE outcome = "cycle"
    BY <2>2 DEF LoadsTheClosure, ClosureInv, OutcomeInv
  <2>3. CASE outcome = "unknown"
    BY <2>3 DEF LoadsTheClosure, ClosureInv, OutcomeInv
  <2>4. CASE outcome \notin {"resolve", "cycle", "unknown"}
    <3>1. Len(stack) = 1 /\ stack[1].deps = {}
      BY <2>4 DEF ClosureInv, OutcomeInv
    <3>2. Range(order) = Needed
      BY <3>1, DoneIsNeeded
    <3> QED BY <2>4, <3>2 DEF LoadsTheClosure
  <2> QED BY <2>1, <2>2, <2>3, <2>4
<1> QED BY <1>1, ClosureInit, ClosureStep, PTL DEF Spec
=============================================================================
