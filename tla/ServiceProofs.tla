--------------------------- MODULE ServiceProofs ---------------------------
(***************************************************************************)
(* Proofs about IndexSync, for any processes, fragments, rulesets and      *)
(* bounds; and about Service, which runs it on one machine, for any        *)
(* settings: what a restart of the server promises.                        *)
(***************************************************************************)
EXTENDS Service, TLAPS

-----------------------------------------------------------------------------
(***************************************************************************)
(* Types, and which steps belong to which command.                         *)
(***************************************************************************)
StepsOf(c) ==
  CASE c = "none" -> {"idle"}
    [] c \in Loads -> {"open", "marker", "list", "read", "truncate", "mark"}
    [] c = "rebuild" -> {"wipe", "wipe rest", "open", "list", "read", "list again",
                         "truncate", "mark"}
    [] c = "reason" -> {"open", "derived", "run", "decide", "read", "exit"}
    [] c = "reason --no-load" -> {"derived", "run", "exit"}
    [] c = "gc-derived" -> {"open", "list", "drop", "unlink"}
    [] c = "serve" -> {"open", "serving"}

ProcInv(p) ==
  /\ cmd[p] \in Allowed[p] \cup {"none"}
  /\ pc[p] \in StepsOf(cmd[p])
  /\ cmd[p] \in Reasons => target[p] \in Derived
  /\ pc[p] = "unlink" => target[p] \in Frags
  /\ cmd[p] = "reason --no-load" => handle[p] = "none"

TypeInv == TypeOK /\ \A p \in Procs : ProcInv(p)

\* The lock: one process at most has the index open.
LockInv ==
  /\ \A p, q \in Procs : handle[p] = "open" /\ handle[q] = "open" => p = q
  /\ \A p \in Procs : pc[p] = "open" => handle[p] # "open"

InBatch(p, f) == \E q \in batch[p] : q[1] = f

\* reason has its derived graph in the index, or on the way to it.
ReasonInv(p) ==
  cmd[p] = "reason" /\ handle[p] = "open" =>
    /\ pc[p] = "read" => target[p] \in todo[p] \/ InBatch(p, target[p])
    /\ pc[p] = "exit" => Indexed(target[p])

\* What may leave the index: garbage, where someone runs gc-derived.
Droppable == {f \in Collectable : \E p \in Procs : "gc-derived" \in Allowed[p]}

\* The marker and what a load means to write into it name nothing that is
\* neither in the index nor on the way to it.
MarkedInv == \A f \in loaded \ Droppable : Indexed(f)

MarkInv(p) ==
  /\ cmd[p] = "none" => already[p] = {}
  /\ cmd[p] \in Loads =>
       \A f \in already[p] \ Droppable :
         Indexed(f) \/ (pc[p] = "read" /\ (f \in todo[p] \/ InBatch(p, f)))

\* Only garbage is dropped from the index.
GarbageInv(p) == pc[p] \in {"drop", "unlink"} => todo[p] \subseteq Droppable

NoRebuild == \A p \in Procs : "rebuild" \notin Allowed[p]

\* Without a rebuild nobody's directory is deleted under it.
HandleInv(p) ==
  /\ handle[p] # "detached"
  /\ cmd[p] \in Loads /\ pc[p] # "open" => handle[p] = "open"

LEMMA FragTypes ==
  /\ Derived \subseteq Frags
  /\ \A d \in Derived : RunOf[d] \in Frags
  /\ \A p \in Procs : Allowed[p] \in SUBSET Commands
  BY IndexAssumption

\* A process that goes on to another step of its command.
LEMMA GoesOn ==
  ASSUME TypeInv, NEW p \in Procs, NEW l \in Labels, l \in StepsOf(cmd[p]),
         l # "idle", l = "unlink" => target[p] \in Frags,
         pc[p] # "idle", pc' = [pc EXCEPT ![p] = l],
         UNCHANGED <<cmd, target, handle, existed, ranAt>>,
         file' \in [Frags -> Nat], stamp' \in Nat, crashes' \in Nat,
         index' \in SUBSET (Frags \X Nat), loaded' \in SUBSET Frags,
         already' \in [Procs -> SUBSET Frags], todo' \in [Procs -> SUBSET Frags],
         batch' \in [Procs -> SUBSET (Frags \X Nat)]
  PROVE  TypeInv'
<1>1. TypeOK'
  BY DEF TypeInv, TypeOK
<1>2. ASSUME NEW q \in Procs PROVE ProcInv(q)'
  <2>1. CASE q = p
    BY <2>1 DEF TypeInv, TypeOK, ProcInv
  <2>2. CASE q # p
    <3>1. pc'[q] = pc[q]
      BY <2>2 DEF TypeInv, TypeOK
    <3>2. QED
      BY <3>1 DEF TypeInv, ProcInv
  <2>3. QED
    BY <2>1, <2>2
<1>3. QED
  BY <1>1, <1>2 DEF TypeInv

LEMMA TypeInvInit == Init => TypeInv
  BY DEF Init, TypeInv, TypeOK, ProcInv, StepsOf, Labels, Loads, Reasons, Commands

\* A process that ends, whatever its last step did.
LEMMA TypeInvExit ==
  ASSUME TypeInv, NEW p \in Procs, Exit(p), UNCHANGED stamp, crashes' \in Nat,
         file' \in [Frags -> Nat], index' \in SUBSET (Frags \X Nat),
         loaded' \in SUBSET Frags
  PROVE  TypeInv'
  BY DEF TypeInv, TypeOK, Goto, Exit, ProcInv, StepsOf, Labels, Loads, Reasons, Commands

LEMMA TypeInvStep == TypeInv /\ [Next]_vars => TypeInv'
<1> SUFFICES ASSUME TypeInv, [Next]_vars PROVE TypeInv'
  OBVIOUS
<1> USE DEF TypeInv, TypeOK, Goto, storeVars, indexVars, argVars
<1>1. ASSUME NEW f \in Frags, Extract(f) PROVE TypeInv'
  BY <1>1 DEF Extract, ProcInv
<1>2. ASSUME NEW p \in Procs, NEW c \in Commands, Begin(p, c) PROVE TypeInv'
  <2> DEFINE l == IF c = "rebuild" THEN "wipe" ELSE "open"
  <2>1. /\ pc[p] = "idle" /\ handle[p] = "none" /\ c \in Allowed[p] \ Reasons
        /\ cmd' = [cmd EXCEPT ![p] = c] /\ pc' = [pc EXCEPT ![p] = l]
        /\ UNCHANGED <<storeVars, indexVars, handle, already, todo, batch, argVars, crashes>>
    BY <1>2 DEF Begin
  <2>2. l \in Labels \ {"idle", "unlink"}
    BY DEF Labels
  <2>3. l \in StepsOf(c)
    BY <2>1 DEF StepsOf, Loads, Reasons, Commands
  <2>4. TypeOK'
    BY <2>1, <2>2
  <2>5. ASSUME NEW q \in Procs PROVE ProcInv(q)'
    <3>1. CASE q = p
      <4>1. pc'[q] = l /\ cmd'[q] = c /\ c \notin Reasons /\ handle'[q] = "none"
        BY <2>1, <3>1
      <4>2. QED
        BY <2>1, <2>2, <2>3, <3>1, <4>1 DEF ProcInv, Reasons
    <3>2. CASE q # p
      <4>1. pc'[q] = pc[q] /\ cmd'[q] = cmd[q]
        BY <2>1, <3>2
      <4>2. QED
        BY <2>1, <4>1 DEF ProcInv
    <3>3. QED
      BY <3>1, <3>2
  <2>6. QED
    BY <2>4, <2>5
<1>3. ASSUME NEW p \in Procs, NEW c \in Commands, NEW d \in Derived, BeginReason(p, c, d)
      PROVE  TypeInv'
  <2>1. /\ pc' = [pc EXCEPT ![p] = IF c = "reason" THEN "open" ELSE "derived"]
        /\ pc[p] = "idle" /\ handle[p] = "none"
        /\ cmd' = [cmd EXCEPT ![p] = c] /\ c \in Allowed[p] \cap Reasons
        /\ target' = [target EXCEPT ![p] = d] /\ d \in Frags
        /\ stamp' = stamp + 1 /\ ranAt' = [ranAt EXCEPT ![p] = stamp + 1]
        /\ UNCHANGED <<file, indexVars, handle, already, todo, batch, crashes>>
    BY <1>3, FragTypes DEF BeginReason
  <2>2. existed' \in [Procs -> BOOLEAN]
    BY <1>3 DEF BeginReason
  <2>3. TypeOK'
    <3>1. stamp' \in Nat /\ ranAt' \in [Procs -> Nat]
      BY <2>1
    <3>2. pc' \in [Procs -> Labels] /\ cmd' \in [Procs -> Commands \cup {"none"}]
      BY <2>1 DEF Labels, Reasons, Commands
    <3>3. target' \in [Procs -> Frags \cup {NoFrag}]
      BY <2>1
    <3>4. \A q \in Procs : pc'[q] = "idle" => handle'[q] = "none" /\ cmd'[q] = "none"
      BY <2>1
    <3>5. QED
      BY <2>1, <2>2, <3>1, <3>2, <3>3, <3>4
  <2>4. ASSUME NEW q \in Procs PROVE ProcInv(q)'
    <3>1. CASE q = p
      <4>1. /\ pc'[q] = (IF c = "reason" THEN "open" ELSE "derived")
            /\ cmd'[q] = c /\ target'[q] = d /\ handle'[q] = "none"
            /\ c \in {"reason", "reason --no-load"}
        BY <2>1, <3>1 DEF Reasons
      <4>2. pc'[q] \in StepsOf(c) /\ pc'[q] # "unlink"
        BY <4>1 DEF StepsOf, Loads
      <4>3. QED
        BY <2>1, <3>1, <4>1, <4>2 DEF ProcInv
    <3>2. CASE q # p
      <4>1. pc'[q] = pc[q] /\ cmd'[q] = cmd[q] /\ target'[q] = target[q]
        BY <2>1, <3>2
      <4>2. QED
        BY <2>1, <4>1 DEF ProcInv
    <3>3. QED
      BY <3>1, <3>2
  <2>5. QED
    BY <2>3, <2>4
<1>4. ASSUME NEW p \in Procs, Open(p) PROVE TypeInv'
  <2>1. /\ pc' = [pc EXCEPT ![p] = AfterOpen(cmd[p])] /\ pc[p] = "open"
        /\ handle' = [handle EXCEPT ![p] = "open"]
        /\ UNCHANGED <<storeVars, indexVars, cmd, already, todo, batch, argVars, crashes>>
    BY <1>4 DEF Open
  <2>2. /\ AfterOpen(cmd[p]) \in StepsOf(cmd[p]) \cap Labels
        /\ AfterOpen(cmd[p]) \notin {"idle", "unlink"}
        /\ cmd[p] # "reason --no-load"
    <3>1. cmd[p] \in Loads \cup {"rebuild", "reason", "gc-derived", "serve"}
      BY <2>1 DEF ProcInv, StepsOf, Loads, Reasons, Commands
    <3>2. CASE cmd[p] \in Loads
      BY <3>1, <3>2 DEF AfterOpen, StepsOf, Labels, Loads
    <3>3. CASE cmd[p] = "rebuild"
      BY <3>3 DEF AfterOpen, StepsOf, Labels, Loads
    <3>4. CASE cmd[p] = "reason"
      BY <3>4 DEF AfterOpen, StepsOf, Labels, Loads, Reasons
    <3>5. CASE cmd[p] = "gc-derived"
      BY <3>5 DEF AfterOpen, StepsOf, Labels, Loads, Reasons
    <3>6. CASE cmd[p] = "serve"
      BY <3>6 DEF AfterOpen, StepsOf, Labels, Loads, Reasons
    <3>7. QED
      BY <3>1, <3>2, <3>3, <3>4, <3>5, <3>6
  <2>3. TypeOK'
    BY <2>1, <2>2
  <2>4. \A q \in Procs : ProcInv(q)'
    BY <2>1, <2>2 DEF ProcInv
  <2>5. QED
    BY <2>3, <2>4
<1>6. ASSUME NEW p \in Procs, OpenIsOptional(p) PROVE TypeInv'
  BY <1>6 DEF OpenIsOptional, ProcInv, StepsOf, Labels, Loads, Reasons, Commands
<1>7. ASSUME NEW p \in Procs, WipeSome(p) PROVE TypeInv'
  BY <1>7 DEF WipeSome, Detached, ProcInv, StepsOf, Labels, Loads, Reasons, Commands
<1>8. ASSUME NEW p \in Procs, WipeRest(p) PROVE TypeInv'
  BY <1>8 DEF WipeRest, Detached, ProcInv, StepsOf, Labels, Loads, Reasons, Commands
<1>9. ASSUME NEW p \in Procs, ReadMarker(p) PROVE TypeInv'
  BY <1>9 DEF ReadMarker, ProcInv, StepsOf, Labels, Loads, Reasons, Commands
<1>10. ASSUME NEW p \in Procs, List(p) PROVE TypeInv'
  <2>1. /\ pc[p] = "list" /\ pc' = [pc EXCEPT ![p] = "read"]
        /\ UNCHANGED <<storeVars, indexVars, cmd, handle, batch, argVars, crashes>>
    BY <1>10 DEF List
  <2> DEFINE paths == CASE cmd[p] = "load --new" -> Present \ already[p]
                        [] cmd[p] = "load" -> Named
                        [] OTHER -> Present
  <2>2. paths \subseteq Frags
    BY IndexAssumption DEF Present
  <2>3. todo' = [todo EXCEPT ![p] = paths]
    BY <1>10 DEF List
  <2>4. already' \in {already, [already EXCEPT ![p] = @ \cup paths]}
    BY <1>10 DEF List
  <2> HIDE DEF paths
  <2>5. already' \in [Procs -> SUBSET Frags] /\ todo' \in [Procs -> SUBSET Frags]
    BY <2>2, <2>3, <2>4
  <2>6. cmd[p] \in Loads \cup {"rebuild"}
    BY <1>10 DEF List
  <2>7. "read" \in StepsOf(cmd[p]) /\ "read" \in Labels
    BY <2>6 DEF StepsOf, Labels, Loads
  <2>8. QED
    BY <2>1, <2>5, <2>7, GoesOn
<1>11. ASSUME NEW p \in Procs, Commit(p) PROVE TypeInv'
  <2>1. /\ pc[p] = "read" /\ pc' = [pc EXCEPT ![p] = AfterCommit(cmd[p])]
        /\ UNCHANGED <<storeVars, loaded, cmd, handle, already, todo, argVars, crashes>>
    BY <1>11 DEF Commit
  <2>2. index' \in SUBSET (Frags \X Nat) /\ batch' \in [Procs -> SUBSET (Frags \X Nat)]
    BY <1>11 DEF Commit
  <2>3. cmd[p] \in Loads \cup {"rebuild", "reason"}
    BY <2>1 DEF ProcInv, StepsOf, Loads, Reasons, Commands
  <2>4. AfterCommit(cmd[p]) \in (StepsOf(cmd[p]) \cap Labels) \ {"idle", "unlink"}
    BY <2>3 DEF AfterCommit, StepsOf, Labels, Loads
  <2>5. QED
    BY <2>1, <2>2, <2>4, GoesOn
<1>12. ASSUME NEW p \in Procs, ListAgain(p) PROVE TypeInv'
  BY <1>12 DEF ListAgain, Present, ProcInv, StepsOf, Labels, Loads, Reasons, Commands
<1>13. ASSUME NEW p \in Procs, Truncate(p) PROVE TypeInv'
  BY <1>13 DEF Truncate, ProcInv, StepsOf, Labels, Loads, Reasons, Commands
<1>14. ASSUME NEW p \in Procs, WriteDerived(p) PROVE TypeInv'
  <2>1. /\ pc[p] = "derived" /\ pc' = [pc EXCEPT ![p] = "run"]
        /\ UNCHANGED <<stamp, indexVars, cmd, handle, already, todo, batch, argVars, crashes>>
    BY <1>14 DEF WriteDerived
  <2>2. file' \in [Frags -> Nat]
    BY <1>14 DEF WriteDerived
  <2>3. cmd[p] \in Reasons
    BY <2>1 DEF ProcInv, StepsOf, Loads, Reasons, Commands
  <2>4. "run" \in StepsOf(cmd[p]) /\ "run" \in Labels
    BY <2>3 DEF StepsOf, Labels, Loads, Reasons
  <2>5. QED
    BY <2>1, <2>2, <2>4, GoesOn
<1>15. ASSUME NEW p \in Procs, OverwriteRun(p) PROVE TypeInv'
  <2> DEFINE l == IF handle[p] = "none" THEN "exit" ELSE "decide"
  <2>1. /\ pc[p] = "run" /\ pc' = [pc EXCEPT ![p] = l]
        /\ UNCHANGED <<stamp, indexVars, cmd, handle, already, todo, batch, argVars, crashes>>
    BY <1>15 DEF OverwriteRun
  <2>2. file' \in [Frags -> Nat]
    BY <1>15 DEF OverwriteRun
  <2>3. cmd[p] \in Reasons
    BY <2>1 DEF ProcInv, StepsOf, Loads, Reasons, Commands
  <2>4. l \in Labels \ {"idle", "unlink"}
    BY DEF Labels
  <2>5. cmd[p] = "reason --no-load" => handle[p] = "none"
    BY DEF ProcInv
  <2>6. l \in StepsOf(cmd[p])
    BY <2>3, <2>5 DEF StepsOf, Loads, Reasons
  <2>7. QED
    BY <2>1, <2>2, <2>4, <2>6, GoesOn
<1>16. ASSUME NEW p \in Procs, LoadBoth(p) PROVE TypeInv'
  <2>1. target[p] \in Derived /\ cmd[p] \in Reasons
    BY <1>16 DEF LoadBoth, ProcInv, StepsOf, Loads, Reasons, Commands
  <2>2. {target[p], RunOf[target[p]]} \in SUBSET Frags
    BY <2>1, FragTypes
  <2>3. todo' \in [Procs -> SUBSET Frags]
    BY <1>16, <2>2 DEF LoadBoth
  <2>4. QED
    BY <1>16, <2>1, <2>3 DEF LoadBoth, ProcInv, StepsOf, Labels, Loads, Reasons, Commands
<1>17. ASSUME NEW p \in Procs, LoadNeither(p) PROVE TypeInv'
  <2>1. /\ pc[p] = "decide" /\ pc' = [pc EXCEPT ![p] = "exit"]
        /\ UNCHANGED <<storeVars, indexVars, cmd, handle, already, todo, batch, argVars, crashes>>
    BY <1>17 DEF LoadNeither
  <2>2. cmd[p] = "reason"
    BY <2>1 DEF ProcInv, StepsOf, Loads, Reasons, Commands
  <2>3. "exit" \in StepsOf(cmd[p]) /\ "exit" \in Labels
    BY <2>2 DEF StepsOf, Labels, Loads
  <2>4. QED
    BY <2>1, <2>3, GoesOn
<1>18. ASSUME NEW p \in Procs, ListGarbage(p) PROVE TypeInv'
  BY <1>18 DEF ListGarbage, Present, ProcInv, StepsOf, Labels, Loads, Reasons, Commands
<1>19. ASSUME NEW p \in Procs, Unlink(p) PROVE TypeInv'
  <2>1. cmd[p] = "gc-derived" /\ "drop" \in StepsOf(cmd[p])
    BY <1>19 DEF Unlink, ProcInv, StepsOf, Loads, Reasons, Commands
  <2>2. TypeOK'
    BY <1>19 DEF Unlink, Labels
  <2>3. ASSUME NEW q \in Procs PROVE ProcInv(q)'
    BY <1>19, <2>1 DEF Unlink, ProcInv, Reasons
  <2>4. QED
    BY <2>2, <2>3
<1>20. ASSUME NEW p \in Procs, OpenFails(p) PROVE TypeInv'
  BY <1>20, TypeInvExit DEF OpenFails
<1>21. ASSUME NEW p \in Procs, Mark(p) PROVE TypeInv'
  BY <1>21, TypeInvExit DEF Mark
<1>22. ASSUME NEW p \in Procs, Leave(p) PROVE TypeInv'
  BY <1>22, TypeInvExit DEF Leave
<1>23. ASSUME NEW p \in Procs, UnlinkFails(p) PROVE TypeInv'
  BY <1>23, TypeInvExit DEF UnlinkFails
<1>24. ASSUME NEW p \in Procs, Collected(p) PROVE TypeInv'
  BY <1>24, TypeInvExit DEF Collected
<1>25. ASSUME NEW p \in Procs, Stop(p) PROVE TypeInv'
  BY <1>25, TypeInvExit DEF Stop
<1>26. ASSUME NEW p \in Procs, Crash(p) PROVE TypeInv'
  BY <1>26, TypeInvExit DEF Crash
<1>27. ASSUME NEW p \in Procs, NEW f \in Frags, ReadFile(p, f) PROVE TypeInv'
  <2>1. /\ batch' = [batch EXCEPT ![p] = @ \cup {<<f, file[f]>>}]
        /\ todo' = [todo EXCEPT ![p] = @ \ {f}]
        /\ UNCHANGED <<storeVars, indexVars, pc, cmd, handle, already, argVars, crashes>>
    BY <1>27 DEF ReadFile
  <2>2. batch[p] \cup {<<f, file[f]>>} \in SUBSET (Frags \X Nat)
    OBVIOUS
  <2>3. batch' \in [Procs -> SUBSET (Frags \X Nat)] /\ todo' \in [Procs -> SUBSET Frags]
    BY <2>1, <2>2
  <2>4. QED
    BY <2>1, <2>3 DEF ProcInv
<1>28. ASSUME NEW p \in Procs, NEW f \in Frags, ReadFails(p, f) PROVE TypeInv'
  BY <1>28, TypeInvExit DEF ReadFails
<1>29. ASSUME NEW p \in Procs, NEW f \in Frags, DropGraph(p, f) PROVE TypeInv'
  <2>1. cmd[p] = "gc-derived" /\ "unlink" \in StepsOf(cmd[p])
    BY <1>29 DEF DropGraph, ProcInv, StepsOf, Loads, Reasons, Commands
  <2>2. TypeOK'
    BY <1>29 DEF DropGraph, Labels
  <2>3. ASSUME NEW q \in Procs PROVE ProcInv(q)'
    BY <1>29, <2>1 DEF DropGraph, ProcInv, Reasons
  <2>4. QED
    BY <2>2, <2>3
<1>30. CASE UNCHANGED vars
  BY <1>30 DEF vars, ProcInv
<1>31. QED
  BY <1>1, <1>2, <1>3, <1>4, <1>6, <1>7, <1>8, <1>9, <1>10, <1>11, <1>12, <1>13, <1>14, <1>15,
     <1>16, <1>17, <1>18, <1>19, <1>20, <1>21, <1>22, <1>23, <1>24, <1>25, <1>26, <1>27, <1>28,
     <1>29, <1>30
     DEF Next, Start, Continue

(***************************************************************************)
(* Type correctness: the variables of every process that runs, crashes     *)
(* or has its index deleted under it keep their types, and a process at    *)
(* rest holds no lock (a process's exit closes the database).              *)
(***************************************************************************)
THEOREM IndexTypeCorrect == Spec => []TypeOK
<1>1. TypeInv => TypeOK
  BY DEF TypeInv
<1>2. QED
  BY TypeInvInit, TypeInvStep, <1>1, PTL DEF Spec

-----------------------------------------------------------------------------
(***************************************************************************)
(* The lock of the index.                                                  *)
(***************************************************************************)
LEMMA LockInvInit == Init => LockInv
  BY DEF Init, LockInv

LEMMA LockInvStep == TypeInv /\ LockInv /\ [Next]_vars => LockInv'
<1> SUFFICES ASSUME TypeInv, LockInv, [Next]_vars PROVE LockInv'
  OBVIOUS
<1> USE DEF TypeInv, TypeOK, LockInv, Goto
<1>1. CASE UNCHANGED <<handle, pc>>
  BY <1>1
<1>2. ASSUME NEW p \in Procs, Exit(p) PROVE LockInv'
  BY <1>2 DEF Exit
<1>3. ASSUME NEW p \in Procs, NEW l \in Labels \ {"open"}, Goto(p, l), handle' = handle
      PROVE  LockInv'
  BY <1>3
<1>4. ASSUME NEW p \in Procs, NEW c \in Commands, Begin(p, c) PROVE LockInv'
  BY <1>4 DEF Begin
<1>5. ASSUME NEW p \in Procs, NEW c \in Commands, NEW d \in Derived, BeginReason(p, c, d)
      PROVE  LockInv'
  BY <1>5 DEF BeginReason
<1>6. ASSUME NEW p \in Procs, Open(p) PROVE LockInv'
  <2>1. AfterOpen(cmd[p]) # "open"
    <3>1. cmd[p] \in Loads \cup {"rebuild", "reason", "gc-derived", "serve"}
      BY <1>6 DEF Open, ProcInv, StepsOf, Loads, Reasons, Commands
    <3>2. QED
      BY <3>1 DEF AfterOpen, Loads
  <2>2. QED
    BY <1>6, <2>1 DEF Open
<1>7. ASSUME NEW p \in Procs, WipeSome(p) \/ WipeRest(p) PROVE LockInv'
  BY <1>7 DEF WipeSome, WipeRest, Detached
<1>8. ASSUME NEW p \in Procs,
             OpenIsOptional(p) \/ ReadMarker(p) \/ List(p) \/ Commit(p) \/ ListAgain(p)
             \/ Truncate(p) \/ WriteDerived(p) \/ OverwriteRun(p) \/ LoadBoth(p)
             \/ LoadNeither(p) \/ ListGarbage(p) \/ Unlink(p)
      PROVE  LockInv'
  BY <1>8, <1>3 DEF OpenIsOptional, ReadMarker, List, Commit, AfterCommit, ListAgain,
     Truncate, WriteDerived, OverwriteRun, LoadBoth, LoadNeither, ListGarbage, Unlink, Labels
<1>9. ASSUME NEW p \in Procs,
             OpenFails(p) \/ Mark(p) \/ Leave(p) \/ UnlinkFails(p) \/ Collected(p)
             \/ Stop(p) \/ Crash(p) \/ (\E f \in Frags : ReadFails(p, f))
      PROVE  LockInv'
  BY <1>9, <1>2 DEF OpenFails, Mark, Leave, UnlinkFails, Collected, Stop, Crash, ReadFails
<1>10. ASSUME NEW p \in Procs, NEW f \in Frags, ReadFile(p, f) PROVE LockInv'
  BY <1>10 DEF ReadFile
<1>11. ASSUME NEW p \in Procs, NEW f \in Frags, DropGraph(p, f) PROVE LockInv'
  BY <1>11 DEF DropGraph
<1>12. ASSUME NEW f \in Frags, Extract(f) PROVE LockInv'
  BY <1>12 DEF Extract
<1>13. CASE UNCHANGED vars
  BY <1>13 DEF vars
<1>14. QED
  BY <1>4, <1>5, <1>6, <1>7, <1>8, <1>9, <1>10, <1>11, <1>12, <1>13 DEF Next, Start, Continue

-----------------------------------------------------------------------------
(***************************************************************************)
(* reason ends with its derived graph in the index.                        *)
(***************************************************************************)
Core == TypeInv /\ LockInv

\* What a step of one process leaves to another, p: its variables, its lock
\* unless its directory is deleted, and the index unless p has no right to it.
Others(p) ==
  /\ pc'[p] = pc[p] /\ cmd'[p] = cmd[p] /\ target'[p] = target[p]
  /\ todo'[p] = todo[p] /\ batch'[p] = batch[p] /\ already'[p] = already[p]
  /\ handle'[p] # "open" \/ (handle[p] = "open" /\ index \subseteq index')

LEMMA ReasonFrame ==
  ASSUME NEW p, ReasonInv(p), Others(p)
  PROVE  ReasonInv(p)'
<1>1. CASE handle'[p] # "open"
  BY <1>1 DEF ReasonInv
<1>2. CASE handle[p] = "open" /\ index \subseteq index'
  <2>1. InBatch(p, target[p]) => InBatch(p, target[p])'
    BY DEF Others, InBatch
  <2>2. Indexed(target[p]) => Indexed(target[p])'
    BY <1>2 DEF Others, Indexed
  <2>3. QED
    BY <1>2, <2>1, <2>2 DEF ReasonInv, Others
<1>3. QED
  BY <1>1, <1>2 DEF Others

LEMMA StepOfAnother ==
  ASSUME Core, NEW p \in Procs, Start(p) \/ Continue(p) \/ Crash(p),
         NEW q \in Procs, q # p
  PROVE  Others(q)
<1> USE DEF Core, TypeInv, TypeOK, Goto, Others
<1>1. ASSUME Exit(p), index' = index PROVE Others(q)
  BY <1>1 DEF Exit
<1>2. CASE Start(p)
  BY <1>2 DEF Start, Begin, BeginReason, indexVars, argVars
<1>3. CASE OpenFails(p) \/ Mark(p) \/ Leave(p) \/ UnlinkFails(p) \/ Collected(p)
           \/ Stop(p) \/ Crash(p) \/ (\E f \in Frags : ReadFails(p, f))
  BY <1>3, <1>1 DEF OpenFails, Mark, Leave, UnlinkFails, Collected, Stop, Crash, ReadFails, indexVars
<1>4. CASE Open(p) \/ OpenIsOptional(p) \/ ReadMarker(p) \/ List(p) \/ ListAgain(p) \/ Truncate(p)
  BY <1>4 DEF Open, OpenIsOptional, ReadMarker, List, ListAgain, Truncate, indexVars, argVars
<1>5. CASE WriteDerived(p) \/ OverwriteRun(p) \/ LoadBoth(p) \/ LoadNeither(p)
           \/ ListGarbage(p) \/ Unlink(p)
  BY <1>5 DEF WriteDerived, OverwriteRun, LoadBoth, LoadNeither, ListGarbage, Unlink, indexVars, argVars
<1>6. CASE WipeSome(p) \/ WipeRest(p)
  BY <1>6 DEF WipeSome, WipeRest, Detached, argVars
<1>7. ASSUME NEW f \in Frags, ReadFile(p, f) PROVE Others(q)
  BY <1>7 DEF ReadFile, indexVars, argVars
<1>8. CASE Commit(p)
  BY <1>8 DEF Commit, argVars
<1>9. ASSUME NEW f \in Frags, DropGraph(p, f) PROVE Others(q)
  BY <1>9 DEF DropGraph, LockInv
<1>10. QED
  BY <1>2, <1>3, <1>4, <1>5, <1>6, <1>7, <1>8, <1>9 DEF Continue

LEMMA ReasonOwnStep ==
  ASSUME Core, NEW p \in Procs, ReasonInv(p), Start(p) \/ Continue(p) \/ Crash(p)
  PROVE  ReasonInv(p)'
<1> USE DEF Core, TypeInv, TypeOK, Goto
<1>1. ASSUME Exit(p) PROVE ReasonInv(p)'
  BY <1>1 DEF Exit, ReasonInv
<1>2. CASE Start(p)
  BY <1>2 DEF Start, Begin, BeginReason, ReasonInv, Reasons
<1>3. CASE OpenFails(p) \/ Mark(p) \/ Leave(p) \/ UnlinkFails(p) \/ Collected(p)
           \/ Stop(p) \/ Crash(p) \/ (\E f \in Frags : ReadFails(p, f))
  BY <1>3, <1>1 DEF OpenFails, Mark, Leave, UnlinkFails, Collected, Stop, Crash, ReadFails
<1>4. CASE Open(p)
  BY <1>4 DEF Open, AfterOpen, ReasonInv, Loads
<1>5. CASE OpenIsOptional(p) \/ ReadMarker(p) \/ ListAgain(p) \/ Truncate(p)
           \/ WriteDerived(p) \/ ListGarbage(p) \/ Unlink(p)
  BY <1>5 DEF OpenIsOptional, ReadMarker, ListAgain, Truncate, WriteDerived, ListGarbage,
     Unlink, ReasonInv
<1>6. CASE List(p)
  BY <1>6 DEF List, ReasonInv, Loads
<1>7. CASE OverwriteRun(p)
  BY <1>7 DEF OverwriteRun, ReasonInv
<1>8. CASE LoadBoth(p)
  BY <1>8 DEF LoadBoth, ReasonInv, argVars
<1>9. CASE LoadNeither(p)
  BY <1>9 DEF LoadNeither, ReasonInv, Indexed, indexVars, argVars
<1>10. CASE WipeSome(p) \/ WipeRest(p)
  BY <1>10 DEF WipeSome, WipeRest, Detached, ReasonInv
<1>11. ASSUME NEW f \in Frags, ReadFile(p, f) PROVE ReasonInv(p)'
  <2>1. /\ pc[p] = "read" /\ pc'[p] = "read"
        /\ batch'[p] = batch[p] \cup {<<f, file[f]>>} /\ todo'[p] = todo[p] \ {f}
        /\ target' = target /\ cmd' = cmd /\ handle' = handle
    BY <1>11 DEF ReadFile, argVars
  <2>2. InBatch(p, f)' /\ (\A g : InBatch(p, g) => InBatch(p, g)')
    <3>1. <<f, file[f]>>[1] = f
      OBVIOUS
    <3>2. QED
      BY <2>1, <3>1 DEF InBatch
  <2>3. QED
    BY <2>1, <2>2 DEF ReasonInv
<1>12. CASE Commit(p)
  <2>1. /\ todo[p] = {} /\ pc[p] = "read" /\ target' = target /\ cmd' = cmd /\ handle' = handle
        /\ handle[p] = "open" => index' = index \cup batch[p]
        /\ cmd[p] = "reason" => pc'[p] = "exit"
    BY <1>12 DEF Commit, AfterCommit, argVars, Loads
  <2>2. SUFFICES ASSUME cmd[p] = "reason", handle[p] = "open" PROVE Indexed(target[p])'
    BY <2>1 DEF ReasonInv, Indexed
  <2>3. InBatch(p, target[p])
    BY <2>1, <2>2 DEF ReasonInv
  <2>4. QED
    BY <2>1, <2>2, <2>3 DEF InBatch, Indexed
<1>13. ASSUME NEW f \in Frags, DropGraph(p, f) PROVE ReasonInv(p)'
  BY <1>13 DEF DropGraph, ReasonInv
<1>14. QED
  BY <1>2, <1>3, <1>4, <1>5, <1>6, <1>7, <1>8, <1>9, <1>10, <1>11, <1>12, <1>13 DEF Continue

(***************************************************************************)
(* When `reason` comes to its end with the index open, the derived graph   *)
(* is in the index, whatever commands overlap or die: has_derived was      *)
(* asked, and the graph loaded, under one lock (Cmd::Reason, persist).     *)
(***************************************************************************)
THEOREM ReasonLoads == Spec => []ReasonLeavesItLoaded
<1> DEFINE Inv == Core /\ \A p \in Procs : ReasonInv(p)
<1>1. Init => Inv
  BY TypeInvInit, LockInvInit DEF Core, ReasonInv, Init
<1>2. Inv /\ [Next]_vars => Inv'
  <2> SUFFICES ASSUME Inv, [Next]_vars PROVE Inv'
    OBVIOUS
  <2>1. Core'
    BY TypeInvStep, LockInvStep DEF Core
  <2>2. ASSUME NEW q \in Procs PROVE ReasonInv(q)'
    <3>1. CASE UNCHANGED vars
      BY <3>1 DEF vars, ReasonInv, Indexed, InBatch
    <3>2. ASSUME NEW f \in Frags, Extract(f) PROVE ReasonInv(q)'
      BY <3>2 DEF Extract, indexVars, argVars, ReasonInv, Indexed, InBatch
    <3>3. ASSUME NEW p \in Procs, Start(p) \/ Continue(p) \/ Crash(p) PROVE ReasonInv(q)'
      BY <3>3, <2>2, ReasonOwnStep, StepOfAnother, ReasonFrame
    <3>4. QED
      BY <3>1, <3>2, <3>3 DEF Next
  <2>3. QED
    BY <2>1, <2>2
<1>3. Inv => ReasonLeavesItLoaded
  BY DEF ReasonInv, ReasonLeavesItLoaded
<1>4. QED
  BY <1>1, <1>2, <1>3, PTL DEF Spec

-----------------------------------------------------------------------------
(***************************************************************************)
(* What the marker names is in the index.                                  *)
(***************************************************************************)
Step(p) == Start(p) \/ Continue(p) \/ Crash(p)

LEMMA GarbageStep ==
  ASSUME TypeInv, NEW p \in Procs, GarbageInv(p), Step(p)
  PROVE  GarbageInv(p)'
<1> USE DEF TypeInv, TypeOK, Goto, GarbageInv, Step
<1>1. ASSUME Exit(p) PROVE GarbageInv(p)'
  BY <1>1 DEF Exit
<1>2. CASE Start(p)
  BY <1>2 DEF Start, Begin, BeginReason
<1>3. CASE OpenFails(p) \/ Mark(p) \/ Leave(p) \/ UnlinkFails(p) \/ Collected(p)
           \/ Stop(p) \/ Crash(p) \/ (\E f \in Frags : ReadFails(p, f))
  BY <1>3, <1>1 DEF OpenFails, Mark, Leave, UnlinkFails, Collected, Stop, Crash, ReadFails
<1>4. CASE Open(p)
  <2>1. cmd[p] \in Loads \cup {"rebuild", "reason", "gc-derived", "serve"}
    BY <1>4 DEF Open, ProcInv, StepsOf, Loads, Reasons, Commands
  <2>2. AfterOpen(cmd[p]) \notin {"drop", "unlink"}
    BY <2>1 DEF AfterOpen, Loads
  <2>3. QED
    BY <1>4, <2>2 DEF Open
<1>5. CASE OpenIsOptional(p) \/ ReadMarker(p) \/ List(p) \/ ListAgain(p) \/ Truncate(p)
           \/ Commit(p)
  BY <1>5 DEF OpenIsOptional, ReadMarker, List, ListAgain, Truncate, Commit, AfterCommit
<1>6. CASE WriteDerived(p) \/ OverwriteRun(p) \/ LoadBoth(p) \/ LoadNeither(p)
           \/ WipeSome(p) \/ WipeRest(p)
  BY <1>6 DEF WriteDerived, OverwriteRun, LoadBoth, LoadNeither, WipeSome, WipeRest
<1>7. CASE ListGarbage(p)
  BY <1>7 DEF ListGarbage, ProcInv, Droppable, Commands
<1>8. CASE Unlink(p)
  BY <1>8 DEF Unlink, Droppable
<1>9. ASSUME NEW f \in Frags, ReadFile(p, f) PROVE GarbageInv(p)'
  BY <1>9 DEF ReadFile
<1>10. ASSUME NEW f \in Frags, DropGraph(p, f) PROVE GarbageInv(p)'
  BY <1>10 DEF DropGraph, Droppable
<1>11. QED
  BY <1>2, <1>3, <1>4, <1>5, <1>6, <1>7, <1>8, <1>9, <1>10 DEF Continue

\* The index is deleted, and listed again, by rebuild alone.
LEMMA WipeIsOfRebuild ==
  ASSUME TypeInv, NEW p \in Procs, cmd[p] # "rebuild"
  PROVE  pc[p] \notin {"wipe", "wipe rest", "list again"}
<1>1. pc[p] \in StepsOf(cmd[p]) /\ cmd[p] \in Commands \cup {"none"}
  BY DEF TypeInv, TypeOK, ProcInv
<1>2. QED
  BY <1>1 DEF StepsOf, Loads, Reasons, Commands

LEMMA NoWipe ==
  ASSUME NoRebuild, TypeInv, NEW p \in Procs
  PROVE  cmd[p] # "rebuild" /\ pc[p] \notin {"wipe", "wipe rest", "list again"}
<1>1. cmd[p] # "rebuild"
  BY DEF NoRebuild, TypeInv, ProcInv
<1>2. QED
  BY <1>1, WipeIsOfRebuild

\* Only garbage leaves the index.
OnlyGarbageLeaves == \A f \in Frags \ Droppable : Indexed(f) => Indexed(f)'

LEMMA IndexKeeps ==
  ASSUME NoRebuild, TypeInv, NEW p \in Procs, GarbageInv(p), Step(p)
  PROVE  OnlyGarbageLeaves
<1> USE DEF OnlyGarbageLeaves, Indexed
<1>1. CASE index' = index
  BY <1>1
<1>2. CASE Start(p)
  BY <1>2 DEF Start, Begin, BeginReason, indexVars
<1>3. CASE OpenFails(p) \/ Mark(p) \/ Leave(p) \/ UnlinkFails(p) \/ Collected(p)
           \/ Stop(p) \/ Crash(p) \/ (\E f \in Frags : ReadFails(p, f))
  BY <1>1, <1>3 DEF OpenFails, Mark, Leave, UnlinkFails, Collected, Stop, Crash, ReadFails, indexVars
<1>4. CASE Open(p) \/ OpenIsOptional(p) \/ ReadMarker(p) \/ List(p) \/ ListAgain(p) \/ Truncate(p)
  BY <1>1, <1>4 DEF Open, OpenIsOptional, ReadMarker, List, ListAgain, Truncate, indexVars
<1>5. CASE WriteDerived(p) \/ OverwriteRun(p) \/ LoadBoth(p) \/ LoadNeither(p)
           \/ ListGarbage(p) \/ Unlink(p)
  BY <1>1, <1>5 DEF WriteDerived, OverwriteRun, LoadBoth, LoadNeither, ListGarbage, Unlink, indexVars
<1>6. CASE WipeSome(p) \/ WipeRest(p)
  BY <1>6, NoWipe DEF WipeSome, WipeRest
<1>7. CASE Commit(p)
  BY <1>7 DEF Commit
<1>8. ASSUME NEW f \in Frags, ReadFile(p, f) PROVE OnlyGarbageLeaves
  BY <1>1, <1>8 DEF ReadFile, indexVars
<1>9. ASSUME NEW f \in Frags, DropGraph(p, f) PROVE OnlyGarbageLeaves
  <2>1. f \in Droppable /\ (index' = index \/ index' = {q \in index : q[1] # f})
    BY <1>9 DEF DropGraph, GarbageInv
  <2>2. QED
    BY <2>1
<1>10. QED
  BY <1>2, <1>3, <1>4, <1>5, <1>6, <1>7, <1>8, <1>9 DEF Continue, Step

LEMMA HandleStep ==
  ASSUME NoRebuild, TypeInv, NEW p \in Procs, HandleInv(p), Step(p)
  PROVE  HandleInv(p)'
<1> USE DEF TypeInv, TypeOK, Goto, HandleInv, Step
<1>1. ASSUME Exit(p) PROVE HandleInv(p)'
  BY <1>1 DEF Exit, Loads
<1>2. CASE Start(p)
  BY <1>2, NoWipe DEF Start, Begin, BeginReason, Loads, Reasons
<1>3. CASE OpenFails(p) \/ Mark(p) \/ Leave(p) \/ UnlinkFails(p) \/ Collected(p)
           \/ Stop(p) \/ Crash(p) \/ (\E f \in Frags : ReadFails(p, f))
  BY <1>3, <1>1 DEF OpenFails, Mark, Leave, UnlinkFails, Collected, Stop, Crash, ReadFails
<1>4. CASE Open(p)
  BY <1>4 DEF Open
<1>5. CASE OpenIsOptional(p)
  BY <1>5 DEF OpenIsOptional, Loads
<1>6. CASE ReadMarker(p) \/ List(p) \/ ListAgain(p) \/ Truncate(p)
  BY <1>6 DEF ReadMarker, List, ListAgain, Truncate
<1>7. CASE Commit(p) \/ WriteDerived(p) \/ OverwriteRun(p) \/ LoadBoth(p) \/ LoadNeither(p)
           \/ ListGarbage(p) \/ Unlink(p)
  BY <1>7 DEF Commit, AfterCommit, WriteDerived, OverwriteRun, LoadBoth, LoadNeither,
     ListGarbage, Unlink
<1>8. CASE WipeSome(p) \/ WipeRest(p)
  BY <1>8, NoWipe DEF WipeSome, WipeRest
<1>9. ASSUME NEW f \in Frags, ReadFile(p, f) PROVE HandleInv(p)'
  BY <1>9 DEF ReadFile
<1>10. ASSUME NEW f \in Frags, DropGraph(p, f) PROVE HandleInv(p)'
  BY <1>10 DEF DropGraph
<1>11. QED
  BY <1>2, <1>3, <1>4, <1>5, <1>6, <1>7, <1>8, <1>9, <1>10 DEF Continue

\* A step of another process: the index loses garbage at most.
LEMMA MarkFrame ==
  ASSUME TypeInv, NEW p \in Procs, MarkInv(p), OnlyGarbageLeaves,
         UNCHANGED <<pc[p], cmd[p], already[p], todo[p], batch[p]>>
  PROVE  MarkInv(p)'
<1>1. already[p] \subseteq Frags
  BY DEF TypeInv, TypeOK
<1>2. \A f : InBatch(p, f) => InBatch(p, f)'
  BY DEF InBatch
<1>3. QED
  BY <1>1, <1>2 DEF MarkInv, OnlyGarbageLeaves, Droppable

\* Where p does not delete the directory the others keep their locks too.
Quiet(q) ==
  /\ UNCHANGED <<pc[q], cmd[q], already[q], todo[q], batch[q]>>
  /\ handle'[q] = handle[q]

LEMMA QuietStep ==
  ASSUME TypeInv, NEW p \in Procs, cmd[p] # "rebuild", Step(p), NEW q \in Procs, q # p
  PROVE  Quiet(q)
<1> USE DEF TypeInv, TypeOK, Goto, Quiet
<1>1. ASSUME Exit(p) PROVE Quiet(q)
  BY <1>1 DEF Exit
<1>2. CASE Start(p)
  BY <1>2 DEF Start, Begin, BeginReason
<1>3. CASE OpenFails(p) \/ Mark(p) \/ Leave(p) \/ UnlinkFails(p) \/ Collected(p)
           \/ Stop(p) \/ Crash(p) \/ (\E f \in Frags : ReadFails(p, f))
  BY <1>3, <1>1 DEF OpenFails, Mark, Leave, UnlinkFails, Collected, Stop, Crash, ReadFails
<1>4. CASE Open(p) \/ OpenIsOptional(p) \/ ReadMarker(p) \/ List(p) \/ ListAgain(p) \/ Truncate(p)
  BY <1>4 DEF Open, OpenIsOptional, ReadMarker, List, ListAgain, Truncate
<1>5. CASE Commit(p) \/ WriteDerived(p) \/ OverwriteRun(p) \/ LoadBoth(p) \/ LoadNeither(p)
           \/ ListGarbage(p) \/ Unlink(p)
  BY <1>5 DEF Commit, WriteDerived, OverwriteRun, LoadBoth, LoadNeither, ListGarbage, Unlink
<1>6. CASE WipeSome(p) \/ WipeRest(p)
  BY <1>6, WipeIsOfRebuild DEF WipeSome, WipeRest
<1>7. ASSUME NEW f \in Frags, ReadFile(p, f) \/ DropGraph(p, f) PROVE Quiet(q)
  BY <1>7 DEF ReadFile, DropGraph
<1>8. QED
  BY <1>2, <1>3, <1>4, <1>5, <1>6, <1>7 DEF Continue, Step

LEMMA MarkOwnStep ==
  ASSUME NoRebuild, TypeInv, NEW p \in Procs, GarbageInv(p), MarkInv(p), HandleInv(p),
         MarkedInv, Step(p)
  PROVE  MarkInv(p)'
<1> USE DEF TypeInv, TypeOK, Goto
<1>1. ASSUME Exit(p) PROVE MarkInv(p)'
  BY <1>1 DEF Exit, MarkInv
<1>2. CASE Start(p)
  <2>1. already'[p] = {} /\ cmd'[p] # "none"
    BY <1>2 DEF Start, Begin, BeginReason, MarkInv, Commands, Loads, Reasons
  <2>2. QED
    BY <2>1 DEF MarkInv
<1>3. CASE OpenFails(p) \/ Mark(p) \/ Leave(p) \/ UnlinkFails(p) \/ Collected(p)
           \/ Stop(p) \/ Crash(p) \/ (\E f \in Frags : ReadFails(p, f))
  BY <1>3, <1>1 DEF Step, OpenFails, Mark, Leave, UnlinkFails, Collected, Stop, Crash, ReadFails
<1>4. CASE Open(p) \/ OpenIsOptional(p) \/ Truncate(p)
  BY <1>4 DEF Open, OpenIsOptional, Truncate, MarkInv, Indexed, indexVars
<1>5. CASE ReadMarker(p)
  <2>1. pc[p] = "marker" /\ already'[p] = loaded /\ cmd' = cmd /\ index' = index
    BY <1>5 DEF ReadMarker, indexVars
  <2>2. cmd[p] \in Loads
    BY <2>1 DEF ProcInv, StepsOf, Loads, Reasons, Commands
  <2>3. cmd[p] # "none"
    BY <2>2 DEF Loads
  <2>4. \A f \in already'[p] \ Droppable : Indexed(f)'
    BY <2>1 DEF MarkedInv, Indexed
  <2>5. Droppable' = Droppable
    BY DEF Droppable
  <2>6. QED
    BY <2>1, <2>3, <2>4, <2>5 DEF MarkInv
<1>6. CASE List(p)
  <2>1. PICK paths : /\ todo' = [todo EXCEPT ![p] = paths]
                     /\ already' = IF cmd[p] \in Loads
                                   THEN [already EXCEPT ![p] = @ \cup paths] ELSE already
    BY <1>6 DEF List
  <2>2. pc[p] = "list" /\ pc'[p] = "read" /\ cmd' = cmd /\ index' = index
    BY <1>6 DEF List, indexVars
  <2>3. cmd[p] # "none"
    BY <1>6 DEF List, Loads
  <2>4. QED
    BY <2>1, <2>2, <2>3 DEF MarkInv, Indexed, Droppable
<1>7. CASE ListAgain(p) \/ WipeSome(p) \/ WipeRest(p)
  BY <1>7, NoWipe DEF ListAgain, WipeSome, WipeRest
<1>8. CASE WriteDerived(p) \/ OverwriteRun(p) \/ LoadBoth(p) \/ LoadNeither(p)
           \/ ListGarbage(p) \/ Unlink(p)
  <2>1. /\ cmd' = cmd /\ already' = already /\ index' = index
        /\ pc[p] \in {"derived", "run", "decide", "list", "unlink"}
        /\ pc[p] = "list" => cmd[p] = "gc-derived"
    BY <1>8 DEF WriteDerived, OverwriteRun, LoadBoth, LoadNeither, ListGarbage, Unlink,
       indexVars, argVars
  <2>2. pc[p] # "list" => cmd[p] \notin Loads
    BY <2>1 DEF ProcInv, StepsOf, Loads, Reasons
  <2>3. QED
    BY <2>1, <2>2 DEF MarkInv, Loads
<1>9. CASE Commit(p)
  <2>1. /\ pc[p] = "read" /\ todo[p] = {} /\ cmd' = cmd /\ already' = already
        /\ handle[p] = "open" => index' = index \cup batch[p]
    BY <1>9 DEF Commit
  <2>2. cmd[p] \in Loads => handle[p] = "open"
    BY <2>1 DEF HandleInv
  <2>3. QED
    BY <2>1, <2>2 DEF MarkInv, Indexed, InBatch
<1>10. ASSUME NEW f \in Frags, ReadFile(p, f) PROVE MarkInv(p)'
  <2>1. /\ pc[p] = "read" /\ pc' = pc /\ cmd' = cmd /\ already' = already /\ index' = index
        /\ batch'[p] = batch[p] \cup {<<f, file[f]>>} /\ todo'[p] = todo[p] \ {f}
    BY <1>10 DEF ReadFile, indexVars
  <2>2. InBatch(p, f)' /\ (\A g : InBatch(p, g) => InBatch(p, g)')
    <3>1. <<f, file[f]>>[1] = f
      OBVIOUS
    <3>2. QED
      BY <2>1, <3>1 DEF InBatch
  <2>3. QED
    BY <2>1, <2>2 DEF MarkInv, Indexed, Droppable
<1>11. ASSUME NEW f \in Frags, DropGraph(p, f) PROVE MarkInv(p)'
  <2>1. pc[p] = "drop" /\ cmd' = cmd /\ already' = already
    BY <1>11 DEF DropGraph
  <2>2. cmd[p] \notin Loads
    BY <2>1 DEF ProcInv, StepsOf, Loads
  <2>3. QED
    BY <2>1, <2>2 DEF MarkInv
<1>12. QED
  BY <1>2, <1>3, <1>4, <1>5, <1>6, <1>7, <1>8, <1>9, <1>10, <1>11 DEF Continue, Step

LEMMA MarkerStep ==
  ASSUME TypeInv, NEW p \in Procs, MarkInv(p), MarkedInv, NoRebuild,
         OnlyGarbageLeaves, Step(p)
  PROVE  MarkedInv'
<1>1. CASE loaded' = loaded
  BY <1>1 DEF TypeInv, TypeOK, MarkedInv, OnlyGarbageLeaves, Droppable
<1>2. CASE loaded' = {}
  BY <1>2 DEF MarkedInv
<1>3. CASE Mark(p)
  <2>1. pc[p] = "mark" /\ loaded' = already[p] /\ index' = index
    BY <1>3 DEF Mark
  <2>2. cmd[p] \in Loads
    BY <2>1, NoWipe DEF TypeInv, TypeOK, ProcInv, StepsOf, Loads, Reasons, Commands
  <2>3. QED
    BY <2>1, <2>2 DEF MarkInv, MarkedInv, Indexed, Droppable
<1>4. CASE Start(p) \/ Crash(p)
  BY <1>1, <1>4 DEF Start, Begin, BeginReason, Crash, indexVars
<1>5. CASE Truncate(p) \/ WipeSome(p) \/ WipeRest(p)
  BY <1>1, <1>2, <1>5 DEF Truncate, WipeSome, WipeRest
<1>6. CASE OpenFails(p) \/ Leave(p) \/ UnlinkFails(p) \/ Collected(p) \/ Stop(p)
  BY <1>1, <1>6 DEF OpenFails, Leave, UnlinkFails, Collected, Stop, indexVars
<1>7. CASE Open(p) \/ OpenIsOptional(p) \/ ReadMarker(p) \/ List(p) \/ ListAgain(p) \/ Commit(p)
  BY <1>1, <1>7 DEF Open, OpenIsOptional, ReadMarker, List, ListAgain, Commit, indexVars
<1>8. CASE WriteDerived(p) \/ OverwriteRun(p) \/ LoadBoth(p) \/ LoadNeither(p)
           \/ ListGarbage(p) \/ Unlink(p)
  BY <1>1, <1>8 DEF WriteDerived, OverwriteRun, LoadBoth, LoadNeither, ListGarbage, Unlink, indexVars
<1>9. ASSUME NEW f \in Frags, ReadFile(p, f) \/ ReadFails(p, f) \/ DropGraph(p, f)
      PROVE  MarkedInv'
  BY <1>1, <1>9 DEF ReadFile, ReadFails, DropGraph, indexVars
<1>10. QED
  BY <1>3, <1>4, <1>5, <1>6, <1>7, <1>8, <1>9 DEF Continue, Step

\* The marker is sound, and why it stays so.
SoundInv ==
  /\ TypeInv /\ MarkedInv
  /\ \A p \in Procs : GarbageInv(p) /\ MarkInv(p) /\ HandleInv(p)

LEMMA SoundInit == Init => SoundInv
<1> SUFFICES ASSUME Init PROVE SoundInv
  OBVIOUS
<1>1. \A p \in Procs : GarbageInv(p) /\ MarkInv(p) /\ HandleInv(p)
  BY DEF Init, GarbageInv, MarkInv, HandleInv, Loads
<1>2. MarkedInv
  BY DEF Init, MarkedInv
<1>3. QED
  BY <1>1, <1>2, TypeInvInit DEF SoundInv

\* A step of nobody's that opens, loads or marks.
LEMMA SoundRest ==
  ASSUME SoundInv, TypeInv',
         UNCHANGED <<pc, cmd, handle, already, todo, batch, index, loaded>>
  PROVE  SoundInv'
<1>1. \A p \in Procs : (GarbageInv(p) /\ MarkInv(p) /\ HandleInv(p))'
  BY DEF SoundInv, GarbageInv, MarkInv, HandleInv, Indexed, InBatch, Droppable
<1>2. MarkedInv'
  BY DEF SoundInv, MarkedInv, Indexed, Droppable
<1>3. QED
  BY <1>1, <1>2 DEF SoundInv

\* A step of p's that keeps its part and the marker's keeps the others'.
LEMMA SoundFrame ==
  ASSUME SoundInv, TypeInv', NEW p \in Procs, OnlyGarbageLeaves, MarkedInv',
         (GarbageInv(p) /\ MarkInv(p) /\ HandleInv(p))',
         \A q \in Procs \ {p} : Quiet(q)
  PROVE  SoundInv'
<1>1. ASSUME NEW q \in Procs \ {p} PROVE (GarbageInv(q) /\ MarkInv(q) /\ HandleInv(q))'
  <2>1. /\ UNCHANGED <<pc[q], cmd[q], already[q], todo[q], batch[q]>>
        /\ handle'[q] = handle[q]
    BY <1>1 DEF Quiet
  <2>2. GarbageInv(q)' /\ HandleInv(q)'
    BY <2>1 DEF SoundInv, GarbageInv, HandleInv, Droppable
  <2>3. MarkInv(q)'
    BY <2>1, MarkFrame DEF SoundInv
  <2>4. QED
    BY <2>2, <2>3
<1>2. QED
  BY <1>1 DEF SoundInv

LEMMA SoundStep ==
  ASSUME NoRebuild, SoundInv, NEW p \in Procs, Step(p), TypeInv'
  PROVE  SoundInv'
<1>1. OnlyGarbageLeaves
  BY IndexKeeps DEF SoundInv
<1>2. (GarbageInv(p) /\ MarkInv(p) /\ HandleInv(p))'
  BY GarbageStep, MarkOwnStep, HandleStep DEF SoundInv
<1>3. MarkedInv'
  BY <1>1, MarkerStep DEF SoundInv
<1>4. \A q \in Procs \ {p} : Quiet(q)
  BY NoWipe, QuietStep DEF SoundInv
<1>5. QED
  BY <1>1, <1>2, <1>3, <1>4, SoundFrame

(***************************************************************************)
(* Where no rebuild runs, oxigraph/.loaded never names a fragment that is  *)
(* missing from the index (but for those gc-derived collects), whatever    *)
(* loads, rule runs, collections and crashes overlap: the marker is        *)
(* written after the commit, under the lock of the index (Cmd::Load).      *)
(***************************************************************************)
THEOREM MarkerIsSound ==
  ASSUME NoRebuild
  PROVE  Spec => []MarkedIsIndexed
<1>1. SoundInv /\ [Next]_vars => SoundInv'
  <2> SUFFICES ASSUME SoundInv, [Next]_vars PROVE SoundInv'
    OBVIOUS
  <2>1. TypeInv'
    BY TypeInvStep DEF SoundInv
  <2>2. ASSUME NEW p \in Procs, Step(p) PROVE SoundInv'
    BY <2>1, <2>2, SoundStep
  <2>3. ASSUME NEW f \in Frags, Extract(f) PROVE SoundInv'
    BY <2>1, <2>3, SoundRest DEF Extract, indexVars
  <2>4. CASE UNCHANGED vars
    BY <2>1, <2>4, SoundRest DEF vars
  <2>5. QED
    BY <2>2, <2>3, <2>4 DEF Next, Step
<1>2. SoundInv => MarkedIsIndexed
  BY DEF SoundInv, MarkedInv, MarkedIsIndexed, Droppable
<1>3. QED
  BY SoundInit, <1>1, <1>2, PTL DEF Spec

-----------------------------------------------------------------------------
(***************************************************************************)
(* A rebuild gives the files.                                              *)
(***************************************************************************)
\* A batch is what load_paths has read and not yet committed.
BatchInv(p) == pc[p] # "read" => batch[p] = {}

\* The index, and what will be committed to it, are of the files.
Clean ==
  /\ index \subseteq FromFiles
  /\ \A p \in Procs : handle[p] = "open" => batch[p] \subseteq FromFiles

\* A rebuild that has deleted the index.
HasWiped(p) == cmd[p] = "rebuild" /\ pc[p] \notin {"wipe", "wipe rest"}

RestoreInv(p) ==
  HasWiped(p) =>
    /\ Clean
    /\ pc[p] # "open" => handle[p] = "open"
    /\ pc[p] = "read" => \A f \in Present : f \in todo[p] \/ <<f, file[f]>> \in index \cup batch[p]
    /\ pc[p] \in {"list again", "truncate", "mark"} => index = FromFiles
    /\ pc[p] \in {"truncate", "mark"} => already[p] = Present

LEMMA BatchStep ==
  ASSUME TypeInv, NEW p \in Procs, \A q \in Procs : BatchInv(q), Step(p)
  PROVE  \A q \in Procs : BatchInv(q)'
<1> USE DEF TypeInv, TypeOK, Goto, BatchInv
<1>1. ASSUME Exit(p) PROVE \A q \in Procs : BatchInv(q)'
  BY <1>1 DEF Exit
<1>2. CASE Start(p)
  BY <1>2 DEF Start, Begin, BeginReason
<1>3. CASE OpenFails(p) \/ Mark(p) \/ Leave(p) \/ UnlinkFails(p) \/ Collected(p)
           \/ Stop(p) \/ Crash(p) \/ (\E f \in Frags : ReadFails(p, f))
  BY <1>3, <1>1 DEF OpenFails, Mark, Leave, UnlinkFails, Collected, Stop, Crash, ReadFails
<1>4. CASE Open(p) \/ OpenIsOptional(p) \/ ReadMarker(p) \/ List(p) \/ ListAgain(p) \/ Truncate(p)
  BY <1>4 DEF Open, OpenIsOptional, ReadMarker, List, ListAgain, Truncate
<1>5. CASE WriteDerived(p) \/ OverwriteRun(p) \/ LoadBoth(p) \/ LoadNeither(p)
           \/ ListGarbage(p) \/ Unlink(p)
  BY <1>5 DEF WriteDerived, OverwriteRun, LoadBoth, LoadNeither, ListGarbage, Unlink
<1>6. CASE WipeSome(p) \/ WipeRest(p)
  BY <1>6 DEF WipeSome, WipeRest
<1>7. CASE Commit(p)
  BY <1>7 DEF Commit
<1>8. ASSUME NEW f \in Frags, ReadFile(p, f) \/ DropGraph(p, f)
      PROVE  \A q \in Procs : BatchInv(q)'
  BY <1>8 DEF ReadFile, DropGraph
<1>9. QED
  BY <1>2, <1>3, <1>4, <1>5, <1>6, <1>7, <1>8 DEF Continue, Step

\* Whatever a process does while the files stay as they are, what gets into
\* the index is of the files.
LEMMA CleanStep ==
  ASSUME TypeInv, NEW p \in Procs, \A q \in Procs : BatchInv(q), Clean, Step(p), file' = file
  PROVE  Clean'
<1> USE DEF TypeInv, TypeOK, Goto, Clean
<1>1. FromFiles' = FromFiles
  BY DEF FromFiles, Present
<1>2. ASSUME Exit(p), index' = index PROVE Clean'
  BY <1>1, <1>2 DEF Exit
<1>3. ASSUME batch' = batch, index' \subseteq index,
             \A q \in Procs : handle'[q] = "open" => handle[q] = "open"
      PROVE  Clean'
  BY <1>1, <1>3
<1>4. CASE Start(p)
  BY <1>3, <1>4 DEF Start, Begin, BeginReason, indexVars
<1>5. CASE OpenFails(p) \/ Mark(p) \/ Leave(p) \/ UnlinkFails(p) \/ Collected(p)
           \/ Stop(p) \/ Crash(p) \/ (\E f \in Frags : ReadFails(p, f))
  BY <1>5, <1>2 DEF OpenFails, Mark, Leave, UnlinkFails, Collected, Stop, Crash, ReadFails, indexVars
<1>6. CASE Open(p)
  <2>1. batch[p] = {} /\ batch' = batch /\ index' = index
    BY <1>6 DEF Open, BatchInv, indexVars
  <2>2. \A q \in Procs : q # p => handle'[q] = handle[q]
    BY <1>6 DEF Open
  <2>3. QED
    BY <1>1, <2>1, <2>2
<1>7. CASE OpenIsOptional(p) \/ ReadMarker(p) \/ List(p) \/ ListAgain(p) \/ Truncate(p)
  BY <1>3, <1>7 DEF OpenIsOptional, ReadMarker, List, ListAgain, Truncate, indexVars
<1>8. CASE WriteDerived(p) \/ OverwriteRun(p) \/ LoadBoth(p) \/ LoadNeither(p)
           \/ ListGarbage(p) \/ Unlink(p)
  BY <1>3, <1>8 DEF WriteDerived, OverwriteRun, LoadBoth, LoadNeither, ListGarbage, Unlink, indexVars
<1>9. CASE WipeSome(p) \/ WipeRest(p)
  BY <1>3, <1>9 DEF WipeSome, WipeRest, Detached
<1>10. CASE Commit(p)
  <2>1. /\ handle[p] = "open" => index' = index \cup batch[p]
        /\ handle[p] # "open" => index' = index
        /\ handle' = handle /\ batch' = [batch EXCEPT ![p] = {}]
    BY <1>10 DEF Commit
  <2>2. QED
    BY <1>1, <2>1
<1>11. ASSUME NEW f \in Frags, ReadFile(p, f) PROVE Clean'
  <2>1. /\ batch' = [batch EXCEPT ![p] = @ \cup {<<f, file[f]>>}]
        /\ file[f] # 0 /\ handle' = handle /\ index' = index
    BY <1>11 DEF ReadFile, indexVars
  <2>2. <<f, file[f]>> \in FromFiles
    BY <2>1 DEF FromFiles, Present
  <2>3. QED
    BY <1>1, <2>1, <2>2
<1>12. ASSUME NEW f \in Frags, DropGraph(p, f) PROVE Clean'
  BY <1>3, <1>12 DEF DropGraph
<1>13. QED
  BY <1>4, <1>5, <1>6, <1>7, <1>8, <1>9, <1>10, <1>11, <1>12 DEF Continue, Step

\* The same for a process that does not rebuild: it leaves a rebuild its lock.
LEMMA RestoreFrame ==
  ASSUME Core, NEW p \in Procs, RestoreInv(p), NEW q \in Procs, q # p, cmd[q] # "rebuild",
         Step(q), file' = file, \A r \in Procs : BatchInv(r)
  PROVE  RestoreInv(p)'
<1> SUFFICES ASSUME HasWiped(p)' PROVE RestoreInv(p)'
  BY DEF RestoreInv
<1>1. Quiet(p) /\ Others(p)
  BY QuietStep, StepOfAnother DEF Core, Step
<1>2. HasWiped(p)
  BY <1>1 DEF HasWiped, Quiet
<1>3. Clean'
  BY <1>2, CleanStep DEF RestoreInv, Core
<1>4. pc[p] # "open" => handle[p] = "open" /\ index \subseteq index'
  BY <1>1, <1>2 DEF RestoreInv, Quiet, Others
<1>5. FromFiles' = FromFiles /\ Present' = Present
  BY DEF FromFiles, Present
<1>6. QED
  BY <1>1, <1>2, <1>3, <1>4, <1>5 DEF RestoreInv, Quiet, Clean

LEMMA RestoreOwnStep ==
  ASSUME Core, NEW p \in Procs, RestoreInv(p), Step(p), HasWiped(p) => file' = file,
         \A r \in Procs : BatchInv(r)
  PROVE  RestoreInv(p)'
<1> USE DEF Core, TypeInv, TypeOK, Goto
<1> SUFFICES ASSUME HasWiped(p)' PROVE RestoreInv(p)'
  BY DEF RestoreInv
<1>1. ASSUME Exit(p) PROVE FALSE
  BY <1>1 DEF Exit, HasWiped
<1>2. CASE Start(p)
  BY <1>2 DEF Start, Begin, BeginReason, HasWiped, Reasons
<1>3. CASE OpenFails(p) \/ Mark(p) \/ Leave(p) \/ UnlinkFails(p) \/ Collected(p)
           \/ Stop(p) \/ Crash(p) \/ (\E f \in Frags : ReadFails(p, f))
  BY <1>3, <1>1 DEF OpenFails, Mark, Leave, UnlinkFails, Collected, Stop, Crash, ReadFails
<1>4. CASE WipeSome(p)
  BY <1>4 DEF WipeSome, HasWiped
<1>5. CASE WipeRest(p)
  BY <1>5 DEF WipeRest, Detached, RestoreInv, Clean
<1>6. ASSUME pc[p] \in {"open", "list", "read", "list again", "truncate"}, cmd'[p] = cmd[p]
      PROVE  /\ HasWiped(p) /\ Clean' /\ Clean
             /\ file' = file /\ FromFiles' = FromFiles /\ Present' = Present
  <2>1. HasWiped(p) /\ file' = file
    BY <1>6 DEF HasWiped
  <2>2. Clean /\ Clean'
    BY <2>1, CleanStep DEF RestoreInv
  <2>3. QED
    BY <2>1, <2>2 DEF FromFiles, Present
<1>7. CASE Open(p)
  <2>1. pc[p] = "open" /\ cmd' = cmd /\ pc'[p] = AfterOpen(cmd[p]) /\ handle'[p] = "open"
    BY <1>7 DEF Open
  <2>2. HasWiped(p) /\ Clean'
    BY <1>6, <2>1
  <2>3. pc'[p] = "list"
    BY <2>1, <2>2 DEF HasWiped, AfterOpen, Loads
  <2>4. QED
    BY <2>1, <2>2, <2>3 DEF RestoreInv
<1>8. CASE List(p)
  <2>1. /\ pc[p] = "list" /\ cmd' = cmd /\ pc'[p] = "read" /\ handle' = handle
        /\ cmd[p] = "rebuild" => todo'[p] = Present
    BY <1>8 DEF List, Loads
  <2>2. HasWiped(p) /\ Clean' /\ Present' = Present
    BY <1>6, <2>1
  <2>3. cmd[p] = "rebuild" /\ handle[p] = "open"
    BY <2>1, <2>2 DEF HasWiped, RestoreInv
  <2>4. QED
    BY <2>1, <2>2, <2>3 DEF RestoreInv
<1>9. ASSUME NEW f \in Frags, ReadFile(p, f) PROVE RestoreInv(p)'
  <2>1. /\ pc[p] = "read" /\ cmd' = cmd /\ pc' = pc /\ handle' = handle /\ index' = index
        /\ batch'[p] = batch[p] \cup {<<f, file[f]>>} /\ todo'[p] = todo[p] \ {f}
    BY <1>9 DEF ReadFile, indexVars
  <2>2. HasWiped(p) /\ Clean' /\ Present' = Present /\ file' = file
    BY <1>6, <2>1
  <2>3. \A g \in Present : g \in todo[p] \/ <<g, file[g]>> \in index \cup batch[p]
    BY <2>1, <2>2 DEF RestoreInv
  <2>4. \A g \in Present : g \in todo'[p] \/ <<g, file[g]>> \in index \cup batch'[p]
    BY <2>1, <2>3
  <2>5. handle[p] = "open"
    BY <2>1, <2>2 DEF RestoreInv
  <2>6. QED
    BY <2>1, <2>2, <2>4, <2>5 DEF RestoreInv
<1>10. CASE Commit(p)
  <2>1. /\ pc[p] = "read" /\ cmd' = cmd /\ pc'[p] = AfterCommit(cmd[p]) /\ handle' = handle
        /\ todo[p] = {}
        /\ handle[p] = "open" => index' = index \cup batch[p]
    BY <1>10 DEF Commit
  <2>2. HasWiped(p) /\ Clean' /\ FromFiles' = FromFiles
    BY <1>6, <2>1
  <2>3. handle[p] = "open" /\ \A g \in Present : <<g, file[g]>> \in index \cup batch[p]
    BY <2>1, <2>2 DEF RestoreInv
  <2>4. FromFiles \subseteq index'
    BY <2>1, <2>3 DEF FromFiles
  <2>5. index' = FromFiles'
    BY <2>2, <2>4 DEF Clean
  <2>6. pc'[p] = "list again"
    BY <2>1, <2>2 DEF HasWiped, AfterCommit
  <2>7. QED
    BY <2>1, <2>2, <2>3, <2>5, <2>6 DEF RestoreInv
<1>11. CASE ListAgain(p) \/ Truncate(p)
  <2>1. /\ pc[p] \in {"list again", "truncate"} /\ pc'[p] \in {"truncate", "mark"}
        /\ cmd' = cmd /\ handle' = handle /\ index' = index
        /\ pc[p] = "truncate" => already' = already
        /\ pc[p] = "list again" => already'[p] = Present
    BY <1>11 DEF ListAgain, Truncate, indexVars
  <2>2. HasWiped(p) /\ Clean' /\ FromFiles' = FromFiles /\ Present' = Present
    BY <1>6, <2>1
  <2>3. QED
    BY <2>1, <2>2 DEF RestoreInv
<1>12. CASE OpenIsOptional(p) \/ ReadMarker(p) \/ ListGarbage(p) \/ Unlink(p)
            \/ WriteDerived(p) \/ OverwriteRun(p) \/ LoadBoth(p) \/ LoadNeither(p)
            \/ (\E f \in Frags : DropGraph(p, f))
  <2>1. /\ cmd' = cmd
        /\ \/ cmd[p] = "gc-derived"
           \/ pc[p] \in {"marker", "unlink", "derived", "run", "decide", "drop"}
    BY <1>12 DEF OpenIsOptional, ReadMarker, ListGarbage, Unlink, WriteDerived, OverwriteRun,
       LoadBoth, LoadNeither, DropGraph
  <2>2. cmd[p] = "rebuild" /\ pc[p] \in StepsOf("rebuild")
    BY <2>1 DEF HasWiped, ProcInv
  <2>3. QED
    BY <2>1, <2>2 DEF StepsOf, Loads
<1>13. QED
  BY <1>2, <1>3, <1>4, <1>5, <1>7, <1>8, <1>9, <1>10, <1>11, <1>12 DEF Continue, Step

\* One rebuild at a time; and while it is under way, from the time it has
\* deleted the index, no fragment is written and none is removed.
OneRebuild == \A p, q \in Procs : cmd[p] = "rebuild" /\ cmd[q] = "rebuild" => p = q
FilesUnchanged == (\E p \in Procs : HasWiped(p)) => UNCHANGED file

(***************************************************************************)
(* `rebuild` "recreates the index from the fragment files" (main.rs): when *)
(* it ends, the index holds the quads of the files and of nothing else,    *)
(* and the marker names all of them, whatever loads, servers and crashes   *)
(* overlap with it, those included whose directory it deletes; and after   *)
(* any past.  The files must stay as they are meanwhile, since rebuild     *)
(* lists them twice (the run index_rebuild_race), and a second rebuild     *)
(* would delete what the first one makes.                                  *)
(***************************************************************************)
THEOREM RebuildGivesTheFiles ==
  Spec /\ []OneRebuild /\ [][FilesUnchanged]_vars => RebuildRestores
<1> DEFINE Inv == Core /\ \A p \in Procs : BatchInv(p) /\ RestoreInv(p)
           Restored == \A p \in Procs : Mark(p) /\ cmd[p] = "rebuild" =>
                         index' = FromFiles /\ loaded' = Present
<1>1. Init => Inv
  BY TypeInvInit, LockInvInit DEF Core, Init, BatchInv, RestoreInv, HasWiped
<1>2. Inv /\ OneRebuild /\ [Next]_vars /\ [FilesUnchanged]_vars => Inv'
  <2> SUFFICES ASSUME Inv, OneRebuild, [Next]_vars, [FilesUnchanged]_vars PROVE Inv'
    OBVIOUS
  <2>1. Core'
    BY TypeInvStep, LockInvStep DEF Core
  <2>2. (\E p \in Procs : HasWiped(p)) => file' = file
    BY DEF FilesUnchanged, vars
  <2>3. CASE UNCHANGED vars
    BY <2>1, <2>3 DEF vars, BatchInv, RestoreInv, HasWiped, Clean, FromFiles, Present
  <2>4. ASSUME NEW f \in Frags, Extract(f) PROVE Inv'
    <3>1. UNCHANGED <<index, pc, cmd, handle, already, todo, batch>>
      BY <2>4 DEF Extract, indexVars
    <3>2. ASSUME NEW p \in Procs PROVE BatchInv(p)'
      BY <3>1 DEF BatchInv
    <3>3. ASSUME NEW p \in Procs PROVE RestoreInv(p)'
      <4>1. SUFFICES ASSUME HasWiped(p) PROVE RestoreInv(p)'
        BY <3>1 DEF RestoreInv, HasWiped
      <4>2. file' = file
        BY <2>2, <4>1
      <4>3. QED
        BY <3>1, <4>2 DEF RestoreInv, HasWiped, Clean, FromFiles, Present
    <3>4. QED
      BY <2>1, <3>2, <3>3
  <2>5. ASSUME NEW p \in Procs, Step(p) PROVE Inv'
    <3>1. \A q \in Procs : BatchInv(q)'
      BY <2>5, BatchStep DEF Core
    <3>2. ASSUME NEW q \in Procs PROVE RestoreInv(q)'
      <4>1. CASE q = p
        <5>1. HasWiped(q) => file' = file
          BY <2>2
        <5>2. QED
          BY <2>5, <4>1, <5>1, RestoreOwnStep
      <4>2. CASE q # p /\ HasWiped(q)
        BY <2>2, <2>5, <4>2, RestoreFrame DEF OneRebuild, HasWiped
      <4>3. CASE q # p /\ ~HasWiped(q)
        BY <2>5, <4>3, StepOfAnother DEF Step, Others, HasWiped, RestoreInv
      <4>4. QED
        BY <4>1, <4>2, <4>3
    <3>3. QED
      BY <2>1, <3>1, <3>2
  <2>6. QED
    BY <2>3, <2>4, <2>5 DEF Next, Step
<1>3. Inv /\ [Next]_vars => [Restored]_vars
  <2> SUFFICES ASSUME Inv, NEW p \in Procs, Mark(p), cmd[p] = "rebuild"
               PROVE  index' = FromFiles /\ loaded' = Present
    OBVIOUS
  <2>1. pc[p] = "mark" /\ index' = index /\ loaded' = already[p]
    BY DEF Mark
  <2>2. QED
    BY <2>1 DEF RestoreInv, HasWiped
<1>4. QED
  BY <1>1, <1>2, <1>3, PTL DEF Spec, RebuildRestores

-----------------------------------------------------------------------------
(***************************************************************************)
(* What the machine's processes do to the index.  Nobody rebuilds it or    *)
(* collects garbage, so the index and the store only grow.                 *)
(***************************************************************************)
\* A rule run of a process that reasons has a time stamp.
RanInv(p) == cmd[p] \in Reasons => ranAt[p] # 0

\* What is in the index or in the store stays there.
Grows ==
  /\ \A f \in Frags : Indexed(f) => Indexed(f)'
  /\ Present \subseteq Present'

LEMMA Units ==
  /\ server \in Procs /\ timer \in Procs /\ user \in Procs
  /\ server # timer /\ server # user
  /\ Allowed[server] = {"load --new", "serve"}
  /\ Allowed[timer] = {"reason"}
  /\ Allowed[user] = {"reason", "reason --no-load"}
  BY ServiceAssumption

LEMMA NobodyRemoves ==
  /\ NoRebuild /\ Droppable = {}
  /\ \A p \in Procs : "gc-derived" \notin Allowed[p]
<1>1. ASSUME NEW p \in Procs PROVE "rebuild" \notin Allowed[p] /\ "gc-derived" \notin Allowed[p]
  <2>1. p \in {server, timer, user}
    BY ServiceAssumption
  <2>2. Allowed[p] \subseteq {"load --new", "serve", "reason", "reason --no-load"}
    BY <2>1, ServiceAssumption
  <2>3. QED
    BY <2>2
<1>2. QED
  BY <1>1 DEF NoRebuild, Droppable

LEMMA NoCollection ==
  ASSUME TypeInv, NEW p \in Procs
  PROVE  pc[p] \notin {"drop", "unlink"}
<1>1. cmd[p] # "gc-derived" /\ cmd[p] \in Commands \cup {"none"} /\ pc[p] \in StepsOf(cmd[p])
  BY NobodyRemoves DEF TypeInv, TypeOK, ProcInv
<1>2. QED
  BY <1>1 DEF StepsOf, Loads, Reasons, Commands

\* No file goes: a run writes its derived fragment and its run fragment.
LEMMA FilesStay ==
  ASSUME TypeInv, NEW p \in Procs, RanInv(p), Step(p)
  PROVE  Present \subseteq Present'
<1> USE DEF TypeInv, TypeOK, Present
<1>1. CASE file' = file
  BY <1>1
<1>2. CASE Start(p) \/ Crash(p)
  BY <1>1, <1>2 DEF Start, Begin, BeginReason, Crash, storeVars
<1>3. CASE OpenFails(p) \/ Mark(p) \/ Leave(p) \/ UnlinkFails(p) \/ Collected(p)
           \/ Stop(p) \/ (\E f \in Frags : ReadFails(p, f))
  BY <1>1, <1>3 DEF OpenFails, Mark, Leave, UnlinkFails, Collected, Stop, ReadFails, storeVars
<1>4. CASE Open(p) \/ OpenIsOptional(p) \/ WipeSome(p) \/ WipeRest(p) \/ ReadMarker(p)
           \/ List(p) \/ ListAgain(p) \/ Truncate(p)
  BY <1>1, <1>4 DEF Open, OpenIsOptional, WipeSome, WipeRest, ReadMarker, List, ListAgain,
     Truncate, storeVars
<1>5. CASE Commit(p) \/ LoadBoth(p) \/ LoadNeither(p) \/ ListGarbage(p)
           \/ (\E f \in Frags : ReadFile(p, f) \/ DropGraph(p, f))
  BY <1>1, <1>5 DEF Commit, LoadBoth, LoadNeither, ListGarbage, ReadFile, DropGraph, storeVars
<1>6. CASE WriteDerived(p)
  BY <1>6 DEF WriteDerived
<1>7. CASE OverwriteRun(p)
  <2>1. cmd[p] \in Reasons
    BY <1>7 DEF OverwriteRun, ProcInv, StepsOf, Loads, Reasons, Commands
  <2>2. QED
    BY <1>7, <2>1 DEF OverwriteRun, RanInv
<1>8. CASE Unlink(p)
  BY <1>8, NoCollection DEF Unlink
<1>9. QED
  BY <1>2, <1>3, <1>4, <1>5, <1>6, <1>7, <1>8 DEF Step, Continue

LEMMA CommandStays ==
  ASSUME TypeInv, NEW p \in Procs, Continue(p)
  PROVE  \/ cmd'[p] = cmd[p] /\ ranAt'[p] = ranAt[p]
         \/ cmd'[p] = "none" /\ pc'[p] = "idle"
<1> USE DEF TypeInv, TypeOK, Goto, argVars
<1>1. CASE Exit(p)
  BY <1>1 DEF Exit
<1>2. CASE OpenFails(p) \/ Mark(p) \/ Leave(p) \/ UnlinkFails(p) \/ Collected(p)
           \/ Stop(p) \/ (\E f \in Frags : ReadFails(p, f))
  BY <1>1, <1>2 DEF OpenFails, Mark, Leave, UnlinkFails, Collected, Stop, ReadFails
<1>3. CASE Open(p) \/ OpenIsOptional(p) \/ WipeSome(p) \/ WipeRest(p) \/ ReadMarker(p)
           \/ List(p) \/ ListAgain(p) \/ Truncate(p)
  BY <1>3 DEF Open, OpenIsOptional, WipeSome, WipeRest, ReadMarker, List, ListAgain, Truncate
<1>4. CASE Commit(p) \/ LoadBoth(p) \/ LoadNeither(p) \/ ListGarbage(p)
           \/ WriteDerived(p) \/ OverwriteRun(p) \/ Unlink(p)
           \/ (\E f \in Frags : ReadFile(p, f) \/ DropGraph(p, f))
  BY <1>4 DEF Commit, LoadBoth, LoadNeither, ListGarbage, ReadFile, DropGraph,
     WriteDerived, OverwriteRun, Unlink
<1>5. QED
  BY <1>2, <1>3, <1>4 DEF Continue

LEMMA RanStep ==
  ASSUME TypeInv, NEW p \in Procs, RanInv(p), Step(p)
  PROVE  RanInv(p)'
<1>1. CASE Continue(p)
  BY <1>1, CommandStays DEF RanInv, Reasons
<1>2. CASE Crash(p)
  BY <1>2 DEF TypeInv, TypeOK, Crash, Exit, RanInv, Reasons
<1>3. ASSUME NEW c \in Commands, Begin(p, c) PROVE RanInv(p)'
  BY <1>3 DEF TypeInv, TypeOK, Begin, RanInv
<1>4. ASSUME NEW c \in Commands, NEW d \in Derived, BeginReason(p, c, d) PROVE RanInv(p)'
  BY <1>4 DEF TypeInv, TypeOK, BeginReason, RanInv
<1>5. QED
  BY <1>1, <1>2, <1>3, <1>4 DEF Step, Start

LEMMA RanFrame ==
  ASSUME TypeInv, NEW p \in Procs, Step(p), NEW q \in Procs, q # p
  PROVE  ranAt'[q] = ranAt[q]
<1> USE DEF TypeInv, TypeOK, argVars
<1>1. CASE Start(p)
  BY <1>1 DEF Start, Begin, BeginReason
<1>2. ASSUME Exit(p) PROVE ranAt'[q] = ranAt[q]
  BY <1>2 DEF Exit
<1>3. CASE OpenFails(p) \/ Mark(p) \/ Leave(p) \/ UnlinkFails(p) \/ Collected(p)
           \/ Stop(p) \/ Crash(p) \/ (\E f \in Frags : ReadFails(p, f))
  BY <1>2, <1>3 DEF OpenFails, Mark, Leave, UnlinkFails, Collected, Stop, Crash, ReadFails
<1>4. CASE Open(p) \/ OpenIsOptional(p) \/ WipeSome(p) \/ WipeRest(p) \/ ReadMarker(p)
           \/ List(p) \/ ListAgain(p) \/ Truncate(p)
  BY <1>4 DEF Open, OpenIsOptional, WipeSome, WipeRest, ReadMarker, List, ListAgain, Truncate
<1>5. CASE Commit(p) \/ LoadBoth(p) \/ LoadNeither(p) \/ ListGarbage(p)
           \/ WriteDerived(p) \/ OverwriteRun(p) \/ Unlink(p)
           \/ (\E f \in Frags : ReadFile(p, f) \/ DropGraph(p, f))
  BY <1>5 DEF Commit, LoadBoth, LoadNeither, ListGarbage, ReadFile, DropGraph,
     WriteDerived, OverwriteRun, Unlink
<1>6. QED
  BY <1>1, <1>3, <1>4, <1>5 DEF Step, Continue

-----------------------------------------------------------------------------
(***************************************************************************)
(* Every step of the machine, seen from the index.                         *)
(***************************************************************************)
MachineInv == SoundInv /\ \A p \in Procs : RanInv(p)

\* try-restart ends the server's process, at whatever step it is.
Restarted == Exit(server) /\ UNCHANGED <<storeVars, indexVars, crashes>>

\* A step of the units alone.
Rests ==
  /\ UNCHANGED <<storeVars, indexVars, pc, cmd, handle, already, todo, batch, argVars>>
  /\ crashes' \in {crashes, crashes + 1}

LEMMA WhoActs ==
  ASSUME [ServiceNext]_serviceVars
  PROVE  \/ \E p \in Procs : Step(p)
         \/ \E f \in Frags : Extract(f)
         \/ \E d \in Derived : BeginsReason(d)
         \/ Restarted
         \/ Rests
<1> DEFINE Goal == \/ \E p \in Procs : Step(p)
                   \/ \E f \in Frags : Extract(f)
                   \/ \E d \in Derived : BeginsReason(d)
                   \/ Restarted
                   \/ Rests
<1> SUFFICES Goal
  OBVIOUS
<1>1. ASSUME NEW p \in Procs, Continue(p) \/ Crash(p) PROVE Goal
  BY <1>1 DEF Step
<1>2. ASSUME UNCHANGED vars PROVE Goal
  BY <1>2 DEF vars, Rests, storeVars, indexVars, argVars
<1>3. CASE StartPre \/ StartMain
  <2>1. Begin(server, "load --new") \/ Begin(server, "serve")
    BY <1>3 DEF StartPre, StartMain
  <2>2. Start(server)
    BY <2>1 DEF Start, Commands, Loads
  <2>3. QED
    BY <2>2, Units DEF Step
<1>4. CASE ServerRuns \/ ServerEnds \/ ServerDies
  BY <1>1, <1>4, Units DEF ServerRuns, ServerEnds, ServerDies
<1>5. CASE Elapses \/ HasWritten \/ NothingToReason
  BY <1>2, <1>5 DEF Elapses, HasWritten, NothingToReason
<1>6. CASE Writes
  BY <1>6 DEF Writes, Extracted
<1>7. CASE \E d \in Derived : BeginsReason(d)
  BY <1>7
<1>8. CASE ReasonRuns \/ ReasonEnds \/ ReasonDies
  BY <1>1, <1>8, Units DEF ReasonRuns, ReasonEnds, ReasonDies
<1>9. CASE TryRestart
  BY <1>2, <1>9 DEF TryRestart, Restarted
<1>10. CASE WriteFails
  BY <1>10 DEF WriteFails, Rests
<1>11. CASE UserBegins
  <2>1. PICK c \in Allowed[user], d \in Derived : BeginReason(user, c, d)
    BY <1>11 DEF UserBegins
  <2>2. c \in Commands
    BY Units, <2>1 DEF Commands, Reasons
  <2>3. QED
    BY <2>1, <2>2, Units DEF Step, Start
<1>12. CASE UserRuns \/ UserDies
  BY <1>1, <1>12, Units DEF UserRuns, UserDies
<1>13. CASE UNCHANGED serviceVars
  BY <1>2, <1>13 DEF serviceVars
<1>14. QED
  BY <1>3, <1>4, <1>5, <1>6, <1>7, <1>8, <1>9, <1>10, <1>11, <1>12, <1>13
     DEF ServiceNext, ServerUnit, TimerUnit

\* The index steps of the commands are those of IndexSync.
LEMMA MachineByStep ==
  ASSUME MachineInv, NEW p \in Procs, Step(p)
  PROVE  MachineInv' /\ Grows
<1>1. TypeInv /\ SoundInv /\ (\A q \in Procs : RanInv(q)) /\ GarbageInv(p)
  BY DEF MachineInv, SoundInv
<1>2. TypeInv'
  BY <1>1, TypeInvStep DEF Step, Next
<1>3. SoundInv'
  BY <1>1, <1>2, SoundStep, NobodyRemoves
<1>4. ASSUME NEW q \in Procs PROVE RanInv(q)'
  <2>1. CASE q = p
    BY <1>1, <2>1, RanStep
  <2>2. CASE q # p
    <3>1. ranAt'[q] = ranAt[q]
      BY <1>1, <2>2, RanFrame
    <3>2. cmd'[q] = cmd[q]
      <4>1. cmd[p] # "rebuild"
        BY <1>1, NobodyRemoves DEF NoRebuild, TypeInv, ProcInv
      <4>2. QED
        BY <1>1, <2>2, <4>1, QuietStep DEF Quiet
    <3>3. QED
      BY <1>1, <3>1, <3>2 DEF RanInv
  <2>3. QED
    BY <2>1, <2>2
<1>5. Present \subseteq Present'
  BY <1>1, FilesStay
<1>6. \A f \in Frags : Indexed(f) => Indexed(f)'
  BY <1>1, IndexKeeps, NobodyRemoves DEF OnlyGarbageLeaves
<1>7. QED
  BY <1>3, <1>4, <1>5, <1>6 DEF MachineInv, Grows

\* So are those of the units, but for the run that begins without a new time
\* stamp and the restart.
LEMMA MachineByBeginsReason ==
  ASSUME MachineInv, NEW d \in Derived, BeginsReason(d)
  PROVE  MachineInv' /\ Grows
<1> USE DEF MachineInv, SoundInv, storeVars, indexVars
<1>1. /\ pc[timer] = "idle" /\ pc' = [pc EXCEPT ![timer] = "open"]
      /\ cmd' = [cmd EXCEPT ![timer] = "reason"] /\ target' = [target EXCEPT ![timer] = d]
      /\ ranAt' = [ranAt EXCEPT ![timer] = 1]
      /\ existed' = [existed EXCEPT ![timer] = file[d] # 0]
      /\ UNCHANGED <<storeVars, indexVars, handle, already, todo, batch, crashes>>
  BY DEF BeginsReason, Goto
<1>2. TypeInv'
  <2>1. TypeOK'
    <3>1. existed' \in [Procs -> BOOLEAN]
      BY <1>1 DEF TypeInv, TypeOK
    <3>2. target' \in [Procs -> Frags \cup {NoFrag}] /\ ranAt' \in [Procs -> Nat]
      BY <1>1, FragTypes DEF TypeInv, TypeOK
    <3>3. pc' \in [Procs -> Labels] /\ cmd' \in [Procs -> Commands \cup {"none"}]
      BY <1>1 DEF TypeInv, TypeOK, Labels, Commands, Reasons
    <3>4. \A p \in Procs : pc'[p] = "idle" => handle'[p] = "none" /\ cmd'[p] = "none"
      BY <1>1 DEF TypeInv, TypeOK
    <3>5. QED
      BY <1>1, <3>1, <3>2, <3>3, <3>4 DEF TypeInv, TypeOK
  <2>2. ASSUME NEW p \in Procs PROVE ProcInv(p)'
    <3>1. CASE p = timer
      <4>1. cmd'[p] = "reason" /\ pc'[p] = "open" /\ target'[p] = d
        BY <1>1, <3>1 DEF TypeInv, TypeOK
      <4>2. "open" \in StepsOf("reason")
        BY DEF StepsOf, Loads
      <4>3. QED
        BY <3>1, <4>1, <4>2, Units DEF ProcInv
    <3>2. CASE p # timer
      <4>1. cmd'[p] = cmd[p] /\ pc'[p] = pc[p] /\ target'[p] = target[p] /\ handle' = handle
        BY <1>1, <3>2 DEF TypeInv, TypeOK
      <4>2. QED
        BY <4>1 DEF TypeInv, ProcInv
    <3>3. QED
      BY <3>1, <3>2
  <2>3. QED
    BY <2>1, <2>2 DEF TypeInv
<1>3. ASSUME NEW p \in Procs
      PROVE  (GarbageInv(p) /\ MarkInv(p) /\ HandleInv(p) /\ RanInv(p))'
  <2>1. CASE p = timer
    <3>1. cmd'[p] = "reason" /\ pc'[p] = "open" /\ ranAt'[p] = 1 /\ handle' = handle
      BY <1>1, <2>1, Units DEF TypeInv, TypeOK
    <3>2. handle[p] # "detached"
      BY DEF HandleInv
    <3>3. HandleInv(p)' /\ GarbageInv(p)' /\ MarkInv(p)'
      BY <3>1, <3>2 DEF HandleInv, GarbageInv, MarkInv, Loads
    <3>4. RanInv(p)'
      BY <3>1 DEF RanInv
    <3>5. QED
      BY <3>3, <3>4
  <2>2. CASE p # timer
    <3>1. /\ cmd'[p] = cmd[p] /\ pc'[p] = pc[p] /\ ranAt'[p] = ranAt[p]
          /\ UNCHANGED <<handle, already, todo, batch, index>>
      BY <1>1, <2>2 DEF TypeInv, TypeOK
    <3>2. QED
      BY <3>1 DEF GarbageInv, MarkInv, HandleInv, RanInv, Indexed, InBatch, Droppable
  <2>3. QED
    BY <2>1, <2>2
<1>4. MarkedInv' /\ Grows
  BY <1>1 DEF MarkedInv, Droppable, Grows, Indexed, Present
<1>5. QED
  BY <1>2, <1>3, <1>4

LEMMA MachineByRestart ==
  ASSUME MachineInv, Restarted
  PROVE  MachineInv' /\ Grows
<1> USE DEF MachineInv, SoundInv, storeVars, indexVars
<1>1. TypeInv'
  BY TypeInvExit, Units DEF Restarted, TypeInv, TypeOK
<1>2. Grows /\ MarkedInv'
  BY DEF Restarted, Grows, Indexed, Present, MarkedInv, Droppable
<1>3. ASSUME NEW p \in Procs
      PROVE  (GarbageInv(p) /\ MarkInv(p) /\ HandleInv(p) /\ RanInv(p))'
  <2>1. CASE p = server
    BY <2>1 DEF Restarted, Exit, Goto, TypeInv, TypeOK, GarbageInv, MarkInv, HandleInv,
       RanInv, Loads, Reasons
  <2>2. CASE p # server
    <3>1. /\ cmd'[p] = cmd[p] /\ pc'[p] = pc[p] /\ ranAt'[p] = ranAt[p]
          /\ handle'[p] = handle[p] /\ already'[p] = already[p] /\ todo'[p] = todo[p]
          /\ batch'[p] = batch[p] /\ index' = index
      BY <2>2 DEF Restarted, Exit, Goto, TypeInv, TypeOK
    <3>2. QED
      BY <3>1 DEF GarbageInv, MarkInv, HandleInv, RanInv, Indexed, InBatch, Droppable
  <2>3. QED
    BY <2>1, <2>2
<1>4. QED
  BY <1>1, <1>2, <1>3

LEMMA MachineAtRest ==
  ASSUME MachineInv,
         UNCHANGED <<index, loaded, pc, cmd, handle, already, todo, batch, ranAt>>,
         TypeInv', Present \subseteq Present'
  PROVE  MachineInv' /\ Grows
<1>1. SoundInv'
  BY SoundRest DEF MachineInv
<1>2. \A p \in Procs : RanInv(p)'
  BY DEF MachineInv, RanInv
<1>3. QED
  BY <1>1, <1>2 DEF MachineInv, Grows, Indexed

LEMMA MachineStep ==
  ASSUME MachineInv, [ServiceNext]_serviceVars
  PROVE  MachineInv' /\ Grows
<1> USE DEF storeVars, indexVars, argVars
<1>1. ASSUME NEW f \in Frags, Extract(f) PROVE MachineInv' /\ Grows
  <2>1. TypeInv'
    BY <1>1, TypeInvStep DEF MachineInv, SoundInv, Next
  <2>2. Present \subseteq Present'
    BY <1>1 DEF Extract, Present, MachineInv, SoundInv, TypeInv, TypeOK
  <2>3. QED
    BY <1>1, <2>1, <2>2, MachineAtRest DEF Extract
<1>2. CASE Rests
  <2>1. TypeInv'
    <3>1. crashes' \in Nat
      BY <1>2 DEF Rests, MachineInv, SoundInv, TypeInv, TypeOK
    <3>2. TypeOK'
      BY <1>2, <3>1 DEF Rests, MachineInv, SoundInv, TypeInv, TypeOK
    <3>3. \A p \in Procs : ProcInv(p)'
      BY <1>2 DEF Rests, MachineInv, SoundInv, TypeInv, ProcInv
    <3>4. QED
      BY <3>2, <3>3 DEF TypeInv
  <2>2. QED
    BY <1>2, <2>1, MachineAtRest DEF Rests, Present
<1>3. QED
  BY <1>1, <1>2, WhoActs, MachineByStep, MachineByBeginsReason, MachineByRestart

-----------------------------------------------------------------------------
(***************************************************************************)
(* The server's unit and its process, and what they owe.                   *)
(***************************************************************************)
UnitInv ==
  /\ unit \in {"start", "pre", "main"}
  /\ unit = "start" => pc[server] = "idle"
  /\ unit = "pre" => cmd[server] = "load --new"
  /\ unit = "main" => cmd[server] \in {"none", "serve"}

\* Steps of a load that has its list: it means to mark all that is due.
Listed == {"read", "truncate", "mark"}

DueInv ==
  /\ due \subseteq Present
  /\ unit = "pre" /\ pc[server] \in Listed => due \subseteq already[server]
  /\ unit = "main" => \A f \in due : Indexed(f)

ServiceInv == MachineInv /\ UnitInv /\ DueInv

\* A load that goes on lists everything that is there, or keeps its list.
LEMMA ListHasAll ==
  ASSUME TypeInv, NEW D \in SUBSET Present, NEW p \in Procs, Continue(p),
         cmd[p] = "load --new", pc'[p] \in Listed,
         pc[p] \in Listed => D \subseteq already[p]
  PROVE  D \subseteq already'[p]
<1> USE DEF TypeInv, TypeOK, Goto, Listed
<1>1. pc[p] \in {"open", "marker", "list", "read", "truncate", "mark"}
  BY DEF ProcInv, StepsOf, Loads
<1>2. CASE Exit(p)
  BY <1>2 DEF Exit
<1>3. CASE OpenFails(p) \/ Mark(p) \/ Leave(p) \/ UnlinkFails(p) \/ Collected(p)
           \/ Stop(p) \/ (\E f \in Frags : ReadFails(p, f))
  BY <1>2, <1>3 DEF OpenFails, Mark, Leave, UnlinkFails, Collected, Stop, ReadFails
<1>4. CASE Open(p)
  BY <1>4 DEF Open, AfterOpen, Loads
<1>5. CASE OpenIsOptional(p) \/ ReadMarker(p)
  BY <1>5 DEF OpenIsOptional, ReadMarker
<1>6. CASE List(p)
  <2>1. already' = [already EXCEPT ![p] = @ \cup (Present \ already[p])]
    BY <1>6 DEF List, Loads
  <2>2. QED
    BY <2>1
<1>7. CASE Truncate(p) \/ Commit(p) \/ (\E f \in Frags : ReadFile(p, f))
  BY <1>7 DEF Truncate, Commit, ReadFile
<1>8. CASE WipeSome(p) \/ WipeRest(p) \/ ListAgain(p) \/ WriteDerived(p) \/ OverwriteRun(p)
           \/ LoadBoth(p) \/ LoadNeither(p) \/ Unlink(p) \/ (\E f \in Frags : DropGraph(p, f))
  BY <1>1, <1>8 DEF WipeSome, WipeRest, ListAgain, WriteDerived, OverwriteRun, LoadBoth,
     LoadNeither, Unlink, DropGraph
<1>9. CASE ListGarbage(p)
  BY <1>9 DEF ListGarbage
<1>10. QED
  BY <1>3, <1>4, <1>5, <1>6, <1>7, <1>8, <1>9 DEF Continue

\* A load that has come to the marker has loaded what it means to mark.
LEMMA LoadedAll ==
  ASSUME SoundInv, NEW p \in Procs, pc[p] = "mark", cmd[p] = "load --new"
  PROVE  \A f \in already[p] : Indexed(f)
<1>1. MarkInv(p) /\ cmd[p] \in Loads
  BY DEF SoundInv, Loads
<1>2. QED
  BY <1>1, NobodyRemoves DEF MarkInv

\* Steps that leave the server's process alone.
LEMMA ServerUntouched ==
  ASSUME ServiceInv, Grows, UNCHANGED <<unit, due>>,
         UNCHANGED <<pc[server], cmd[server], already[server]>>
  PROVE  UnitInv' /\ DueInv'
<1>1. UnitInv'
  BY DEF ServiceInv, UnitInv
<1>2. due' \subseteq Present'
  BY DEF ServiceInv, DueInv, Grows
<1>3. unit' = "main" => \A f \in due' : Indexed(f)'
  BY DEF ServiceInv, DueInv, Grows, Present
<1>4. unit' = "pre" /\ pc'[server] \in Listed => due' \subseteq already'[server]
  BY DEF ServiceInv, DueInv
<1>5. QED
  BY <1>1, <1>2, <1>3, <1>4 DEF DueInv

LEMMA ServerUnitStep ==
  ASSUME ServiceInv, MachineInv', Grows, ServerUnit \/ ServerDies
  PROVE  UnitInv' /\ DueInv'
<1>1. TypeInv /\ TypeInv' /\ SoundInv /\ server \in Procs
  BY Units DEF ServiceInv, MachineInv, SoundInv
<1>2. due' = due /\ due' \subseteq Present'
  <2>1. due' = due
    BY DEF ServerUnit, StartPre, StartMain, ServerRuns, ServerEnds, ServerDies, unitVars
  <2>2. QED
    BY <2>1 DEF ServiceInv, DueInv, Grows
<1>3. \A f \in due : Indexed(f) => Indexed(f)'
  BY DEF ServiceInv, DueInv, Grows, Present
<1>4. CASE StartPre
  <2>1. unit' = "pre" /\ cmd'[server] = "load --new" /\ pc'[server] = "open"
    BY <1>1, <1>4 DEF StartPre, Begin, Goto, TypeInv, TypeOK
  <2>2. QED
    BY <1>2, <2>1 DEF UnitInv, DueInv, Listed
<1>5. CASE StartMain
  <2>1. unit = "main" /\ unit' = "main" /\ cmd'[server] = "serve"
    BY <1>1, <1>5 DEF StartMain, Begin, unitVars, TypeInv, TypeOK
  <2>2. QED
    BY <1>2, <1>3, <2>1 DEF ServiceInv, UnitInv, DueInv
<1>6. CASE ServerRuns
  <2>1. Continue(server) /\ pc'[server] # "idle" /\ unit' = unit
    BY <1>6 DEF ServerRuns, unitVars
  <2>2. cmd'[server] = cmd[server]
    BY <1>1, <2>1, CommandStays
  <2>3. unit # "start"
    <3>1. pc[server] # "idle"
      BY <2>1 DEF Continue, Open, OpenFails, OpenIsOptional, WipeSome, WipeRest, ReadMarker,
         List, ReadFile, ReadFails, Commit, ListAgain, Truncate, Mark, WriteDerived,
         OverwriteRun, LoadBoth, LoadNeither, Leave, ListGarbage, DropGraph, Unlink,
         UnlinkFails, Collected, Stop
    <3>2. QED
      BY <3>1 DEF ServiceInv, UnitInv
  <2>4. UnitInv'
    BY <2>1, <2>2, <2>3 DEF ServiceInv, UnitInv
  <2>5. unit' = "pre" /\ pc'[server] \in Listed => due' \subseteq already'[server]
    BY <1>1, <1>2, <2>1, ListHasAll DEF ServiceInv, UnitInv, DueInv
  <2>6. QED
    BY <1>2, <1>3, <2>1, <2>4, <2>5 DEF ServiceInv, DueInv
<1>7. CASE ServerEnds
  <2>1. /\ Continue(server) /\ pc'[server] = "idle"
        /\ unit' = IF pc[server] = "mark" THEN "main" ELSE "start"
    BY <1>7 DEF ServerEnds
  <2>2. cmd'[server] = "none"
    BY <1>1, <2>1 DEF TypeInv, TypeOK
  <2>3. unit' = "main" => \A f \in due' : Indexed(f)'
    <3>1. SUFFICES ASSUME pc[server] = "mark" PROVE \A f \in due : Indexed(f)
      BY <1>2, <1>3, <2>1
    <3>2. cmd[server] \notin {"none", "serve"}
      BY <1>1, <3>1 DEF TypeInv, ProcInv, StepsOf, Loads
    <3>3. unit = "pre" /\ cmd[server] = "load --new"
      BY <3>1, <3>2 DEF ServiceInv, UnitInv
    <3>4. due \subseteq already[server]
      BY <3>1, <3>3 DEF ServiceInv, DueInv, Listed
    <3>5. QED
      BY <1>1, <3>1, <3>3, <3>4, LoadedAll
  <2>4. QED
    BY <1>2, <2>1, <2>2, <2>3 DEF UnitInv, DueInv
<1>8. CASE ServerDies
  <2>1. unit' = "start" /\ pc'[server] = "idle"
    BY <1>1, <1>8 DEF ServerDies, Crash, Exit, Goto, TypeInv, TypeOK
  <2>2. QED
    BY <1>2, <2>1 DEF UnitInv, DueInv
<1>9. QED
  BY <1>4, <1>5, <1>6, <1>7, <1>8 DEF ServerUnit

\* The timer's script and the user have processes of their own.
LEMMA OthersStep ==
  ASSUME ServiceInv, NEW p \in Procs, p # server, Step(p)
  PROVE  UNCHANGED <<pc[server], cmd[server], already[server]>>
<1>1. TypeInv /\ server \in Procs
  BY Units DEF ServiceInv, MachineInv, SoundInv
<1>2. cmd[p] # "rebuild"
  BY <1>1, NobodyRemoves DEF NoRebuild, TypeInv, ProcInv
<1>3. Quiet(server)
  BY <1>1, <1>2, QuietStep
<1>4. QED
  BY <1>3 DEF Quiet

LEMMA ServiceInvInit == ServiceInit => ServiceInv
<1> SUFFICES ASSUME ServiceInit PROVE ServiceInv
  OBVIOUS
<1>1. Init /\ unit = "start" /\ due = {}
  BY DEF ServiceInit
<1>2. MachineInv
  BY <1>1, SoundInit DEF MachineInv, RanInv, Init, Reasons
<1>3. UnitInv /\ DueInv
  BY <1>1, Units DEF UnitInv, DueInv, Init
<1>4. QED
  BY <1>2, <1>3 DEF ServiceInv

LEMMA ServiceInvStep == ServiceInv /\ [ServiceNext]_serviceVars => ServiceInv'
<1> SUFFICES ASSUME ServiceInv, [ServiceNext]_serviceVars PROVE ServiceInv'
  OBVIOUS
<1>1. MachineInv' /\ Grows
  BY MachineStep DEF ServiceInv
<1> SUFFICES UnitInv' /\ DueInv'
  BY <1>1 DEF ServiceInv
<1>2. CASE ServerUnit \/ ServerDies
  BY <1>1, <1>2, ServerUnitStep
<1>3. ASSUME UNCHANGED <<pc, cmd, already, unit, due>> PROVE UnitInv' /\ DueInv'
  BY <1>1, <1>3, ServerUntouched
<1>4. CASE Elapses \/ Writes \/ HasWritten \/ NothingToReason \/ WriteFails
  BY <1>3, <1>4 DEF Elapses, Writes, Extract, HasWritten, NothingToReason, WriteFails,
     vars, unitVars
<1>5. ASSUME NEW d \in Derived, BeginsReason(d) PROVE UnitInv' /\ DueInv'
  <2>1. UNCHANGED <<pc[server], cmd[server], already[server], unit, due>>
    BY <1>5, Units DEF BeginsReason, Goto, unitVars, ServiceInv, MachineInv, SoundInv,
       TypeInv, TypeOK
  <2>2. QED
    BY <1>1, <2>1, ServerUntouched
<1>6. CASE ReasonRuns \/ ReasonEnds \/ ReasonDies
  <2>1. Step(timer) /\ UNCHANGED <<unit, due>>
    BY <1>6 DEF ReasonRuns, ReasonEnds, ReasonDies, unitVars, Step
  <2>2. QED
    BY <1>1, <2>1, OthersStep, ServerUntouched, Units
<1>7. CASE TryRestart
  <2>1. CASE unit = "main"
    <3>1. unit' = "start" /\ due' = Present /\ file' = file
      BY <1>7, <2>1 DEF TryRestart, storeVars
    <3>2. Exit(server)
      BY <1>7, <2>1 DEF TryRestart
    <3>3. server \in DOMAIN pc
      BY Units DEF ServiceInv, MachineInv, SoundInv, TypeInv, TypeOK
    <3>4. pc'[server] = "idle"
      BY <3>2, <3>3 DEF Exit, Goto
    <3>5. QED
      BY <3>1, <3>4 DEF UnitInv, DueInv, Present
  <2>2. CASE unit # "main"
    BY <1>3, <1>7, <2>2 DEF TryRestart, vars
  <2>3. QED
    BY <2>1, <2>2
<1>8. CASE UserBegins \/ UserRuns \/ UserDies
  <2>1. Step(user) /\ UNCHANGED <<unit, due>>
    <3>1. ASSUME NEW c \in Allowed[user], NEW d \in Derived, BeginReason(user, c, d)
          PROVE  Start(user)
      BY <3>1, Units DEF Start, Commands, Reasons
    <3>2. QED
      BY <1>8, <3>1 DEF UserBegins, UserRuns, UserDies, unitVars, Step
  <2>2. QED
    BY <1>1, <2>1, OthersStep, ServerUntouched, Units
<1>9. CASE UNCHANGED serviceVars
  BY <1>3, <1>9 DEF serviceVars, vars, unitVars
<1>10. QED
  BY <1>2, <1>4, <1>5, <1>6, <1>7, <1>8, <1>9 DEF ServiceNext, TimerUnit

(***************************************************************************)
(* Once the server serves after a restart, whatever was in the store at    *)
(* the restart is in the index, though a load before it died, a user       *)
(* reasoned or the timer wrote meanwhile (module.nix, nix2rdf-serve):      *)
(* ExecStartPre's list is made under the lock after the restart, and the   *)
(* unit goes on to ExecStart only from a load that came to its end.        *)
(***************************************************************************)
THEOREM RestartIsServed == ServiceSpec => []RestartServesAll
<1>1. ServiceInv => RestartServesAll
  <2> SUFFICES ASSUME ServiceInv, pc[server] = "serving" PROVE \A f \in due : Indexed(f)
    BY DEF RestartServesAll
  <2>1. pc[server] \in StepsOf(cmd[server]) /\ cmd[server] \in Commands \cup {"none"}
    BY Units DEF ServiceInv, MachineInv, SoundInv, TypeInv, TypeOK, ProcInv
  <2>2. cmd[server] = "serve"
    BY <2>1 DEF StepsOf, Loads, Reasons, Commands
  <2>3. unit = "main"
    BY <2>2 DEF ServiceInv, UnitInv
  <2>4. QED
    BY <2>3 DEF ServiceInv, DueInv
<1>2. QED
  BY ServiceInvInit, ServiceInvStep, <1>1, PTL DEF ServiceSpec
=============================================================================
