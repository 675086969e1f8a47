------------------------ MODULE FragmentStoreProofs ------------------------
(***************************************************************************)
(* Proofs about FragmentStore, for any processes, identities, contents and *)
(* inodes: its types; that a reader never sees a partial file and a rename *)
(* never fails when no two processes share a temporary name.               *)
(***************************************************************************)
EXTENDS FragmentStore, TLAPS

\* A process between two system calls works on a well-formed request.
TypeInv ==
  /\ TypeOK
  /\ \A p \in Procs : pc[p] # "idle" => req[p] \in Requests

LEMMA TargetType ==
  ASSUME NEW p \in Procs, req[p] \in Requests
  PROVE  /\ Target(p) \in TmpNames
         /\ req[p].id \in Ids
         /\ req[p].op \in Ops
         /\ req[p].content \in Contents
  BY DEF Target, TmpOf, TmpNames, Extension, Requests, Ops

LEMMA TypeInvInit == Init => TypeInv
  BY JobAssumption DEF Init, TypeInv, TypeOK

LEMMA TypeInvStep == TypeInv /\ [Next]_vars => TypeInv'
<1> SUFFICES ASSUME TypeInv, [Next]_vars PROVE TypeInv'
  OBVIOUS
<1> USE DEF TypeInv, TypeOK
<1>1. ASSUME NEW p \in Procs, NEW op \in Ops, NEW i \in Ids, SkipExisting(p, op, i)
      PROVE  TypeInv'
  BY <1>1 DEF SkipExisting, readerVars
<1>2. ASSUME NEW p \in Procs, NEW op \in Ops, NEW i \in Ids, NEW c \in ContentsOf[i],
             Begin(p, op, i, c)
      PROVE  TypeInv'
  <2>1. c \in Contents
    BY ContentsAssumption
  <2>2. [op |-> op, id |-> i, content |-> c] \in Requests
    BY <2>1 DEF Requests
  <2>3. QED
    BY <1>2, <2>2 DEF Begin, readerVars
<1>3. ASSUME NEW p \in Procs, Create(p) PROVE TypeInv'
  <2>1. PICK n \in Inodes :
          /\ tmp' = [tmp EXCEPT ![Target(p)] = n]
          /\ data' = [data EXCEPT ![n] = Empty]
          /\ fd' = [fd EXCEPT ![p] = n]
    BY <1>3 DEF Create
  <2>2. /\ pc' = [pc EXCEPT ![p] = "fill"] /\ pc[p] = "create"
        /\ UNCHANGED <<file, req, outcome, opened, got, faults>>
    BY <1>3 DEF Create, readerVars
  <2>3. QED
    BY <2>1, <2>2
<1>4. ASSUME NEW p \in Procs, Fill(p) PROVE TypeInv'
  <2>1. req[p].content \in Contents
    BY <1>4, TargetType DEF Fill
  <2>2. data' \in [Inodes -> Contents \cup {Empty, Torn}]
    BY <1>4, <2>1 DEF Fill
  <2>3. QED
    BY <1>4, <2>2 DEF Fill, readerVars
<1>5. ASSUME NEW p \in Procs, Rename(p) PROVE TypeInv'
  <2>1. Target(p) \in TmpNames /\ req[p].id \in Ids
    BY <1>5, TargetType DEF Rename
  <2>2. file' \in [Ids -> Inodes \cup {NoInode}] /\ tmp' \in [TmpNames -> Inodes \cup {NoInode}]
    BY <1>5, <2>1 DEF Rename
  <2>3. QED
    BY <1>5, <2>2 DEF Rename, Finish, readerVars
<1>6. ASSUME NEW p \in Procs, RenameLost(p) PROVE TypeInv'
  BY <1>6 DEF RenameLost, Finish, readerVars
<1>7. ASSUME NEW p \in Procs, FillFails(p) PROVE TypeInv'
  <2>1. faults' \in Nat
    BY <1>7 DEF FillFails
  <2>2. data' \in [Inodes -> Contents \cup {Empty, Torn}]
    BY <1>7 DEF FillFails
  <2>3. QED
    BY <1>7, <2>1, <2>2 DEF FillFails, Finish, readerVars
<1>8. ASSUME NEW p \in Procs, Crash(p) PROVE TypeInv'
  BY <1>8 DEF Crash, Finish, readerVars
<1>9. ASSUME NEW i \in Ids, Unlink(i) PROVE TypeInv'
  BY <1>9 DEF Unlink, readerVars, writerVars
<1>10. ASSUME NEW r \in Readers, NEW i \in Ids, ReadOpen(r, i) PROVE TypeInv'
  BY <1>10 DEF ReadOpen, writerVars
<1>11. ASSUME NEW r \in Readers, ReadBytes(r) PROVE TypeInv'
  <2>1. opened[r] \in Ids \X Inodes
    BY <1>11 DEF ReadBytes
  <2>2. <<opened[r][1], data[opened[r][2]]>> \in Ids \X (Contents \cup {Empty, Torn})
    BY <2>1
  <2>3. QED
    BY <1>11, <2>2 DEF ReadBytes, writerVars
<1>12. CASE UNCHANGED vars
  BY <1>12 DEF vars
<1>13. QED
  BY <1>1, <1>2, <1>3, <1>4, <1>5, <1>6, <1>7, <1>8, <1>9, <1>10, <1>11, <1>12
     DEF Next, Run

LEMMA TypeInvAlways == Spec => []TypeInv
<1>1. QED
  BY TypeInvInit, TypeInvStep, PTL DEF Spec

\* Every variable keeps its type, whatever jobs the processes have: in
\* particular a process never renames or fills without a request of its own.
THEOREM TypeCorrect == Spec => []TypeOK
<1>1. TypeInv => TypeOK
  BY DEF TypeInv
<1>2. QED
  BY <1>1, TypeInvAlways, PTL

-----------------------------------------------------------------------------
(***************************************************************************)
(* The inductive invariant behind the safety properties.                   *)
(***************************************************************************)

\* Where process p stands: from create to rename the temporary name stands
\* for the inode p has open, empty until filled and then holding p's content.
WriterInv(p) ==
  /\ pc[p] # "idle" => /\ <<req[p].op, req[p].id>> \in Job[p]
                       /\ req[p].content \in ContentsOf[req[p].id]
  /\ pc[p] \in {"idle", "create"} => fd[p] = NoInode
  /\ pc[p] \in {"fill", "rename"} => fd[p] \in Inodes /\ tmp[Target(p)] = fd[p]
  /\ pc[p] = "fill" => data[fd[p]] = Empty
  /\ pc[p] = "rename" => data[fd[p]] = req[p].content

\* An inode under a temporary name is under no other name and no reader has it.
TmpPrivate(t) ==
  tmp[t] # NoInode =>
    /\ \A s \in TmpNames : s # t => tmp[s] # tmp[t]
    /\ \A i \in Ids : file[i] # tmp[t]
    /\ \A r \in Readers, i \in Ids : opened[r] # <<i, tmp[t]>>

ReaderInv(r) ==
  /\ opened[r] # NoFd => Complete(opened[r][1], data[opened[r][2]])
  /\ got[r] # NoRead => Complete(got[r][1], got[r][2])

IInv ==
  /\ TypeInv
  /\ \A p \in Procs : WriterInv(p)
  /\ \A t \in TmpNames : TmpPrivate(t)
  /\ FilesDecode
  /\ \A r \in Readers : ReaderInv(r)
  /\ RenameNeverLost

LEMMA TargetsDistinct ==
  ASSUME ExclusiveJobs, TypeInv,
         NEW p \in Procs, NEW q \in Procs, p # q,
         pc[p] # "idle", pc[q] # "idle", WriterInv(p), WriterInv(q)
  PROVE  Target(p) # Target(q)
<1>1. /\ req[p].op \in Ops /\ req[p].id \in Ids
      /\ req[q].op \in Ops /\ req[q].id \in Ids
  BY TargetType DEF TypeInv
<1>2. /\ <<req[p].op, req[p].id>> \in Job[p]
      /\ <<req[q].op, req[q].id>> \in Job[q]
  BY DEF WriterInv
<1>3. QED
  BY <1>1, <1>2 DEF ExclusiveJobs, Target

LEMMA IInvInit == Init => IInv
<1> SUFFICES ASSUME Init PROVE IInv
  OBVIOUS
<1>1. \A p \in Procs : WriterInv(p)
  BY DEF Init, WriterInv
<1>2. \A t \in TmpNames : TmpPrivate(t)
  BY DEF Init, TmpPrivate
<1>3. FilesDecode /\ RenameNeverLost
  BY DEF Init, FilesDecode, RenameNeverLost
<1>4. \A r \in Readers : ReaderInv(r)
  BY DEF Init, ReaderInv
<1>5. QED
  BY <1>1, <1>2, <1>3, <1>4, TypeInvInit DEF IInv

\* Create is where a shared name would do harm: it empties the inode.
LEMMA CreatePreserves ==
  ASSUME ExclusiveJobs, IInv, TypeInv', NEW p \in Procs, Create(p)
  PROVE  IInv'
<1> USE DEF TypeInv, TypeOK
<1>1. /\ req[p] \in Requests /\ Target(p) \in TmpNames /\ pc[p] = "create"
      /\ TypeInv /\ WriterInv(p)
  BY TargetType DEF Create, IInv
<1>2. PICK n \in Inodes :
        /\ n = tmp[Target(p)] \/ (tmp[Target(p)] = NoInode /\ Free(n))
        /\ tmp' = [tmp EXCEPT ![Target(p)] = n]
        /\ data' = [data EXCEPT ![n] = Empty]
        /\ fd' = [fd EXCEPT ![p] = n]
  BY DEF Create
<1>3. /\ pc' = [pc EXCEPT ![p] = "fill"]
      /\ UNCHANGED <<file, req, outcome, opened, got>>
  BY DEF Create, readerVars
\* n is p's alone: no other name stands for it, no one else has it open.
<1>4. /\ \A i \in Ids : file[i] # n
      /\ \A t \in TmpNames : t # Target(p) => tmp[t] # n
      /\ \A r \in Readers, i \in Ids : opened[r] # <<i, n>>
  BY <1>1, <1>2, SentinelAssumption DEF IInv, TmpPrivate, Free
<1>5. \A q \in Procs : q # p => fd[q] # n
  <2> SUFFICES ASSUME NEW q \in Procs, q # p, fd[q] = n PROVE FALSE
    OBVIOUS
  <2>1. WriterInv(q) /\ pc[q] \in {"fill", "rename"}
    <3>1. WriterInv(q) /\ pc[q] \in {"idle", "create", "fill", "rename"}
      BY <1>1 DEF IInv, TypeInv, TypeOK
    <3>2. n \in Inodes /\ NoInode \notin Inodes
      BY SentinelAssumption
    <3>3. QED
      BY <3>1, <3>2 DEF WriterInv
  <2>2. Target(q) \in TmpNames /\ tmp[Target(q)] = n
    BY <1>1, <2>1, TargetType DEF WriterInv
  <2>3. Target(q) # Target(p)
    BY <1>1, <2>1, TargetsDistinct
  <2>4. QED
    BY <1>4, <2>2, <2>3
<1>6. \A q \in Procs : WriterInv(q)'
  <2> TAKE q \in Procs
  <2>1. WriterInv(q)
    BY DEF IInv
  <2>2. CASE q = p
    BY <1>1, <1>2, <1>3, <2>1, <2>2 DEF WriterInv, Target
  <2>3. CASE q # p /\ pc[q] \in {"idle", "create"}
    BY <1>2, <1>3, <2>1, <2>3 DEF WriterInv
  <2>4. CASE q # p /\ pc[q] \in {"fill", "rename"}
    <3>1. Target(q) # Target(p) /\ Target(q) \in TmpNames
      BY <1>1, <2>1, <2>4, TargetsDistinct, TargetType
    <3>2. Target(q)' = Target(q) /\ tmp'[Target(q)] = tmp[Target(q)]
      BY <1>2, <1>3, <3>1 DEF Target
    <3>3. data'[fd[q]] = data[fd[q]] /\ fd'[q] = fd[q]
      BY <1>2, <1>5, <2>1, <2>4 DEF WriterInv
    <3>4. QED
      BY <1>3, <2>1, <2>4, <3>2, <3>3 DEF WriterInv
  <2>5. QED
    BY <1>1, <2>2, <2>3, <2>4
<1>7. \A t \in TmpNames : TmpPrivate(t)'
  <2> TAKE t \in TmpNames
  <2>1. TmpPrivate(t)
    BY DEF IInv
  <2>2. CASE t = Target(p)
    BY <1>1, <1>2, <1>3, <1>4, <2>2 DEF TmpPrivate
  <2>3. CASE t # Target(p)
    BY <1>1, <1>2, <1>3, <1>4, <2>1, <2>3 DEF TmpPrivate
  <2>4. QED
    BY <2>2, <2>3
<1>8. FilesDecode'
  <2> SUFFICES ASSUME NEW i \in Ids, file[i] # NoInode PROVE Complete(i, data'[file[i]])
    BY <1>3 DEF FilesDecode, Complete
  <2>1. data'[file[i]] = data[file[i]]
    BY <1>2, <1>4
  <2>2. QED
    BY <2>1 DEF IInv, FilesDecode, Complete
<1>9. \A r \in Readers : ReaderInv(r)'
  <2> TAKE r \in Readers
  <2>1. ReaderInv(r)
    BY DEF IInv
  <2>2. ASSUME opened[r] # NoFd PROVE data'[opened[r][2]] = data[opened[r][2]]
    <3>1. PICK i \in Ids, m \in Inodes : opened[r] = <<i, m>>
      BY <1>1, <2>2
    <3>2. m # n
      BY <1>4, <3>1
    <3>3. QED
      BY <1>2, <3>1, <3>2
  <2>3. QED
    BY <1>3, <2>1, <2>2 DEF ReaderInv, Complete
<1>10. RenameNeverLost'
  BY <1>3 DEF IInv, RenameNeverLost
<1>11. QED
  BY <1>6, <1>7, <1>8, <1>9, <1>10 DEF IInv

\* The inode p has open belongs to p alone until p has renamed it.
LEMMA OpenInodePrivate ==
  ASSUME ExclusiveJobs, IInv, NEW p \in Procs, pc[p] \in {"fill", "rename"}
  PROVE  /\ fd[p] \in Inodes /\ tmp[Target(p)] = fd[p] /\ Target(p) \in TmpNames
         /\ \A i \in Ids : file[i] # fd[p]
         /\ \A t \in TmpNames : t # Target(p) => tmp[t] # fd[p]
         /\ \A r \in Readers, i \in Ids : opened[r] # <<i, fd[p]>>
         /\ \A q \in Procs : q # p => fd[q] # fd[p]
<1>1. /\ TypeInv /\ WriterInv(p) /\ req[p] \in Requests
  BY DEF IInv, TypeInv
<1>2. fd[p] \in Inodes /\ tmp[Target(p)] = fd[p] /\ Target(p) \in TmpNames
  BY <1>1, TargetType DEF WriterInv
<1>3. /\ \A i \in Ids : file[i] # fd[p]
      /\ \A t \in TmpNames : t # Target(p) => tmp[t] # fd[p]
      /\ \A r \in Readers, i \in Ids : opened[r] # <<i, fd[p]>>
  BY <1>2, SentinelAssumption DEF IInv, TmpPrivate
<1>4. \A q \in Procs : q # p => fd[q] # fd[p]
  <2> SUFFICES ASSUME NEW q \in Procs, q # p, fd[q] = fd[p] PROVE FALSE
    OBVIOUS
  <2>1. WriterInv(q) /\ pc[q] \in {"fill", "rename"}
    <3>1. WriterInv(q) /\ pc[q] \in {"idle", "create", "fill", "rename"}
      BY <1>1 DEF IInv, TypeInv, TypeOK
    <3>2. fd[p] \in Inodes /\ NoInode \notin Inodes
      BY <1>2, SentinelAssumption
    <3>3. QED
      BY <3>1, <3>2 DEF WriterInv
  <2>2. Target(q) \in TmpNames /\ tmp[Target(q)] = fd[p]
    BY <1>1, <2>1, TargetType DEF WriterInv, TypeInv
  <2>3. Target(q) # Target(p)
    BY <1>1, <2>1, TargetsDistinct
  <2>4. QED
    BY <1>3, <2>2, <2>3
<1>5. QED
  BY <1>2, <1>3, <1>4

\* A step of p that only puts bytes into its own open inode, and perhaps ends
\* p's operation, keeps everything but p's own part of the invariant.
LEMMA OwnBytesPreserve ==
  ASSUME ExclusiveJobs, IInv, TypeInv', NEW p \in Procs, pc[p] = "fill",
         NEW d, data' = [data EXCEPT ![fd[p]] = d],
         UNCHANGED <<file, tmp, opened, got>>,
         \A q \in Procs : q # p => /\ pc'[q] = pc[q] /\ req'[q] = req[q]
                                   /\ fd'[q] = fd[q] /\ outcome'[q] = outcome[q],
         WriterInv(p)', outcome'[p] # "lost"
  PROVE  IInv'
<1>1. TypeInv
  BY DEF IInv
<1> DEFINE n == fd[p]
<1>2. /\ n \in Inodes /\ \A i \in Ids : file[i] # n
      /\ \A r \in Readers, i \in Ids : opened[r] # <<i, n>>
      /\ \A q \in Procs : q # p => fd[q] # n
  BY OpenInodePrivate
<1>3. \A m \in Inodes : m # n => data'[m] = data[m]
  BY <1>1 DEF TypeInv, TypeOK
<1> HIDE DEF n
<1>4. \A q \in Procs : WriterInv(q)'
  <2> SUFFICES ASSUME NEW q \in Procs, q # p PROVE WriterInv(q)'
    OBVIOUS
  <2>1. WriterInv(q) /\ Target(q)' = Target(q)
    BY DEF IInv, Target
  <2>2. pc[q] \in {"fill", "rename"} => data'[fd[q]] = data[fd[q]]
    BY <1>2, <1>3, <2>1 DEF WriterInv
  <2>3. QED
    BY <2>1, <2>2 DEF WriterInv
<1>5. \A t \in TmpNames : TmpPrivate(t)'
  BY DEF IInv, TmpPrivate
<1>6. FilesDecode'
  <2> SUFFICES ASSUME NEW i \in Ids, file[i] # NoInode PROVE Complete(i, data'[file[i]])
    BY DEF FilesDecode, Complete
  <2>1. file[i] \in Inodes /\ file[i] # n
    BY <1>1, <1>2 DEF TypeInv, TypeOK
  <2>2. QED
    BY <1>3, <2>1 DEF IInv, FilesDecode, Complete
<1>7. \A r \in Readers : ReaderInv(r)'
  <2> TAKE r \in Readers
  <2>1. ReaderInv(r)
    BY DEF IInv
  <2>2. ASSUME opened[r] # NoFd PROVE data'[opened[r][2]] = data[opened[r][2]]
    <3>1. PICK i \in Ids, m \in Inodes : opened[r] = <<i, m>>
      BY <1>1, <2>2 DEF TypeInv, TypeOK
    <3>2. m # n
      BY <1>2, <3>1
    <3>3. QED
      BY <1>3, <3>1, <3>2
  <2>3. QED
    BY <2>1, <2>2 DEF ReaderInv, Complete
<1>8. RenameNeverLost'
  BY DEF IInv, RenameNeverLost
<1>9. QED
  BY <1>4, <1>5, <1>6, <1>7, <1>8 DEF IInv

LEMMA RenamePreserves ==
  ASSUME ExclusiveJobs, IInv, TypeInv', NEW p \in Procs, Rename(p)
  PROVE  IInv'
<1>1. /\ TypeInv /\ WriterInv(p) /\ req[p] \in Requests /\ pc[p] = "rename"
      /\ Target(p) \in TmpNames /\ req[p].id \in Ids
  BY TargetType DEF IInv, TypeInv, Rename
<1> DEFINE n == fd[p]
<1>2. /\ n \in Inodes /\ tmp[Target(p)] = n
      /\ \A t \in TmpNames : t # Target(p) => tmp[t] # n
  BY <1>1, OpenInodePrivate
<1>3. Complete(req[p].id, data[n])
  BY <1>1 DEF WriterInv, Complete
<1> HIDE DEF n
<1>4. /\ file' = [file EXCEPT ![req[p].id] = n]
      /\ tmp' = [tmp EXCEPT ![Target(p)] = NoInode]
      /\ UNCHANGED <<data, opened, got>> /\ Finish(p, "written")
  BY <1>2 DEF Rename, readerVars
<1>5. \A q \in Procs : WriterInv(q)'
  <2> TAKE q \in Procs
  <2>1. WriterInv(q)
    BY DEF IInv
  <2>2. CASE q = p
    BY <1>1, <1>4, <2>2 DEF WriterInv, Finish, TypeInv, TypeOK
  <2>3. CASE q # p
    <3>1. pc'[q] = pc[q] /\ req'[q] = req[q] /\ fd'[q] = fd[q] /\ Target(q)' = Target(q)
      BY <1>4, <2>3 DEF Finish, Target
    <3>2. pc[q] # "idle" => tmp'[Target(q)] = tmp[Target(q)]
      BY <1>1, <1>4, <2>1, <2>3, TargetsDistinct DEF TypeInv
    <3>3. QED
      BY <1>4, <2>1, <3>1, <3>2 DEF WriterInv
  <2>4. QED
    BY <2>2, <2>3
<1>6. \A t \in TmpNames : TmpPrivate(t)'
  <2> TAKE t \in TmpNames
  <2>1. TmpPrivate(t)
    BY DEF IInv
  <2>2. CASE t = Target(p)
    BY <1>1, <1>4, <2>2 DEF TmpPrivate, TypeInv, TypeOK
  <2>3. CASE t # Target(p)
    <3>1. tmp'[t] = tmp[t] /\ tmp[t] # n
      BY <1>2, <1>4, <2>3
    <3>2. \A s \in TmpNames : tmp'[s] \in {tmp[s], NoInode}
      BY <1>1, <1>4 DEF TypeInv, TypeOK
    <3>3. \A i \in Ids : file'[i] \in {file[i], n}
      BY <1>1, <1>4 DEF TypeInv, TypeOK
    <3>4. QED
      BY <1>4, <2>1, <3>1, <3>2, <3>3 DEF TmpPrivate
  <2>4. QED
    BY <2>2, <2>3
<1>7. FilesDecode'
  <2> SUFFICES ASSUME NEW i \in Ids, file'[i] # NoInode PROVE Complete(i, data[file'[i]])
    BY <1>4 DEF FilesDecode, Complete
  <2>1. CASE i = req[p].id
    BY <1>1, <1>3, <1>4, <2>1 DEF TypeInv, TypeOK
  <2>2. CASE i # req[p].id
    BY <1>4, <2>2 DEF IInv, FilesDecode
  <2>3. QED
    BY <2>1, <2>2
<1>8. \A r \in Readers : ReaderInv(r)'
  BY <1>4 DEF IInv, ReaderInv, Complete
<1>9. RenameNeverLost'
  BY <1>4 DEF IInv, RenameNeverLost, Finish, TypeInv, TypeOK
<1>10. QED
  BY <1>5, <1>6, <1>7, <1>8, <1>9 DEF IInv

\* A step that leaves inodes and temporary names alone and moves one process
\* to a state its own part of the invariant allows.
LEMMA WriterStepPreserves ==
  ASSUME IInv, TypeInv', NEW p \in Procs, UNCHANGED <<file, tmp, data, opened, got>>,
         \A q \in Procs : q # p => /\ pc'[q] = pc[q] /\ req'[q] = req[q]
                                   /\ fd'[q] = fd[q] /\ outcome'[q] = outcome[q],
         WriterInv(p)', outcome'[p] = outcome[p] \/ outcome'[p] # "lost"
  PROVE  IInv'
<1>1. \A q \in Procs : WriterInv(q)'
  <2> SUFFICES ASSUME NEW q \in Procs, q # p PROVE WriterInv(q)'
    OBVIOUS
  <2>1. WriterInv(q) /\ Target(q)' = Target(q)
    BY DEF IInv, Target
  <2>2. QED
    BY <2>1 DEF WriterInv
<1>2. (\A t \in TmpNames : TmpPrivate(t)') /\ FilesDecode'
  BY DEF IInv, TmpPrivate, FilesDecode, Complete
<1>3. \A r \in Readers : ReaderInv(r)'
  BY DEF IInv, ReaderInv, Complete
<1>4. RenameNeverLost'
  BY DEF IInv, RenameNeverLost
<1>5. QED
  BY <1>1, <1>2, <1>3, <1>4 DEF IInv

\* A step that changes files or what readers have, and no temporary file.
LEMMA ReaderStepPreserves ==
  ASSUME IInv, TypeInv', UNCHANGED <<tmp, data, writerVars>>,
         \A i \in Ids : file'[i] \in {file[i], NoInode},
         \A r \in Readers : ReaderInv(r)',
         \A r \in Readers : \/ opened'[r] \in {opened[r], NoFd}
                             \/ \E i \in Ids : file[i] # NoInode /\ opened'[r] = <<i, file[i]>>
  PROVE  IInv'
<1>1. \A q \in Procs : WriterInv(q)'
  BY DEF IInv, WriterInv, Target, writerVars
<1>2. \A t \in TmpNames : TmpPrivate(t)'
  <2> SUFFICES ASSUME NEW t \in TmpNames, tmp[t] # NoInode PROVE TmpPrivate(t)'
    BY DEF TmpPrivate
  <2>1. TmpPrivate(t)
    BY DEF IInv
  <2>2. \A i \in Ids : file'[i] # tmp[t]
    BY <2>1 DEF TmpPrivate
  <2>3. ASSUME NEW r \in Readers, NEW i \in Ids PROVE opened'[r] # <<i, tmp[t]>>
    BY <2>1, SentinelAssumption DEF TmpPrivate, IInv, TypeInv, TypeOK
  <2>4. QED
    BY <2>1, <2>2, <2>3 DEF TmpPrivate
<1>3. FilesDecode'
  BY DEF IInv, FilesDecode, Complete
<1>4. RenameNeverLost'
  BY DEF IInv, RenameNeverLost, writerVars
<1>5. QED
  BY <1>1, <1>2, <1>3, <1>4 DEF IInv

LEMMA IInvStep == ExclusiveJobs /\ IInv /\ [Next]_vars => IInv'
<1> SUFFICES ASSUME ExclusiveJobs, IInv, [Next]_vars PROVE IInv'
  OBVIOUS
<1>1. TypeInv /\ TypeInv'
  BY TypeInvStep DEF IInv
<1>2. ASSUME NEW p \in Procs, NEW op \in Ops, NEW i \in Ids, SkipExisting(p, op, i)
      PROVE  IInv'
  <2>1. WriterInv(p)' /\ outcome'[p] # "lost"
    BY <1>1, <1>2 DEF SkipExisting, IInv, WriterInv, Target, TypeInv, TypeOK
  <2>2. QED
    BY <1>1, <1>2, <2>1, WriterStepPreserves DEF SkipExisting, readerVars, TypeInv, TypeOK
<1>3. ASSUME NEW p \in Procs, NEW op \in Ops, NEW i \in Ids, NEW c \in ContentsOf[i],
             Begin(p, op, i, c)
      PROVE  IInv'
  <2>1. WriterInv(p)'
    BY <1>1, <1>3 DEF Begin, IInv, WriterInv, TypeInv, TypeOK
  <2>2. QED
    BY <1>1, <1>3, <2>1, WriterStepPreserves DEF Begin, readerVars, TypeInv, TypeOK
<1>4. ASSUME NEW p \in Procs, Create(p) PROVE IInv'
  BY <1>1, <1>4, CreatePreserves
<1>5. ASSUME NEW p \in Procs, Fill(p) PROVE IInv'
  <2>1. pc[p] = "fill" /\ WriterInv(p) /\ data[fd[p]] = Empty
    BY <1>5 DEF Fill, IInv, WriterInv
  <2>2. data' = [data EXCEPT ![fd[p]] = req[p].content]
    BY <1>5, <2>1 DEF Fill
  <2>3. WriterInv(p)' /\ outcome'[p] # "lost"
    BY <1>1, <1>5, <2>1, <2>2 DEF Fill, IInv, RenameNeverLost, WriterInv, Target, TypeInv, TypeOK
  <2>4. QED
    BY <1>1, <1>5, <2>1, <2>2, <2>3, OwnBytesPreserve DEF Fill, readerVars, TypeInv, TypeOK
<1>6. ASSUME NEW p \in Procs, Rename(p) PROVE IInv'
  BY <1>1, <1>6, RenamePreserves
<1>7. ASSUME NEW p \in Procs, RenameLost(p) PROVE IInv'
  BY <1>7, OpenInodePrivate, SentinelAssumption DEF RenameLost
<1>8. ASSUME NEW p \in Procs, FillFails(p) PROVE IInv'
  <2>1. WriterInv(p)' /\ outcome'[p] # "lost"
    BY <1>1, <1>8 DEF FillFails, Finish, WriterInv, TypeInv, TypeOK
  <2>2. QED
    BY <1>1, <1>8, <2>1, OwnBytesPreserve DEF FillFails, Finish, readerVars, TypeInv, TypeOK
<1>9. ASSUME NEW p \in Procs, Crash(p) PROVE IInv'
  <2>1. WriterInv(p)' /\ outcome'[p] # "lost"
    BY <1>1, <1>9 DEF Crash, Finish, WriterInv, TypeInv, TypeOK
  <2>2. QED
    BY <1>1, <1>9, <2>1, WriterStepPreserves DEF Crash, Finish, readerVars, TypeInv, TypeOK
<1>10. ASSUME NEW i \in Ids, Unlink(i) PROVE IInv'
  <2>1. \A r \in Readers : ReaderInv(r)'
    BY <1>10 DEF Unlink, readerVars, IInv, ReaderInv, Complete
  <2>2. QED
    BY <1>1, <1>10, <2>1, ReaderStepPreserves DEF Unlink, readerVars, TypeInv, TypeOK
<1>11. ASSUME NEW r \in Readers, NEW i \in Ids, ReadOpen(r, i) PROVE IInv'
  <2>1. Complete(i, data[file[i]])
    BY <1>11 DEF ReadOpen, IInv, FilesDecode
  <2>2. \A s \in Readers : ReaderInv(s)'
    BY <1>1, <1>11, <2>1 DEF ReadOpen, IInv, ReaderInv, Complete, TypeInv, TypeOK
  <2>3. QED
    BY <1>1, <1>11, <2>2, ReaderStepPreserves DEF ReadOpen, TypeInv, TypeOK
<1>12. ASSUME NEW r \in Readers, ReadBytes(r) PROVE IInv'
  <2>1. Complete(opened[r][1], data[opened[r][2]])
    BY <1>12 DEF ReadBytes, IInv, ReaderInv
  <2>2. \A s \in Readers : ReaderInv(s)'
    BY <1>1, <1>12, <2>1 DEF ReadBytes, IInv, ReaderInv, Complete, TypeInv, TypeOK
  <2>3. QED
    BY <1>1, <1>12, <2>2, ReaderStepPreserves DEF ReadBytes, TypeInv, TypeOK
<1>13. CASE UNCHANGED vars
  BY <1>1, <1>13 DEF vars, IInv, WriterInv, Target, TmpPrivate, FilesDecode, Complete,
     ReaderInv, RenameNeverLost
<1>14. QED
  BY <1>2, <1>3, <1>4, <1>5, <1>6, <1>7, <1>8, <1>9, <1>10, <1>11, <1>12, <1>13
     DEF Next, Run

LEMMA IInvAlways == ASSUME ExclusiveJobs PROVE Spec => []IInv
<1>1. IInv /\ [Next]_vars => IInv'
  BY IInvStep
<1>2. QED
  BY IInvInit, <1>1, PTL DEF Spec

\* When no two processes share a temporary name, what a command reads is a
\* complete fragment of the identity it asked for, through every crash, I/O
\* error, overwrite, fetch and gc: the comment of Fragment::write_to.
THEOREM NoPartialReads == ASSUME ExclusiveJobs PROVE Spec => []ReaderNeverSeesPartial
<1>1. IInv => ReaderNeverSeesPartial
  BY DEF IInv, ReaderInv, ReaderNeverSeesPartial
<1>2. QED
  BY <1>1, IInvAlways, PTL

\* Under the same condition the rename of write_to and of fetch always finds
\* the file that was written, so no command fails with ENOENT.
THEOREM RenamesSucceed == ASSUME ExclusiveJobs PROVE Spec => []RenameNeverLost
<1>1. IInv => RenameNeverLost
  BY DEF IInv
<1>2. QED
  BY <1>1, IInvAlways, PTL

-----------------------------------------------------------------------------
(***************************************************************************)
(* FragmentStore implements AtomicStore.                                   *)
(***************************************************************************)
Published == [i \in Ids |-> IF file[i] = NoInode THEN NoInode ELSE data[file[i]]]
Seen == [r \in Readers |-> IF opened[r] = NoFd THEN got[r]
                           ELSE <<opened[r][1], data[opened[r][2]]>>]

\* Bytes under a temporary name are invisible: neither a published file nor
\* an inode a reader has is touched.
LEMMA HiddenBytes ==
  ASSUME TypeInv, NEW n, NEW d, data' = [data EXCEPT ![n] = d],
         UNCHANGED <<file, opened, got>>,
         n \in Inodes,
         \A i \in Ids : file[i] # n,
         \A r \in Readers, i \in Ids : opened[r] # <<i, n>>
  PROVE  Published' = Published /\ Seen' = Seen
<1>1. ASSUME NEW i \in Ids, file[i] # NoInode PROVE data'[file[i]] = data[file[i]]
  BY <1>1 DEF TypeInv, TypeOK
<1>2. ASSUME NEW r \in Readers, opened[r] # NoFd
      PROVE  data'[opened[r][2]] = data[opened[r][2]]
  <2>1. PICK i \in Ids, m \in Inodes : opened[r] = <<i, m>>
    BY <1>2 DEF TypeInv, TypeOK
  <2>2. m # n
    BY <2>1
  <2>3. QED
    BY <2>1, <2>2
<1>3. Published' = Published
  BY <1>1 DEF Published
<1>4. Seen' = Seen
  BY <1>2 DEF Seen
<1>5. QED
  BY <1>3, <1>4

LEMMA AbstractStep ==
  ASSUME ExclusiveJobs, IdentityImpliesContent, IInv, IInv', [Next]_vars
  PROVE  [Promise!Next]_(Promise!vars)
<1>1. TypeInv
  BY DEF IInv
<1>2. ASSUME Published' = Published, Seen' = Seen
      PROVE  [Promise!Next]_(Promise!vars)
  BY <1>2 DEF Promise!vars, Published, Seen
<1>3. ASSUME NEW p \in Procs, NEW op \in Ops, NEW i \in Ids, SkipExisting(p, op, i)
      PROVE  [Promise!Next]_(Promise!vars)
  BY <1>2, <1>3 DEF SkipExisting, readerVars, Published, Seen
<1>4. ASSUME NEW p \in Procs, NEW op \in Ops, NEW i \in Ids, NEW c \in ContentsOf[i],
             Begin(p, op, i, c)
      PROVE  [Promise!Next]_(Promise!vars)
  BY <1>2, <1>4 DEF Begin, readerVars, Published, Seen
<1>5. ASSUME NEW p \in Procs, Create(p) PROVE [Promise!Next]_(Promise!vars)
  <2>1. PICK n \in Inodes :
          /\ n = tmp[Target(p)] \/ (tmp[Target(p)] = NoInode /\ Free(n))
          /\ data' = [data EXCEPT ![n] = Empty]
    BY <1>5 DEF Create
  <2>2. Target(p) \in TmpNames
    BY <1>1, <1>5, TargetType DEF Create, TypeInv
  <2>3. /\ \A i \in Ids : file[i] # n
        /\ \A r \in Readers, i \in Ids : opened[r] # <<i, n>>
    BY <2>1, <2>2, SentinelAssumption DEF IInv, TmpPrivate, Free
  <2>4. QED
    BY <1>1, <1>2, <1>5, <2>1, <2>3, HiddenBytes DEF Create, readerVars
<1>6. ASSUME NEW p \in Procs, Fill(p) \/ FillFails(p) PROVE [Promise!Next]_(Promise!vars)
  <2>1. pc[p] = "fill"
    BY <1>6 DEF Fill, FillFails
  <2>2. /\ fd[p] \in Inodes
        /\ \A i \in Ids : file[i] # fd[p]
        /\ \A r \in Readers, i \in Ids : opened[r] # <<i, fd[p]>>
    BY <2>1, OpenInodePrivate
  <2>3. PICK d : data' = [data EXCEPT ![fd[p]] = d]
    BY <1>6 DEF Fill, FillFails
  <2>4. UNCHANGED <<file, opened, got>>
    BY <1>6 DEF Fill, FillFails, readerVars
  <2>5. QED
    BY <1>1, <1>2, <2>2, <2>3, <2>4, HiddenBytes
<1>7. ASSUME NEW p \in Procs, Rename(p) PROVE [Promise!Next]_(Promise!vars)
  <2>1. PICK i \in Ids, c \in Contents :
          /\ i = req[p].id /\ c = req[p].content /\ c \in ContentsOf[i]
          /\ pc[p] = "rename" /\ WriterInv(p)
    BY <1>1, <1>7, TargetType DEF Rename, TypeInv, IInv, WriterInv
  <2>2. file' = [file EXCEPT ![i] = fd[p]] /\ data[fd[p]] = c /\ fd[p] \in Inodes
    BY <1>7, <2>1 DEF Rename, WriterInv
  <2>3. UNCHANGED <<data, opened, got>>
    BY <1>7 DEF Rename, readerVars
  <2>4. Published' = [Published EXCEPT ![i] = c] /\ Seen' = Seen
    BY <1>1, <2>1, <2>2, <2>3, SentinelAssumption DEF Published, Seen, TypeInv, TypeOK
  <2>5. CASE file[i] = NoInode \/ i \in Mutable
    <3>1. Promise!Publish(i, c)
      BY <2>1, <2>4, <2>5 DEF Promise!Publish, Published, Seen
    <3>2. QED
      BY <2>1, <3>1 DEF Promise!Next
  <2>6. CASE file[i] # NoInode /\ i \notin Mutable
    <3>1. data[file[i]] = c
      BY <2>1, <2>6 DEF IInv, FilesDecode, Complete, IdentityImpliesContent
    <3>2. Published[i] = c
      BY <2>1, <2>6, <3>1 DEF Published
    <3>3. Published' = Published
      BY <2>4, <3>2 DEF Published
    <3>4. QED
      BY <1>2, <2>4, <3>3
  <2>7. QED
    BY <2>5, <2>6
<1>8. ASSUME NEW p \in Procs, RenameLost(p) \/ Crash(p)
      PROVE  [Promise!Next]_(Promise!vars)
  BY <1>2, <1>8 DEF RenameLost, Crash, readerVars, Published, Seen
<1>9. ASSUME NEW i \in Ids, Unlink(i) PROVE [Promise!Next]_(Promise!vars)
  <2>1. Published' = [Published EXCEPT ![i] = NoInode] /\ Seen' = Seen
    BY <1>1, <1>9 DEF Unlink, readerVars, Published, Seen, TypeInv, TypeOK
  <2>2. Promise!Remove(i)
    BY <1>9, <2>1 DEF Unlink, Promise!Remove, Published, Seen
  <2>3. QED
    BY <2>2 DEF Promise!Next
<1>10. ASSUME NEW r \in Readers, NEW i \in Ids, ReadOpen(r, i)
       PROVE  [Promise!Next]_(Promise!vars)
  <2>1. Published' = Published
    BY <1>10 DEF ReadOpen, Published
  <2>2. Published[i] = data[file[i]] /\ data[file[i]] # NoInode
    BY <1>10, ContentsAssumption DEF ReadOpen, Published, IInv, FilesDecode, Complete
  <2>3. <<i, file[i]>> # NoFd
    BY <1>1, <1>10, SentinelAssumption DEF ReadOpen, TypeInv, TypeOK
  <2>4. Seen' = [Seen EXCEPT ![r] = <<i, Published[i]>>]
    BY <1>1, <1>10, <2>2, <2>3 DEF ReadOpen, Seen, TypeInv, TypeOK
  <2>5. Promise!Read(r, i)
    BY <2>1, <2>2, <2>4 DEF Promise!Read, Published, Seen
  <2>6. QED
    BY <2>5 DEF Promise!Next
<1>11. ASSUME NEW r \in Readers, ReadBytes(r) PROVE [Promise!Next]_(Promise!vars)
  <2>1. Published' = Published
    BY <1>11 DEF ReadBytes, Published
  <2>2. Seen' = Seen
    BY <1>1, <1>11 DEF ReadBytes, Seen, TypeInv, TypeOK
  <2>3. QED
    BY <1>2, <2>1, <2>2
<1>12. CASE UNCHANGED vars
  BY <1>2, <1>12 DEF vars, Published, Seen
<1>13. QED
  BY <1>3, <1>4, <1>5, <1>6, <1>7, <1>8, <1>9, <1>10, <1>11, <1>12 DEF Next, Run

LEMMA AbstractInit == Init => Promise!Init
  BY DEF Init, Promise!Init

\* With no temporary name shared and contents determined by identity, the
\* store behaves as one in which a fragment appears whole, is never replaced
\* unless its kind is overwritten, and is read at one instant.
THEOREM Refinement ==
  ASSUME ExclusiveJobs, IdentityImpliesContent
  PROVE  Spec => ImplementsAtomicStore
<1>1. IInv /\ IInv' /\ [Next]_vars => [Promise!Next]_(Promise!vars)
  BY AbstractStep
<1>2. QED
  BY <1>1, AbstractInit, IInvAlways, PTL DEF Spec, ImplementsAtomicStore, Promise!Spec
=============================================================================
