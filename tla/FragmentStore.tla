--------------------------- MODULE FragmentStore ---------------------------
(***************************************************************************)
(* The fragment store at the grain of system calls: the processes of the   *)
(* command line that put a fragment file in place (Store::write,           *)
(* Store::overwrite, publish::fetch), gc-derived that unlinks one, the     *)
(* commands that read one, and crashes and I/O errors between the calls.   *)
(*                                                                         *)
(* Every writer creates a temporary file beside the target, fills it and   *)
(* renames it.  The name of the temporary file depends on the target only, *)
(* so two processes that write one identity share it.  Files are inodes: a *)
(* process that opened a name keeps writing to that inode after another    *)
(* process renamed it, which is what makes a published file change.        *)
(***************************************************************************)
EXTENDS Naturals

CONSTANTS
  Procs,        (* processes that write: CLI invocations, timer services   *)
  Readers,      (* commands that read: load, rebuild, reason, publish      *)
  Ids,          (* fragment identities, one per relative path              *)
  Inodes,       (* inodes of the file system; its size bounds the files    *)
  Contents,     (* file contents                                           *)
  ContentsOf,   (* ContentsOf[i]: the contents a writer may give i         *)
  Mutable,      (* identities of the kinds written with Store::overwrite   *)
  Collectable,  (* identities gc-derived may remove                        *)
  Job,          (* Job[p]: the <<operation, identity>> pairs p may run     *)
  MaxFaults,    (* bound on crashes and I/O errors                         *)
  NoInode, NoReq, NoFd, NoRead,   (* "none" of each type                   *)
  Empty,        (* the content of a file just created or truncated         *)
  Torn          (* any other content that is no fragment                   *)

Ops == {"write", "overwrite", "fetch"}

ASSUME ContentsAssumption ==
  /\ ContentsOf \in [Ids -> SUBSET Contents]
  /\ {Empty, Torn, NoInode} \cap Contents = {}
ASSUME SentinelAssumption ==
  /\ NoInode \notin Inodes
  /\ NoReq \notin [op : Ops, id : Ids, content : Contents]
  /\ NoFd \notin Ids \X Inodes
  /\ NoRead \notin Ids \X (Contents \cup {Empty, Torn})
ASSUME JobAssumption ==
  /\ Job \in [Procs -> SUBSET (Ops \X Ids)]
  /\ \A p \in Procs, i \in Ids : <<"overwrite", i>> \in Job[p] => i \in Mutable
  /\ MaxFaults \in Nat

VARIABLES
  file,     (* file[i]: the inode under the path of identity i, or NoInode *)
  tmp,      (* tmp[t]: the inode under the temporary name t, or NoInode    *)
  data,     (* data[n]: what inode n holds                                 *)
  pc,       (* pc[p]: the step process p takes next                        *)
  req,      (* req[p]: the operation, identity and content p is writing    *)
  fd,       (* fd[p]: the inode p has open for writing, or NoInode         *)
  outcome,  (* outcome[p]: how the latest operation of p ended             *)
  opened,   (* opened[r]: the <<identity, inode>> r is reading, or NoFd    *)
  got,      (* got[r]: the <<identity, content>> r read last, or NoRead    *)
  faults    (* crashes and I/O errors so far                               *)

vars == <<file, tmp, data, pc, req, fd, outcome, opened, got, faults>>
writerVars == <<pc, req, fd, outcome>>
readerVars == <<opened, got>>

\* Mutant of Extension: one temporary name for write_to and fetch.
SharedExtension(op) == "part"

\* path.with_extension of either: the name of write_to and the name of fetch
\* never meet, the names of two writes of one identity always do.
Extension(op) == IF op = "fetch" THEN "part" ELSE "nq.zst.tmp"
TmpOf(op, i) == <<Extension(op), i>>
TmpNames == {"part", "nq.zst.tmp"} \X Ids

Requests == [op : Ops, id : Ids, content : Contents]
Target(p) == TmpOf(req[p].op, req[p].id)

Free(n) ==
  /\ \A i \in Ids : file[i] # n
  /\ \A t \in TmpNames : tmp[t] # n
  /\ \A p \in Procs : fd[p] # n
  /\ \A r \in Readers, i \in Ids : opened[r] # <<i, n>>

Complete(i, d) == d \in ContentsOf[i]

Init ==
  /\ file = [i \in Ids |-> NoInode]
  /\ tmp = [t \in TmpNames |-> NoInode]
  /\ data = [n \in Inodes |-> Empty]
  /\ pc = [p \in Procs |-> "idle"]
  /\ req = [p \in Procs |-> NoReq]
  /\ fd = [p \in Procs |-> NoInode]
  /\ outcome = [p \in Procs |-> "none"]
  /\ opened = [r \in Readers |-> NoFd]
  /\ got = [r \in Readers |-> NoRead]
  /\ faults = 0

-----------------------------------------------------------------------------
(***************************************************************************)
(* Writers.                                                                *)
(***************************************************************************)

\* The operation of p is over: nothing is left of it but its outcome.
Finish(p, result) ==
  /\ pc' = [pc EXCEPT ![p] = "idle"]
  /\ req' = [req EXCEPT ![p] = NoReq]
  /\ fd' = [fd EXCEPT ![p] = NoInode]
  /\ outcome' = [outcome EXCEPT ![p] = result]

\* write and fetch go on only when path.exists() is false; overwrite always.
Begin(p, op, i, c) ==
  /\ pc[p] = "idle"
  /\ <<op, i>> \in Job[p]
  /\ op \in {"write", "fetch"} => file[i] = NoInode
  /\ c \in ContentsOf[i]
  /\ pc' = [pc EXCEPT ![p] = "create"]
  /\ req' = [req EXCEPT ![p] = [op |-> op, id |-> i, content |-> c]]
  /\ UNCHANGED <<file, tmp, data, fd, outcome, readerVars, faults>>

\* The early return when the path exists: Store::write reports written: false.
SkipExisting(p, op, i) ==
  /\ pc[p] = "idle"
  /\ <<op, i>> \in Job[p] /\ op \in {"write", "fetch"}
  /\ file[i] # NoInode
  /\ outcome' = [outcome EXCEPT ![p] = "skipped"]
  /\ UNCHANGED <<file, tmp, data, pc, req, fd, readerVars, faults>>

\* Mutant of Create: create_new, which fails when the file is already there.
CreateNew(p) ==
  /\ pc[p] = "create"
  /\ \/ /\ tmp[Target(p)] # NoInode
        /\ Finish(p, "failed")
        /\ UNCHANGED <<file, tmp, data, readerVars, faults>>
     \/ /\ tmp[Target(p)] = NoInode
        /\ \E n \in Inodes :
             /\ Free(n)
             /\ tmp' = [tmp EXCEPT ![Target(p)] = n]
             /\ data' = [data EXCEPT ![n] = Empty]
             /\ fd' = [fd EXCEPT ![p] = n]
        /\ pc' = [pc EXCEPT ![p] = "fill"]
        /\ UNCHANGED <<file, req, outcome, readerVars, faults>>

\* fs::write opens with O_CREAT | O_TRUNC: a file of that name is emptied,
\* whoever has it open and whatever a crash left in it.
Create(p) ==
  /\ pc[p] = "create"
  /\ \E n \in Inodes :
       /\ n = tmp[Target(p)] \/ (tmp[Target(p)] = NoInode /\ Free(n))
       /\ tmp' = [tmp EXCEPT ![Target(p)] = n]
       /\ data' = [data EXCEPT ![n] = Empty]
       /\ fd' = [fd EXCEPT ![p] = n]
  /\ pc' = [pc EXCEPT ![p] = "fill"]
  /\ UNCHANGED <<file, req, outcome, readerVars, faults>>

\* The bytes reach the inode p opened.  Over another writer's bytes the
\* shorter content leaves the tail of the longer one.
Fill(p) ==
  /\ pc[p] = "fill"
  /\ \E d \in {req[p].content, Torn} :
       /\ data[fd[p]] \in {Empty, req[p].content} => d = req[p].content
       /\ data' = [data EXCEPT ![fd[p]] = d]
  /\ pc' = [pc EXCEPT ![p] = "rename"]
  /\ UNCHANGED <<file, tmp, req, fd, outcome, readerVars, faults>>

\* Mutant of Rename: the rename comes before the bytes.
RenameEarly(p) ==
  /\ pc[p] \in {"fill", "rename"}
  /\ tmp[Target(p)] # NoInode
  /\ file' = [file EXCEPT ![req[p].id] = tmp[Target(p)]]
  /\ tmp' = [tmp EXCEPT ![Target(p)] = NoInode]
  /\ Finish(p, "written")
  /\ UNCHANGED <<data, readerVars, faults>>

\* rename moves whatever inode the temporary name stands for by now.
Rename(p) ==
  /\ pc[p] = "rename"
  /\ tmp[Target(p)] # NoInode
  /\ file' = [file EXCEPT ![req[p].id] = tmp[Target(p)]]
  /\ tmp' = [tmp EXCEPT ![Target(p)] = NoInode]
  /\ Finish(p, "written")
  /\ UNCHANGED <<data, readerVars, faults>>

\* Another writer renamed the shared name first: ENOENT, the command fails.
RenameLost(p) ==
  /\ pc[p] = "rename"
  /\ tmp[Target(p)] = NoInode
  /\ Finish(p, "lost")
  /\ UNCHANGED <<file, tmp, data, readerVars, faults>>

\* fs::write fails half-way (a full disk): the error is returned, the
\* temporary file stays.
FillFails(p) ==
  /\ pc[p] = "fill" /\ faults < MaxFaults
  /\ data' = [data EXCEPT ![fd[p]] = Torn]
  /\ faults' = faults + 1
  /\ Finish(p, "failed")
  /\ UNCHANGED <<file, tmp, readerVars>>

\* The process dies between two system calls.
Crash(p) ==
  /\ pc[p] # "idle" /\ faults < MaxFaults
  /\ faults' = faults + 1
  /\ Finish(p, "none")
  /\ UNCHANGED <<file, tmp, data, readerVars>>

\* Mutant of Unlink: the walk does not stay under derived/ and runs/.
UnlinkAny(i) ==
  /\ file[i] # NoInode
  /\ file' = [file EXCEPT ![i] = NoInode]
  /\ UNCHANGED <<tmp, data, writerVars, readerVars, faults>>

\* gc_derived unlinks the file; readers that have it open keep the inode.
Unlink(i) ==
  /\ i \in Collectable
  /\ file[i] # NoInode
  /\ file' = [file EXCEPT ![i] = NoInode]
  /\ UNCHANGED <<tmp, data, writerVars, readerVars, faults>>

-----------------------------------------------------------------------------
(***************************************************************************)
(* Readers: fs::read opens the path and then reads the inode it found.     *)
(***************************************************************************)
\* Mutant of ReadOpen: no error for a file that is not there.
ReadOpenUnchecked(r, i) ==
  /\ opened[r] = NoFd
  /\ opened' = [opened EXCEPT ![r] = <<i, file[i]>>]
  /\ UNCHANGED <<file, tmp, data, writerVars, got, faults>>

ReadOpen(r, i) ==
  /\ opened[r] = NoFd
  /\ file[i] # NoInode
  /\ opened' = [opened EXCEPT ![r] = <<i, file[i]>>]
  /\ UNCHANGED <<file, tmp, data, writerVars, got, faults>>

ReadBytes(r) ==
  /\ opened[r] # NoFd
  /\ got' = [got EXCEPT ![r] = <<opened[r][1], data[opened[r][2]]>>]
  /\ opened' = [opened EXCEPT ![r] = NoFd]
  /\ UNCHANGED <<file, tmp, data, writerVars, faults>>

-----------------------------------------------------------------------------
\* What p does when nothing goes wrong.
Run(p) ==
  \/ \E op \in Ops, i \in Ids :
       \/ SkipExisting(p, op, i)
       \/ \E c \in ContentsOf[i] : Begin(p, op, i, c)
  \/ Create(p) \/ Fill(p) \/ Rename(p) \/ RenameLost(p)

Next ==
  \/ \E p \in Procs : Run(p) \/ FillFails(p) \/ Crash(p)
  \/ \E i \in Ids : Unlink(i)
  \/ \E r \in Readers : ReadBytes(r) \/ \E i \in Ids : ReadOpen(r, i)

Spec == Init /\ [][Next]_vars

\* A command that was started runs on, and the timers and users start it
\* again after a failure; nothing obliges gc-derived, a reader or a fault.
FairSpec == Spec /\ \A p \in Procs : WF_vars(Run(p))

-----------------------------------------------------------------------------
(***************************************************************************)
(* Properties.                                                             *)
(***************************************************************************)
TypeOK ==
  /\ file \in [Ids -> Inodes \cup {NoInode}]
  /\ tmp \in [TmpNames -> Inodes \cup {NoInode}]
  /\ data \in [Inodes -> Contents \cup {Empty, Torn}]
  /\ pc \in [Procs -> {"idle", "create", "fill", "rename"}]
  /\ req \in [Procs -> Requests \cup {NoReq}]
  /\ fd \in [Procs -> Inodes \cup {NoInode}]
  /\ outcome \in [Procs -> {"none", "skipped", "written", "lost", "failed"}]
  /\ opened \in [Readers -> (Ids \X Inodes) \cup {NoFd}]
  /\ got \in [Readers -> (Ids \X (Contents \cup {Empty, Torn})) \cup {NoRead}]
  /\ faults \in Nat

\* "Write to a temp name then rename so a reader never sees a partial file"
\* (fragment.rs:263): what a command has read is a complete fragment of the
\* identity it asked for.
ReaderNeverSeesPartial ==
  \A r \in Readers : got[r] # NoRead => Complete(got[r][1], got[r][2])

\* write_to never fails for a reason of its own: the rename finds the
\* temporary file the same process has just written.
RenameNeverLost == \A p \in Procs : outcome[p] # "lost"

\* Every published file decodes, so that the index is "always rebuildable" from
\* them (graph.rs:1-2): part of the invariant where temporary names are private.
FilesDecode == \A i \in Ids : file[i] # NoInode => Complete(i, data[file[i]])

\* A fragment some process keeps writing is published, again after gc-derived
\* removed it and in spite of the temporary files that crashes left behind.
JobsGetDone ==
  \A p \in Procs, op \in Ops, i \in Ids :
    <<op, i>> \in Job[p] => []<>(file[i] # NoInode /\ Complete(i, data[file[i]]))

\* The store implements AtomicStore: a fragment is published by the rename,
\* and a read takes effect when the file is opened.
Promise == INSTANCE AtomicStore WITH
  Absent <- NoInode,
  published <- [i \in Ids |-> IF file[i] = NoInode THEN NoInode ELSE data[file[i]]],
  seen <- [r \in Readers |-> IF opened[r] = NoFd THEN got[r]
                             ELSE <<opened[r][1], data[opened[r][2]]>>]
ImplementsAtomicStore == Promise!Spec

-----------------------------------------------------------------------------
(***************************************************************************)
(* What the promises need: no two processes write one temporary name, and  *)
(* the content of an immutable kind is a function of its identity.         *)
(***************************************************************************)
ExclusiveJobs ==
  \A p, q \in Procs, o1, o2 \in Ops, i1, i2 \in Ids :
    /\ <<o1, i1>> \in Job[p]
    /\ <<o2, i2>> \in Job[q]
    /\ TmpOf(o1, i1) = TmpOf(o2, i2)
    => p = q
IdentityImpliesContent ==
  \A i \in Ids \ Mutable : \A c, d \in ContentsOf[i] : c = d
=============================================================================
