----------------------------- MODULE MutantSwap -----------------------------
(***************************************************************************)
(* mutation.py at work in the user's tree: each mutant is written over the *)
(* source, tested, and undone; what a killed process leaves is put back by *)
(* a later one (restore_interrupted, restore_orphans).                     *)
(*                                                                         *)
(* The tree is one for all tasks, a lock file is a task's own.  One command *)
(* runs at a time, and may be killed between any two steps or in a write.   *)
(***************************************************************************)
EXTENDS FiniteSets

CONSTANTS
  Tasks,     \* the tasks of the repository
  Files,     \* the source files under mutation
  NoFile,    \* a lock that is not there, or names nothing
  NoTask,    \* no command is running
  Regimes    \* sets of faults that may be met together

ASSUME NoFileAssumption == NoFile \notin Files
ASSUME NoTaskAssumption == NoTask \notin Tasks

(* A kill may leave the source it writes half written, or the backup; and a  *)
(* write may fail, on a full disk half way, or before it touched the file.  *)
Faults == {"source", "backup", "write"}
ASSUME RegimesAssumption == Regimes \subseteq SUBSET Faults

VARIABLES
  faults,  \* the faults of this history
  tree,    \* the content of each source file
  backup,  \* the content of the backup beside it
  lock,    \* the file each task's mutants.lock names
  me,      \* the task whose command is running
  pc,      \* where it is
  cur,     \* the file it swaps
  read,    \* what it read there as the original
  failed   \* whether the swap in progress raised an error

swap == <<cur, read, failed>>
vars == <<faults, tree, backup, lock, me, pc, swap>>

Contents == {"original", "mutant", "torn"}
Steps == {"idle", "recover", "recovered", "work", "sweep", "measure", "lock", "backup",
          "mutate", "judge", "restore", "unlink", "unlock"}

TypeOK ==
  /\ faults \in Regimes
  /\ tree \in [Files -> Contents]
  /\ backup \in [Files -> Contents \cup {"none"}]
  /\ lock \in [Tasks -> Files \cup {NoFile}]
  /\ me \in Tasks \cup {NoTask} /\ pc \in Steps
  /\ cur \in Files \cup {NoFile} /\ read \in Contents /\ failed \in BOOLEAN

Forget == cur' = NoFile /\ read' = "original" /\ failed' = FALSE
Go(step) == pc' = step /\ UNCHANGED me
Leave == me' = NoTask /\ pc' = "idle" /\ Forget

Init ==
  /\ faults \in Regimes
  /\ tree = [f \in Files |-> "original"] /\ backup = [f \in Files |-> "none"]
  /\ lock = [t \in Tasks |-> NoFile]
  /\ me = NoTask /\ pc = "idle"
  /\ cur = NoFile /\ read = "original" /\ failed = FALSE

-----------------------------------------------------------------------------
(* The backup moves over the source: one rename, all or nothing.            *)
PutBack(f) ==
  /\ tree' = [tree EXCEPT ![f] = backup[f]]
  /\ backup' = [backup EXCEPT ![f] = "none"]

Start(t) ==
  /\ pc = "idle"
  /\ me' = t /\ pc' = "recover"
  /\ UNCHANGED <<tree, backup, lock, swap>>

(* restore_interrupted: the file that the task's own lock names.            *)
Recover ==
  /\ pc = "recover"
  /\ IF lock[me] # NoFile /\ backup[lock[me]] # "none"
       THEN PutBack(lock[me]) ELSE UNCHANGED <<tree, backup>>
  /\ Go("recovered") /\ UNCHANGED <<lock, swap>>

Recovered ==
  /\ pc = "recovered"
  /\ lock' = [lock EXCEPT ![me] = NoFile]
  /\ Go("work") /\ UNCHANGED <<tree, backup, swap>>

(* The command works on the tree, and ends or begins a pass.                *)
Work ==
  /\ pc = "work"
  /\ \/ Leave
     \/ Go("sweep") /\ UNCHANGED swap
  /\ UNCHANGED <<tree, backup, lock>>

(* restore_orphans: every backup in the tree, whoever left it.              *)
Sweep(f) ==
  /\ pc = "sweep" /\ backup[f] # "none"
  /\ PutBack(f)
  /\ UNCHANGED <<lock, me, pc, swap>>

(* Mutant: done once no lock is held, as if every backup had one.           *)
SweptOwn ==
  /\ pc = "sweep" /\ lock[me] = NoFile
  /\ Go("measure") /\ UNCHANGED <<tree, backup, lock, swap>>

Swept ==
  /\ pc = "sweep" /\ \A f \in Files : backup[f] = "none"
  /\ lock' = [lock EXCEPT ![me] = NoFile]
  /\ Go("measure") /\ UNCHANGED <<tree, backup, swap>>

(* Between swaps: the baseline is run, and the next file is read.  The pass *)
(* ends, or an error ends it, and the command goes on or ends with it.      *)
Measure ==
  /\ pc = "measure"
  /\ \/ \E f \in Files :
          cur' = f /\ read' = tree[f] /\ failed' = FALSE /\ Go("lock")
     \/ Forget /\ Go("work")
     \/ Leave
  /\ UNCHANGED <<tree, backup, lock>>

-----------------------------------------------------------------------------
(* One swap: _swapped around _judge or the sentinel.                        *)

(* Mutant: the lock names the task and not the file.                        *)
WriteLockOfTask ==
  /\ pc = "lock"
  /\ lock' = [lock EXCEPT ![me] = me]
  /\ Go("backup") /\ UNCHANGED <<tree, backup, swap>>

WriteLock ==
  /\ pc = "lock"
  /\ \/ lock' = [lock EXCEPT ![me] = cur] /\ Go("backup") /\ UNCHANGED swap
     \/ /\ "write" \in faults
        /\ lock' = [lock EXCEPT ![me] = NoFile] /\ failed' = TRUE
        /\ Go("unlock") /\ UNCHANGED <<cur, read>>
  /\ UNCHANGED <<tree, backup>>

(* A write that fails leaves the file as it was, or torn, and goes on at step. *)
WriteFails(step) ==
  /\ "write" \in faults
  /\ failed' = TRUE /\ Go(step) /\ UNCHANGED <<lock, cur, read>>

WriteBackup ==
  /\ pc = "backup"
  /\ \/ /\ backup' = [backup EXCEPT ![cur] = read]
        /\ Go("mutate") /\ UNCHANGED <<lock, swap>>
     \/ backup' \in {backup, [backup EXCEPT ![cur] = "torn"]} /\ WriteFails("restore")
  /\ UNCHANGED tree

(* Mutant: nothing is kept beside the file while it is swapped.             *)
WriteMutantNoBackup ==
  /\ pc = "mutate"
  /\ tree' = [tree EXCEPT ![cur] = "mutant"] /\ backup' = [backup EXCEPT ![cur] = "none"]
  /\ Go("judge") /\ UNCHANGED <<lock, swap>>

WriteMutant ==
  /\ pc = "mutate"
  /\ \/ /\ tree' = [tree EXCEPT ![cur] = "mutant"]
        /\ Go("judge") /\ UNCHANGED <<lock, swap>>
     \/ tree' \in {tree, [tree EXCEPT ![cur] = "torn"]} /\ WriteFails("restore")
  /\ UNCHANGED backup

(* The tests run on the mutant, or cannot be run and raise an error.        *)
Judge ==
  /\ pc = "judge"
  /\ failed' \in BOOLEAN
  /\ Go("restore") /\ UNCHANGED <<tree, backup, lock, cur, read>>

(* Mutant: the lock is released before the file is back.                    *)
WriteBackUnlocked ==
  /\ pc = "restore"
  /\ \/ lock[me] # NoFile /\ lock' = [lock EXCEPT ![me] = NoFile] /\ UNCHANGED <<tree, pc>>
     \/ /\ lock[me] = NoFile /\ tree' = [tree EXCEPT ![cur] = read]
        /\ pc' = "unlink" /\ UNCHANGED lock
  /\ UNCHANGED <<backup, me, swap>>

(* Mutant: the backup is dropped although the file did not come back.       *)
WriteBackGivesUp ==
  /\ pc = "restore"
  /\ \/ /\ tree' = [tree EXCEPT ![cur] = read]
        /\ Go("unlink") /\ UNCHANGED <<lock, swap>>
     \/ tree' \in {tree, [tree EXCEPT ![cur] = "torn"]} /\ WriteFails("unlink")
  /\ UNCHANGED backup

WriteBack ==
  /\ pc = "restore"
  /\ \/ /\ tree' = [tree EXCEPT ![cur] = read]
        /\ Go("unlink") /\ UNCHANGED <<lock, swap>>
     \/ tree' \in {tree, [tree EXCEPT ![cur] = "torn"]} /\ WriteFails("unlock")
  /\ UNCHANGED backup

Unlink ==
  /\ pc = "unlink"
  /\ backup' = [backup EXCEPT ![cur] = "none"]
  /\ Go("unlock") /\ UNCHANGED <<tree, lock, swap>>

(* The next mutant of the same file is made from the same read; an error    *)
(* ends the command, or the pass where verify reports it and goes on.       *)
Unlock ==
  /\ pc = "unlock"
  /\ lock' = [lock EXCEPT ![me] = NoFile]
  /\ \/ ~failed /\ (Go("lock") \/ Go("measure")) /\ UNCHANGED swap
     \/ failed /\ (Leave \/ (Forget /\ Go("work")))
  /\ UNCHANGED <<tree, backup>>

(* A process can be killed anywhere, also inside a write.                   *)
Kill ==
  /\ pc # "idle" /\ Leave /\ UNCHANGED lock
  /\ \/ UNCHANGED <<tree, backup>>
     \/ /\ pc = "backup" /\ "backup" \in faults
        /\ backup' = [backup EXCEPT ![cur] = "torn"] /\ UNCHANGED tree
     \/ /\ pc \in {"mutate", "restore"} /\ "source" \in faults
        /\ tree' = [tree EXCEPT ![cur] = "torn"] /\ UNCHANGED backup

Step ==
  \/ \E t \in Tasks : Start(t)
  \/ Recover \/ Recovered \/ Work
  \/ \E f \in Files : Sweep(f)
  \/ Swept \/ Measure
  \/ WriteLock \/ WriteBackup \/ WriteMutant \/ Judge \/ WriteBack \/ Unlink \/ Unlock
  \/ Kill

Next == Step /\ UNCHANGED faults

Spec == Init /\ [][Next]_vars

-----------------------------------------------------------------------------
(* The faults under which the original is kept: of all that is written, only *)
(* a source can be cut short.                                               *)
OnlySourceTears == faults \subseteq {"source"}

(* Whatever is killed when, each source file is intact or has an intact     *)
(* backup beside it to be put back: mutation.py, "always puts it back".     *)
OriginalKept == OnlySourceTears => \A f \in Files : "original" \in {tree[f], backup[f]}

(* A verdict is about one mutant, whatever was torn or failed before: while *)
(* the tests run, no other file holds a mutant of an earlier process, and   *)
(* what a swap takes for the original is not one either, also where the      *)
(* write that undoes a mutant failed and its lock was released all the same. *)
JudgesOneMutant ==
  /\ pc = "measure" => \A f \in Files : tree[f] # "mutant"
  /\ pc \in {"lock", "backup", "mutate", "judge", "restore"} =>
       read # "mutant" /\ \A f \in Files \ {cur} : tree[f] # "mutant"

(* "Left behind, it is the single cheap signal that a run died with the     *)
(* working tree modified": a file that is not its original while no command *)
(* runs is named by a lock; and past its checks a command builds only on    *)
(* what the lock of another task names (cli.py, _load).                     *)
LeftoversAnnounced ==
  OnlySourceTears /\ pc \in {"idle", "work"} =>
    \A f \in Files : tree[f] # "original" => \E t \in Tasks \ {me} : lock[t] = f

(* Files are lent one at a time and come back, whatever is killed on the way:*)
(* no swap begins while a file of an earlier one is away, whichever task     *)
(* left it, and no step brings one file back and leaves another away.       *)
Lendable == [f \in Files |-> IF OnlySourceTears THEN tree[f] ELSE "original"]
Lent == INSTANCE WorkingTree WITH tree <- Lendable
OneFileAway == Lent!Spec

(* "Always puts it back" (mutation.py:497), also when the write of the       *)
(* backup itself is cut short.                                              *)
AlwaysPutBack == \A f \in Files : "original" \in {tree[f], backup[f]}
=============================================================================
