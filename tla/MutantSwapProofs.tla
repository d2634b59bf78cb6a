-------------------------- MODULE MutantSwapProofs --------------------------
(***************************************************************************)
(* What holds of the working tree for any number of tasks and files: with  *)
(* every fault allowed, that a verdict is about one mutant (SafeInv); and  *)
(* where only the source can be torn, that no original is lost and every   *)
(* leftover is announced (KeptInv).                                        *)
(***************************************************************************)
EXTENDS MutantSwap, TLAPS

Swapping == {"lock", "backup", "mutate", "judge", "restore", "unlink", "unlock"}
Undone == {"measure", "lock", "backup", "mutate", "unlink"}

SwapsAFile == pc \in Swapping => cur \in Files
RunsForATask == IF pc = "idle" THEN me = NoTask ELSE me \in Tasks
NoMutantTaken ==
  /\ \A f \in Files : backup[f] # "mutant"
  /\ pc \in Swapping => read # "mutant"
MutantsHaveBackups ==
  /\ \A f \in Files : tree[f] = "mutant" => backup[f] # "none"
  /\ pc = "mutate" => backup[cur] # "none"
OneMutant ==
  /\ pc \in Undone \/ (pc = "unlock" /\ ~failed) => \A f \in Files : tree[f] # "mutant"
  /\ pc \in {"judge", "restore"} => \A f \in Files \ {cur} : tree[f] # "mutant"

SafeInv ==
  TypeOK /\ RunsForATask /\ SwapsAFile /\ NoMutantTaken /\ MutantsHaveBackups /\ OneMutant

OriginalSafe == \A f \in Files : "original" \in {tree[f], backup[f]}
ReadsOriginal == pc \in Swapping => read = "original"
BackupsIntact ==
  /\ \A f \in Files : backup[f] \in {"none", "original"}
  /\ pc \in {"mutate", "judge", "restore"} => backup[cur] = "original"
AllBack ==
  /\ pc \in Undone \cup {"unlock"} => \A f \in Files : tree[f] = "original"
  /\ pc \in {"judge", "restore"} => \A f \in Files \ {cur} : tree[f] = "original"
LockedWhileAway ==
  /\ pc \in {"backup", "mutate", "judge", "restore"} => lock[me] = cur
  /\ pc = "recovered" /\ lock[me] # NoFile => tree[lock[me]] = "original"
  /\ \A f \in Files : tree[f] # "original" => \E t \in Tasks : lock[t] = f
OwnLockFree == pc \in {"work", "sweep", "measure", "lock"} => lock[me] = NoFile

Kept ==
  OriginalSafe /\ ReadsOriginal /\ BackupsIntact /\ AllBack /\ LockedWhileAway /\ OwnLockFree

KeptInv == SafeInv /\ (OnlySourceTears => Kept)

OneAway ==
  OnlySourceTears =>
    \A f, g \in Files : tree[f] # "original" /\ tree[g] # "original" => f = g

-----------------------------------------------------------------------------
(* Initially nothing is swapped.                                            *)
LEMMA SafeInit == Init => SafeInv
BY NoFileAssumption DEF Init, SafeInv, TypeOK, RunsForATask, SwapsAFile, NoMutantTaken,
   MutantsHaveBackups, OneMutant, Contents, Steps, Swapping, Undone

(* Every step keeps mutants apart: a mutant is only ever written over a file *)
(* that has a backup, and a pass begins by putting all backups back.        *)
LEMMA SafeStep == SafeInv /\ [Next]_vars => SafeInv'
<1> SUFFICES ASSUME SafeInv, [Next]_vars PROVE SafeInv'
  OBVIOUS
<1>0. UNCHANGED faults
  BY DEF Next, vars
<1> USE <1>0, NoFileAssumption, NoTaskAssumption
    DEF SafeInv, TypeOK, RunsForATask, SwapsAFile, NoMutantTaken, MutantsHaveBackups, OneMutant,
        Contents, Steps, Swapping, Undone, Go, Leave, Forget, swap
<1>1. ASSUME NEW t \in Tasks, Start(t) PROVE SafeInv'
  BY <1>1 DEF Start
<1>2. CASE Recover
  BY <1>2 DEF Recover, PutBack
<1>3. CASE Recovered
  BY <1>3 DEF Recovered
<1>4. CASE Work
  BY <1>4 DEF Work
<1>5. ASSUME NEW f \in Files, Sweep(f) PROVE SafeInv'
  BY <1>5 DEF Sweep, PutBack
<1>6. CASE Swept
  BY <1>6 DEF Swept
<1>7. CASE Measure
  BY <1>7 DEF Measure
<1>8. CASE WriteLock
  BY <1>8 DEF WriteLock
<1>9. CASE WriteBackup
  BY <1>9 DEF WriteBackup, WriteFails
<1>10. CASE WriteMutant
  BY <1>10 DEF WriteMutant, WriteFails
<1>11. CASE Judge
  BY <1>11 DEF Judge
<1>12. CASE WriteBack
  BY <1>12 DEF WriteBack, WriteFails
<1>13. CASE Unlink
  BY <1>13 DEF Unlink
<1>14. CASE Unlock
  BY <1>14 DEF Unlock
<1>15. CASE Kill
  BY <1>15 DEF Kill
<1>16. CASE UNCHANGED vars
  BY <1>16 DEF vars
<1> QED
  BY <1>1, <1>2, <1>3, <1>4, <1>5, <1>6, <1>7, <1>8, <1>9, <1>10, <1>11, <1>12, <1>13, <1>14,
     <1>15, <1>16 DEF Next, Step

(* Initially every file is its original.                                    *)
LEMMA KeptInit == Init => KeptInv
BY SafeInit, NoFileAssumption DEF Init, KeptInv, Kept, OriginalSafe, ReadsOriginal, BackupsIntact,
   AllBack, LockedWhileAway, OwnLockFree, Swapping, Undone

(* Where only the source can be torn, every step keeps the originals: a file *)
(* is away only while its backup is intact and a lock names it.             *)
LEMMA KeptStep == KeptInv /\ [Next]_vars => KeptInv'
<1> SUFFICES ASSUME KeptInv, [Next]_vars PROVE KeptInv'
  OBVIOUS
<1>0. SafeInv'
  BY SafeStep DEF KeptInv
<1>f. UNCHANGED faults
  BY DEF Next, vars
<1> SUFFICES ASSUME OnlySourceTears PROVE Kept'
  BY <1>0, <1>f DEF KeptInv, OnlySourceTears
<1>a. TypeOK /\ RunsForATask /\ SwapsAFile /\ Kept
  BY DEF KeptInv, SafeInv
<1> USE <1>a, NoFileAssumption, NoTaskAssumption
    DEF TypeOK, RunsForATask, SwapsAFile, Kept, OriginalSafe, ReadsOriginal, BackupsIntact,
        AllBack, LockedWhileAway, OwnLockFree, OnlySourceTears, Swapping, Undone, Go, Leave,
        Forget, swap
<1>1. ASSUME NEW t \in Tasks, Start(t) PROVE Kept'
  BY <1>1 DEF Start
<1>2. CASE Recover
  BY <1>2 DEF Recover, PutBack
<1>3. CASE Recovered
  BY <1>3 DEF Recovered
<1>4. CASE Work
  BY <1>4 DEF Work
<1>5. ASSUME NEW f \in Files, Sweep(f) PROVE Kept'
  BY <1>5 DEF Sweep, PutBack
<1>6. CASE Swept
  BY <1>6 DEF Swept
<1>7. CASE Measure
  BY <1>7 DEF Measure
<1>8. CASE WriteLock
  BY <1>8 DEF WriteLock
<1>9. CASE WriteBackup
  BY <1>9 DEF WriteBackup, WriteFails
<1>10. CASE WriteMutant
  BY <1>10 DEF WriteMutant, WriteFails
<1>11. CASE Judge
  BY <1>11 DEF Judge
<1>12. CASE WriteBack
  BY <1>12 DEF WriteBack, WriteFails
<1>13. CASE Unlink
  BY <1>13 DEF Unlink
<1>14. CASE Unlock
  BY <1>14 DEF Unlock
<1>15. CASE Kill
  BY <1>15 DEF Kill
<1>16. CASE UNCHANGED vars
  BY <1>16 DEF vars
<1> QED
  BY <1>1, <1>2, <1>3, <1>4, <1>5, <1>6, <1>7, <1>8, <1>9, <1>10, <1>11, <1>12, <1>13, <1>14,
     <1>15, <1>16 DEF Next, Step

-----------------------------------------------------------------------------
(* The working tree, the locks and the command in progress are well formed. *)
THEOREM SwapTypeCorrect == Spec => []TypeOK
<1>1. SafeInv => TypeOK
  BY DEF SafeInv
<1> QED BY <1>1, SafeInit, SafeStep, PTL DEF Spec

(* Whatever was killed, torn or failed before, the tests of a mutant never   *)
(* run with a second one in the tree.                                       *)
THEOREM OneMutantJudged == Spec => []JudgesOneMutant
<1>1. SafeInv => JudgesOneMutant
  BY DEF SafeInv, OneMutant, NoMutantTaken, JudgesOneMutant, Undone, Swapping
<1> QED BY <1>1, SafeInit, SafeStep, PTL DEF Spec

(* Where only the write of a source can be cut short, no original is lost.  *)
THEOREM OriginalsKept == Spec => []OriginalKept
<1>1. KeptInv => OriginalKept
  BY DEF KeptInv, Kept, OriginalSafe, OriginalKept
<1> QED BY <1>1, KeptInit, KeptStep, PTL DEF Spec

(* Under the same faults, what a killed process leaves is named by a lock,  *)
(* and a command builds only on what the lock of another task names.        *)
THEOREM LeftoversNamed == Spec => []LeftoversAnnounced
<1>1. KeptInv => LeftoversAnnounced
  BY NoFileAssumption, NoTaskAssumption
     DEF KeptInv, Kept, LockedWhileAway, OwnLockFree, LeftoversAnnounced, SafeInv, TypeOK, RunsForATask
<1> QED BY <1>1, KeptInit, KeptStep, PTL DEF Spec

-----------------------------------------------------------------------------
(* A step of the command is a step of the tree it lends from, or none: from *)
(* the backups and locks of KeptInv, at most one file is ever away.         *)

(* The tree before and after a step, as one file of it is written.          *)
LEMMA Written ==
  ASSUME TypeOK, OnlySourceTears, UNCHANGED faults, NEW f \in Files, NEW c \in Contents,
         tree' = [tree EXCEPT ![f] = c]
  PROVE  Lendable = tree /\ Lendable' = tree' /\ Lendable' = [Lendable EXCEPT ![f] = c]
BY DEF TypeOK, Lendable, OnlySourceTears

(* Where all but the written file are original, they are so before and      *)
(* after: a mutant or a torn write is a loan, the original a return.        *)
LEMMA WriteLends ==
  ASSUME TypeOK, OnlySourceTears, UNCHANGED faults, NEW f \in Files, NEW c \in Contents,
         tree' = [tree EXCEPT ![f] = c],
         \A g \in Files \ {f} : tree[g] = "original",
         c # "mutant" \/ tree[f] = "original",
         c # "torn" \/ tree[f] # "torn"
  PROVE  OneAway' /\ [Lent!Next]_Lendable
<1> USE Written DEF TypeOK
<1>1. OneAway'
  BY DEF OneAway
<1>2. CASE c = "original"
  <2>1. Lendable' = Lent!Whole
    BY <1>2 DEF Lent!Whole
  <2> QED BY <1>1, <2>1 DEF Lent!Next, Lent!Return
<1>3. CASE c # "original" /\ tree[f] = "original"
  <2>1. Lendable = Lent!Whole
    BY <1>3 DEF Lent!Whole
  <2>2. Lent!Lend(f)
    BY <1>3, <2>1 DEF Lent!Lend, Contents
  <2> QED BY <1>1, <2>2 DEF Lent!Next
<1>4. CASE c # "original" /\ tree[f] # "original"
  <2>1. Lent!Tear(f)
    BY <1>4 DEF Lent!Tear, Contents
  <2> QED BY <1>1, <2>1 DEF Lent!Next
<1> QED BY <1>2, <1>3, <1>4

LEMMA StillLent ==
  ASSUME OneAway, UNCHANGED <<faults, tree>>
  PROVE  OneAway' /\ [Lent!Next]_Lendable
BY DEF OneAway, OnlySourceTears, Lendable

LEMMA LendInit == Init => OneAway /\ Lent!Init
BY DEF Init, OneAway, Lendable, Lent!Init, Lent!Whole

(* Putting back a backup brings home the one file that is away, or no file. *)
LEMMA PutBackReturns ==
  ASSUME KeptInv, OneAway, OnlySourceTears, UNCHANGED faults,
         NEW f \in Files, backup[f] # "none", PutBack(f)
  PROVE  OneAway' /\ [Lent!Next]_Lendable
<1> USE DEF KeptInv, SafeInv, Kept, BackupsIntact
<1>1. TypeOK /\ backup[f] = "original"
  OBVIOUS
<1>2. CASE tree[f] = "original"
  <2>1. tree' = tree
    BY <1>1, <1>2 DEF PutBack, TypeOK
  <2> QED BY <2>1, StillLent
<1>3. CASE tree[f] # "original"
  <2>1. \A g \in Files \ {f} : tree[g] = "original"
    BY <1>3 DEF OneAway
  <2>2. tree' = [tree EXCEPT ![f] = "original"]
    BY <1>1 DEF PutBack
  <2> QED BY <1>1, <2>1, <2>2, WriteLends DEF Contents
<1> QED BY <1>2, <1>3

LEMMA LendStep == KeptInv /\ OneAway /\ [Next]_vars => OneAway' /\ [Lent!Next]_Lendable
<1> SUFFICES ASSUME KeptInv, OneAway, [Next]_vars PROVE OneAway' /\ [Lent!Next]_Lendable
  OBVIOUS
<1>0. UNCHANGED faults
  BY DEF Next, vars
<1>f. CASE ~OnlySourceTears
  BY <1>0, <1>f DEF OneAway, Lendable, OnlySourceTears
<1> SUFFICES ASSUME OnlySourceTears PROVE OneAway' /\ [Lent!Next]_Lendable
  BY <1>f
<1>a. TypeOK /\ RunsForATask /\ SwapsAFile /\ AllBack /\ ReadsOriginal /\ BackupsIntact
  BY DEF KeptInv, SafeInv, Kept
<1>b. cur \in Files => tree[cur] \in Contents
  BY <1>a DEF TypeOK
<1>1. CASE Recover
  BY <1>0, <1>1, <1>a, PutBackReturns, StillLent DEF Recover, TypeOK, RunsForATask
<1>2. ASSUME NEW f \in Files, Sweep(f) PROVE OneAway' /\ [Lent!Next]_Lendable
  BY <1>0, <1>2, PutBackReturns DEF Sweep
<1>3. CASE WriteMutant
  <2>1. tree' = [tree EXCEPT ![cur] = "mutant"]
    BY <1>3 DEF WriteMutant, WriteFails, OnlySourceTears
  <2> QED BY <1>0, <1>3, <1>a, <2>1, WriteLends
            DEF WriteMutant, AllBack, Undone, SwapsAFile, Swapping, Contents
<1>4. CASE WriteBack
  <2>1. tree' = [tree EXCEPT ![cur] = "original"]
    BY <1>4, <1>a DEF WriteBack, WriteFails, OnlySourceTears, ReadsOriginal, Swapping
  <2> QED BY <1>0, <1>4, <1>a, <2>1, WriteLends
            DEF WriteBack, AllBack, SwapsAFile, Swapping, Contents
<1>5. CASE Kill
  <2>1. CASE UNCHANGED tree
    BY <1>0, <2>1, StillLent
  <2>2. CASE tree' # tree
    <3>1. cur \in Files /\ tree' = [tree EXCEPT ![cur] = "torn"]
      BY <1>5, <1>a, <2>2 DEF Kill, SwapsAFile, Swapping
    <3>2. \A g \in Files \ {cur} : tree[g] = "original"
      BY <1>5, <1>a, <2>2 DEF Kill, AllBack, Undone
    <3>3. tree[cur] # "torn"
      BY <1>a, <2>2, <3>1 DEF TypeOK
    <3> QED BY <1>0, <1>a, <3>1, <3>2, <3>3, WriteLends DEF Contents
  <2> QED BY <2>1, <2>2
<1>6. CASE \/ \E t \in Tasks : Start(t)
           \/ Recovered \/ Work \/ Swept \/ Measure \/ WriteLock
           \/ WriteBackup \/ Judge \/ Unlink \/ Unlock
  <2>1. UNCHANGED tree
    BY <1>6 DEF Start, Recovered, Work, Swept, Measure, WriteLock, WriteBackup, Judge, Unlink,
                Unlock
  <2> QED BY <1>0, <2>1, StillLent
<1>7. CASE UNCHANGED vars
  BY <1>7, StillLent DEF vars
<1> QED BY <1>1, <1>2, <1>3, <1>4, <1>5, <1>6, <1>7 DEF Next, Step

(* Where only the source can be torn, the runner implements the promise of  *)
(* its docstring: files are lent one at a time, and each comes back before  *)
(* the next is lent, however many commands are killed in between.           *)
THEOREM OneFileLent == Spec => OneFileAway
<1>1. KeptInv /\ OneAway /\ [Next]_vars => OneAway' /\ [Lent!Next]_Lendable
  BY LendStep
<1>2. KeptInv /\ [Next]_vars => KeptInv'
  BY KeptStep
<1> QED BY <1>1, <1>2, KeptInit, LendInit, PTL DEF Spec, OneFileAway, Lent!Spec
=============================================================================
