---------------------------- MODULE HostFilesProofs ----------------------------
(***************************************************************************)
(* The two scripts that rewrite files others use lose nothing they         *)
(* promise to keep.                                                        *)
(*                                                                         *)
(* env-set.sh loses no update, for any number of invocations, keys and     *)
(* values.  NoUpdateIsLost is not inductive: it says nothing of the copy a *)
(* process is about to rename.  Exclusion says that the process that holds *)
(* the lock is alone in that, and InProgress what it may rely on meanwhile. *)
(*                                                                         *)
(* rotate-logs.sh loses no line of the newest generation and starves no    *)
(* log, for any number of logs, limits and retentions.  Kept says at which *)
(* step the newest generation is where, and Pending why a log that was     *)
(* over the limit will still be rotated when the loop reaches it.          *)
(***************************************************************************)
EXTENDS EnvSet, RotateLogs, FiniteSetTheorems, TLAPS

-----------------------------------------------------------------------------
(* env-set.sh *)

\* A process that is under way has a key and a value, and a copy from the
\* rewrite to the rename.
Sound(P) ==
    /\ P \in Process
    /\ P.step \notin {"idle", "done", "failed"} => P.key \in Keys /\ P.value \in Values
    /\ P.tmp # None => P.step \in {"rename", "cleanup"}
    /\ P.step = "rename" => P.tmp \in Contents

AllSound == \A p \in Processes : Sound(process[p])

Holds(p) == process[p].step \in Holding

\* Two processes hold the lock only after one was robbed of it, and the lock
\* directory is there as long as somebody holds it.
Exclusion ==
    ~robbed => /\ \A p, q \in Processes : Holds(p) /\ Holds(q) => p = q
               /\ \A p \in Processes : Holds(p) => lock

\* What the holder has read is still what the file holds, and what it has
\* written is the file with its key set.
InProgress ==
    ~robbed =>
        \A p \in Processes :
            LET P == process[p]
            IN  /\ P.step \in {"rewrite", "rename"} => P.backup = env
                /\ P.step = "rename" => P.tmp = [env EXCEPT ![P.key] = P.value]

EnvInv == TypeOK /\ AllSound /\ Exclusion /\ InProgress /\ (~robbed => env = updates)

-----------------------------------------------------------------------------
(* Types *)

\* Setting a key of some contents gives contents.
LEMMA SettingAKey ==
  ASSUME NEW c \in Contents, NEW k \in Keys, NEW v \in Values
  PROVE  [c EXCEPT ![k] = v] \in Contents
BY DEF Contents

\* A step to which nothing is attached, and one that drops the copy.
LEMMA SoundStep ==
  ASSUME NEW P, Sound(P), NEW s \in Steps \ {"rename", "idle"},
         P.tmp = None \/ s = "cleanup",
         P.step \notin {"idle", "done", "failed"} \/ s \in {"done", "failed"}
  PROVE  Sound([P EXCEPT !.step = s])
<1>1. P \in Process
  BY DEF Sound
<1>2. [P EXCEPT !.step = s] \in Process
  BY <1>1 DEF Process
<1>3. /\ [P EXCEPT !.step = s].step = s
      /\ [P EXCEPT !.step = s].tmp = P.tmp
      /\ [P EXCEPT !.step = s].key = P.key
      /\ [P EXCEPT !.step = s].value = P.value
  BY <1>1 DEF Process
<1>4. QED
  BY <1>2, <1>3 DEF Sound

LEMMA SoundDrop ==
  ASSUME NEW P, Sound(P), NEW s \in Steps \ {"rename", "idle"},
         P.step \notin {"idle", "done", "failed"}
  PROVE  Sound([P EXCEPT !.step = s, !.tmp = None])
<1> DEFINE Q == [P EXCEPT !.step = s, !.tmp = None]
<1>1. P \in Process
  BY DEF Sound
<1>2. Q \in Process
  BY <1>1 DEF Process
<1>3. Q.step = s /\ Q.tmp = None /\ Q.key = P.key /\ Q.value = P.value
  BY <1>1 DEF Process
<1> HIDE DEF Q
<1>4. Sound(Q)
  BY <1>2, <1>3 DEF Sound
<1>5. QED
  BY <1>4 DEF Q

LEMMA SoundBackup ==
  ASSUME NEW P, Sound(P), P.step = "backup", NEW c \in Contents
  PROVE  Sound([P EXCEPT !.step = "rewrite", !.backup = c])
<1> DEFINE Q == [P EXCEPT !.step = "rewrite", !.backup = c]
<1>1. P \in Process
  BY DEF Sound
<1>2. Q \in Process
  BY <1>1 DEF Process, Steps
<1>3. Q.step = "rewrite" /\ Q.tmp = P.tmp /\ Q.key = P.key /\ Q.value = P.value
  BY <1>1 DEF Process
<1> HIDE DEF Q
<1>4. Sound(Q)
  BY <1>2, <1>3 DEF Sound
<1>5. QED
  BY <1>4 DEF Q

LEMMA SoundRewrite ==
  ASSUME NEW P, Sound(P), P.step = "rewrite", NEW c \in Contents
  PROVE  Sound([P EXCEPT !.step = "rename", !.tmp = c])
<1> DEFINE Q == [P EXCEPT !.step = "rename", !.tmp = c]
<1>1. P \in Process
  BY DEF Sound
<1>2. Q \in Process
  BY <1>1 DEF Process, Steps
<1>3. Q.step = "rename" /\ Q.tmp = c /\ Q.key = P.key /\ Q.value = P.value
  BY <1>1 DEF Process
<1> HIDE DEF Q
<1>4. Sound(Q)
  BY <1>2, <1>3 DEF Sound
<1>5. QED
  BY <1>4 DEF Q

LEMMA SoundRequest ==
  /\ Sound(NoRequest)
  /\ \A k \in Keys, v \in Values :
        Sound([NoRequest EXCEPT !.step = "lock", !.key = k, !.value = v])
<1>1. NoRequest \in Process
  BY DEF NoRequest, Process, Steps
<1>2. Sound(NoRequest)
  BY <1>1 DEF Sound, NoRequest
<1>3. ASSUME NEW k \in Keys, NEW v \in Values
      PROVE  Sound([NoRequest EXCEPT !.step = "lock", !.key = k, !.value = v])
  <2> DEFINE Q == [NoRequest EXCEPT !.step = "lock", !.key = k, !.value = v]
  <2>1. NoRequest.tmp = None
    BY DEF NoRequest
  <2>2. Q \in Process
    BY <1>1 DEF Process, Steps
  <2>3. Q.step = "lock" /\ Q.tmp = None /\ Q.key = k /\ Q.value = v
    BY <1>1, <2>1 DEF Process
  <2> HIDE DEF Q
  <2>4. Sound(Q)
    BY <2>2, <2>3 DEF Sound
  <2>5. QED
    BY <2>4 DEF Q
<1>4. QED
  BY <1>2, <1>3

\* One process changes and stays sound, and so do all.
LEMMA OneBecomes ==
  ASSUME TypeOK, AllSound, NEW p \in Processes, NEW P, Sound(P), Become(p, P),
         env' \in Contents, lock' \in BOOLEAN, updates' \in Contents,
         killed' \in BOOLEAN, robbed' \in BOOLEAN
  PROVE  /\ TypeOK' /\ AllSound'
         /\ process'[p] = P
         /\ \A q \in Processes \ {p} : process'[q] = process[q]
<1>1. P \in Process
  BY DEF Sound
<1>2. /\ process' \in [Processes -> Process]
      /\ process'[p] = P
      /\ \A q \in Processes \ {p} : process'[q] = process[q]
  BY <1>1 DEF TypeOK, Become
<1>3. AllSound'
  BY <1>2 DEF AllSound
<1>4. QED
  BY <1>2, <1>3 DEF TypeOK

\* The steps of process p, each with what it makes of it.
LEMMA StepTypes ==
  ASSUME TypeOK, AllSound, NEW p \in Processes,
         Begin(p) \/ Step(p) \/ Interrupted(p) \/ Killed(p)
  PROVE  /\ TypeOK' /\ AllSound'
         /\ \A q \in Processes \ {p} : process'[q] = process[q]
<1>0. Sound(process[p])
  BY DEF AllSound
<1> USE DEF TypeOK
<1>1. CASE Begin(p)
  <2>1. PICK k \in Keys, v \in Values :
          Become(p, [NoRequest EXCEPT !.step = "lock", !.key = k, !.value = v])
    BY <1>1 DEF Begin
  <2>2. Sound([NoRequest EXCEPT !.step = "lock", !.key = k, !.value = v])
    BY SoundRequest
  <2>3. QED
    BY <2>1, <2>2, OneBecomes, <1>1 DEF Begin
<1>2. CASE Lock(p)
  <2>1. /\ Sound([process[p] EXCEPT !.step = "trap"])
        /\ Sound([process[p] EXCEPT !.step = "failed"])
    BY <1>0, <1>2, SoundStep DEF Lock, At, Sound, Steps
  <2>2. QED
    BY <2>1, OneBecomes, <1>2 DEF Lock, Goto
<1>3. CASE SetTrap(p)
  <2>1. Sound([process[p] EXCEPT !.step = "backup"])
    BY <1>0, <1>3, SoundStep DEF SetTrap, At, Sound, Steps
  <2>2. QED
    BY <2>1, OneBecomes, <1>3 DEF SetTrap, Goto
<1>4. CASE Backup(p)
  <2>1. Sound([process[p] EXCEPT !.step = "rewrite", !.backup = env])
    BY <1>0, <1>4, SoundBackup DEF Backup, At
  <2>2. QED
    BY <2>1, OneBecomes, <1>4 DEF Backup
<1>5. CASE Rewrite(p)
  <2>1. process[p].key \in Keys /\ process[p].value \in Values
    BY <1>0, <1>5 DEF Rewrite, At, Sound
  <2>2. Sound([process[p] EXCEPT !.step = "rename",
                                 !.tmp = [env EXCEPT ![process[p].key] = process[p].value]])
    BY <1>0, <1>5, <2>1, SettingAKey, SoundRewrite DEF Rewrite, At
  <2>3. QED
    BY <2>2, OneBecomes, <1>5 DEF Rewrite
<1>6. CASE Rename(p)
  <2>1. /\ process[p].key \in Keys /\ process[p].value \in Values
        /\ process[p].tmp \in Contents
    BY <1>0, <1>6 DEF Rename, At, Sound
  <2>2. Sound([process[p] EXCEPT !.step = "unlock", !.tmp = None])
    BY <1>0, <1>6, SoundDrop DEF Rename, At, Steps
  <2>3. env' \in Contents /\ updates' \in Contents
    BY <2>1, <1>6, SettingAKey DEF Rename
  <2>4. QED
    BY <2>2, <2>3, OneBecomes, <1>6 DEF Rename
<1>7. CASE Unlock(p)
  <2>1. Sound([process[p] EXCEPT !.step = "untrap"])
    BY <1>0, <1>7, SoundStep DEF Unlock, At, Sound, Steps
  <2>2. QED
    BY <2>1, OneBecomes, <1>7 DEF Unlock, Goto
<1>8. CASE Untrap(p)
  <2>1. Sound([process[p] EXCEPT !.step = "done"])
    BY <1>0, <1>8, SoundStep DEF Untrap, At, Sound, Steps
  <2>2. QED
    BY <2>1, OneBecomes, <1>8 DEF Untrap, Goto
<1>9. CASE Cleanup(p)
  <2>1. Sound([process[p] EXCEPT !.step = "failed", !.tmp = None])
    BY <1>0, <1>9, SoundDrop DEF Cleanup, At, Steps
  <2>2. robbed' \in BOOLEAN
    BY <1>9 DEF Cleanup
  <2>3. QED
    BY <2>1, <2>2, OneBecomes, <1>9 DEF Cleanup
<1>10. CASE Exit(p)
  BY SoundRequest, OneBecomes, <1>10 DEF Exit
<1>11. CASE Interrupted(p)
  <2>1. Sound([process[p] EXCEPT !.step = "cleanup"])
    BY <1>0, <1>11, SoundStep DEF Interrupted, Trapped, Steps
  <2>2. QED
    BY <2>1, OneBecomes, <1>11 DEF Interrupted, Goto
<1>12. CASE Killed(p)
  <2>1. Sound([process[p] EXCEPT !.step = "failed", !.tmp = None])
    BY <1>0, <1>12, SoundDrop DEF Killed, Steps
  <2>2. killed' \in BOOLEAN
    BY <1>12 DEF Killed
  <2>3. QED
    BY <2>1, <2>2, OneBecomes, <1>12 DEF Killed
<1>13. QED
  BY <1>1, <1>2, <1>3, <1>4, <1>5, <1>6, <1>7, <1>8, <1>9, <1>10, <1>11, <1>12 DEF Step

\* The step each action leaves its process at.
LEMMA StepAfter ==
  ASSUME process \in [Processes -> Process], NEW p \in Processes
  PROVE  /\ Begin(p)       => process'[p].step = "lock"
         /\ Lock(p)        => process'[p].step = IF lock THEN "failed" ELSE "trap"
         /\ SetTrap(p)     => process'[p].step = "backup"
         /\ Backup(p)      => process'[p].step = "rewrite"
         /\ Rewrite(p)     => process'[p].step = "rename"
         /\ Rename(p)      => process'[p].step = "unlock"
         /\ Unlock(p)      => process'[p].step = "untrap"
         /\ Untrap(p)      => process'[p].step = "done"
         /\ Cleanup(p)     => process'[p].step = "failed"
         /\ Exit(p)        => process'[p].step = "idle"
         /\ Interrupted(p) => process'[p].step = "cleanup"
         /\ Killed(p)      => process'[p].step = "failed"
<1>1. process[p] \in Process
  OBVIOUS
<1>2. ASSUME NEW s, Goto(p, s)
      PROVE  process'[p].step = s
  BY <1>1, <1>2 DEF Goto, Become, Process
<1>3. Begin(p) => process'[p].step = "lock"
  BY DEF Begin, Become, NoRequest
<1>4. Exit(p) => process'[p].step = "idle"
  BY DEF Exit, Become, NoRequest
<1>5. /\ Backup(p)  => process'[p].step = "rewrite"
      /\ Rewrite(p) => process'[p].step = "rename"
      /\ Rename(p)  => process'[p].step = "unlock"
      /\ Cleanup(p) => process'[p].step = "failed"
      /\ Killed(p)  => process'[p].step = "failed"
  BY <1>1 DEF Backup, Rewrite, Rename, Cleanup, Killed, Become, Process
<1>6. /\ Lock(p)        => process'[p].step = IF lock THEN "failed" ELSE "trap"
      /\ SetTrap(p)     => process'[p].step = "backup"
      /\ Unlock(p)      => process'[p].step = "untrap"
      /\ Untrap(p)      => process'[p].step = "done"
      /\ Interrupted(p) => process'[p].step = "cleanup"
  BY <1>2 DEF Lock, SetTrap, Unlock, Untrap, Interrupted
<1>7. QED
  BY <1>3, <1>4, <1>5, <1>6

(* Whatever overlaps, fails or is killed, every variable keeps its type:   *)
(* the file holds a value or none for each key, and never part of a copy.  *)
THEOREM EnvTypes == Spec => [](TypeOK /\ AllSound)
<1>1. Init => TypeOK /\ AllSound
  <2> SUFFICES ASSUME Init PROVE TypeOK /\ AllSound
    OBVIOUS
  <2>1. NoRequest \in Process
    BY SoundRequest DEF Sound
  <2>2. QED
    BY <2>1, SoundRequest DEF Init, TypeOK, AllSound
<1>2. TypeOK /\ AllSound /\ [Next]_vars => TypeOK' /\ AllSound'
  <2> SUFFICES ASSUME TypeOK, AllSound, [Next]_vars PROVE TypeOK' /\ AllSound'
    OBVIOUS
  <2>1. CASE Tidy
    BY <2>1 DEF Tidy, TypeOK, AllSound
  <2>2. ASSUME NEW p \in Processes,
               Begin(p) \/ Step(p) \/ Interrupted(p) \/ Killed(p)
        PROVE  TypeOK' /\ AllSound'
    BY <2>2, StepTypes
  <2>3. CASE UNCHANGED vars
    BY <2>3 DEF vars, TypeOK, AllSound
  <2>4. QED
    BY <2>1, <2>2, <2>3 DEF Next
<1>3. QED
  BY <1>1, <1>2, PTL DEF Spec

-----------------------------------------------------------------------------
(* No update is lost *)

\* Nobody but the holder makes or removes a holder: one process enters the
\* critical section with the lock free, or leaves it.
LEMMA ExclusionStep ==
  ASSUME EnvInv, NEW p \in Processes,
         Begin(p) \/ Step(p) \/ Interrupted(p) \/ Killed(p)
  PROVE  Exclusion'
<1> SUFFICES ASSUME ~robbed'
             PROVE  /\ \A q, r \in Processes : Holds(q)' /\ Holds(r)' => q = r
                    /\ \A q \in Processes : Holds(q)' => lock'
  BY DEF Exclusion
<1>1. ~robbed
  BY DEF EnvInv, TypeOK, Begin, Step, Lock, SetTrap, Backup, Rewrite, Rename, Unlock,
         Untrap, Cleanup, Exit, Interrupted, Killed
<1>2. /\ \A q, r \in Processes : Holds(q) /\ Holds(r) => q = r
      /\ \A q \in Processes : Holds(q) => lock
  BY <1>1 DEF EnvInv, Exclusion
<1>3. \A q \in Processes \ {p} : Holds(q)' <=> Holds(q)
  BY StepTypes DEF EnvInv, Holds
<1>4. process \in [Processes -> Process]
  BY DEF EnvInv, TypeOK
<1>5. CASE Lock(p) /\ ~lock
  BY <1>2, <1>3, <1>5 DEF Lock
<1>6. CASE Unlock(p) \/ Cleanup(p)
  <2>1. ~Holds(p)'
    BY <1>4, <1>6 DEF Unlock, Cleanup, Goto, Become, Holds, Holding, Process
  <2>2. \A q \in Processes \ {p} : ~Holds(q)
    BY <1>1, <1>2, <1>6 DEF Unlock, Cleanup, Holds, Holding, At
  <2>3. QED
    BY <2>1, <2>2, <1>3
<1>7. CASE ~(Lock(p) /\ ~lock) /\ ~Unlock(p) /\ ~Cleanup(p)
  <2>1. Holds(p)' => Holds(p)
    BY <1>4, <1>7, StepAfter
       DEF Step, Lock, SetTrap, Backup, Rewrite, Rename, At, Holds, Holding
  <2>2. lock' = lock
    BY <1>7 DEF Begin, Step, Lock, SetTrap, Backup, Rewrite, Rename, Untrap, Exit,
                Interrupted, Killed
  <2>3. QED
    BY <2>1, <2>2, <1>2, <1>3
<1>8. QED
  BY <1>5, <1>6, <1>7

\* The file changes only under the one who holds the lock, and what that one
\* has read and written stays what it was.
LEMMA InProgressStep ==
  ASSUME EnvInv, NEW p \in Processes,
         Begin(p) \/ Step(p) \/ Interrupted(p) \/ Killed(p)
  PROVE  InProgress' /\ (~robbed' => env' = updates')
<1> SUFFICES ASSUME ~robbed'
             PROVE  /\ \A q \in Processes :
                          /\ process'[q].step \in {"rewrite", "rename"} => process'[q].backup = env'
                          /\ process'[q].step = "rename" =>
                                process'[q].tmp = [env' EXCEPT ![process'[q].key] = process'[q].value]
                    /\ env' = updates'
  BY DEF InProgress
<1>1. ~robbed
  BY DEF EnvInv, TypeOK, Begin, Step, Lock, SetTrap, Backup, Rewrite, Rename, Unlock,
         Untrap, Cleanup, Exit, Interrupted, Killed
<1>2. /\ env = updates
      /\ \A q \in Processes :
            /\ process[q].step \in {"rewrite", "rename"} => process[q].backup = env
            /\ process[q].step = "rename" =>
                  process[q].tmp = [env EXCEPT ![process[q].key] = process[q].value]
  BY <1>1 DEF EnvInv, InProgress
<1>3. \A q \in Processes \ {p} : process'[q] = process[q]
  BY StepTypes DEF EnvInv
<1>4. process \in [Processes -> Process] /\ process[p] \in Process
  BY DEF EnvInv, TypeOK
<1>5. CASE Rename(p)
  <2>1. \A q \in Processes \ {p} : process[q].step \notin {"rewrite", "rename"}
    BY <1>1, <1>5 DEF EnvInv, Exclusion, Holds, Holding, Rename, At
  <2>2. process'[p].step = "unlock"
    BY <1>4, <1>5 DEF Rename, Become, Process
  <2>3. env' = updates'
    BY <1>2, <1>5 DEF Rename, At
  <2>4. QED
    BY <2>1, <2>2, <2>3, <1>3
<1>6. CASE ~Rename(p)
  <2>1. env' = env /\ updates' = updates
    BY <1>6 DEF Begin, Step, Lock, SetTrap, Backup, Rewrite, Unlock, Untrap, Cleanup,
                Exit, Interrupted, Killed
  <2>2. ASSUME process'[p].step \in {"rewrite", "rename"}
        PROVE  Backup(p) \/ Rewrite(p)
    BY <1>4, <1>6, <2>2, StepAfter DEF Step, Lock
  <2>3. CASE Backup(p)
    <3>1. process'[p].step = "rewrite" /\ process'[p].backup = env
      BY <1>4, <2>3 DEF Backup, Become, Process
    <3>2. QED
      BY <3>1, <1>2, <1>3, <2>1
  <2>4. CASE Rewrite(p)
    <3>1. /\ process'[p].backup = process[p].backup
          /\ process'[p].key = process[p].key /\ process'[p].value = process[p].value
          /\ process'[p].tmp = [env EXCEPT ![process[p].key] = process[p].value]
      BY <1>4, <2>4 DEF Rewrite, Become, Process
    <3>2. process[p].backup = env
      BY <1>2, <2>4 DEF Rewrite, At
    <3>3. QED
      BY <3>1, <3>2, <1>2, <1>3, <2>1
  <2>5. QED
    BY <2>2, <2>3, <2>4, <1>2, <1>3, <2>1
<1>7. QED
  BY <1>5, <1>6

\* The inductive invariant.
LEMMA EnvInvariant == Spec => []EnvInv
<1>1. Init => EnvInv
  <2> SUFFICES ASSUME Init PROVE EnvInv
    OBVIOUS
  <2>1. NoRequest \in Process /\ NoRequest.step = "idle"
    BY SoundRequest DEF Sound, NoRequest
  <2>2. TypeOK /\ AllSound
    BY <2>1, SoundRequest DEF Init, TypeOK, AllSound
  <2>3. QED
    BY <2>1, <2>2 DEF Init, EnvInv, Exclusion, InProgress, Holds, Holding
<1>2. EnvInv /\ [Next]_vars => EnvInv'
  <2> SUFFICES ASSUME EnvInv, [Next]_vars PROVE EnvInv'
    OBVIOUS
  <2>1. CASE Tidy
    <3>1. TypeOK' /\ AllSound'
      BY <2>1 DEF Tidy, EnvInv, TypeOK, AllSound
    <3>2. \A p \in Processes : ~Holds(p)
      BY <2>1 DEF Tidy, At, Holds, Holding
    <3>3. QED
      BY <2>1, <3>1, <3>2 DEF Tidy, EnvInv, Exclusion, InProgress, Holds
  <2>2. ASSUME NEW p \in Processes,
               Begin(p) \/ Step(p) \/ Interrupted(p) \/ Killed(p)
        PROVE  EnvInv'
    BY <2>2, StepTypes, ExclusionStep, InProgressStep DEF EnvInv
  <2>3. CASE UNCHANGED vars
    BY <2>3 DEF vars, EnvInv, TypeOK, AllSound, Exclusion, InProgress, Holds
  <2>4. QED
    BY <2>1, <2>2, <2>3 DEF Next
<1>3. QED
  BY <1>1, <1>2, PTL DEF Spec

(* For any number of overlapping, failing, signalled and killed            *)
(* invocations, unless one was robbed of its lock: the file holds for each *)
(* key what was last set, and its backup is what a rename replaces.        *)
THEOREM UpdatesAreKept == Spec => []NoUpdateIsLost
<1>1. EnvInv => NoUpdateIsLost
  BY DEF EnvInv, InProgress, NoUpdateIsLost, At
<1>2. QED
  BY <1>1, EnvInvariant, PTL

\* The whole update of a process: its key set, every other key as it was.
SetsItsKey(p) ==
    /\ At(p, "rename")
    /\ env' = [env EXCEPT ![process[p].key] = process[p].value]
    /\ updates' = [updates EXCEPT ![process[p].key] = process[p].value]

(* Reading, backing up, rewriting and renaming is one step of the          *)
(* environment file: until a process has been robbed of its lock the file  *)
(* changes only by one process's key being set in what the file then       *)
(* holds, and nothing that fails, is signalled or killed changes it.       *)
THEOREM UpdatesAreAtomic ==
  Spec => [][~robbed => env' = env \/ \E p \in Processes : SetsItsKey(p)]_vars
<1>1. EnvInv /\ [Next]_vars
        => [~robbed => env' = env \/ \E p \in Processes : SetsItsKey(p)]_vars
  <2> SUFFICES ASSUME EnvInv, [Next]_vars, ~robbed
               PROVE  env' = env \/ \E p \in Processes : SetsItsKey(p)
    OBVIOUS
  <2>1. CASE Tidy \/ UNCHANGED vars
    BY <2>1 DEF Tidy, vars
  <2>2. ASSUME NEW p \in Processes, Rename(p)
        PROVE  SetsItsKey(p)
    BY <2>2 DEF Rename, SetsItsKey, EnvInv, InProgress, At
  <2>3. ASSUME NEW p \in Processes, Begin(p) \/ Step(p) \/ Interrupted(p) \/ Killed(p),
               ~Rename(p)
        PROVE  env' = env
    BY <2>3 DEF Begin, Step, Lock, SetTrap, Backup, Rewrite, Unlock, Untrap, Cleanup, Exit,
                Interrupted, Killed
  <2>4. QED
    BY <2>1, <2>2, <2>3 DEF Next, Step
<1>2. QED
  BY <1>1, EnvInvariant, PTL DEF Spec

-----------------------------------------------------------------------------
(* What is left behind *)

(* However invocations end, unless one was killed, each leaves neither the *)
(* lock nor a copy of the secrets.                                         *)
THEOREM NothingIsLeft == Spec => []NothingIsLeftBehind
<1> DEFINE Owned(p) == process[p].step \in Holding \cup {"cleanup"}
           Inv == ~killed => (lock => \E p \in Processes : Owned(p))
<1>1. Init => Inv
  BY DEF Init
<1>2. TypeOK /\ AllSound /\ Inv /\ [Next]_vars => Inv'
  <2> SUFFICES ASSUME TypeOK, AllSound, Inv, [Next]_vars, ~killed', lock'
               PROVE  \E q \in Processes : Owned(q)'
    OBVIOUS
  <2>1. CASE Tidy
    BY <2>1 DEF Tidy
  <2>2. ASSUME NEW p \in Processes,
               Begin(p) \/ Step(p) \/ Interrupted(p) \/ Killed(p)
        PROVE  \E q \in Processes : Owned(q)'
    <3>1. process \in [Processes -> Process]
      BY DEF TypeOK
    <3>2. \A q \in Processes \ {p} : process'[q] = process[q]
      BY <2>2, StepTypes
    <3>3. CASE Lock(p)
      <4>1. CASE lock
        <5>1. ~killed
          BY <3>3 DEF Lock
        <5>2. PICK q \in Processes : Owned(q)
          BY <4>1, <5>1
        <5>3. q # p
          BY <5>2, <3>3 DEF Lock, At, Holding
        <5>4. QED
          BY <5>2, <5>3, <3>2
      <4>2. CASE ~lock
        BY <4>2, <3>1, <3>3, StepAfter DEF Holding
      <4>3. QED
        BY <4>1, <4>2
    <3>4. CASE ~Lock(p)
      <4>1. lock /\ ~killed
        BY <2>2, <3>4 DEF Begin, Step, SetTrap, Backup, Rewrite, Rename, Unlock, Untrap,
                          Cleanup, Exit, Interrupted, Killed, TypeOK
      <4>2. PICK q \in Processes : Owned(q)
        BY <4>1
      <4>3. q = p => Owned(p)'
        BY <2>2, <3>1, <3>4, <4>2, StepAfter
           DEF Step, Begin, SetTrap, Backup, Rewrite, Rename, Unlock, Untrap, Cleanup,
               Exit, Interrupted, Killed, At, Holding
      <4>4. QED
        BY <4>2, <4>3, <3>2
    <3>5. QED
      BY <3>3, <3>4
  <2>3. CASE UNCHANGED vars
    BY <2>3 DEF vars
  <2>4. QED
    BY <2>1, <2>2, <2>3 DEF Next
<1>3. Inv /\ AllSound => NothingIsLeftBehind
  BY DEF AllSound, Sound, NothingIsLeftBehind
<1>4. QED
  BY <1>1, <1>2, <1>3, EnvTypes, PTL DEF Spec

-----------------------------------------------------------------------------
(* rotate-logs.sh *)

Working == {"shift", "copy", "copying", "gzip", "zipping", "truncate"}

WorkedOn(l) == rotation.step \in Working /\ rotation.log = l

\* The script works on a log it may write and will not visit again, and has a
\* copy number to work with unless it only truncates.
Placed ==
    /\ copy \in [Logs -> [1 .. keep -> Files]]
    /\ rotation.step \in Working =>
         rotation.log \in writable /\ rotation.log \notin rotation.todo
    /\ rotation.step \in Working \ {"truncate"} => keep > 0
    /\ rotation.step = "shift" => rotation.i > 0

\* From the copy on the newest generation is in the log; once compressed it is
\* in log.1.gz, and only then is the log truncated.
Kept ==
    \A l \in Logs :
       /\ newest[l] \subseteq log[l] \cup gz[l].lines
       /\ keep = 0 => newest[l] = {}
       /\ WorkedOn(l) /\ rotation.step \in {"gzip", "zipping"} =>
             newest[l] \subseteq log[l] /\ newest[l] = copy[l][1].lines
       /\ WorkedOn(l) /\ rotation.step = "truncate" => newest[l] \subseteq gz[l].lines

\* A log that was over the limit has been rotated, is being rotated, or is
\* still due when the loop reaches it.
Pending ==
    /\ rotation.step = "failed" => rotation.fault
    /\ rotation.step = "done" => rotation.todo = {}
    /\ ~rotation.fault =>
         \A l \in rotation.over \ rotation.rotated :
             WorkedOn(l) \/ (l \in rotation.todo /\ Due(l))

RotationInv == RotationTypeOK /\ Placed /\ Kept /\ Pending

Rotation == [step : RotationSteps, todo : SUBSET Logs, log : Logs \cup {NoLog}, i : 0 .. keep,
             over : SUBSET Logs, rotated : SUBSET Logs, fault : BOOLEAN]

-----------------------------------------------------------------------------
(* The record of the script *)

\* What the script's record is after it moves on, and after a command fails.
LEMMA GotoRotation ==
  ASSUME RotationTypeOK, NEW s \in RotationSteps, RotationGoto(s)
  PROVE  /\ rotation' \in Rotation
         /\ rotation'.step = s
         /\ rotation'.todo = rotation.todo /\ rotation'.log = rotation.log
         /\ rotation'.i = rotation.i /\ rotation'.over = rotation.over
         /\ rotation'.rotated = rotation.rotated /\ rotation'.fault = rotation.fault
<1>1. rotation \in Rotation
  BY DEF RotationTypeOK, Rotation
<1>2. QED
  BY <1>1 DEF RotationGoto, Rotation

LEMMA FailsRotation ==
  ASSUME RotationTypeOK, Fails
  PROVE  /\ rotation' \in Rotation
         /\ rotation'.step = "failed" /\ rotation'.fault = TRUE
         /\ rotation'.todo = rotation.todo /\ rotation'.log = rotation.log
         /\ rotation'.i = rotation.i /\ rotation'.over = rotation.over
         /\ rotation'.rotated = rotation.rotated
<1>1. rotation \in Rotation
  BY DEF RotationTypeOK, Rotation
<1>2. QED
  BY <1>1 DEF Fails, Rotation, RotationSteps

LEMMA IdleRotation ==
  /\ Idle.step = "idle" /\ Idle.todo = {}
  /\ Idle.over = {} /\ Idle.rotated = {}
  /\ keep \in Nat => Idle \in Rotation
<1>1. /\ Idle.step = "idle" /\ Idle.todo = {}
      /\ Idle.over = {} /\ Idle.rotated = {}
  BY DEF Idle
<1>2. keep \in Nat => 0 \in 0 .. keep
  OBVIOUS
<1>3. QED
  BY <1>1, <1>2 DEF Idle, Rotation, RotationSteps

\* The record when the loop takes up log l.
LEMMA NextLogRotation ==
  ASSUME RotationTypeOK, NEW l \in rotation.todo, NEW s \in RotationSteps,
         rotation' = [rotation EXCEPT !.todo = @ \ {l}, !.log = l, !.i = keep, !.step = s]
  PROVE  /\ rotation' \in Rotation
         /\ rotation'.step = s
         /\ rotation'.todo = rotation.todo \ {l} /\ rotation'.log = l
         /\ rotation'.i = keep /\ rotation'.over = rotation.over
         /\ rotation'.rotated = rotation.rotated /\ rotation'.fault = rotation.fault
<1>1. rotation \in Rotation /\ keep \in 0 .. keep
  BY KeepsAssumption DEF RotationTypeOK, Rotation
<1>2. l \in Logs
  BY <1>1 DEF Rotation
<1> DEFINE t == rotation.todo \ {l}
<1>3. t \in SUBSET Logs
  BY <1>1 DEF Rotation
<1> HIDE DEF t
<1>4. rotation' = [rotation EXCEPT !.todo = t, !.log = l, !.i = keep, !.step = s]
  BY <1>1 DEF t, Rotation
<1>5. QED
  BY <1>1, <1>2, <1>3, <1>4 DEF Rotation, t

\* A log only grows, so it stays over the limit.
LEMMA LargerIsOversized ==
  ASSUME NEW S \in SUBSET Lines, NEW T \in SUBSET S,
         Cardinality(T) >= MaxBytes
  PROVE  Cardinality(S) >= MaxBytes
<1>1. IsFiniteSet(Lines)
  BY FS_Interval, BoundsAssumption DEF Lines
<1>2. IsFiniteSet(S)
  BY <1>1, FS_Subset
<1>3. IsFiniteSet(T) /\ Cardinality(T) <= Cardinality(S)
  BY <1>2, FS_Subset
<1>4. Cardinality(T) \in Nat /\ Cardinality(S) \in Nat
  BY <1>2, <1>3, FS_CardinalityType
<1>5. QED
  BY <1>3, <1>4, BoundsAssumption

\* The copies of a log after log.i became log.i+1.
LEMMA AgedIsCopies ==
  ASSUME NEW copies \in [1 .. keep -> Files], NEW i \in 1 .. keep
  PROVE  Aged(copies, i) \in [1 .. keep -> Files]
<1>1. NoFile \in Files
  BY DEF NoFile, Files
<1>2. QED
  BY <1>1 DEF Aged

-----------------------------------------------------------------------------
(* The loop over the logs *)

\* The script's own moves between logs, and its end.
LEMMA BeginStep ==
  ASSUME RotationInv, BeginRotation, UNCHANGED <<keep, writable>>
  PROVE  RotationInv'
<1> DEFINE O == {l \in writable : Oversized(l)}
<1>1. /\ UNCHANGED <<log, copy, gz, appended, newest>>
      /\ keep \in Nat
  BY KeepsAssumption DEF RotationInv, RotationTypeOK, BeginRotation, files
<1>2. O \in SUBSET Logs
  BY DEF RotationInv, RotationTypeOK
<1> HIDE DEF O
<1>3. rotation' = [Idle EXCEPT !.step = "next", !.todo = Logs, !.over = O]
  BY DEF BeginRotation, O
<1>4. /\ rotation' \in Rotation
      /\ rotation'.step = "next" /\ rotation'.todo = Logs /\ rotation'.over = O
      /\ rotation'.rotated = {}
  BY <1>1, <1>2, <1>3, IdleRotation DEF Rotation, RotationSteps, Idle
<1>5. RotationTypeOK'
  BY <1>1, <1>4 DEF RotationInv, RotationTypeOK, Rotation
<1>6. Placed' /\ Kept'
  BY <1>1, <1>4 DEF RotationInv, Placed, Kept, WorkedOn, Working
<1>7. \A l \in O : l \in Logs /\ Due(l)'
  BY <1>1, <1>2 DEF O, Due, Oversized
<1>8. Pending'
  BY <1>4, <1>7 DEF Pending
<1>9. QED
  BY <1>5, <1>6, <1>8 DEF RotationInv

LEMMA EndsStep ==
  ASSUME RotationInv, Ends, UNCHANGED <<keep, writable>>
  PROVE  RotationInv'
<1>1. /\ UNCHANGED <<log, copy, gz, appended, newest>>
      /\ keep \in Nat
      /\ rotation' = Idle
  BY KeepsAssumption DEF RotationInv, RotationTypeOK, Ends, files
<1>2. rotation' \in Rotation /\ rotation'.step = "idle" /\ rotation'.over = {}
  BY <1>1, IdleRotation
<1>3. RotationTypeOK'
  BY <1>1, <1>2 DEF RotationInv, RotationTypeOK, Rotation
<1>4. Placed' /\ Kept' /\ Pending'
  BY <1>1, <1>2 DEF RotationInv, Placed, Kept, Pending, WorkedOn, Working
<1>5. QED
  BY <1>3, <1>4 DEF RotationInv

LEMMA NextLogStep ==
  ASSUME RotationInv, NextLog, UNCHANGED <<keep, writable>>
  PROVE  RotationInv'
<1>1. /\ UNCHANGED <<log, copy, gz, appended, newest>>
      /\ keep \in Nat
      /\ rotation.step = "next"
  BY KeepsAssumption DEF RotationInv, RotationTypeOK, NextLog, files, RotationAt
<1>2. \A l \in Logs : Due(l)' <=> Due(l)
  BY <1>1 DEF Due, Oversized
<1>3. rotation.over \subseteq Logs /\ rotation.todo \subseteq Logs
  BY DEF RotationInv, RotationTypeOK
<1>4. ~rotation.fault =>
        \A l \in rotation.over \ rotation.rotated : l \in rotation.todo /\ Due(l)
  BY <1>1 DEF RotationInv, Pending, WorkedOn, Working
<1>5. CASE rotation.todo = {} /\ RotationGoto("done")
  <2>1. /\ rotation' \in Rotation
        /\ rotation'.step = "done"
        /\ rotation'.todo = {}
        /\ rotation'.over = rotation.over
        /\ rotation'.rotated = rotation.rotated
        /\ rotation'.fault = rotation.fault
    BY <1>5, GotoRotation DEF RotationInv, RotationSteps
  <2>2. RotationTypeOK'
    BY <1>1, <2>1 DEF RotationInv, RotationTypeOK, Rotation
  <2>3. Placed' /\ Kept'
    BY <1>1, <2>1 DEF RotationInv, Placed, Kept, WorkedOn, Working
  <2>4. Pending'
    BY <1>4, <1>5, <2>1 DEF Pending
  <2>5. QED
    BY <2>2, <2>3, <2>4 DEF RotationInv
<1>6. ASSUME NEW l \in rotation.todo, NEW s,
             s = IF ~Due(l) THEN "next" ELSE IF keep > 0 THEN "shift" ELSE "truncate",
             rotation' = [rotation EXCEPT !.todo = @ \ {l}, !.log = l, !.i = keep, !.step = s]
      PROVE  RotationInv'
  <2>1. /\ s \in RotationSteps /\ s \in {"next", "shift", "truncate"}
        /\ s # "next" => Due(l)
    BY <1>6 DEF RotationSteps
  <2>2. /\ s = "shift" => keep > 0
        /\ s = "truncate" => keep = 0
        /\ s = "next" => ~Due(l)
    BY <1>1, <1>6
  <2>3. /\ rotation' \in Rotation
        /\ rotation'.step = s
        /\ rotation'.todo = rotation.todo \ {l} /\ rotation'.log = l
        /\ rotation'.i = keep /\ rotation'.over = rotation.over
        /\ rotation'.rotated = rotation.rotated /\ rotation'.fault = rotation.fault
    BY <1>6, <2>1, NextLogRotation DEF RotationInv
  <2>4. RotationTypeOK'
    BY <1>1, <2>3 DEF RotationInv, RotationTypeOK, Rotation
  <2>5. Placed'
    <3>1. copy' \in [Logs -> [1 .. keep' -> Files]]
      BY <1>1 DEF RotationInv, Placed
    <3>2. s \in Working => l \in writable
      BY <2>1 DEF Due, Working
    <3>3. QED
      BY <1>1, <2>1, <2>2, <2>3, <3>1, <3>2 DEF Placed, Working
  <2>6. Kept'
    BY <1>1, <2>1, <2>2, <2>3 DEF RotationInv, Kept, WorkedOn
  <2>7. Pending'
    <3>1. ASSUME NEW k \in rotation.over \ rotation.rotated, ~rotation.fault
          PROVE  WorkedOn(k)' \/ (k \in rotation'.todo /\ Due(k)')
      BY <1>2, <1>3, <1>4, <2>1, <2>2, <2>3, <3>1 DEF WorkedOn, Working
    <3>2. QED
      BY <2>1, <2>3, <3>1 DEF Pending
  <2>8. QED
    BY <2>4, <2>5, <2>6, <2>7 DEF RotationInv
<1>7. QED
  BY <1>5, <1>6 DEF NextLog

-----------------------------------------------------------------------------
(* Appends, and the commands of rotate_one *)

\* A service appends a line.
LEMMA AppendStep ==
  ASSUME RotationInv, NEW l \in Logs, Append(l),
         UNCHANGED <<keep, writable>>
  PROVE  RotationInv'
<1>1. UNCHANGED <<copy, gz, newest, rotation, keep, writable>>
  BY DEF Append
<1>2. /\ log \in [Logs -> SUBSET Lines] /\ appended \in [Logs -> 0 .. MaxLines]
      /\ rotation \in Rotation
  BY DEF RotationInv, RotationTypeOK, Rotation
<1>3. appended[l] + 1 \in Lines /\ appended[l] + 1 \in 0 .. MaxLines
  BY <1>2, BoundsAssumption DEF Append, Lines
<1>4. log' \in [Logs -> SUBSET Lines] /\ appended' \in [Logs -> 0 .. MaxLines]
  BY <1>2, <1>3 DEF Append
<1>5. \A k \in Logs : log[k] \in SUBSET log'[k]
  BY <1>2 DEF Append
<1>6. RotationTypeOK'
  BY <1>1, <1>4 DEF RotationInv, RotationTypeOK
<1>7. Placed' /\ Kept'
  BY <1>1, <1>5 DEF RotationInv, Placed, Kept, WorkedOn
<1>8. \A k \in Logs : Due(k) => Due(k)'
  BY <1>1, <1>4, <1>5, LargerIsOversized DEF Due, Oversized
<1>9. Pending'
  BY <1>1, <1>2, <1>8 DEF RotationInv, Pending, WorkedOn, Rotation
<1>10. QED
  BY <1>6, <1>7, <1>9 DEF RotationInv

\* A command that fails leaves the logs and, of each, what was kept: nothing is
\* being worked on any more.
LEMMA FailedStep ==
  ASSUME RotationInv, Fails, UNCHANGED <<keep, writable, log, appended, newest>>,
         copy' \in [Logs -> [1 .. keep -> Files]], gz' \in [Logs -> Files],
         \A l \in Logs : newest[l] \subseteq log[l] \cup gz'[l].lines
  PROVE  RotationInv'
<1>1. /\ rotation' \in Rotation
      /\ rotation'.step = "failed" /\ rotation'.fault = TRUE
  BY FailsRotation DEF RotationInv
<1>2. RotationTypeOK'
  BY <1>1 DEF RotationInv, RotationTypeOK, Rotation
<1>3. Placed' /\ Kept' /\ Pending'
  BY <1>1 DEF RotationInv, Placed, Kept, Pending, WorkedOn, Working
<1>4. QED
  BY <1>2, <1>3 DEF RotationInv

\* A command that moves on with the same log.
LEMMA WorkingStep ==
  ASSUME RotationInv, NEW l \in Logs, WorkedOn(l), NEW s \in Working,
         rotation' \in Rotation, rotation'.step = s, rotation'.todo = rotation.todo,
         rotation'.log = l, rotation'.over = rotation.over,
         rotation'.rotated = rotation.rotated, rotation'.fault = rotation.fault,
         s = "shift" => rotation'.i > 0, s # "truncate" => keep > 0,
         UNCHANGED <<keep, writable, log, appended>>,
         copy' \in [Logs -> [1 .. keep -> Files]], gz' \in [Logs -> Files],
         newest' \in [Logs -> SUBSET Lines],
         \A k \in Logs : newest'[k] \subseteq log[k] \cup gz'[k].lines,
         keep = 0 => newest' = newest,
         s \in {"gzip", "zipping"} =>
            newest'[l] \subseteq log[l] /\ newest'[l] = copy'[l][1].lines,
         s = "truncate" => newest'[l] \subseteq gz'[l].lines
  PROVE  RotationInv'
<1>1. RotationTypeOK'
  BY DEF RotationInv, RotationTypeOK, Rotation
<1>2. Placed'
  BY DEF RotationInv, Placed, WorkedOn
<1>3. Kept'
  BY DEF RotationInv, Kept, WorkedOn
<1>4. \A k \in Logs : (WorkedOn(k)' <=> WorkedOn(k)) /\ (Due(k)' <=> Due(k))
  BY DEF WorkedOn, Due, Oversized
<1>5. rotation.over \subseteq Logs
  BY DEF RotationInv, RotationTypeOK
<1>6. Pending'
  BY <1>4, <1>5 DEF RotationInv, Pending, Working
<1>7. QED
  BY <1>1, <1>2, <1>3, <1>6 DEF RotationInv

\* Writing copy number i of a log leaves the other logs' copies.
LEMMA CopyWritten ==
  ASSUME Placed, NEW l \in Logs, NEW i \in 1 .. keep, NEW f \in Files,
         copy' = [copy EXCEPT ![l][i] = f]
  PROVE  copy' \in [Logs -> [1 .. keep -> Files]] /\ copy'[l][i] = f
<1>1. copy[l] \in [1 .. keep -> Files]
  BY DEF Placed
<1>2. [copy[l] EXCEPT ![i] = f] \in [1 .. keep -> Files]
  BY <1>1
<1>3. QED
  BY <1>1, <1>2 DEF Placed

\* The commands of rotate_one on the log at hand.
LEMMA RotateOneStep ==
  ASSUME RotationInv, NEW l \in Logs, rotation.log = l,
         RotateOne(l), UNCHANGED <<keep, writable>>
  PROVE  RotationInv'
<1>1. /\ rotation \in Rotation /\ keep \in Nat
      /\ log \in [Logs -> SUBSET Lines] /\ newest \in [Logs -> SUBSET Lines]
      /\ gz \in [Logs -> Files] /\ copy \in [Logs -> [1 .. keep -> Files]]
      /\ copy[l] \in [1 .. keep -> Files]
  BY KeepsAssumption DEF RotationInv, RotationTypeOK, Rotation, Placed
<1>2. /\ NoFile \in Files /\ NoFile.lines = {}
      /\ Partial \in Files /\ Partial.lines = {}
  BY DEF NoFile, Partial, Files
<1>3. \A S \in SUBSET Lines :
         Whole(S) \in Files /\ Whole(S).lines = S
  BY DEF Whole, Files
<1>4. /\ \A k \in Logs : newest[k] \subseteq log[k] \cup gz[k].lines
      /\ \A k \in Logs : keep = 0 => newest[k] = {}
  BY DEF RotationInv, Kept
<1>5. CASE Shift(l)
  <2>1. /\ rotation.step = "shift" /\ keep > 0 /\ rotation.i \in 1 .. keep
        /\ UNCHANGED <<log, gz, appended, newest>>
    BY <1>1, <1>5 DEF Shift, RotationAt, RotationInv, Placed, Working, Rotation
  <2>2. CASE Fails /\ UNCHANGED copy
    BY <1>1, <1>4, <2>1, <2>2, FailedStep
  <2>3. ASSUME copy' = IF copy[l][rotation.i] = NoFile
                       THEN copy ELSE [copy EXCEPT ![l] = Aged(@, rotation.i)],
               rotation' = [rotation EXCEPT
                   !.i = rotation.i - 1, !.step = IF rotation.i = 1 THEN "copy" ELSE "shift"]
        PROVE  RotationInv'
    <3> DEFINE s == IF rotation.i = 1 THEN "copy" ELSE "shift"
    <3>1. /\ s = "shift" => rotation.i # 1
          /\ rotation' = [rotation EXCEPT !.i = rotation.i - 1, !.step = s]
      BY <2>3
    <3>2. rotation.i - 1 \in 0 .. keep /\ s \in {"copy", "shift"}
      BY <1>1, <2>1
    <3> HIDE DEF s
    <3>3. /\ rotation' \in Rotation
          /\ rotation'.step = s /\ rotation'.i = rotation.i - 1
          /\ rotation'.todo = rotation.todo /\ rotation'.log = l
          /\ rotation'.over = rotation.over
          /\ rotation'.rotated = rotation.rotated /\ rotation'.fault = rotation.fault
      BY <1>1, <3>1, <3>2 DEF Rotation, RotationSteps
    <3>4. Aged(copy[l], rotation.i) \in [1 .. keep -> Files]
      BY <1>1, <2>1, AgedIsCopies
    <3>5. copy' \in [Logs -> [1 .. keep -> Files]]
      BY <1>1, <2>3, <3>4
    <3>6. WorkedOn(l)
      BY <2>1 DEF WorkedOn, Working
    <3>7. /\ s = "shift" => rotation'.i > 0
          /\ s \in Working /\ s \notin {"gzip", "zipping", "truncate"}
      BY <1>1, <2>1, <3>1, <3>2, <3>3 DEF Working
    <3>8. QED
      BY <1>1, <1>4, <2>1, <3>3, <3>5, <3>6, <3>7, WorkingStep
  <2>4. QED
    BY <1>5, <2>2, <2>3 DEF Shift
<1>6. CASE Copy(l)
  <2>1. /\ rotation.step = "copy" /\ keep > 0 /\ 1 \in 1 .. keep
        /\ UNCHANGED <<log, gz, appended, newest>>
        /\ RotationGoto("copying") /\ copy' = [copy EXCEPT ![l][1] = Partial]
    BY <1>1, <1>6 DEF Copy, RotationAt, RotationInv, Placed, Working
  <2>2. copy' \in [Logs -> [1 .. keep -> Files]]
    BY <1>2, <2>1, CopyWritten DEF RotationInv
  <2>3. WorkedOn(l) /\ "copying" \in Working /\ "copying" \in RotationSteps
    BY <2>1 DEF WorkedOn, Working, RotationSteps
  <2>4. QED
    BY <1>1, <1>4, <2>1, <2>2, <2>3, GotoRotation, WorkingStep DEF RotationInv
<1>7. CASE Copied(l)
  <2>1. /\ rotation.step = "copying" /\ keep > 0 /\ 1 \in 1 .. keep
        /\ UNCHANGED <<log, gz, appended>>
    BY <1>1, <1>7 DEF Copied, RotationAt, RotationInv, Placed, Working
  <2>2. CASE Fails /\ UNCHANGED <<copy, newest>>
    BY <1>1, <1>4, <2>1, <2>2, FailedStep
  <2>3. CASE /\ copy' = [copy EXCEPT ![l][1] = Whole(log[l])]
             /\ newest' = [newest EXCEPT ![l] = log[l]]
             /\ RotationGoto("gzip")
    <3>1. copy' \in [Logs -> [1 .. keep -> Files]] /\ copy'[l][1].lines = log[l]
      BY <1>1, <1>3, <2>1, <2>3, CopyWritten DEF RotationInv
    <3>2. /\ newest' \in [Logs -> SUBSET Lines] /\ newest'[l] = log[l]
          /\ \A k \in Logs : newest'[k] \subseteq log[k] \cup gz[k].lines
      BY <1>1, <1>4, <2>3
    <3>3. WorkedOn(l) /\ "gzip" \in Working /\ "gzip" \in RotationSteps
      BY <2>1 DEF WorkedOn, Working, RotationSteps
    <3>4. QED
      BY <1>1, <2>1, <2>3, <3>1, <3>2, <3>3, GotoRotation, WorkingStep DEF RotationInv
  <2>4. QED
    BY <1>7, <2>2, <2>3 DEF Copied
<1>8. CASE Gzip(l)
  <2>1. /\ rotation.step = "gzip" /\ keep > 0
        /\ UNCHANGED <<log, copy, appended, newest>>
        /\ RotationGoto("zipping") /\ gz' = [gz EXCEPT ![l] = Partial]
    BY <1>8 DEF Gzip, RotationAt, RotationInv, Placed, Working
  <2>2. WorkedOn(l) /\ "zipping" \in Working /\ "zipping" \in RotationSteps
    BY <2>1 DEF WorkedOn, Working, RotationSteps
  <2>3. newest[l] \subseteq log[l] /\ newest[l] = copy[l][1].lines
    BY <2>1, <2>2 DEF RotationInv, Kept
  <2>4. /\ gz' \in [Logs -> Files]
        /\ \A k \in Logs : newest[k] \subseteq log[k] \cup gz'[k].lines
    BY <1>1, <1>2, <1>4, <2>1, <2>3
  <2>5. QED
    BY <1>1, <2>1, <2>2, <2>3, <2>4, GotoRotation, WorkingStep DEF RotationInv
<1>9. CASE Zipped(l)
  <2>1. /\ rotation.step = "zipping" /\ keep > 0 /\ 1 \in 1 .. keep
        /\ UNCHANGED <<log, appended, newest>>
    BY <1>1, <1>9 DEF Zipped, RotationAt, RotationInv, Placed, Working
  <2>2. WorkedOn(l) /\ "truncate" \in Working /\ "truncate" \in RotationSteps
    BY <2>1 DEF WorkedOn, Working, RotationSteps
  <2>3. newest[l] \subseteq log[l] /\ newest[l] = copy[l][1].lines
    BY <2>1, <2>2 DEF RotationInv, Kept
  <2>4. CASE gz' = [gz EXCEPT ![l] = NoFile] /\ Fails /\ UNCHANGED copy
    <3>1. /\ gz' \in [Logs -> Files]
          /\ \A k \in Logs : newest[k] \subseteq log[k] \cup gz'[k].lines
      BY <1>1, <1>2, <1>4, <2>3, <2>4
    <3>2. QED
      BY <1>1, <2>1, <2>4, <3>1, FailedStep
  <2>5. CASE /\ gz' = [gz EXCEPT ![l] = copy[l][1]]
             /\ copy' = [copy EXCEPT ![l][1] = NoFile]
             /\ RotationGoto("truncate")
    <3>1. copy[l][1] \in Files
      BY <1>1, <2>1
    <3>2. /\ gz' \in [Logs -> Files] /\ gz'[l] = copy[l][1]
          /\ \A k \in Logs : newest[k] \subseteq log[k] \cup gz'[k].lines
      BY <1>1, <1>4, <2>3, <2>5, <3>1
    <3>3. copy' \in [Logs -> [1 .. keep -> Files]]
      BY <1>2, <2>1, <2>5, CopyWritten DEF RotationInv
    <3>4. QED
      BY <1>1, <2>1, <2>2, <2>3, <2>5, <3>2, <3>3, GotoRotation, WorkingStep DEF RotationInv
  <2>6. QED
    BY <1>9, <2>4, <2>5 DEF Zipped
<1>10. CASE Truncate(l)
  <2>1. /\ rotation.step = "truncate" /\ l \in writable
        /\ UNCHANGED <<copy, gz, appended, newest>>
        /\ log' = [log EXCEPT ![l] = {}]
        /\ rotation' = [rotation EXCEPT !.step = "next", !.rotated = @ \cup {l}]
    BY <1>10 DEF Truncate, RotationAt, RotationInv, Placed, Working
  <2>2. WorkedOn(l)
    BY <2>1 DEF WorkedOn, Working
  <2>3. /\ rotation' \in Rotation
        /\ rotation'.step = "next"
        /\ rotation'.todo = rotation.todo /\ rotation'.log = l
        /\ rotation'.over = rotation.over
        /\ rotation'.rotated = rotation.rotated \cup {l}
        /\ rotation'.fault = rotation.fault
    BY <1>1, <2>1 DEF Rotation, RotationSteps
  <2>4. /\ log' \in [Logs -> SUBSET Lines] /\ log'[l] = {}
        /\ \A k \in Logs \ {l} : log'[k] = log[k]
    BY <1>1, <2>1
  <2>5. RotationTypeOK'
    BY <2>1, <2>3, <2>4 DEF RotationInv, RotationTypeOK, Rotation
  <2>6. Placed'
    BY <1>1, <2>1, <2>3 DEF Placed, Working
  <2>7. Kept'
    <3>1. newest[l] \subseteq gz[l].lines
      BY <2>1, <2>2 DEF RotationInv, Kept
    <3>2. \A k \in Logs : newest[k] \subseteq log'[k] \cup gz[k].lines
      BY <1>4, <2>4, <3>1
    <3>3. QED
      BY <1>4, <2>1, <2>3, <3>2 DEF Kept, WorkedOn, Working
  <2>8. Pending'
    <3>1. l \notin rotation.todo /\ rotation.todo \subseteq Logs
      BY <1>1, <2>1 DEF RotationInv, Placed, Working, Rotation
    <3>2. \A k \in rotation.todo : Due(k) => Due(k)'
      <4>1. \A k \in rotation.todo : log'[k] = log[k]
        BY <2>4, <3>1
      <4>2. QED
        BY <4>1 DEF Due, Oversized
    <3>3. ~rotation.fault =>
             \A k \in rotation.over \ rotation.rotated :
                k = l \/ (k \in rotation.todo /\ Due(k))
      BY DEF RotationInv, Pending, WorkedOn
    <3>4. QED
      BY <2>3, <3>2, <3>3 DEF Pending
  <2>9. QED
    BY <2>5, <2>6, <2>7, <2>8 DEF RotationInv
<1>11. QED
  BY <1>5, <1>6, <1>7, <1>8, <1>9, <1>10 DEF RotateOne

\* Whatever fails or is killed and whatever is appended meanwhile, the parts of
\* the invariant hold together.
THEOREM RotationInductive == RotationSpec => []RotationInv
<1>1. RotationInit => RotationInv
  <2> SUFFICES ASSUME RotationInit PROVE RotationInv
    OBVIOUS
  <2>1. keep \in Nat /\ NoFile \in Files
    BY KeepsAssumption DEF RotationInit, NoFile, Files
  <2>2. rotation \in Rotation /\ rotation.step = "idle" /\ rotation.over = {}
    BY <2>1, IdleRotation DEF RotationInit
  <2>3. copy \in [Logs -> [1 .. keep -> Files]]
    BY <2>1 DEF RotationInit
  <2>4. 0 \in 0 .. MaxLines
    BY BoundsAssumption
  <2>5. RotationTypeOK
    BY <2>1, <2>2, <2>3, <2>4 DEF RotationInit, RotationTypeOK, Rotation
  <2>6. Placed /\ Kept /\ Pending
    BY <2>2, <2>3 DEF RotationInit, Placed, Kept, Pending, Working, WorkedOn
  <2>7. QED
    BY <2>5, <2>6 DEF RotationInv
<1>2. RotationInv /\ [RotationNext]_rotationVars => RotationInv'
  <2> SUFFICES ASSUME RotationInv, [RotationNext]_rotationVars PROVE RotationInv'
    OBVIOUS
  <2>1. CASE UNCHANGED rotationVars
    BY <2>1 DEF rotationVars, files, RotationInv, RotationTypeOK, Placed, Kept, Pending,
                WorkedOn, Due, Oversized
  <2>2. CASE RotationNext
    BY <2>2, BeginStep, NextLogStep, EndsStep, AppendStep, RotateOneStep DEF RotationNext
  <2>3. QED
    BY <2>1, <2>2
<1>3. QED
  BY <1>1, <1>2, PTL DEF RotationSpec

(* However often the rotation fails or is killed, every variable keeps its *)
(* type: no log gets more than `keep' uncompressed copies.                 *)
THEOREM RotationTypes == RotationSpec => []RotationTypeOK
<1>1. RotationInv => RotationTypeOK
  BY DEF RotationInv
<1>2. QED
  BY <1>1, RotationInductive, PTL

(* For any number of logs, any limit and any retention: no failed command, *)
(* kill or concurrent append makes rotate_one lose a line of what it last  *)
(* copied; that is in the log or in a whole log.1.gz.                      *)
THEOREM NewestIsKept == RotationSpec => []NewestGenerationIsKept
<1>1. RotationInv => NewestGenerationIsKept
  BY DEF RotationInv, Kept, NewestGenerationIsKept
<1>2. QED
  BY <1>1, RotationInductive, PTL

(* For any number of logs, of whatever owner: a rotation none of whose     *)
(* commands failed by accident has rotated, when it ends, every log it may *)
(* write that was over the limit when it began.                            *)
THEOREM EveryLogIsRotated == RotationSpec => []NoLogIsStarved
<1>1. RotationInv => NoLogIsStarved
  BY DEF RotationInv, Pending, NoLogIsStarved, RotationAt, WorkedOn, Working
<1>2. QED
  BY <1>1, RotationInductive, PTL
===============================================================================
