-------------------------------- MODULE EnvSet --------------------------------
(***************************************************************************)
(* env-set.sh: sets one key of the environment file, under a lock          *)
(* directory, by writing a copy and renaming it over the file.  Several    *)
(* may run at once.  A command that fails, and a signal, end the script    *)
(* through its EXIT trap once that is set; kill -9 ends it without.        *)
(***************************************************************************)
EXTENDS FiniteSets

CONSTANTS
    Processes,  \* invocations of env-set.sh that may overlap
    Keys,       \* keys of the environment file
    Values,     \* values a key may be set to
    None        \* no value, no file

Contents == [Keys -> Values \cup {None}]

ASSUME NoneAssumption == None \notin Values \cup Contents

VARIABLES
    env,      \* the environment file: the value of each key it has
    lock,     \* whether the lock directory exists
    process,  \* each process: its step, request, copy and backup
    updates,  \* history: the value each key was last renamed into place with
    killed,   \* history: a process died without the chance to clean up
    robbed    \* history: a trap removed the lock of another process

vars == <<env, lock, process, updates, killed, robbed>>

Steps == {"idle", "lock", "trap", "backup", "rewrite", "rename", "unlock",
          "untrap", "cleanup", "done", "failed"}

Process == [step : Steps, key : Keys \cup {None}, value : Values \cup {None},
            tmp : Contents \cup {None}, backup : Contents \cup {None}]

NoRequest == [step |-> "idle", key |-> None, value |-> None, tmp |-> None, backup |-> None]

\* Between making the lock directory and removing it, and with the trap set.
Holding == {"trap", "backup", "rewrite", "rename", "unlock"}
Trapped == {"backup", "rewrite", "rename", "unlock", "untrap"}

At(p, step) == process[p].step = step
Become(p, state) == process' = [process EXCEPT ![p] = state]
Goto(p, step) == Become(p, [process[p] EXCEPT !.step = step])

-----------------------------------------------------------------------------
(* The script *)

Begin(p) ==
    /\ At(p, "idle")
    /\ \E k \in Keys, v \in Values :
          Become(p, [NoRequest EXCEPT !.step = "lock", !.key = k, !.value = v])
    /\ UNCHANGED <<env, lock, updates, killed, robbed>>

\* Wrong on purpose: a lock directory that exists is taken for one's own.
LockAnyway(p) ==
    /\ At(p, "lock") /\ Goto(p, "trap")
    /\ lock' = TRUE
    /\ UNCHANGED <<env, updates, killed, robbed>>

\* mkdir is the lock, and nobody waits for it.
Lock(p) ==
    /\ At(p, "lock")
    /\ lock' = TRUE
    /\ IF lock THEN Goto(p, "failed") ELSE Goto(p, "trap")
    /\ UNCHANGED <<env, updates, killed, robbed>>

SetTrap(p) ==
    /\ At(p, "trap") /\ Goto(p, "backup")
    /\ UNCHANGED <<env, lock, updates, killed, robbed>>

Backup(p) ==
    /\ At(p, "backup")
    /\ Become(p, [process[p] EXCEPT !.step = "rewrite", !.backup = env])
    /\ UNCHANGED <<env, lock, updates, killed, robbed>>

\* Wrong on purpose: a key the file does not have yet makes no copy.
RewriteExisting(p) ==
    /\ At(p, "rewrite")
    /\ IF env[process[p].key] = None
       THEN Goto(p, "rename")
       ELSE Become(p, [process[p] EXCEPT !.step = "rename",
                          !.tmp = [env EXCEPT ![process[p].key] = process[p].value]])
    /\ UNCHANGED <<env, lock, updates, killed, robbed>>

\* The key's lines are replaced, or one is appended.
Rewrite(p) ==
    /\ At(p, "rewrite")
    /\ Become(p, [process[p] EXCEPT !.step = "rename",
                                    !.tmp = [env EXCEPT ![process[p].key] = process[p].value]])
    /\ UNCHANGED <<env, lock, updates, killed, robbed>>

Rename(p) ==
    /\ At(p, "rename")
    /\ env' = process[p].tmp
    /\ updates' = [updates EXCEPT ![process[p].key] = process[p].value]
    /\ Become(p, [process[p] EXCEPT !.step = "unlock", !.tmp = None])
    /\ UNCHANGED <<lock, killed, robbed>>

Unlock(p) ==
    /\ At(p, "unlock") /\ Goto(p, "untrap")
    /\ lock' = FALSE
    /\ UNCHANGED <<env, updates, killed, robbed>>

Untrap(p) ==
    /\ At(p, "untrap") /\ Goto(p, "done")
    /\ UNCHANGED <<env, lock, updates, killed, robbed>>

\* A command fails or a signal arrives while the trap is set; a failing
\* rewrite leaves part of the copy behind, which the trap removes.
Interrupted(p) ==
    /\ process[p].step \in Trapped
    /\ Goto(p, "cleanup")
    /\ UNCHANGED <<env, lock, updates, killed, robbed>>

\* Wrong on purpose: the trap removes the copy only.
CleanupCopyOnly(p) ==
    /\ At(p, "cleanup")
    /\ Become(p, [process[p] EXCEPT !.step = "failed", !.tmp = None])
    /\ UNCHANGED <<env, lock, updates, killed, robbed>>

\* The trap removes the lock and the copy, whoever made the lock.
Cleanup(p) ==
    /\ At(p, "cleanup")
    /\ Become(p, [process[p] EXCEPT !.step = "failed", !.tmp = None])
    /\ lock' = FALSE
    /\ robbed' = (robbed \/ \E q \in Processes \ {p} : process[q].step \in Holding)
    /\ UNCHANGED <<env, updates, killed>>

-----------------------------------------------------------------------------
(* The surroundings and the specification *)

Exit(p) ==
    /\ process[p].step \in {"done", "failed"}
    /\ Become(p, NoRequest)
    /\ UNCHANGED <<env, lock, updates, killed, robbed>>

\* kill -9 at any step, or a signal before the trap is set.
Killed(p) ==
    /\ process[p].step \notin {"idle", "done", "failed"}
    /\ Become(p, [process[p] EXCEPT !.step = "failed", !.tmp = None])
    /\ killed' = (killed \/ process[p].step \in Holding \cup {"cleanup"})
    /\ UNCHANGED <<env, lock, updates, robbed>>

\* An operator removes what a killed process left, when none is running.
Tidy ==
    /\ killed /\ \A p \in Processes : At(p, "idle")
    /\ lock' = FALSE /\ killed' = FALSE
    /\ UNCHANGED <<env, process, updates, robbed>>

Init ==
    /\ env \in Contents
    /\ lock = FALSE
    /\ process = [p \in Processes |-> NoRequest]
    /\ updates = env
    /\ killed = FALSE
    /\ robbed = FALSE

Step(p) ==
    \/ Lock(p) \/ SetTrap(p) \/ Backup(p) \/ Rewrite(p) \/ Rename(p) \/ Unlock(p)
    \/ Untrap(p) \/ Cleanup(p) \/ Exit(p)

Next ==
    \/ Tidy
    \/ \E p \in Processes : Begin(p) \/ Step(p) \/ Interrupted(p) \/ Killed(p)

Spec == Init /\ [][Next]_vars

-----------------------------------------------------------------------------
(* Properties *)

TypeOK ==
    /\ env \in Contents
    /\ lock \in BOOLEAN
    /\ process \in [Processes -> Process]
    /\ updates \in Contents
    /\ killed \in BOOLEAN /\ robbed \in BOOLEAN

(* Overlapping invocations, failures, signals and kills lose no update:    *)
(* the file holds for each key what was last renamed into place for it,    *)
(* every other key as it was.  It may fail only after the trap of a        *)
(* process signalled between `rm -rf "$lock_dir"' and `trap - EXIT' has    *)
(* removed the lock of the next one.  And with "a timestamped backup       *)
(* before modifying an existing file" always goes that what the rename is  *)
(* about to replace is what was backed up.                                 *)
NoUpdateIsLost ==
    ~robbed => /\ env = updates
               /\ \A p \in Processes : At(p, "rename") => process[p].backup = env

(* However a process ends, it leaves neither a lock that refuses every     *)
(* later update nor a copy of the secrets, unless it was killed.           *)
NothingIsLeftBehind ==
    ~killed => /\ lock => \E p \in Processes : process[p].step \in Holding \cup {"cleanup"}
               /\ \A p \in Processes : process[p].tmp # None => process[p].step \in {"rename", "cleanup"}
===============================================================================
