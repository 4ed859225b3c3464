------------------------------ MODULE RotateLogs ------------------------------
(***************************************************************************)
(* rotate-logs.sh: the scheduled task that copies a log past the size      *)
(* limit to log.1, compresses that to log.1.gz and truncates the log, while *)
(* services keep appending to it.  The script runs under `set -e'; the     *)
(* restart of the task, which Admin offers, kills it at any point.         *)
(***************************************************************************)
EXTENDS Integers, FiniteSets

CONSTANTS
    Logs,      \* the *.log files of the log directory
    Keeps,     \* values of HOME_STACK_LOG_KEEP
    MaxBytes,  \* HOME_STACK_LOG_MAX_BYTES, in lines
    MaxLines,  \* bound: the lines ever appended to one log
    NoLog      \* no log

ASSUME KeepsAssumption == Keeps \subseteq Nat
ASSUME BoundsAssumption == MaxBytes \in Nat /\ MaxLines \in Nat
ASSUME NoLogAssumption == NoLog \notin Logs

VARIABLES
    keep,      \* HOME_STACK_LOG_KEEP
    writable,  \* the logs that are not root's
    log,       \* the lines of each log, numbered as they were appended
    copy,      \* its uncompressed log.1, log.2, ...
    gz,        \* its log.1.gz
    appended,  \* how many lines it was given
    newest,    \* history: what it held when it was last copied
    rotation   \* the script

files == <<log, copy, gz, appended, newest>>
rotationVars == <<keep, writable, files, rotation>>

Lines == 1 .. MaxLines

\* A copy is there or not, and its writing may have been cut short.
Files    == [state : {"none", "partial", "whole"}, lines : SUBSET Lines]
NoFile   == [state |-> "none", lines |-> {}]
Partial  == [state |-> "partial", lines |-> {}]
Whole(s) == [state |-> "whole", lines |-> s]

RotationSteps == {"idle", "next", "shift", "copy", "copying", "gzip", "zipping", "truncate", "done", "failed"}

\* The script's logs still to visit, the one at hand and the loop variable;
\* for the properties, the logs over the limit when it began, those it rotated
\* and whether a command failed.
Idle == [step |-> "idle", todo |-> {}, log |-> NoLog, i |-> 0,
         over |-> {}, rotated |-> {}, fault |-> FALSE]

RotationAt(step)   == rotation.step = step
RotationGoto(step) == rotation' = [rotation EXCEPT !.step = step]

\* A command fails, and with it the script.
Fails == rotation' = [rotation EXCEPT !.step = "failed", !.fault = TRUE]

Oversized(l) == Cardinality(log[l]) >= MaxBytes

-----------------------------------------------------------------------------
(* The script: its loop over the logs, and rotate_one on the log l *)

BeginRotation ==
    /\ RotationAt("idle")
    /\ rotation' = [Idle EXCEPT !.step = "next", !.todo = Logs,
                                !.over = {l \in writable : Oversized(l)}]
    /\ UNCHANGED files

\* Wrong on purpose: logs of another owner are rotated like any other.
DueWritableOrNot(l) == Oversized(l)

\* A log that is somebody else's, or is below the limit, is passed over.
Due(l) == l \in writable /\ Oversized(l)

NextLog ==
    /\ RotationAt("next")
    /\ \/ rotation.todo = {} /\ RotationGoto("done")
       \/ \E l \in rotation.todo :
             rotation' = [rotation EXCEPT
                 !.todo = @ \ {l}, !.log = l, !.i = keep,
                 !.step = IF ~Due(l) THEN "next" ELSE IF keep > 0 THEN "shift" ELSE "truncate"]
    /\ UNCHANGED files

\* Wrong on purpose: the last copy is moved on like the others.
AgedUnbounded(copies, i) ==
    [j \in DOMAIN copies \cup {i + 1} |->
        IF j = i THEN NoFile ELSE IF j = i + 1 THEN copies[i] ELSE copies[j]]

\* log.i becomes log.i+1; the copy numbered `keep' is deleted.
Aged(copies, i) ==
    [j \in DOMAIN copies |->
        IF j = i THEN NoFile ELSE IF j = i + 1 THEN copies[i] ELSE copies[j]]

Shift(l) ==
    LET i == rotation.i
    IN  /\ RotationAt("shift")
        /\ \/ /\ copy' = IF copy[l][i] = NoFile THEN copy ELSE [copy EXCEPT ![l] = Aged(@, i)]
              /\ rotation' = [rotation EXCEPT !.i = i - 1, !.step = IF i = 1 THEN "copy" ELSE "shift"]
           \/ copy[l][i] # NoFile /\ Fails /\ UNCHANGED copy
        /\ UNCHANGED <<log, gz, appended, newest>>

Copy(l) ==
    /\ RotationAt("copy") /\ RotationGoto("copying")
    /\ copy' = [copy EXCEPT ![l][1] = Partial]
    /\ UNCHANGED <<log, gz, appended, newest>>

\* Wrong on purpose: a copy that fails does not end the script.
CopiedUnnoticed(l) ==
    /\ RotationAt("copying") /\ RotationGoto("gzip")
    /\ copy' = [copy EXCEPT ![l][1] = Whole(log[l])] \/ UNCHANGED copy
    /\ newest' = [newest EXCEPT ![l] = log[l]]
    /\ UNCHANGED <<log, gz, appended>>

Copied(l) ==
    /\ RotationAt("copying")
    /\ \/ /\ copy' = [copy EXCEPT ![l][1] = Whole(log[l])]
          /\ newest' = [newest EXCEPT ![l] = log[l]]
          /\ RotationGoto("gzip")
       \/ Fails /\ UNCHANGED <<copy, newest>>
    /\ UNCHANGED <<log, gz, appended>>

\* gzip -f starts log.1.gz afresh ...
Gzip(l) ==
    /\ RotationAt("gzip") /\ RotationGoto("zipping")
    /\ gz' = [gz EXCEPT ![l] = Partial]
    /\ UNCHANGED <<log, copy, appended, newest>>

\* ... and removes log.1 when that is complete, or log.1.gz if it fails.
Zipped(l) ==
    /\ RotationAt("zipping")
    /\ \/ /\ gz' = [gz EXCEPT ![l] = copy[l][1]]
          /\ copy' = [copy EXCEPT ![l][1] = NoFile]
          /\ RotationGoto("truncate")
       \/ gz' = [gz EXCEPT ![l] = NoFile] /\ Fails /\ UNCHANGED copy
    /\ UNCHANGED <<log, appended, newest>>

\* The log of another owner cannot be truncated.
Truncate(l) ==
    /\ RotationAt("truncate")
    /\ IF l \in writable
       THEN /\ log' = [log EXCEPT ![l] = {}]
            /\ rotation' = [rotation EXCEPT !.step = "next", !.rotated = @ \cup {l}]
       ELSE RotationGoto("failed") /\ UNCHANGED log
    /\ UNCHANGED <<copy, gz, appended, newest>>

\* The script has exited, or is killed.
Ends == ~RotationAt("idle") /\ rotation' = Idle /\ UNCHANGED files

\* A service writes a line; launchd opened its log for appending.
Append(l) ==
    /\ appended[l] < MaxLines
    /\ appended' = [appended EXCEPT ![l] = @ + 1]
    /\ log' = [log EXCEPT ![l] = @ \cup {appended[l] + 1}]
    /\ UNCHANGED <<copy, gz, newest, rotation>>

-----------------------------------------------------------------------------
(* The specification *)

RotationInit ==
    /\ keep \in Keeps
    /\ writable \in SUBSET Logs
    /\ log = [l \in Logs |-> {}]
    /\ copy = [l \in Logs |-> [i \in 1 .. keep |-> NoFile]]
    /\ gz = [l \in Logs |-> NoFile]
    /\ appended = [l \in Logs |-> 0]
    /\ newest = [l \in Logs |-> {}]
    /\ rotation = Idle

RotateOne(l) ==
    Shift(l) \/ Copy(l) \/ Copied(l) \/ Gzip(l) \/ Zipped(l) \/ Truncate(l)

RotationNext ==
    /\ \/ BeginRotation \/ NextLog \/ Ends
       \/ \E l \in Logs : Append(l) \/ (rotation.log = l /\ RotateOne(l))
    /\ UNCHANGED <<keep, writable>>

RotationSpec == RotationInit /\ [][RotationNext]_rotationVars

-----------------------------------------------------------------------------
(* Properties *)

(* Whatever fails or is killed, at most `keep' uncompressed copies of a    *)
(* log are left behind.                                                    *)
RotationTypeOK ==
    /\ keep \in Keeps /\ writable \subseteq Logs
    /\ log \in [Logs -> SUBSET Lines]
    /\ \A l \in Logs : copy[l] \in [1 .. keep -> Files]
    /\ gz \in [Logs -> Files]
    /\ appended \in [Logs -> 0 .. MaxLines]
    /\ newest \in [Logs -> SUBSET Lines]
    /\ rotation \in [step : RotationSteps, todo : SUBSET Logs, log : Logs \cup {NoLog}, i : 0 .. keep,
                     over : SUBSET Logs, rotated : SUBSET Logs, fault : BOOLEAN]

(* No failed command, kill or concurrent write loses a line of the newest  *)
(* generation: what the log held when it was last copied is in the log or  *)
(* in a whole log.1.gz, until it is copied again.                          *)
NewestGenerationIsKept ==
    \A l \in Logs : newest[l] \subseteq log[l] \cup gz[l].lines

(* A log the script cannot write must not starve "every log sorting after  *)
(* it": when the script ends and none of its commands failed by accident,  *)
(* each log it may write that was over the limit has been rotated.         *)
NoLogIsStarved ==
    (RotationAt("done") \/ RotationAt("failed")) /\ ~rotation.fault
        => rotation.over \subseteq rotation.rotated
===============================================================================
