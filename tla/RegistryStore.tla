---------------------------- MODULE RegistryStore -----------------------------
(***************************************************************************)
(* AddService and RemoveService (admin/registry.go) as the file operations *)
(* they perform.  Every writer reads services.yaml, edits its copy, writes *)
(* the copy to the one shared path services.yaml.tmp, loads that file back *)
(* to validate it, and renames it over services.yaml.  net/http runs each  *)
(* request in its own goroutine and nothing serialises them: registryMu is *)
(* taken only by a handler no route reaches.  The files are inodes: a      *)
(* rename moves a directory entry and leaves open descriptors where they   *)
(* were.  The process may be killed between any two operations.            *)
(***************************************************************************)
EXTENDS Registry

CONSTANTS
    Candidates,     \* the services an operator may register
    Targets,        \* the names requests add or remove
    Writers,        \* requests in flight at the same time
    Inodes,         \* inodes of the profile directory
    NoInode, Blank, Garbled,
    InitialContents \* what services.yaml may hold at the start

ASSUME StoreAssumption ==
    /\ Candidates # {} /\ Candidates \subseteq Service
    /\ Targets # {} /\ Targets \subseteq Names
    /\ NoInode \notin Inodes
    /\ Blank # Garbled
    /\ Blank \notin Registries /\ Garbled \notin Registries
    /\ \A r \in InitialContents : r \in Registries /\ Validate(r)

VARIABLES
    content,  \* what each inode holds
    live,     \* the inode services.yaml names, NoInode if there is no such file
    tmp,      \* the inode services.yaml.tmp names
    writer,   \* the state of each writer
    before    \* history: the registry each writer found when its request began

vars == <<content, live, tmp, writer, before>>

\* A truncated file parses as a registry with no services; the overlap of two
\* writes need not parse at all.
Contents == Registries \cup {Blank, Garbled}

Parse(c) == IF c = Blank THEN EmptyRegistry ELSE c

\* loadRegistry succeeds: the file exists, parses, and Validate accepts it.
Loads(i) ==
    /\ i # NoInode
    /\ content[i] # Garbled
    /\ Validate(Parse(content[i]))

\* The registry a reader of services.yaml gets; none is registered without one.
View == IF live = NoInode THEN EmptyRegistry ELSE Parse(content[live])

Steps == {"idle", "load", "open", "write", "check", "rename", "cleanup",
          "done", "failed"}

Ops == {"add", "remove"}

\* What a writer remembers: its request, its edited copy, its descriptor.
WriterState ==
    [step : Steps, op : Ops, name : Targets, svc : Candidates,
     copy : Registries, fd : Inodes \cup {NoInode}]

\* Between requests a writer remembers nothing.
Idle == [step |-> "idle", op |-> "add", name |-> CHOOSE n \in Targets : TRUE,
         svc |-> CHOOSE s \in Candidates : TRUE, copy |-> EmptyRegistry,
         fd |-> NoInode]

Edit(r, w) ==
    IF writer[w].op = "add" THEN WithService(r, writer[w].name, writer[w].svc)
                            ELSE WithoutService(r, writer[w].name)

Become(w, state) == writer' = [writer EXCEPT ![w] = state]

\* Writer w moves to step s, keeping what it remembers.
Goto(w, s) == Become(w, [writer[w] EXCEPT !.step = s])

-----------------------------------------------------------------------------
(* One writer *)

Begin(w, op, n, svc) ==
    /\ writer[w].step = "idle"
    /\ Become(w, [writer[w] EXCEPT !.step = "load", !.op = op, !.name = n, !.svc = svc])
    /\ before' = [before EXCEPT ![w] = View]
    /\ UNCHANGED <<content, live, tmp>>

\* loadRegistry of services.yaml and the edit of the copy.  Adding starts from
\* an empty registry when there is no file; removing a name that is not there
\* is a success that writes nothing; an added service must leave the registry
\* valid before anything is written.
Load(w) ==
    /\ writer[w].step = "load"
    /\ IF live # NoInode /\ ~Loads(live)
       THEN Goto(w, "failed")
       ELSE \/ /\ writer[w].op = "remove"
               /\ writer[w].name \notin Registered(View)
               /\ Goto(w, "done")
            \/ /\ writer[w].op = "add"
               /\ ~Validate(Edit(View, w))
               /\ Goto(w, "failed")
            \/ /\ IF writer[w].op = "add" THEN Validate(Edit(View, w))
                                          ELSE writer[w].name \in Registered(View)
               /\ Become(w, [writer[w] EXCEPT !.step = "open", !.copy = Edit(View, w)])
    /\ UNCHANGED <<content, live, tmp, before>>

\* Wrong on purpose: the edit is written over services.yaml itself.
OpenInPlace(w) ==
    /\ writer[w].step = "open"
    /\ \E i \in Inodes :
          /\ live # NoInode => i = live
          /\ content' = [content EXCEPT ![i] = Blank]
          /\ Become(w, [writer[w] EXCEPT !.step = "write", !.fd = i])
    /\ UNCHANGED <<live, tmp, before>>

\* os.WriteFile opens with O_CREATE|O_TRUNC: it makes services.yaml.tmp or
\* empties the file of that name, whoever is using it.
Open(w) ==
    /\ writer[w].step = "open"
    /\ \E i \in Inodes :
          /\ IF tmp # NoInode
             THEN i = tmp
             ELSE i # live /\ \A v \in Writers : writer[v].fd # i
          /\ tmp' = i
          /\ content' = [content EXCEPT ![i] = Blank]
          /\ Become(w, [writer[w] EXCEPT !.step = "write", !.fd = i])
    /\ UNCHANGED <<live, before>>

\* The write goes to the descriptor, at offset 0: into an empty file it leaves
\* the copy, over another writer's bytes it leaves the copy, those bytes or a
\* mixture, whichever text is longer.
Write(w) ==
    LET i == writer[w].fd
    IN  /\ writer[w].step = "write"
        /\ \E c \in IF content[i] = Blank THEN {writer[w].copy}
                    ELSE {writer[w].copy, content[i], Garbled} :
              content' = [content EXCEPT ![i] = c]
        /\ Become(w, [writer[w] EXCEPT !.step = "check", !.fd = NoInode])
        /\ UNCHANGED <<live, tmp, before>>

\* A failed write (a full disk) returns at once: the temporary file stays.
WriteFails(w) ==
    /\ writer[w].step = "write"
    /\ Become(w, [writer[w] EXCEPT !.step = "failed", !.fd = NoInode])
    /\ UNCHANGED <<content, live, tmp, before>>

\* Wrong on purpose: the temporary file is installed unchecked.
CheckNothing(w) ==
    /\ writer[w].step = "check"
    /\ Goto(w, "rename")
    /\ UNCHANGED <<content, live, tmp, before>>

\* loadRegistry of services.yaml.tmp, by name.
Check(w) ==
    /\ writer[w].step = "check"
    /\ Goto(w, IF Loads(tmp) THEN "rename" ELSE "cleanup")
    /\ UNCHANGED <<content, live, tmp, before>>

\* Wrong on purpose: the rename fails and success is reported.
RenameUnnoticed(w) ==
    /\ writer[w].step = "rename"
    /\ Goto(w, "done")
    /\ tmp' = NoInode
    /\ UNCHANGED <<content, live, before>>

\* os.Rename, by name: it installs whatever services.yaml.tmp is by now, and
\* fails if another writer has already renamed or removed it.
Rename(w) ==
    /\ writer[w].step = "rename"
    /\ IF tmp = NoInode
       THEN Goto(w, "cleanup") /\ UNCHANGED <<live, tmp>>
       ELSE Goto(w, "done") /\ live' = tmp /\ tmp' = NoInode
    /\ UNCHANGED <<content, before>>

\* os.Remove of services.yaml.tmp before an error is returned.
Cleanup(w) ==
    /\ writer[w].step = "cleanup"
    /\ tmp' = NoInode
    /\ Goto(w, "failed")
    /\ UNCHANGED <<content, live, before>>

\* The response is sent; the writer may serve another request.
Respond(w) ==
    /\ writer[w].step \in {"done", "failed"}
    /\ Become(w, Idle)
    /\ before' = [before EXCEPT ![w] = EmptyRegistry]
    /\ UNCHANGED <<content, live, tmp>>

-----------------------------------------------------------------------------
(* The process and the specification *)

\* The Admin process is killed: every request it was serving ends where it is,
\* the files stay.
Crash ==
    /\ \E w \in Writers : writer[w].step # "idle"
    /\ writer' = [w \in Writers |-> Idle]
    /\ before' = [w \in Writers |-> EmptyRegistry]
    /\ UNCHANGED <<content, live, tmp>>

\* services.yaml exists with some valid contents, or not yet.
Init ==
    /\ live \in Inodes \cup {NoInode}
    /\ \E r \in InitialContents :
          content = [i \in Inodes |-> IF i = live THEN r ELSE Blank]
    /\ tmp = NoInode
    /\ writer = [w \in Writers |-> Idle]
    /\ before = [w \in Writers |-> EmptyRegistry]

Step(w) ==
    \/ \E op \in Ops, n \in Targets, svc \in Candidates : Begin(w, op, n, svc)
    \/ Load(w) \/ Open(w) \/ Write(w) \/ WriteFails(w) \/ Check(w)
    \/ Rename(w) \/ Cleanup(w) \/ Respond(w)

Next == Crash \/ \E w \in Writers : Step(w)

Spec == Init /\ [][Next]_vars

-----------------------------------------------------------------------------
(* Properties *)

TypeOK ==
    /\ content \in [Inodes -> Contents]
    /\ live \in Inodes \cup {NoInode}
    /\ tmp \in Inodes \cup {NoInode}
    /\ writer \in [Writers -> WriterState]
    /\ before \in [Writers -> Registries \cup {Garbled}]

(* services.yaml always holds a whole, valid registry: no reader - a       *)
(* status page, an action being authorised, a sync - finds an empty or a   *)
(* half-written one ("Uses atomic write - validates before overwriting").  *)
LiveIsWhole ==
    live # NoInode => content[live] \in Registries /\ Validate(content[live])

\* An edit that is reported as done is the whole difference between the
\* registry the request found and the one it leaves.
DoneEditsLanded ==
    \A w \in Writers : writer[w].step = "done" => View = Edit(before[w], w)

(* A request is told what happened: an edit reported as done has taken     *)
(* effect entirely and nothing else has, and one reported as failed, at    *)
(* whichever file operation, left the registry as the request found it.    *)
ReportsAreTrue ==
    /\ DoneEditsLanded
    /\ \A w \in Writers : writer[w].step = "failed" => View = before[w]

\* The registry readers see is the cell of RegistryCell.
Cell == INSTANCE RegistryCell WITH registry <- View

(* Whatever is killed or fails half-way, the file operations together are  *)
(* one atomic, validated edit of the registry readers see.                 *)
EditsAreAtomic == Cell!Spec
===============================================================================
