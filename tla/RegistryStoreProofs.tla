-------------------------- MODULE RegistryStoreProofs -------------------------
(***************************************************************************)
(* Proofs about RegistryStore, for any names, services, inodes and writers.*)
(* Type correctness holds however the requests overlap.  The rest needs    *)
(* exclusion, and the theorems say how much of it: LiveIsWhole that at most *)
(* one request uses services.yaml.tmp at a time, EditsAreAtomic that from  *)
(* reading services.yaml to renaming over it at most one edits, and        *)
(* ReportsAreTrue that one request at a time is served.  Each has its      *)
(* invariant, and each of those contains the one before.                   *)
(***************************************************************************)
EXTENDS RegistryStore, TLAPS

\* The parts of an edit in which a request uses services.yaml.tmp, and in which
\* it holds an edited copy.
Using(w)   == writer[w].step \in {"write", "check", "rename", "cleanup"}
Editing(w) == writer[w].step = "open" \/ Using(w)

\* What a lock would have to exclude.
OneTemporary == \A v, w \in Writers : Using(v) /\ Using(w) => v = w
OneEditor    == \A v, w \in Writers : Editing(v) /\ Editing(w) => v = w
OneRequest   == \A v, w \in Writers :
                   writer[v].step # "idle" /\ writer[w].step # "idle" => v = w

\* Nothing overlaps: there is one writer.
Serial == \A v, w \in Writers : v = w

\* services.yaml.tmp is the writer's own: what it opened, wrote and validated.
OwnTemporary(w) ==
    LET W == writer[w]
    IN  /\ W.step = "write" => W.fd = tmp /\ tmp # NoInode /\ content[tmp] = Blank
        /\ W.step \in {"check", "rename"} => tmp # NoInode /\ content[tmp] = W.copy
        /\ W.step = "rename" => Validate(W.copy)

TemporaryInv ==
    /\ TypeOK /\ LiveIsWhole
    /\ tmp # NoInode => tmp # live
    /\ \A w \in Writers : OwnTemporary(w)

\* The registry is still the one the writer's copy was made from.
CopyIsEdit(w) ==
    writer[w].step \in {"open", "write", "check", "rename"} => writer[w].copy = Edit(View, w)

EditorInv == TemporaryInv /\ \A w \in Writers : CopyIsEdit(w)

\* The registry is the one the request found until its edit is done, and that
\* edited from then on.
Accounted(w) ==
    /\ writer[w].step = "done" => View = Edit(before[w], w)
    /\ writer[w].step \notin {"idle", "done"} => View = before[w]

RequestInv == EditorInv /\ \A w \in Writers : Accounted(w)

LEMMA EditTypes ==
  ASSUME NEW r \in Registries, NEW n \in Names, NEW svc \in Service
  PROVE  WithService(r, n, svc) \in Registries /\ WithoutService(r, n) \in Registries
  BY DEF Registries, WithService, WithoutService

LEMMA EmptyRegistryValid == EmptyRegistry \in Registries /\ Validate(EmptyRegistry)
  BY DEF EmptyRegistry, Registries, Validate, Registered, BrokerOK

LEMMA IdleType == Idle \in WriterState
  BY StoreAssumption, EmptyRegistryValid DEF Idle, WriterState, Steps, Ops

\* A registry is neither of the two contents that are not registries.
LEMMA RegistryContents ==
  ASSUME NEW r \in Registries
  PROVE  r # Blank /\ r # Garbled /\ Parse(r) = r
  BY StoreAssumption DEF Parse

LEMMA ParseType ==
  ASSUME NEW c \in Contents, c # Garbled
  PROVE  Parse(c) \in Registries
  BY EmptyRegistryValid DEF Contents, Parse

LEMMA ViewType ==
  ASSUME TypeOK
  PROVE  View \in Registries \cup {Garbled}
  BY ParseType, EmptyRegistryValid DEF View, TypeOK, Parse, Contents

LEMMA LoadedView ==
  ASSUME TypeOK, live # NoInode => Loads(live)
  PROVE  View \in Registries
  BY ParseType, EmptyRegistryValid DEF View, TypeOK, Loads

-----------------------------------------------------------------------------
(* Type correctness, for any number of writers *)

LEMMA BecomeType ==
  ASSUME TypeOK, NEW w \in Writers, NEW state \in WriterState, Become(w, state)
  PROVE  writer' \in [Writers -> WriterState]
  BY DEF TypeOK, Become

LEMMA GotoType ==
  ASSUME TypeOK, NEW w \in Writers, NEW s \in Steps, Goto(w, s)
  PROVE  writer' \in [Writers -> WriterState]
<1>1. [writer[w] EXCEPT !.step = s] \in WriterState
  BY DEF TypeOK, WriterState
<1>2. QED
  BY <1>1, BecomeType DEF Goto

LEMMA StepKeepsTypes ==
  ASSUME TypeOK, NEW w \in Writers, Step(w)
  PROVE  TypeOK'
<1>0. writer[w] \in WriterState
  BY DEF TypeOK
<1>1. ASSUME NEW op \in Ops, NEW n \in Targets, NEW svc \in Candidates,
             Begin(w, op, n, svc)
      PROVE  TypeOK'
  <2>1. [writer[w] EXCEPT !.step = "load", !.op = op, !.name = n, !.svc = svc]
          \in WriterState
    BY <1>0 DEF WriterState, Steps
  <2>2. writer' \in [Writers -> WriterState]
    BY <1>1, <2>1, BecomeType DEF Begin
  <2>3. QED
    BY <1>1, <2>2, ViewType DEF Begin, TypeOK
<1>2. CASE Load(w)
  <2>1. Goto(w, "failed") \/ Goto(w, "done") => writer' \in [Writers -> WriterState]
    BY GotoType DEF Steps
  <2>2. ASSUME live # NoInode => Loads(live),
               Become(w, [writer[w] EXCEPT !.step = "open", !.copy = Edit(View, w)])
        PROVE  writer' \in [Writers -> WriterState]
    <3>1. Edit(View, w) \in Registries
      BY <1>0, <2>2, LoadedView, EditTypes, StoreAssumption DEF Edit, WriterState
    <3>2. [writer[w] EXCEPT !.step = "open", !.copy = Edit(View, w)] \in WriterState
      BY <1>0, <3>1 DEF WriterState, Steps
    <3>3. QED
      BY <2>2, <3>2, BecomeType
  <2>3. writer' \in [Writers -> WriterState]
    BY <1>2, <2>1, <2>2 DEF Load
  <2>4. QED
    BY <1>2, <2>3 DEF Load, TypeOK
<1>3. CASE Open(w)
  <2>1. PICK i \in Inodes : /\ tmp' = i
                            /\ content' = [content EXCEPT ![i] = Blank]
                            /\ Become(w, [writer[w] EXCEPT !.step = "write", !.fd = i])
    BY <1>3 DEF Open
  <2>2. [writer[w] EXCEPT !.step = "write", !.fd = i] \in WriterState
    BY <1>0 DEF WriterState, Steps
  <2>3. writer' \in [Writers -> WriterState]
    BY <2>1, <2>2, BecomeType
  <2>4. QED
    BY <1>3, <2>1, <2>3 DEF Open, TypeOK, Contents
<1>4. CASE Write(w)
  <2>1. PICK c : /\ c \in {writer[w].copy, content[writer[w].fd], Garbled}
                 /\ content' = [content EXCEPT ![writer[w].fd] = c]
    BY <1>4 DEF Write
  <2>2. content' \in [Inodes -> Contents]
    BY <1>0, <2>1 DEF TypeOK, Contents, WriterState
  <2>3. [writer[w] EXCEPT !.step = "check", !.fd = NoInode] \in WriterState
    BY <1>0 DEF WriterState, Steps
  <2>4. writer' \in [Writers -> WriterState]
    BY <1>4, <2>3, BecomeType DEF Write
  <2>5. QED
    BY <1>4, <2>2, <2>4 DEF Write, TypeOK
<1>5. CASE WriteFails(w)
  <2>1. [writer[w] EXCEPT !.step = "failed", !.fd = NoInode] \in WriterState
    BY <1>0 DEF WriterState, Steps
  <2>2. writer' \in [Writers -> WriterState]
    BY <1>5, <2>1, BecomeType DEF WriteFails
  <2>3. QED
    BY <1>5, <2>2 DEF WriteFails, TypeOK
<1>6. CASE Check(w)
  BY <1>6, GotoType DEF Check, Steps, TypeOK
<1>7. CASE Rename(w)
  BY <1>7, GotoType DEF Rename, Steps, TypeOK
<1>8. CASE Cleanup(w)
  BY <1>8, GotoType DEF Cleanup, Steps, TypeOK
<1>9. CASE Respond(w)
  BY <1>9, IdleType, BecomeType, EmptyRegistryValid DEF Respond, TypeOK
<1>10. QED
  BY <1>1, <1>2, <1>3, <1>4, <1>5, <1>6, <1>7, <1>8, <1>9 DEF Step

(* The files, the requests and the history are well typed whatever the     *)
(* requests do to each other and whenever the process is killed.           *)
THEOREM StoreTypes == Spec => []TypeOK
<1>1. Init => TypeOK
  BY StoreAssumption, IdleType, EmptyRegistryValid DEF Init, TypeOK, Contents
<1>2. TypeOK /\ [Next]_vars => TypeOK'
  <2> SUFFICES ASSUME TypeOK, [Next]_vars
               PROVE  TypeOK'
    OBVIOUS
  <2>1. CASE Crash
    BY <2>1, IdleType, EmptyRegistryValid DEF Crash, TypeOK
  <2>2. ASSUME NEW w \in Writers, Step(w)
        PROVE  TypeOK'
    BY <2>2, StepKeepsTypes
  <2>3. CASE UNCHANGED vars
    BY <2>3 DEF vars, TypeOK
  <2>4. QED
    BY <2>1, <2>2, <2>3 DEF Next
<1>3. QED
  BY <1>1, <1>2, PTL DEF Spec

-----------------------------------------------------------------------------
(* One request at a time uses services.yaml.tmp *)

\* A valid live file is the registry its readers see.
LEMMA WholeView ==
  ASSUME TypeOK, LiveIsWhole
  PROVE  /\ View \in Registries
         /\ live # NoInode => View = content[live] /\ Loads(live)
  BY RegistryContents, EmptyRegistryValid DEF View, LiveIsWhole, Loads

\* The step each operation leaves its writer at.
LEMMA StepAfter ==
  ASSUME TypeOK, NEW w \in Writers
  PROVE  /\ \A op, n, svc : Begin(w, op, n, svc) => writer'[w].step = "load"
         /\ Load(w) => writer'[w].step \in {"failed", "done", "open"}
         /\ Open(w) => writer'[w].step = "write"
         /\ Write(w) => writer'[w].step = "check"
         /\ WriteFails(w) => writer'[w].step = "failed"
         /\ Check(w) => writer'[w].step = IF Loads(tmp) THEN "rename" ELSE "cleanup"
         /\ Rename(w) => writer'[w].step \in {"cleanup", "done"}
         /\ Cleanup(w) => writer'[w].step = "failed"
         /\ Respond(w) => writer'[w].step = "idle"
<1>0. writer[w] \in WriterState
  BY DEF TypeOK
<1>1. ASSUME NEW s, Goto(w, s)
      PROVE  writer'[w].step = s
  BY <1>0, <1>1 DEF Goto, Become, TypeOK, WriterState
<1>2. ASSUME NEW op, NEW n, NEW svc, Begin(w, op, n, svc)
      PROVE  writer'[w].step = "load"
  BY <1>0, <1>2 DEF Begin, Become, TypeOK, WriterState
<1>3. ASSUME NEW c, Become(w, [writer[w] EXCEPT !.step = "open", !.copy = c])
      PROVE  writer'[w].step = "open"
  BY <1>0, <1>3 DEF Become, TypeOK, WriterState
<1>4. Load(w) => writer'[w].step \in {"failed", "done", "open"}
  BY <1>1, <1>3 DEF Load
<1>5. ASSUME NEW s, NEW i, Become(w, [writer[w] EXCEPT !.step = s, !.fd = i])
      PROVE  writer'[w].step = s
  BY <1>0, <1>5 DEF Become, TypeOK, WriterState
<1>6. /\ Open(w) => writer'[w].step = "write"
      /\ Write(w) => writer'[w].step = "check"
      /\ WriteFails(w) => writer'[w].step = "failed"
  BY <1>5 DEF Open, Write, WriteFails
<1>7. /\ Check(w) => writer'[w].step = IF Loads(tmp) THEN "rename" ELSE "cleanup"
      /\ Rename(w) => writer'[w].step \in {"cleanup", "done"}
      /\ Cleanup(w) => writer'[w].step = "failed"
  BY <1>1 DEF Check, Rename, Cleanup
<1>8. Respond(w) => writer'[w].step = "idle"
  BY DEF Respond, Become, Idle, TypeOK
<1>9. QED
  BY <1>2, <1>4, <1>6, <1>7, <1>8

\* A step of one writer leaves what the others remember.
LEMMA OthersKeep ==
  ASSUME TypeOK, NEW w \in Writers, Step(w), NEW v \in Writers \ {w}
  PROVE  writer'[v] = writer[v] /\ before'[v] = before[v]
<1>1. ASSUME NEW state, Become(w, state)
      PROVE  writer'[v] = writer[v]
  BY <1>1 DEF Become, TypeOK
<1>2. ASSUME NEW s, Goto(w, s)
      PROVE  writer'[v] = writer[v]
  BY <1>1, <1>2 DEF Goto
<1>3. writer'[v] = writer[v]
  BY <1>1, <1>2
     DEF Step, Begin, Load, Open, Write, WriteFails, Check, Rename, Cleanup, Respond
<1>4. before'[v] = before[v]
  BY DEF Step, Begin, Load, Open, Write, WriteFails, Check, Rename, Cleanup, Respond, TypeOK
<1>5. QED
  BY <1>3, <1>4

\* What a step of w leaves of the other writers' part of the invariant, if it
\* leaves the files alone or nobody else is using services.yaml.tmp.
LEMMA TemporaryInvNext ==
  ASSUME TemporaryInv, NEW w \in Writers, Step(w),
         (tmp' = tmp /\ content' = content) \/ \A v \in Writers \ {w} : ~Using(v),
         TypeOK', LiveIsWhole', (tmp # NoInode => tmp # live)', OwnTemporary(w)'
  PROVE  TemporaryInv'
<1>1. \A v \in Writers \ {w} : writer'[v] = writer[v]
  BY OthersKeep DEF TemporaryInv
<1>2. ASSUME NEW v \in Writers \ {w}
      PROVE  OwnTemporary(v)'
  BY <1>1 DEF TemporaryInv, OwnTemporary, Using
<1>3. QED
  BY <1>2 DEF TemporaryInv

LEMMA TemporaryStep ==
  ASSUME TemporaryInv, OneTemporary, OneTemporary', TypeOK', NEW w \in Writers, Step(w)
  PROVE  TemporaryInv'
<1>0. /\ TypeOK /\ LiveIsWhole /\ writer[w] \in WriterState
      /\ tmp # NoInode => tmp # live
      /\ OwnTemporary(w)
  BY DEF TemporaryInv, TypeOK
<1>1. \A v \in Writers \ {w} : writer'[v] = writer[v]
  BY OthersKeep DEF TemporaryInv
<1>2. Using(w) \/ Using(w)' => \A v \in Writers \ {w} : ~Using(v)
  BY <1>1 DEF OneTemporary, Using
<1>3. ASSUME UNCHANGED <<content, live, tmp>>, OwnTemporary(w)'
      PROVE  TemporaryInv'
  BY <1>0, <1>3, TemporaryInvNext DEF LiveIsWhole
<1>4. ASSUME UNCHANGED <<content, live, tmp>>,
             writer'[w].step \notin {"write", "check", "rename"}
      PROVE  TemporaryInv'
  BY <1>3, <1>4 DEF OwnTemporary
<1>5. CASE \E op \in Ops, n \in Targets, svc \in Candidates : Begin(w, op, n, svc)
  <2>1. writer'[w].step = "load"
    BY <1>0, <1>5, StepAfter
  <2>2. QED
    BY <1>4, <1>5, <2>1 DEF Begin
<1>6. CASE Load(w)
  <2>1. writer'[w].step \in {"failed", "done", "open"}
    BY <1>0, <1>6, StepAfter
  <2>2. QED
    BY <1>4, <1>6, <2>1 DEF Load
<1>7. CASE Open(w)
  <2>1. PICK i \in Inodes : /\ i = tmp \/ i # live
                            /\ tmp' = i
                            /\ content' = [content EXCEPT ![i] = Blank]
                            /\ Become(w, [writer[w] EXCEPT !.step = "write", !.fd = i])
    BY <1>7 DEF Open
  <2>2. i # live /\ live' = live /\ i # NoInode
    BY <1>0, <1>7, <2>1, StoreAssumption DEF Open
  <2>3. writer'[w].step = "write" /\ writer'[w].fd = i
    BY <1>0, <2>1 DEF Become, TypeOK, WriterState
  <2>4. content'[i] = Blank /\ (live # NoInode => content'[live] = content[live])
    BY <1>0, <2>1, <2>2 DEF TypeOK
  <2>5. LiveIsWhole' /\ OwnTemporary(w)' /\ (tmp # NoInode => tmp # live)'
    BY <1>0, <2>1, <2>2, <2>3, <2>4 DEF LiveIsWhole, OwnTemporary
  <2>6. \A v \in Writers \ {w} : ~Using(v)
    BY <1>2, <2>3 DEF Using
  <2>7. QED
    BY <2>5, <2>6, TemporaryInvNext
<1>8. CASE Write(w)
  <2>1. writer[w].fd = tmp /\ tmp # NoInode /\ content[tmp] = Blank /\ tmp # live
    BY <1>0, <1>8 DEF Write, OwnTemporary
  <2>2. content' = [content EXCEPT ![tmp] = writer[w].copy] /\ tmp' = tmp /\ live' = live
    BY <1>8, <2>1 DEF Write
  <2>3. writer'[w].step = "check" /\ writer'[w].copy = writer[w].copy
    BY <1>0, <1>8 DEF Write, Become, TypeOK, WriterState
  <2>4. content'[tmp] = writer[w].copy
        /\ (live # NoInode => content'[live] = content[live])
    BY <1>0, <2>1, <2>2 DEF TypeOK
  <2>5. LiveIsWhole' /\ OwnTemporary(w)' /\ (tmp # NoInode => tmp # live)'
    BY <1>0, <2>1, <2>2, <2>3, <2>4 DEF LiveIsWhole, OwnTemporary
  <2>6. \A v \in Writers \ {w} : ~Using(v)
    BY <1>2, <1>8 DEF Write, Using
  <2>7. QED
    BY <2>5, <2>6, TemporaryInvNext
<1>9. CASE WriteFails(w)
  <2>1. writer'[w].step = "failed"
    BY <1>0, <1>9, StepAfter
  <2>2. QED
    BY <1>4, <1>9, <2>1 DEF WriteFails
<1>10. CASE Check(w)
  <2>1. tmp # NoInode /\ content[tmp] = writer[w].copy
    BY <1>0, <1>10 DEF Check, OwnTemporary
  <2>2. writer'[w].step = (IF Loads(tmp) THEN "rename" ELSE "cleanup")
        /\ writer'[w].copy = writer[w].copy
    BY <1>0, <1>10 DEF Check, Goto, Become, TypeOK, WriterState
  <2>3. Loads(tmp) => Validate(writer[w].copy)
    BY <1>0, <2>1, RegistryContents DEF Loads, WriterState
  <2>4. UNCHANGED <<content, live, tmp>>
    BY <1>10 DEF Check
  <2>5. OwnTemporary(w)'
    BY <2>1, <2>2, <2>3, <2>4 DEF OwnTemporary
  <2>6. QED
    BY <1>3, <2>4, <2>5
<1>11. CASE Rename(w)
  <2>1. Validate(writer[w].copy) /\ tmp # NoInode /\ content[tmp] = writer[w].copy
    BY <1>0, <1>11 DEF Rename, OwnTemporary
  <2>2. live' = tmp /\ tmp' = NoInode /\ content' = content /\ Goto(w, "done")
    BY <1>11, <2>1 DEF Rename
  <2>3. writer'[w].step = "done"
    BY <1>0, <2>2 DEF Goto, Become, TypeOK, WriterState
  <2>4. LiveIsWhole' /\ OwnTemporary(w)' /\ (tmp # NoInode => tmp # live)'
    BY <1>0, <2>1, <2>2, <2>3, RegistryContents DEF LiveIsWhole, OwnTemporary, WriterState
  <2>5. \A v \in Writers \ {w} : ~Using(v)
    BY <1>2, <1>11 DEF Rename, Using
  <2>6. QED
    BY <2>4, <2>5, TemporaryInvNext
<1>12. CASE Cleanup(w)
  <2>1. writer'[w].step = "failed"
    BY <1>0, <1>12, StepAfter
  <2>2. LiveIsWhole' /\ OwnTemporary(w)' /\ (tmp # NoInode => tmp # live)'
    BY <1>0, <1>12, <2>1 DEF Cleanup, LiveIsWhole, OwnTemporary
  <2>3. \A v \in Writers \ {w} : ~Using(v)
    BY <1>2, <1>12 DEF Cleanup, Using
  <2>4. QED
    BY <2>2, <2>3, TemporaryInvNext
<1>13. CASE Respond(w)
  <2>1. writer'[w].step = "idle"
    BY <1>0, <1>13, StepAfter
  <2>2. QED
    BY <1>4, <1>13, <2>1 DEF Respond
<1>14. QED
  BY <1>5, <1>6, <1>7, <1>8, <1>9, <1>10, <1>11, <1>12, <1>13 DEF Step

\* The files at the start, and after the process was killed.
LEMMA TemporaryInit == Init => TemporaryInv
<1> SUFFICES ASSUME Init PROVE TemporaryInv
  OBVIOUS
<1>1. TypeOK
  BY StoreAssumption, IdleType, EmptyRegistryValid DEF Init, TypeOK, Contents
<1>2. LiveIsWhole
  BY StoreAssumption DEF Init, LiveIsWhole
<1>3. \A w \in Writers : writer[w].step = "idle"
  BY DEF Init, Idle
<1>4. QED
  BY <1>1, <1>2, <1>3 DEF Init, TemporaryInv, OwnTemporary

LEMMA TemporaryCrash ==
  ASSUME TemporaryInv, TypeOK', Crash
  PROVE  TemporaryInv' /\ \A w \in Writers : writer'[w].step = "idle"
<1>1. \A w \in Writers : writer'[w].step = "idle"
  BY DEF Crash, Idle
<1>2. LiveIsWhole' /\ (tmp # NoInode => tmp # live)'
  BY DEF Crash, TemporaryInv, LiveIsWhole
<1>3. QED
  BY <1>1, <1>2 DEF TemporaryInv, OwnTemporary

\* As long as at most one request at a time has opened services.yaml.tmp and not
\* yet renamed or removed it, that file is its own.
THEOREM TemporaryIsOwn == Spec /\ []OneTemporary => []TemporaryInv
<1>1. Init => TemporaryInv
  BY TemporaryInit
<1>2. TemporaryInv /\ OneTemporary /\ OneTemporary' /\ TypeOK' /\ [Next]_vars => TemporaryInv'
  <2> SUFFICES ASSUME TemporaryInv, OneTemporary, OneTemporary', TypeOK', [Next]_vars
               PROVE  TemporaryInv'
    OBVIOUS
  <2>1. CASE Crash
    BY <2>1, TemporaryCrash
  <2>2. ASSUME NEW w \in Writers, Step(w)
        PROVE  TemporaryInv'
    BY <2>2, TemporaryStep
  <2>3. CASE UNCHANGED vars
    BY <2>3 DEF vars, TemporaryInv, LiveIsWhole, OwnTemporary
  <2>4. QED
    BY <2>1, <2>2, <2>3 DEF Next
<1>3. QED
  BY <1>1, <1>2, StoreTypes, PTL DEF Spec

(* Any number of requests may overlap: services.yaml always holds a whole, *)
(* valid registry as long as their uses of services.yaml.tmp, from opening *)
(* it to renaming or removing it, do not.                                  *)
THEOREM ExclusiveTemporary == Spec /\ []OneTemporary => []LiveIsWhole
<1>1. TemporaryInv => LiveIsWhole
  BY DEF TemporaryInv
<1>2. QED
  BY <1>1, TemporaryIsOwn, PTL

-----------------------------------------------------------------------------
(* One request at a time holds an edited copy *)

\* Every operation but the rename leaves the registry its readers see alone.
LEMMA StepIsEdit ==
  ASSUME TemporaryInv, NEW w \in Writers, Step(w)
  PROVE  View' = View \/ Rename(w)
<1>1. CASE Open(w)
  <2>1. PICK i \in Inodes : /\ i = tmp \/ i # live
                            /\ content' = [content EXCEPT ![i] = Blank]
    BY <1>1 DEF Open
  <2>2. i # live /\ live' = live
    BY <1>1, <2>1, StoreAssumption DEF Open, TemporaryInv
  <2>3. QED
    BY <2>1, <2>2 DEF View, TemporaryInv, TypeOK
<1>2. CASE Write(w)
  <2>1. writer[w].fd # live /\ live' = live
    BY <1>2 DEF Write, TemporaryInv, OwnTemporary
  <2>2. PICK c : content' = [content EXCEPT ![writer[w].fd] = c]
    BY <1>2 DEF Write
  <2>3. QED
    BY <2>1, <2>2 DEF View, TemporaryInv, TypeOK
<1>3. QED
  BY <1>1, <1>2 DEF Step, Begin, Load, WriteFails, Check, Cleanup, Respond, View

\* After a rename the registry is the writer's copy.
LEMMA RenameInstalls ==
  ASSUME TemporaryInv, NEW w \in Writers, Rename(w)
  PROVE  /\ View' = writer[w].copy /\ Validate(writer[w].copy)
         /\ writer'[w] = [writer[w] EXCEPT !.step = "done"]
         /\ before' = before
<1>1. tmp # NoInode /\ content[tmp] = writer[w].copy /\ Validate(writer[w].copy)
  BY DEF Rename, TemporaryInv, OwnTemporary
<1>2. writer[w] \in WriterState
  BY DEF TemporaryInv, TypeOK
<1>3. QED
  BY <1>1, <1>2, RegistryContents
     DEF Rename, View, WriterState, TemporaryInv, TypeOK, Goto, Become

\* From the load of the registry to its end an edit is of the same request.
LEMMA StepKeepsRequest ==
  ASSUME TypeOK, NEW w \in Writers, Step(w), writer'[w].step \notin {"load", "idle"}
  PROVE  /\ writer'[w].op = writer[w].op /\ writer'[w].name = writer[w].name
         /\ writer'[w].svc = writer[w].svc
         /\ before' = before
<1>0. writer[w] \in WriterState
  BY DEF TypeOK
<1>1. ASSUME NEW op, NEW n, NEW svc, Begin(w, op, n, svc)
      PROVE  FALSE
  BY <1>0, <1>1 DEF Begin, Become, TypeOK, WriterState
<1>2. CASE Respond(w)
  BY <1>2 DEF Respond, Become, Idle, TypeOK
<1>3. CASE Load(w) \/ Check(w) \/ Rename(w) \/ Cleanup(w)
  <2>1. before' = before
    BY <1>3 DEF Load, Check, Rename, Cleanup
  <2>2. ASSUME NEW s, Goto(w, s)
        PROVE  /\ writer'[w].op = writer[w].op /\ writer'[w].name = writer[w].name
               /\ writer'[w].svc = writer[w].svc
    BY <1>0, <2>2 DEF Goto, Become, TypeOK, WriterState
  <2>3. ASSUME NEW c, Become(w, [writer[w] EXCEPT !.step = "open", !.copy = c])
        PROVE  /\ writer'[w].op = writer[w].op /\ writer'[w].name = writer[w].name
               /\ writer'[w].svc = writer[w].svc
    BY <1>0, <2>3 DEF Become, TypeOK, WriterState
  <2>4. QED
    BY <1>3, <2>1, <2>2, <2>3 DEF Load, Check, Rename, Cleanup
<1>4. CASE Open(w) \/ Write(w) \/ WriteFails(w)
  <2>1. ASSUME NEW s, NEW i, Become(w, [writer[w] EXCEPT !.step = s, !.fd = i])
        PROVE  /\ writer'[w].op = writer[w].op /\ writer'[w].name = writer[w].name
               /\ writer'[w].svc = writer[w].svc
    BY <1>0, <2>1 DEF Become, TypeOK, WriterState
  <2>2. QED
    BY <1>4, <2>1 DEF Open, Write, WriteFails
<1>5. QED
  BY <1>1, <1>2, <1>3, <1>4 DEF Step

\* An edited copy is the one the load made.
LEMMA StepKeepsCopy ==
  ASSUME TypeOK, NEW w \in Writers, Step(w),
         writer'[w].step \in {"open", "write", "check", "rename"}
  PROVE  \/ writer'[w].copy = Edit(View, w)
         \/ /\ writer[w].step \in {"open", "write", "check", "rename"}
            /\ writer'[w].copy = writer[w].copy
<1>0. writer[w] \in WriterState
  BY DEF TypeOK
<1>1. ASSUME NEW op, NEW n, NEW svc, Begin(w, op, n, svc)
      PROVE  FALSE
  BY <1>0, <1>1 DEF Begin, Become, TypeOK, WriterState
<1>2. ASSUME NEW s, Goto(w, s)
      PROVE  writer'[w].copy = writer[w].copy /\ writer'[w].step = s
  BY <1>0, <1>2 DEF Goto, Become, TypeOK, WriterState
<1>3. CASE Load(w)
  <2>1. Become(w, [writer[w] EXCEPT !.step = "open", !.copy = Edit(View, w)])
    BY <1>2, <1>3 DEF Load
  <2>2. QED
    BY <1>0, <2>1 DEF Become, TypeOK, WriterState
<1>4. CASE Open(w)
  <2>1. PICK i \in Inodes : Become(w, [writer[w] EXCEPT !.step = "write", !.fd = i])
    BY <1>4 DEF Open
  <2>2. QED
    BY <1>0, <1>4, <2>1 DEF Open, Become, TypeOK, WriterState
<1>5. CASE Write(w) \/ WriteFails(w)
  BY <1>0, <1>5 DEF Write, WriteFails, Become, TypeOK, WriterState
<1>6. CASE Check(w) \/ Rename(w) \/ Cleanup(w)
  BY <1>2, <1>6 DEF Check, Rename, Cleanup
<1>7. CASE Respond(w)
  BY <1>7 DEF Respond, Become, Idle, TypeOK
<1>8. QED
  BY <1>1, <1>3, <1>4, <1>5, <1>6, <1>7 DEF Step

LEMMA EditorStep ==
  ASSUME EditorInv, OneEditor, TemporaryInv', NEW w \in Writers, Step(w)
  PROVE  EditorInv'
<1>0. TypeOK /\ TemporaryInv
  BY DEF EditorInv, TemporaryInv
<1>1. CASE Rename(w)
  <2>1. writer'[w].step \in {"cleanup", "done"}
    BY <1>0, <1>1, StepAfter
  <2>2. ASSUME NEW v \in Writers \ {w}
        PROVE  ~Editing(v) /\ writer'[v] = writer[v]
    BY <1>0, <1>1, OthersKeep DEF OneEditor, Editing, Using, Rename
  <2>3. \A v \in Writers : CopyIsEdit(v)'
    BY <2>1, <2>2 DEF CopyIsEdit, Editing, Using
  <2>4. QED
    BY <2>3 DEF EditorInv
<1>2. CASE View' = View
  <2>1. ASSUME NEW v \in Writers \ {w}
        PROVE  CopyIsEdit(v)'
    <3>1. writer'[v] = writer[v]
      BY <1>0, OthersKeep
    <3>2. CopyIsEdit(v)
      BY DEF EditorInv
    <3>3. QED
      BY <1>2, <3>1, <3>2 DEF CopyIsEdit, Edit
  <2>2. CopyIsEdit(w)'
    <3> SUFFICES ASSUME writer'[w].step \in {"open", "write", "check", "rename"}
                 PROVE  writer'[w].copy = Edit(View, w)'
      BY DEF CopyIsEdit
    <3>1. Edit(View, w)' = Edit(View, w)
      BY <1>0, <1>2, StepKeepsRequest DEF Edit
    <3>2. writer'[w].copy = Edit(View, w)
      BY <1>0, StepKeepsCopy DEF EditorInv, CopyIsEdit
    <3>3. QED
      BY <3>1, <3>2
  <2>3. QED
    BY <2>1, <2>2 DEF EditorInv
<1>3. QED
  BY <1>0, <1>1, <1>2, StepIsEdit

\* Editing includes using services.yaml.tmp.
LEMMA EditorsUse == OneEditor => OneTemporary
  BY DEF OneEditor, OneTemporary, Editing

\* As long as at most one request at a time holds an edited copy, that copy is
\* its edit of the registry readers see.
THEOREM EditIsOwn == Spec /\ []OneEditor => []EditorInv
<1>1. Init => EditorInv
  <2> SUFFICES ASSUME Init PROVE EditorInv
    OBVIOUS
  <2>1. \A w \in Writers : writer[w].step = "idle"
    BY DEF Init, Idle
  <2>2. QED
    BY <2>1, TemporaryInit DEF EditorInv, CopyIsEdit
<1>2. EditorInv /\ OneEditor /\ TypeOK' /\ TemporaryInv' /\ [Next]_vars => EditorInv'
  <2> SUFFICES ASSUME EditorInv, OneEditor, TypeOK', TemporaryInv', [Next]_vars
               PROVE  EditorInv'
    OBVIOUS
  <2>1. CASE Crash
    BY <2>1, TemporaryCrash DEF EditorInv, CopyIsEdit
  <2>2. ASSUME NEW w \in Writers, Step(w)
        PROVE  EditorInv'
    BY <2>2, EditorStep
  <2>3. CASE UNCHANGED vars
    BY <2>3 DEF vars, EditorInv, CopyIsEdit, View, Edit
  <2>4. QED
    BY <2>1, <2>2, <2>3 DEF Next
<1>3. QED
  BY <1>1, <1>2, StoreTypes, TemporaryIsOwn, EditorsUse, PTL DEF Spec

-----------------------------------------------------------------------------
(* The file operations of one request implement one edit of the cell *)

\* The cell's Validate is this module's: the instance substitutes only the
\* variable, which Validate does not mention.
LEMMA CellValidates ==
  ASSUME NEW r
  PROVE  Cell!Validate(r) = Validate(r)
<1>1. Cell!BrokerOK(r) = BrokerOK(r)
  BY DEF Cell!BrokerOK, BrokerOK, Cell!Registered, Registered, Cell!IsEnabled,
         IsEnabled, Cell!RequiresAuthBroker, RequiresAuthBroker, Cell!Broker, Broker
<1>2. ASSUME NEW svc
      PROVE  Cell!AuthOK(r, svc) = AuthOK(r, svc) /\ Cell!ShapeOK(svc) = ShapeOK(svc)
  BY DEF Cell!AuthOK, AuthOK, Cell!ShapeOK, ShapeOK, Cell!AddressOK, AddressOK,
         Cell!HasAddress, HasAddress, Cell!RequiresAuthBroker, RequiresAuthBroker,
         Cell!Registered, Registered, Cell!Broker, Broker, Cell!Empty, Empty
<1>3. ASSUME NEW n
      PROVE  Cell!ValidService(r, n) = ValidService(r, n)
  BY <1>2 DEF Cell!ValidService, ValidService, Cell!IsEnabled, IsEnabled
<1>4. QED
  BY <1>1, <1>3 DEF Cell!Validate, Validate, Cell!Registered, Registered

LEMMA RenameIsEdit ==
  ASSUME EditorInv, NEW w \in Writers, Rename(w)
  PROVE  Cell!Next
<1>1. /\ writer[w].copy = Edit(View, w)
      /\ View' = writer[w].copy /\ Validate(writer[w].copy)
  BY RenameInstalls DEF EditorInv, CopyIsEdit, Rename
<1>2. writer[w] \in WriterState
  BY DEF EditorInv, TemporaryInv, TypeOK
<1>3. View' = Edit(View, w)
  BY <1>1
<1>4. writer[w].name \in Names /\ writer[w].svc \in Candidates
  BY <1>2, StoreAssumption DEF WriterState
<1>5. \/ Cell!Put(writer[w].name, writer[w].svc)
      \/ Cell!Delete(writer[w].name)
  BY <1>1, <1>3, CellValidates
     DEF Cell!Put, Cell!Delete, Edit, Cell!WithService, WithService,
         Cell!WithoutService, WithoutService
<1>6. QED
  BY <1>4, <1>5 DEF Cell!Next

(* Read, write, check and rename, with failures and kills between them,    *)
(* are one atomic validated edit of the registry: any number of requests   *)
(* that overlap implement the cell, as long as between reading             *)
(* services.yaml and renaming over it each is the only one.                *)
THEOREM ExclusiveEdits == Spec /\ []OneEditor => EditsAreAtomic
<1>1. Init => Cell!Init
  <2> SUFFICES ASSUME Init PROVE Cell!Init
    OBVIOUS
  <2>1. PICK r \in InitialContents :
          content = [i \in Inodes |-> IF i = live THEN r ELSE Blank]
    BY DEF Init
  <2>2. live # NoInode => View = r
    BY <2>1, StoreAssumption, RegistryContents DEF Init, View
  <2>3. QED
    BY <2>2 DEF Cell!Init, View, Cell!EmptyRegistry, EmptyRegistry
<1>2. EditorInv /\ [Next]_vars => [Cell!Next]_View
  <2> SUFFICES ASSUME EditorInv, [Next]_vars
               PROVE  Cell!Next \/ View' = View
    OBVIOUS
  <2>1. CASE Crash
    BY <2>1 DEF Crash, View
  <2>2. ASSUME NEW w \in Writers, Step(w)
        PROVE  Cell!Next \/ View' = View
    BY <2>2, StepIsEdit, RenameIsEdit DEF EditorInv
  <2>3. CASE UNCHANGED vars
    BY <2>3 DEF vars, View
  <2>4. QED
    BY <2>1, <2>2, <2>3 DEF Next
<1>3. QED
  BY <1>1, <1>2, EditIsOwn, PTL DEF Spec, EditsAreAtomic, Cell!Spec

-----------------------------------------------------------------------------
(* One request at a time is served *)

\* A name that is not registered is removed by doing nothing.
LEMMA NothingToRemove ==
  ASSUME NEW r \in Registries, NEW n \in Names, n \notin Registered(r)
  PROVE  WithoutService(r, n) = r
  BY DEF Registries, Registered, WithoutService

LEMMA RequestStep ==
  ASSUME RequestInv, OneRequest, OneRequest', EditorInv', NEW w \in Writers, Step(w)
  PROVE  RequestInv'
<1>0. /\ TypeOK /\ TemporaryInv /\ EditorInv /\ writer[w] \in WriterState
      /\ Accounted(w) /\ View \in Registries
  BY WholeView DEF RequestInv, EditorInv, TemporaryInv, TypeOK
<1>1. ASSUME NEW v \in Writers \ {w}
      PROVE  Accounted(v)'
  <2>1. writer'[v] = writer[v]
    BY <1>0, OthersKeep
  <2>2. writer[w].step # "idle" \/ writer'[w].step # "idle"
    BY <1>0, StepAfter
       DEF Step, Load, Open, Write, WriteFails, Check, Rename, Cleanup, Respond
  <2>3. writer'[v].step = "idle"
    BY <2>1, <2>2 DEF OneRequest
  <2>4. QED
    BY <2>3 DEF Accounted
<1>2. CASE \E op \in Ops, n \in Targets, svc \in Candidates : Begin(w, op, n, svc)
  <2>1. writer'[w].step = "load" /\ before'[w] = View /\ View' = View
    BY <1>0, <1>2, StepAfter DEF Begin, TypeOK, View
  <2>2. QED
    BY <1>1, <2>1 DEF RequestInv, Accounted
<1>3. CASE Respond(w)
  <2>1. writer'[w].step = "idle"
    BY <1>0, <1>3, StepAfter
  <2>2. QED
    BY <1>1, <2>1 DEF RequestInv, Accounted
<1>4. CASE Rename(w)
  <2>1. View = before[w] /\ writer[w].copy = Edit(View, w)
    BY <1>0, <1>4 DEF Rename, Accounted, EditorInv, CopyIsEdit
  <2>2. View' = Edit(before[w], w) /\ writer'[w] = [writer[w] EXCEPT !.step = "done"]
        /\ before' = before
    BY <1>0, <1>4, <2>1, RenameInstalls
  <2>3. /\ writer'[w].step = "done" /\ writer'[w].op = writer[w].op
        /\ writer'[w].name = writer[w].name /\ writer'[w].svc = writer[w].svc
    BY <1>0, <2>2 DEF WriterState
  <2>4. Accounted(w)'
    BY <2>2, <2>3 DEF Accounted, Edit
  <2>5. QED
    BY <1>1, <2>4 DEF RequestInv
<1>5. CASE Load(w) /\ writer'[w].step = "done"
  <2>1. View = before[w] /\ View' = View
    BY <1>0, <1>5 DEF Load, Accounted, View
  <2>2. writer[w].op = "remove" /\ writer[w].name \notin Registered(View)
    BY <1>0, <1>5 DEF Load, Goto, Become, TypeOK, WriterState
  <2>3. writer[w].name \in Names
    BY <1>0, StoreAssumption DEF WriterState
  <2>4. WithoutService(View, writer[w].name) = View
    BY <1>0, <2>2, <2>3, NothingToRemove
  <2>5. /\ writer'[w].op = writer[w].op /\ writer'[w].name = writer[w].name
        /\ before' = before
    BY <1>0, <1>5, StepKeepsRequest
  <2>6. Accounted(w)'
    BY <1>5, <2>1, <2>2, <2>4, <2>5 DEF Accounted, Edit
  <2>7. QED
    BY <1>1, <2>6 DEF RequestInv
<1>6. CASE \/ Load(w) /\ writer'[w].step # "done"
           \/ Open(w) \/ Write(w) \/ WriteFails(w) \/ Check(w) \/ Cleanup(w)
  <2>1. writer[w].step \notin {"idle", "done"} /\ ~Rename(w)
    BY <1>6 DEF Load, Open, Write, WriteFails, Check, Cleanup, Rename
  <2>2. View = before[w] /\ View' = View
    BY <1>0, <2>1, StepIsEdit DEF Accounted
  <2>3. before' = before
    BY <1>6 DEF Load, Open, Write, WriteFails, Check, Cleanup
  <2>4. writer'[w].step # "done"
    BY <1>0, <1>6, StepAfter
  <2>5. Accounted(w)'
    BY <2>2, <2>3, <2>4 DEF Accounted
  <2>6. QED
    BY <1>1, <2>5 DEF RequestInv
<1>7. QED
  BY <1>2, <1>3, <1>4, <1>5, <1>6 DEF Step

LEMMA RequestsEdit == OneRequest => OneEditor
  BY DEF OneRequest, OneEditor, Editing, Using

\* As long as at most one request at a time is being served, the registry is the
\* one it found, or has its whole edit once that is done.
THEOREM RequestsAreAccounted == Spec /\ []OneRequest => []RequestInv
<1>1. Init => RequestInv
  <2> SUFFICES ASSUME Init PROVE RequestInv
    OBVIOUS
  <2>1. \A w \in Writers : writer[w].step = "idle"
    BY DEF Init, Idle
  <2>2. QED
    BY <2>1, TemporaryInit DEF RequestInv, EditorInv, CopyIsEdit, Accounted
<1>2. RequestInv /\ OneRequest /\ OneRequest' /\ TypeOK' /\ EditorInv' /\ [Next]_vars
        => RequestInv'
  <2> SUFFICES ASSUME RequestInv, OneRequest, OneRequest', TypeOK', EditorInv', [Next]_vars
               PROVE  RequestInv'
    OBVIOUS
  <2>1. CASE Crash
    BY <2>1, TemporaryCrash DEF RequestInv, EditorInv, Accounted
  <2>2. ASSUME NEW w \in Writers, Step(w)
        PROVE  RequestInv'
    BY <2>2, RequestStep
  <2>3. CASE UNCHANGED vars
    BY <2>3 DEF vars, RequestInv, Accounted, View, Edit
  <2>4. QED
    BY <2>1, <2>2, <2>3 DEF Next
<1>3. QED
  BY <1>1, <1>2, StoreTypes, EditIsOwn, RequestsEdit, PTL DEF Spec

(* Any number of requests that are served one after the other are told     *)
(* what happened: a failed edit changed nothing, a done one is in the      *)
(* registry, and nothing else.                                             *)
THEOREM ExclusiveReports == Spec /\ []OneRequest => []ReportsAreTrue
<1>1. RequestInv => ReportsAreTrue
  BY DEF RequestInv, Accounted, ReportsAreTrue, DoneEditsLanded
<1>2. QED
  BY <1>1, RequestsAreAccounted, PTL

-----------------------------------------------------------------------------
(* One writer *)

\* Where there is only one writer nothing overlaps.
LEMMA SerialIsExclusive ==
  ASSUME Serial
  PROVE  OneRequest /\ OneEditor /\ OneTemporary
  BY DEF Serial, OneRequest, OneEditor, OneTemporary

(* One writer leaves readers a whole, valid registry at every moment.      *)
THEOREM SerialLiveIsWhole ==
  ASSUME Serial
  PROVE  Spec => []LiveIsWhole
<1>1. OneTemporary
  BY SerialIsExclusive
<1>2. QED
  BY <1>1, ExclusiveTemporary, PTL

(* What AddService and RemoveService report to one writer is what          *)
(* happened.                                                               *)
THEOREM SerialReports ==
  ASSUME Serial
  PROVE  Spec => []ReportsAreTrue
<1>1. OneRequest
  BY SerialIsExclusive
<1>2. QED
  BY <1>1, ExclusiveReports, PTL

(* The file operations of one writer implement the cell.                   *)
THEOREM SerialImplementsCell ==
  ASSUME Serial
  PROVE  Spec => EditsAreAtomic
<1>1. OneEditor
  BY SerialIsExclusive
<1>2. QED
  BY <1>1, ExclusiveEdits, PTL
===============================================================================
