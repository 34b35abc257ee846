----------------------- MODULE FilesystemStore_proofs -----------------------
(***************************************************************************)
(* What FilesystemStore.tla guarantees for any number of writers, readers, *)
(* commits and crashes.  The invariant comes in two layers: Closed holds   *)
(* whatever stamps the commits carry, Intact needs the stamps to differ.   *)
(* Then, of StoreRefinement.tla: one writer that is not killed implements   *)
(* the atomic store.                                                       *)
(***************************************************************************)
EXTENDS StoreRefinement, TLAPS

BeforePut == {"readRef", "getHead", "openVersion"}
AfterOpen == {"writeVersion", "openRef", "writeRef", "getProjected", "openFile", "writeFile"}
AfterPut  == {"openRef", "writeRef", "getProjected", "openFile", "writeFile"}

(* The record of a commit is on disk before any step that may publish it,   *)
(* and a commit past the no-op check differs from the head it builds on.    *)
Closed ==
  /\ TypeOK
  /\ LineageStored
  /\ NoVersionRepeatsItsParent
  /\ \A w \in Writers : pc[w] \in AfterOpen => NewVersion(w) \in objects
  /\ \A w \in Writers : pc[w] \in AfterOpen \cup {"openVersion"} =>
       \A v \in seen[w] : v.content # req[w].content

(* Stamps tell commits apart: no two commits under way share one, and none  *)
(* is on disk before its own commit puts it there.                          *)
StampsDiffer ==
  /\ \A w, x \in Writers :
       pc[w] # "idle" /\ pc[x] # "idle" /\ w # x => req[w].stamp # req[x].stamp
  /\ \A w \in Writers : pc[w] \in BeforePut => \A v \in objects : v.stamp # req[w].stamp

(* Nothing any process holds or any file names is half-written.             *)
Intact ==
  /\ StampsDiffer
  /\ ref \subseteq Readable
  /\ acked \subseteq Readable
  /\ \A v \in objects : v.parents \subseteq Readable
  /\ \A p \in Processes : seen[p] \subseteq Readable
  /\ \A w \in Writers : pc[w] \in AfterPut => NewVersion(w) \in Readable
  /\ \A r \in Readers : answer[r] # "error"

IInv == Closed /\ (FreshStamps => Intact)

-----------------------------------------------------------------------------
LEMMA NoRequestType == NoRequest \in [content : Contents, stamp : Nat] /\ NoRequest.stamp = 0
BY SomeContent DEF NoRequest

(* The list of projections is a non-empty sequence.                         *)
LEMMA FilesLen == Len(Files) \in Nat /\ 1 \in 1..Len(Files)
BY SomeFile

LEMMA InitIInv == Init => IInv
<1> SUFFICES ASSUME Init PROVE IInv
  OBVIOUS
<1> USE DEF Init
<1>1. TypeOK
  BY NoRequestType, FilesLen, BoundsAreNat DEF TypeOK, DiskTypeOK, ProcTypeOK, WriterLabels, Processes
<1>2. Closed
  BY <1>1 DEF Closed, LineageStored, NoVersionRepeatsItsParent, AfterOpen, Processes
<1>3. Intact
  BY DEF Intact, StampsDiffer, Readable, BeforePut, AfterPut, Processes
<1>4. QED BY <1>2, <1>3 DEF IInv

(* A call that ends leaves well-typed locals behind.                        *)
LEMMA LeaveTypes == ASSUME ProcTypeOK, NEW w \in Writers, Leave(w), begun' = begun,
                           begun \in Nat, objects' = objects
                    PROVE  ProcTypeOK'
<1>1. /\ pc' \in [Processes -> WriterLabels]
      /\ \A r \in Readers : pc'[r] \in {"idle", "getHead"}
  BY DEF WriterLabels, Leave, Goto, ProcTypeOK, Processes
<1>2. /\ req' \in [Writers -> [content : Contents, stamp : Nat]]
      /\ \A x \in Writers : req'[x].stamp =< begun
  BY NoRequestType DEF Leave, ProcTypeOK
<1>3. seen' \in [Processes -> SUBSET objects] /\ file' \in [Writers -> 1..Len(Files)]
  BY FilesLen DEF Leave, ProcTypeOK
<1>4. QED BY <1>1, <1>2, <1>3 DEF ProcTypeOK

(* A step of one process to another label, with the request kept.           *)
LEMMA GotoTypes == ASSUME ProcTypeOK, NEW p \in Processes, NEW label \in WriterLabels,
                          Goto(p, label), p \in Readers => label \in {"idle", "getHead"},
                          req' = req, begun' = begun,
                          file' \in [Writers -> 1..Len(Files)],
                          seen' \in [Processes -> SUBSET objects']
                   PROVE  ProcTypeOK'
BY DEF Goto, ProcTypeOK, Processes

(* The disk keeps its types when a step adds nothing to it but contents.    *)
LEMMA DiskSame == ASSUME DiskTypeOK, objects' = objects, begun' = begun,
                         torn' \subseteq torn, ref' \subseteq objects, acked' \subseteq objects,
                         projections' \in [1..Len(Files) -> SUBSET Contents]
                  PROVE  DiskTypeOK'
BY DEF DiskTypeOK

(* Every step keeps the types.                                              *)
LEMMA TypeStep == ASSUME TypeOK, [Next]_vars,
                         \A w \in Writers : pc[w] \in AfterOpen => NewVersion(w) \in objects
                  PROVE  TypeOK'
<1>a. \A w \in Writers : w \in Processes /\ w \notin Readers
  BY ProcessesDiffer DEF Processes
<1>b. \A r \in Readers : r \in Processes /\ r \notin Writers
  BY ProcessesDiffer DEF Processes
<1>c. begun \in Nat
  <2>1. begun \in 0..MaxCommits
    BY DEF TypeOK
  <2>2. QED BY <2>1, BoundsAreNat
<1>e. crashes \in 0..MaxCrashes
  BY DEF TypeOK
<1>d. DiskTypeOK /\ ProcTypeOK
  BY DEF TypeOK
<1>1. ASSUME NEW w \in Writers, BeginCommit(w) PROVE TypeOK'
  <2>1. begun' = begun + 1 /\ begun' \in 0..MaxCommits /\ UNCHANGED <<crashes, answer>>
    BY <1>1, <1>c, BoundsAreNat DEF BeginCommit
  <2>2. UNCHANGED <<objects, torn, ref, projections, seen, file, acked>> /\ Goto(w, "readRef")
    BY <1>1 DEF BeginCommit, disk
  <2>3. PICK c \in Contents :
          req' = [req EXCEPT ![w] = [content |-> c,
                                     stamp |-> IF FreshStamps THEN begun + 1 ELSE 1]]
    BY <1>1 DEF BeginCommit
  <2>4. DiskTypeOK'
    BY <1>c, <1>d, <2>1, <2>2 DEF DiskTypeOK, WellFormed
  <2>5. /\ req' \in [Writers -> [content : Contents, stamp : Nat]]
        /\ \A x \in Writers : req'[x].stamp =< begun + 1
    BY <1>c, <1>d, <2>3 DEF ProcTypeOK
  <2>6. ProcTypeOK'
    BY <1>a, <1>d, <2>1, <2>2, <2>5 DEF ProcTypeOK, Goto, WriterLabels
  <2>7. QED BY <2>1, <2>4, <2>6 DEF TypeOK
<1>2. ASSUME NEW w \in Writers, ReadHeadRef(w) PROVE TypeOK'
  <2>1. UNCHANGED <<objects, torn, ref, projections, req, file, begun, crashes, acked, answer>>
    BY <1>2 DEF ReadHeadRef, disk
  <2>2. seen' \in [Processes -> SUBSET objects']
    BY <1>2, <1>a, <1>d, <2>1 DEF ProcTypeOK, DiskTypeOK, ReadHeadRef
  <2>3. PICK label \in WriterLabels : Goto(w, label)
    BY <1>2 DEF ReadHeadRef, WriterLabels
  <2>4. ProcTypeOK'
    BY <1>a, <1>d, <2>1, <2>2, <2>3, GotoTypes DEF ProcTypeOK
  <2>5. QED BY <1>d, <2>1, <2>4 DEF TypeOK, DiskTypeOK
<1>3. ASSUME NEW w \in Writers,
             \/ GetHeadUnchanged(w) \/ GetHeadRaises(w) \/ GetProjectedRaises(w) \/ Crash(w)
      PROVE  TypeOK'
  <2>1. UNCHANGED <<objects, torn, ref, projections, begun, answer>> /\ Leave(w)
    BY <1>3 DEF GetHeadUnchanged, GetHeadRaises, GetProjectedRaises, Crash, disk
  <2>2. acked' = acked \/ acked' = acked \cup seen[w]
    BY <1>3 DEF GetHeadUnchanged, GetHeadRaises, GetProjectedRaises, Crash
  <2>3. seen[w] \subseteq objects
    BY <1>a, <1>d DEF ProcTypeOK
  <2>4. crashes' \in 0..MaxCrashes
    BY <1>3, <1>e, BoundsAreNat DEF GetHeadUnchanged, GetHeadRaises, GetProjectedRaises, Crash
  <2>5. ProcTypeOK'
    BY <1>c, <1>d, <2>1, LeaveTypes
  <2>6. QED BY <1>d, <2>1, <2>2, <2>3, <2>4, <2>5 DEF TypeOK, DiskTypeOK
<1>4. ASSUME NEW w \in Writers, GetHeadChanged(w) \/ GetProjected(w) PROVE TypeOK'
  <2>1. UNCHANGED <<objects, torn, ref, projections, req, seen, begun, crashes, acked, answer>>
    BY <1>4 DEF GetHeadChanged, GetProjected, disk
  <2>2. PICK label \in WriterLabels : Goto(w, label)
    BY <1>4 DEF GetHeadChanged, GetProjected, WriterLabels
  <2>3. file' \in [Writers -> 1..Len(Files)]
    BY <1>4, <1>d, FilesLen DEF GetHeadChanged, GetProjected, ProcTypeOK
  <2>4. ProcTypeOK'
    BY <1>a, <1>d, <2>1, <2>2, <2>3, GotoTypes DEF ProcTypeOK
  <2>5. QED BY <1>d, <2>1, <2>4 DEF TypeOK, DiskTypeOK
<1>5. ASSUME NEW w \in Writers, OpenVersion(w) PROVE TypeOK'
  <2>1. /\ UNCHANGED <<ref, projections, req, seen, file, begun, crashes, acked, answer>>
        /\ Goto(w, "writeVersion")
        /\ objects' = objects \cup {NewVersion(w)} /\ torn' = torn \cup {NewVersion(w)}
    BY <1>5 DEF OpenVersion
  <2>2. WellFormed(NewVersion(w)) /\ NewVersion(w).stamp =< begun
    BY <1>d DEF NewVersion, Version, ProcTypeOK, WellFormed
  <2>3. DiskTypeOK'
    BY <1>d, <2>1, <2>2 DEF DiskTypeOK
  <2>4. seen' \in [Processes -> SUBSET objects']
    BY <1>d, <2>1 DEF ProcTypeOK
  <2>5. ProcTypeOK'
    BY <1>a, <1>d, <2>1, <2>4, GotoTypes DEF ProcTypeOK, WriterLabels
  <2>6. QED BY <2>1, <2>3, <2>5 DEF TypeOK
<1>6. ASSUME NEW w \in Writers, WriteVersion(w) \/ OpenRef(w) \/ WriteRef(w) \/ OpenFile(w)
      PROVE  TypeOK'
  <2>1. UNCHANGED <<objects, req, seen, file, begun, crashes, acked, answer>>
    BY <1>6 DEF WriteVersion, OpenRef, WriteRef, OpenFile
  <2>2. PICK label \in WriterLabels : Goto(w, label)
    BY <1>6 DEF WriteVersion, OpenRef, WriteRef, OpenFile, WriterLabels
  <2>3. torn' \subseteq torn
    BY <1>6 DEF WriteVersion, OpenRef, WriteRef, OpenFile
  <2>4. ref' \subseteq objects
    BY <1>6, <1>d DEF WriteVersion, OpenRef, WriteRef, OpenFile, AfterOpen, DiskTypeOK
  <2>5. projections' \in [1..Len(Files) -> SUBSET Contents]
    BY <1>6, <1>d DEF WriteVersion, OpenRef, WriteRef, OpenFile, DiskTypeOK
  <2>6. DiskTypeOK'
    BY <1>d, <2>1, <2>3, <2>4, <2>5, DiskSame DEF DiskTypeOK
  <2>7. ProcTypeOK'
    BY <1>a, <1>d, <2>1, <2>2, GotoTypes DEF ProcTypeOK
  <2>8. QED BY <2>1, <2>6, <2>7 DEF TypeOK
<1>7. ASSUME NEW w \in Writers, WriteFile(w) PROVE TypeOK'
  <2>1. UNCHANGED <<objects, torn, ref, begun, crashes, answer>>
    BY <1>7 DEF WriteFile
  <2>2. NewVersion(w) \in objects /\ req[w].content \in Contents
    BY <1>7, <1>d DEF AfterOpen, ProcTypeOK, WriteFile
  <2>3. projections' \in [1..Len(Files) -> SUBSET Contents]
    BY <1>7, <1>d, <2>2 DEF DiskTypeOK, ProcTypeOK, WriteFile
  <2>4. acked' = acked \/ acked' = acked \cup {NewVersion(w)}
    BY <1>7 DEF WriteFile
  <2>5. DiskTypeOK'
    BY <1>d, <2>1, <2>2, <2>3, <2>4, DiskSame DEF DiskTypeOK
  <2>6. CASE UNCHANGED <<req, seen>> /\ Goto(w, "openFile") /\ file[w] < Len(Files)
             /\ file' = [file EXCEPT ![w] = file[w] + 1]
    <3>1. file' \in [Writers -> 1..Len(Files)]
      BY <2>6, <1>d, FilesLen DEF ProcTypeOK
    <3>2. ProcTypeOK'
      BY <1>a, <1>d, <2>1, <2>6, <3>1, GotoTypes DEF ProcTypeOK, WriterLabels
    <3>3. QED BY <2>1, <2>5, <3>2 DEF TypeOK
  <2>7. CASE Leave(w)
    <3>1. ProcTypeOK'
      BY <1>c, <1>d, <2>1, <2>7, LeaveTypes
    <3>2. QED BY <2>1, <2>5, <3>1 DEF TypeOK
  <2>8. QED BY <1>7, <2>6, <2>7 DEF WriteFile
<1>8. ASSUME NEW r \in Readers, ReaderStep(r) PROVE TypeOK'
  <2>1. UNCHANGED <<objects, torn, ref, projections, req, file, begun, crashes, acked>>
    BY <1>8 DEF ReaderStep, ReaderReadRef, ReaderGetVersion, disk
  <2>2. seen' \in [Processes -> SUBSET objects']
    BY <1>8, <1>b, <1>d, <2>1
       DEF ProcTypeOK, DiskTypeOK, ReaderStep, ReaderReadRef, ReaderGetVersion
  <2>3. pc' = pc \/ \E label \in {"idle", "getHead"} : Goto(r, label)
    BY <1>8 DEF ReaderStep, ReaderReadRef, ReaderGetVersion
  <2>4. ProcTypeOK'
    BY <1>b, <1>d, <2>1, <2>2, <2>3, GotoTypes DEF ProcTypeOK, WriterLabels
  <2>5. answer' \in [Readers -> {"none", "no such recipe", "recipe", "error"}]
    BY <1>8 DEF ReaderStep, ReaderReadRef, ReaderGetVersion, TypeOK
  <2>6. QED BY <1>d, <2>1, <2>4, <2>5 DEF TypeOK, DiskTypeOK
<1>9. CASE UNCHANGED vars
  BY <1>9, <1>d DEF vars, TypeOK, DiskTypeOK, ProcTypeOK
<1>10. QED
  BY <1>1, <1>2, <1>3, <1>4, <1>5, <1>6, <1>7, <1>8, <1>9 DEF Next, WriterStep

-----------------------------------------------------------------------------
(* A step of one writer leaves the locals of every other process alone.     *)
LEMMA OthersKept == ASSUME TypeOK, NEW w \in Writers,
                           BeginCommit(w) \/ WriterStep(w) \/ Crash(w),
                           NEW p \in Processes, p # w
                    PROVE  /\ pc'[p] = pc[p] /\ seen'[p] = seen[p]
                           /\ p \in Writers => req'[p] = req[p] /\ NewVersion(p)' = NewVersion(p)
<1>1. pc'[p] = pc[p]
  BY DEF TypeOK, ProcTypeOK, BeginCommit, WriterStep, Crash, ReadHeadRef, GetHeadUnchanged,
         GetHeadChanged, GetHeadRaises, OpenVersion, WriteVersion, OpenRef, WriteRef,
         GetProjected, GetProjectedRaises, OpenFile, WriteFile, Goto, Leave
<1>2. seen'[p] = seen[p]
  BY DEF TypeOK, ProcTypeOK, BeginCommit, WriterStep, Crash, ReadHeadRef, GetHeadUnchanged,
         GetHeadChanged, GetHeadRaises, OpenVersion, WriteVersion, OpenRef, WriteRef,
         GetProjected, GetProjectedRaises, OpenFile, WriteFile, Leave
<1>3. p \in Writers => req'[p] = req[p]
  BY DEF TypeOK, ProcTypeOK, BeginCommit, WriterStep, Crash, ReadHeadRef, GetHeadUnchanged,
         GetHeadChanged, GetHeadRaises, OpenVersion, WriteVersion, OpenRef, WriteRef,
         GetProjected, GetProjectedRaises, OpenFile, WriteFile, Leave
<1>4. QED BY <1>1, <1>2, <1>3 DEF NewVersion

(* A step that keeps a writer's request and the head it read keeps the      *)
(* record it is committing.                                                 *)
LEMMA NewVersionKept == ASSUME NEW w \in Writers, UNCHANGED <<req, seen>>
                        PROVE  NewVersion(w)' = NewVersion(w)
BY DEF NewVersion

(* The part of Closed that is about one writer.                             *)
OwnClosed(w) ==
  /\ pc[w] \in AfterOpen => NewVersion(w) \in objects
  /\ pc[w] \in AfterOpen \cup {"openVersion"} => \A v \in seen[w] : v.content # req[w].content

(* It survives the steps of others, which never remove a record.            *)
LEMMA OthersClosed == ASSUME TypeOK, NEW w \in Writers,
                             BeginCommit(w) \/ WriterStep(w) \/ Crash(w),
                             NEW x \in Writers, x # w, OwnClosed(x), objects \subseteq objects'
                      PROVE  OwnClosed(x)'
BY OthersKept DEF OwnClosed, Processes

LEMMA ClosedStep == ASSUME Closed, [Next]_vars PROVE Closed'
<1>a. TypeOK /\ TypeOK'
  BY TypeStep DEF Closed
<1>b. LineageStored /\ NoVersionRepeatsItsParent /\ \A w \in Writers : OwnClosed(w)
  BY DEF Closed, OwnClosed
<1>c. SUFFICES LineageStored' /\ NoVersionRepeatsItsParent' /\ \A w \in Writers : OwnClosed(w)'
  BY <1>a DEF Closed, OwnClosed
<1>d. pc \in [Processes -> WriterLabels] /\ seen \in [Processes -> SUBSET objects]
      /\ req \in [Writers -> [content : Contents, stamp : Nat]] /\ Writers \subseteq Processes
  BY <1>a DEF TypeOK, ProcTypeOK, Processes
<1>1. ASSUME NEW w \in Writers, BeginCommit(w) \/ WriterStep(w) \/ Crash(w), objects' = objects,
             ref' \subseteq objects, OwnClosed(w)'
      PROVE  LineageStored' /\ NoVersionRepeatsItsParent' /\ \A x \in Writers : OwnClosed(x)'
  <2>1. LineageStored' /\ NoVersionRepeatsItsParent'
    BY <1>1, <1>b DEF LineageStored, NoVersionRepeatsItsParent
  <2>2. \A x \in Writers : OwnClosed(x)'
    BY <1>1, <1>a, <1>b, OthersClosed
  <2>3. QED BY <2>1, <2>2
<1>2. ref \subseteq objects
  BY <1>b DEF LineageStored
<1>3. ASSUME NEW w \in Writers, BeginCommit(w)
      PROVE  objects' = objects /\ ref' = ref /\ OwnClosed(w)'
  BY <1>3, <1>d DEF BeginCommit, disk, Goto, OwnClosed, AfterOpen
<1>4. ASSUME NEW w \in Writers, ReadHeadRef(w)
      PROVE  objects' = objects /\ ref' = ref /\ OwnClosed(w)'
  BY <1>4, <1>d DEF ReadHeadRef, disk, Goto, OwnClosed, AfterOpen
<1>5. ASSUME NEW w \in Writers, GetHeadChanged(w)
      PROVE  objects' = objects /\ ref' = ref /\ OwnClosed(w)'
  BY <1>5, <1>d DEF GetHeadChanged, disk, Goto, OwnClosed, AfterOpen
<1>6. ASSUME NEW w \in Writers,
             \/ GetHeadUnchanged(w) \/ GetHeadRaises(w) \/ GetProjectedRaises(w) \/ Crash(w)
      PROVE  objects' = objects /\ ref' = ref /\ OwnClosed(w)'
  BY <1>6, <1>d DEF GetHeadUnchanged, GetHeadRaises, GetProjectedRaises, Crash, disk, Leave, Goto,
                    OwnClosed, AfterOpen
<1>7. ASSUME NEW w \in Writers,
             WriteVersion(w) \/ OpenRef(w) \/ WriteRef(w) \/ GetProjected(w) \/ OpenFile(w)
      PROVE  objects' = objects /\ ref' \subseteq objects /\ OwnClosed(w)'
  <2>1. UNCHANGED <<objects, req, seen>> /\ pc[w] \in AfterOpen /\ pc'[w] \in AfterOpen
    BY <1>7, <1>d
       DEF WriteVersion, OpenRef, WriteRef, GetProjected, OpenFile, disk, Goto, AfterOpen
  <2>2. OwnClosed(w)'
    BY <1>b, <2>1, NewVersionKept DEF OwnClosed
  <2>3. ref' \subseteq {NewVersion(w)} \cup ref
    BY <1>7 DEF WriteVersion, OpenRef, WriteRef, GetProjected, OpenFile, disk
  <2>4. QED BY <1>2, <1>b, <2>1, <2>2, <2>3 DEF OwnClosed
<1>8. ASSUME NEW w \in Writers, WriteFile(w)
      PROVE  objects' = objects /\ ref' = ref /\ OwnClosed(w)'
  <2>1. UNCHANGED <<objects, ref>> /\ pc[w] \in AfterOpen
    BY <1>8 DEF WriteFile, AfterOpen
  <2>2. CASE UNCHANGED <<req, seen>> /\ Goto(w, "openFile")
    BY <1>b, <1>d, <2>1, <2>2, NewVersionKept DEF OwnClosed, Goto
  <2>3. CASE Leave(w)
    BY <1>d, <2>1, <2>3 DEF OwnClosed, Leave, Goto, AfterOpen
  <2>4. QED BY <1>8, <2>1, <2>2, <2>3 DEF WriteFile
<1>9. ASSUME NEW w \in Writers, OpenVersion(w)
      PROVE  LineageStored' /\ NoVersionRepeatsItsParent' /\ \A x \in Writers : OwnClosed(x)'
  <2>1. /\ objects' = objects \cup {NewVersion(w)} /\ UNCHANGED <<ref, req, seen>>
        /\ pc[w] = "openVersion" /\ pc'[w] = "writeVersion"
    BY <1>9, <1>d DEF OpenVersion, Goto
  <2>2. NewVersion(w).parents \subseteq objects /\ NewVersion(w).content = req[w].content
        /\ NewVersion(w).parents = seen[w]
    BY <1>d DEF NewVersion, Version
  <2>3. LineageStored'
    BY <1>b, <2>1, <2>2 DEF LineageStored
  <2>4. \A v \in seen[w] : v.content # req[w].content
    BY <1>b, <2>1 DEF OwnClosed
  <2>5. NoVersionRepeatsItsParent'
    BY <1>b, <2>1, <2>2, <2>4 DEF NoVersionRepeatsItsParent
  <2>6. OwnClosed(w)'
    BY <2>1, <2>4, NewVersionKept DEF OwnClosed
  <2>7. \A x \in Writers : OwnClosed(x)'
    BY <1>9, <1>a, <1>b, <2>1, <2>6, OthersClosed DEF WriterStep
  <2>8. QED BY <2>3, <2>5, <2>7
<1>10. ASSUME NEW r \in Readers, ReaderStep(r)
       PROVE  LineageStored' /\ NoVersionRepeatsItsParent' /\ \A x \in Writers : OwnClosed(x)'
  <2>1. UNCHANGED <<objects, ref, req>>
    BY <1>10 DEF ReaderStep, ReaderReadRef, ReaderGetVersion, disk
  <2>2. \A x \in Writers : pc'[x] = pc[x] /\ seen'[x] = seen[x]
    BY <1>10, <1>d, ProcessesDiffer DEF ReaderStep, ReaderReadRef, ReaderGetVersion, Goto
  <2>3. \A x \in Writers : OwnClosed(x)'
    BY <1>b, <2>1, <2>2 DEF OwnClosed, NewVersion
  <2>4. QED BY <1>b, <2>1, <2>3 DEF LineageStored, NoVersionRepeatsItsParent
<1>11. CASE UNCHANGED vars
  BY <1>11, <1>b DEF vars, LineageStored, NoVersionRepeatsItsParent, OwnClosed, NewVersion
<1>12. ASSUME NEW w \in Writers, BeginCommit(w) \/ WriterStep(w) \/ Crash(w)
       PROVE  LineageStored' /\ NoVersionRepeatsItsParent' /\ \A x \in Writers : OwnClosed(x)'
  <2>1. CASE OpenVersion(w)
    BY <2>1, <1>9
  <2>2. CASE ~OpenVersion(w)
    <3>1. objects' = objects /\ ref' \subseteq objects /\ OwnClosed(w)'
      BY <1>12, <2>2, <1>2, <1>3, <1>4, <1>5, <1>6, <1>7, <1>8 DEF WriterStep
    <3>2. QED BY <1>12, <1>1, <3>1
  <2>3. QED BY <2>1, <2>2
<1>13. QED
  BY <1>10, <1>11, <1>12 DEF Next

-----------------------------------------------------------------------------
(* A record once readable stays readable: the only step that truncates a    *)
(* record opens one whose stamp no stored record carries.                   *)
LEMMA ReadableGrows == ASSUME Closed, StampsDiffer, [Next]_vars
                       PROVE  Readable \subseteq Readable'
<1>1. ASSUME NEW w \in Writers, OpenVersion(w) PROVE Readable \subseteq Readable'
  <2>1. NewVersion(w) \notin objects
    BY <1>1 DEF OpenVersion, StampsDiffer, BeforePut, NewVersion, Version
  <2>2. QED BY <1>1, <2>1 DEF OpenVersion, Readable
<1>2. ASSUME NEW w \in Writers, BeginCommit(w) \/ Crash(w) \/ WriterStep(w), ~OpenVersion(w)
      PROVE  objects' = objects /\ torn' \subseteq torn
  BY <1>2 DEF BeginCommit, WriterStep, Crash, ReadHeadRef, GetHeadUnchanged, disk,
         GetHeadChanged, GetHeadRaises, WriteVersion, OpenRef, WriteRef,
         GetProjected, GetProjectedRaises, OpenFile, WriteFile
<1>3. ASSUME NEW r \in Readers, ReaderStep(r) PROVE objects' = objects /\ torn' \subseteq torn
  BY <1>3 DEF ReaderStep, ReaderReadRef, ReaderGetVersion, disk
<1>4. CASE UNCHANGED vars
  BY <1>4 DEF vars, Readable
<1>5. QED BY <1>1, <1>2, <1>3, <1>4 DEF Next, Readable

(* Stamps keep telling the commits apart: a new one is larger than all.     *)
LEMMA StampsStep == ASSUME IInv, FreshStamps, [Next]_vars PROVE StampsDiffer'
<1>a. TypeOK /\ StampsDiffer
  BY DEF IInv, Closed, Intact
<1>b. /\ pc \in [Processes -> WriterLabels] /\ Writers \subseteq Processes
      /\ req \in [Writers -> [content : Contents, stamp : Nat]]
      /\ \A x \in Writers : req[x].stamp =< begun
      /\ \A v \in objects : v.stamp \in Nat /\ v.stamp =< begun
  BY <1>a DEF TypeOK, ProcTypeOK, DiskTypeOK, WellFormed, Processes
<1>c. begun \in Nat
  <2>1. begun \in 0..MaxCommits
    BY <1>a DEF TypeOK
  <2>2. QED BY <2>1, BoundsAreNat
<1>1. ASSUME NEW w \in Writers, BeginCommit(w) PROVE StampsDiffer'
  <2>1. PICK c \in Contents : req' = [req EXCEPT ![w] = [content |-> c, stamp |-> begun + 1]]
    BY <1>1 DEF BeginCommit
  <2>2. req'[w].stamp = begun + 1 /\ \A x \in Writers \ {w} : req'[x] = req[x]
    BY <1>b, <2>1
  <2>3. objects' = objects /\ pc'[w] = "readRef" /\ \A x \in Writers \ {w} : pc'[x] = pc[x]
    BY <1>1, <1>b DEF BeginCommit, disk, Goto
  <2>4. \A x \in Writers : req[x].stamp # begun + 1
    BY <1>b, <1>c
  <2>5. \A v \in objects : v.stamp # begun + 1
    BY <1>b, <1>c
  <2>6. QED BY <1>a, <2>2, <2>3, <2>4, <2>5 DEF StampsDiffer, BeforePut
<1>2. ASSUME NEW w \in Writers, WriterStep(w), UNCHANGED <<req, objects>>, pc[w] # "idle",
             pc'[w] \in BeforePut => pc[w] \in BeforePut
      PROVE  StampsDiffer'
  BY <1>2, <1>a, OthersKept DEF StampsDiffer, Processes, BeforePut
<1>3. ASSUME NEW w \in Writers, Leave(w), UNCHANGED objects PROVE StampsDiffer'
  <2>1. pc'[w] = "idle" /\ \A x \in Writers \ {w} : pc'[x] = pc[x] /\ req'[x] = req[x]
    BY <1>3, <1>b DEF Leave, Goto
  <2>2. QED BY <1>a, <1>3, <2>1 DEF StampsDiffer, BeforePut
<1>4. ASSUME NEW w \in Writers, OpenVersion(w) PROVE StampsDiffer'
  <2>1. /\ objects' = objects \cup {NewVersion(w)} /\ req' = req
        /\ pc[w] = "openVersion" /\ pc'[w] = "writeVersion"
        /\ \A x \in Writers \ {w} : pc'[x] = pc[x]
    BY <1>4, <1>b DEF OpenVersion, Goto
  <2>2. NewVersion(w).stamp = req[w].stamp
    BY DEF NewVersion, Version
  <2>3. QED BY <1>a, <2>1, <2>2 DEF StampsDiffer, BeforePut
<1>5. ASSUME NEW w \in Writers, WriterStep(w) \/ Crash(w) PROVE StampsDiffer'
  <2>1. CASE GetHeadUnchanged(w) \/ GetHeadRaises(w) \/ GetProjectedRaises(w) \/ Crash(w)
    BY <2>1, <1>3 DEF GetHeadUnchanged, GetHeadRaises, GetProjectedRaises, Crash, disk
  <2>2. CASE ReadHeadRef(w) \/ GetHeadChanged(w)
    BY <2>2, <1>2 DEF ReadHeadRef, GetHeadChanged, disk, BeforePut, WriterStep
  <2>3. CASE WriteVersion(w) \/ OpenRef(w) \/ WriteRef(w) \/ GetProjected(w) \/ OpenFile(w)
    <3>1. pc'[w] \notin BeforePut /\ pc[w] # "idle" /\ UNCHANGED <<req, objects>>
      BY <2>3, <1>b
         DEF WriteVersion, OpenRef, WriteRef, GetProjected, OpenFile, disk, BeforePut, Goto
    <3>2. QED BY <2>3, <3>1, <1>2 DEF WriterStep
  <2>4. CASE WriteFile(w)
    <3>1. CASE UNCHANGED req /\ Goto(w, "openFile")
      <4>1. pc'[w] \notin BeforePut /\ pc[w] # "idle" /\ UNCHANGED <<req, objects>>
        BY <2>4, <3>1, <1>b DEF WriteFile, BeforePut, Goto
      <4>2. QED BY <2>4, <4>1, <1>2 DEF WriterStep
    <3>2. CASE Leave(w)
      BY <2>4, <3>2, <1>3 DEF WriteFile
    <3>3. QED BY <2>4, <3>1, <3>2 DEF WriteFile
  <2>5. QED BY <1>5, <1>4, <2>1, <2>2, <2>3, <2>4 DEF WriterStep
<1>6. ASSUME NEW r \in Readers, ReaderStep(r) PROVE StampsDiffer'
  <2>1. UNCHANGED <<objects, req>> /\ \A x \in Writers : pc'[x] = pc[x]
    BY <1>6, <1>b, ProcessesDiffer DEF ReaderStep, ReaderReadRef, ReaderGetVersion, disk, Goto
  <2>2. QED BY <1>a, <2>1 DEF StampsDiffer
<1>7. CASE UNCHANGED vars
  BY <1>7, <1>a DEF vars, StampsDiffer
<1>8. QED BY <1>1, <1>5, <1>6, <1>7 DEF Next

LEMMA IntactStep == ASSUME IInv, FreshStamps, [Next]_vars PROVE Intact'
<1>a. Closed /\ TypeOK /\ Intact /\ StampsDiffer
  BY DEF IInv, Closed, Intact
<1>b. Readable \subseteq Readable'
  BY <1>a, ReadableGrows
<1>c. StampsDiffer'
  BY StampsStep
<1>d. /\ pc \in [Processes -> WriterLabels] /\ Writers \subseteq Processes
      /\ seen \in [Processes -> SUBSET objects] /\ Readers \subseteq Processes
      /\ answer \in [Readers -> {"none", "no such recipe", "recipe", "error"}]
  BY <1>a DEF TypeOK, ProcTypeOK, Processes
<1>e. /\ ref \subseteq Readable' /\ acked \subseteq Readable'
      /\ \A v \in objects : v.parents \subseteq Readable'
      /\ \A p \in Processes : seen[p] \subseteq Readable'
      /\ \A x \in Writers : pc[x] \in AfterPut => NewVersion(x) \in Readable'
  BY <1>a, <1>b DEF Intact
<1>1. ASSUME NEW w \in Writers, BeginCommit(w) \/ WriterStep(w) \/ Crash(w) PROVE Intact'
  <2>1. answer' = answer
    BY <1>1 DEF BeginCommit, WriterStep, Crash, ReadHeadRef, GetHeadUnchanged,
         GetHeadChanged, GetHeadRaises, OpenVersion, WriteVersion, OpenRef, WriteRef,
         GetProjected, GetProjectedRaises, OpenFile, WriteFile
  <2>2. ref' \subseteq Readable'
    <3>1. CASE WriteRef(w)
      BY <3>1, <1>e DEF WriteRef, AfterPut
    <3>2. CASE ~WriteRef(w)
      BY <1>1, <3>2, <1>e DEF BeginCommit, WriterStep, Crash, ReadHeadRef, GetHeadUnchanged,
         GetHeadChanged, GetHeadRaises, OpenVersion, WriteVersion, OpenRef, disk,
         GetProjected, GetProjectedRaises, OpenFile, WriteFile
    <3>3. QED BY <3>1, <3>2
  <2>3. acked' \subseteq Readable'
    <3>1. CASE GetHeadUnchanged(w)
      BY <3>1, <1>d, <1>e DEF GetHeadUnchanged
    <3>2. CASE WriteFile(w)
      BY <3>2, <1>e DEF WriteFile, AfterPut
    <3>3. CASE ~GetHeadUnchanged(w) /\ ~WriteFile(w)
      BY <1>1, <3>3, <1>e DEF BeginCommit, WriterStep, Crash, ReadHeadRef,
         GetHeadChanged, GetHeadRaises, OpenVersion, WriteVersion, OpenRef, WriteRef,
         GetProjected, GetProjectedRaises, OpenFile
    <3>4. QED BY <3>1, <3>2, <3>3
  <2>4. \A v \in objects' : v.parents \subseteq Readable'
    <3>1. CASE OpenVersion(w)
      <4>1. NewVersion(w).parents = seen[w]
        BY DEF NewVersion, Version
      <4>2. QED BY <3>1, <4>1, <1>d, <1>e DEF OpenVersion
    <3>2. CASE ~OpenVersion(w)
      BY <1>1, <3>2, <1>e DEF BeginCommit, WriterStep, Crash, ReadHeadRef, GetHeadUnchanged,
         GetHeadChanged, GetHeadRaises, WriteVersion, OpenRef, WriteRef, disk,
         GetProjected, GetProjectedRaises, OpenFile, WriteFile
    <3>3. QED BY <3>1, <3>2
  <2>5. seen'[w] \subseteq Readable'
    <3>1. CASE ReadHeadRef(w)
      BY <3>1, <1>d, <1>e DEF ReadHeadRef
    <3>2. CASE ~ReadHeadRef(w)
      <4>1. seen' = seen \/ Leave(w)
        BY <1>1, <3>2 DEF BeginCommit, WriterStep, Crash, GetHeadUnchanged,
         GetHeadChanged, GetHeadRaises, OpenVersion, WriteVersion, OpenRef, WriteRef,
         GetProjected, GetProjectedRaises, OpenFile, WriteFile
      <4>2. QED BY <4>1, <1>d, <1>e DEF Leave
    <3>3. QED BY <3>1, <3>2
  <2>6. pc'[w] \in AfterPut => NewVersion(w)' \in Readable'
    <3>1. CASE WriteVersion(w)
      <4>1. NewVersion(w) \in objects
        BY <1>a, <3>1 DEF Closed, WriteVersion, AfterOpen
      <4>2. objects' = objects /\ torn' = torn \ {NewVersion(w)} /\ UNCHANGED <<req, seen>>
        BY <3>1 DEF WriteVersion
      <4>3. QED BY <4>1, <4>2, NewVersionKept DEF Readable
    <3>2. CASE OpenRef(w) \/ WriteRef(w) \/ GetProjected(w) \/ OpenFile(w)
      <4>1. pc[w] \in AfterPut /\ UNCHANGED <<req, seen>>
        BY <3>2 DEF OpenRef, WriteRef, GetProjected, OpenFile, AfterPut
      <4>2. QED BY <4>1, <1>e, NewVersionKept
    <3>3. CASE WriteFile(w)
      <4>1. pc[w] \in AfterPut /\ (UNCHANGED <<req, seen>> \/ Leave(w))
        BY <3>3 DEF WriteFile, AfterPut
      <4>2. QED BY <4>1, <1>d, <1>e, NewVersionKept DEF Leave, Goto, AfterPut
    <3>4. CASE BeginCommit(w) \/ Crash(w) \/ ReadHeadRef(w) \/ GetHeadUnchanged(w)
               \/ GetHeadChanged(w) \/ GetHeadRaises(w) \/ OpenVersion(w) \/ GetProjectedRaises(w)
      BY <3>4, <1>d DEF BeginCommit, Crash, ReadHeadRef, GetHeadUnchanged, GetHeadChanged,
         GetHeadRaises, OpenVersion, GetProjectedRaises, Leave, Goto, AfterPut
    <3>5. QED BY <1>1, <3>1, <3>2, <3>3, <3>4 DEF WriterStep
  <2>7. \A p \in Processes : seen'[p] \subseteq Readable'
    BY <1>1, <1>a, <1>e, <2>5, OthersKept
  <2>8. \A x \in Writers : pc'[x] \in AfterPut => NewVersion(x)' \in Readable'
    BY <1>1, <1>a, <1>d, <1>e, <2>6, OthersKept
  <2>9. QED BY <1>a, <1>c, <2>1, <2>2, <2>3, <2>4, <2>7, <2>8 DEF Intact
<1>2. ASSUME NEW r \in Readers, ReaderStep(r) PROVE Intact'
  <2>1. UNCHANGED <<objects, torn, ref, req, acked>>
    BY <1>2 DEF ReaderStep, ReaderReadRef, ReaderGetVersion, disk
  <2>2. \A x \in Writers : pc'[x] = pc[x] /\ seen'[x] = seen[x]
    BY <1>2, <1>d, ProcessesDiffer DEF ReaderStep, ReaderReadRef, ReaderGetVersion, Goto
  <2>3. \A x \in Writers : NewVersion(x)' = NewVersion(x)
    BY <2>1, <2>2 DEF NewVersion
  <2>4. \A p \in Processes : seen'[p] \subseteq Readable'
    BY <1>2, <1>d, <1>e DEF ReaderStep, ReaderReadRef, ReaderGetVersion
  <2>5. \A q \in Readers : answer'[q] # "error"
    <3>1. seen[r] \subseteq Readable
      BY <1>a, <1>d DEF Intact
    <3>2. QED BY <1>2, <1>a, <1>d, <3>1
                 DEF Intact, ReaderStep, ReaderReadRef, ReaderGetVersion
  <2>6. QED BY <1>c, <1>e, <2>1, <2>2, <2>3, <2>4, <2>5 DEF Intact
<1>3. CASE UNCHANGED vars
  BY <1>3, <1>a, <1>c, <1>e DEF vars, Intact, NewVersion
<1>4. QED BY <1>1, <1>2, <1>3 DEF Next

-----------------------------------------------------------------------------
LEMMA Inductive == Spec => []IInv
<1>1. IInv /\ [Next]_vars => IInv'
  BY ClosedStep, IntactStep DEF IInv
<1>2. QED BY InitIInv, <1>1, PTL DEF Spec

(* Every variable keeps its type: every file names well-formed versions,    *)
(* every process is at one of commit's or head's calls.                     *)
THEOREM TypeCorrect == Spec => []TypeOK
BY Inductive, PTL DEF IInv, Closed

(* For any number of writers, commits and crashes, sharing stamps or not:   *)
(* the ref and all parent pointers name versions whose files exist.         *)
THEOREM LineageIsAlwaysStored == Spec => []LineageStored
BY Inductive, PTL DEF IInv, Closed

(* The no-op rule holds of every stored version, orphans included.          *)
THEOREM NoOpRuleHolds == Spec => []NoVersionRepeatsItsParent
BY Inductive, PTL DEF IInv, Closed

(* If no two commits carry the same stamp, the ref, every parent pointer    *)
(* and every version ever returned lead to a record that validates.         *)
THEOREM LineageIsAlwaysReadable == Spec => []LineageReadable
<1>1. IInv => LineageReadable
  BY DEF IInv, Intact, LineageReadable
<1>2. QED BY Inductive, <1>1, PTL

(* If no two commits carry the same stamp, a reader that found a ref never  *)
(* fails to load the record it names, whoever writes meanwhile.             *)
THEOREM ReadersAreServed == Spec => []ReadersNeverFail
<1>1. IInv => ReadersNeverFail
  BY DEF IInv, Intact, ReadersNeverFail
<1>2. QED BY Inductive, <1>1, PTL

(* If no two commits carry the same stamp, version records are immutable.   *)
THEOREM RecordsAreImmutable == ASSUME FreshStamps PROVE Spec => RecordsImmutable
<1>1. IInv /\ [Next]_vars => [Readable \subseteq Readable']_vars
  BY ReadableGrows DEF IInv, Intact
<1>2. QED BY Inductive, <1>1, PTL DEF Spec, RecordsImmutable

-----------------------------------------------------------------------------
(* One writer that is not killed implements the atomic store, for every    *)
(* set of contents, any number of commits and any stamps.                  *)
(*                                                                         *)
(* The invariant says how far the one commit under way has changed what    *)
(* others see: the ref is what the writer read until it is truncated, the  *)
(* new record is nobody's parent until the ref names it, and the           *)
(* projections written so far hold the new content.                        *)

Alone == OneWriter /\ MaxCrashes = 0

BeforeMove == {"idle", "readRef", "getHead", "openVersion", "writeVersion", "openRef"}
Putting    == {"writeVersion", "openRef", "writeRef"}
Projecting == {"getProjected", "openFile", "writeFile"}

(* The ref: what the writer read, then empty, then the new version.        *)
RefFollows(w) ==
  /\ pc[w] \in {"getHead", "openVersion", "writeVersion", "openRef"} => seen[w] = ref
  /\ pc[w] = "writeRef" => ref = {}
  /\ pc[w] \in Projecting => ref = {NewVersion(w)}

(* HEAD has no child; the record being put has none either.                *)
NoChild(w) ==
  /\ pc[w] \notin Putting => \A v \in objects : v.parents # ref
  /\ pc[w] \in Putting => \A v \in objects : NewVersion(w) \notin v.parents

LinearOnDisk == \A u, v \in objects : u.parents = v.parents => u = v

(* Only the record just opened is torn.                                    *)
OneTorn(w) == torn = IF pc[w] = "writeVersion" THEN {NewVersion(w)} ELSE {}

Stamped(w) == pc[w] # "idle" => req[w].stamp >= 1

RefKnown(w) == acked # {} /\ pc[w] # "writeRef" => ref # {}

(* Projections show HEAD, or the files written so far show the new content. *)
ProjectedSoFar(w) ==
  /\ pc[w] \in BeforeMove => \A v \in ref : \A f \in DOMAIN projections : projections[f] = {v.content}
  /\ pc[w] \in {"openFile", "writeFile"} => \A f \in 1..(file[w] - 1) : projections[f] = {req[w].content}
  /\ pc[w] = "writeFile" => projections[file[w]] = {}

Solo(w) ==
  /\ RefFollows(w) /\ NoChild(w) /\ LinearOnDisk /\ OneTorn(w)
  /\ Stamped(w) /\ RefKnown(w) /\ ProjectedSoFar(w)

SoloInv == Closed /\ \A w \in Writers : Solo(w)

-----------------------------------------------------------------------------
(* The ranges of what belongs to a writer.                                 *)
LEMMA WriterTypes ==
  ASSUME TypeOK, NEW w \in Writers
  PROVE  /\ w \in Processes
         /\ pc \in [Processes -> WriterLabels] /\ seen \in [Processes -> SUBSET objects]
         /\ req \in [Writers -> [content : Contents, stamp : Nat]]
         /\ file \in [Writers -> 1..Len(Files)] /\ Len(Files) \in Nat
         /\ projections \in [1..Len(Files) -> SUBSET Contents]
         /\ NewVersion(w).parents = seen[w] /\ NewVersion(w).content = req[w].content
BY FilesLen DEF TypeOK, DiskTypeOK, ProcTypeOK, Processes, NewVersion, Version

LEMMA SoloInit == ASSUME Init, NEW w \in Writers PROVE Solo(w)
<1>1. /\ pc[w] = "idle" /\ objects = {} /\ torn = {} /\ ref = {} /\ acked = {}
  BY DEF Init, Processes
<1> QED
  BY <1>1 DEF Solo, RefFollows, NoChild, LinearOnDisk, OneTorn, Stamped, RefKnown, ProjectedSoFar,
              Putting, Projecting, BeforeMove

(* Steps that touch neither the records nor the ref: the parts of Solo that *)
(* only depend on the label.                                               *)
LEMMA BeginSolo ==
  ASSUME Closed, NEW w \in Writers, Solo(w), BeginCommit(w) PROVE Solo(w)'
<1>1. begun \in Nat
  <2>1. begun \in 0..MaxCommits
    BY DEF Closed, TypeOK
  <2> QED
    BY <2>1, BoundsAreNat
<1>2. /\ pc[w] = "idle" /\ pc'[w] = "readRef" /\ UNCHANGED <<objects, torn, ref, projections, acked>>
      /\ req'[w].stamp >= 1
  BY <1>1, WriterTypes DEF Closed, BeginCommit, disk, Goto
<1> QED
  BY <1>2 DEF Solo, RefFollows, NoChild, LinearOnDisk, OneTorn, Stamped, RefKnown, ProjectedSoFar,
              Putting, Projecting, BeforeMove

LEMMA ReadSolo ==
  ASSUME Closed, NEW w \in Writers, Solo(w), ReadHeadRef(w) \/ GetHeadChanged(w) PROVE Solo(w)'
<1>1. /\ pc[w] \in {"readRef", "getHead"} /\ pc'[w] \in {"getHead", "openVersion"}
      /\ UNCHANGED <<objects, torn, ref, projections, acked, req>>
      /\ seen'[w] = ref
  BY WriterTypes DEF Closed, ReadHeadRef, GetHeadChanged, disk, Goto, Solo, RefFollows
<1> QED
  BY <1>1 DEF Solo, RefFollows, NoChild, LinearOnDisk, OneTorn, Stamped, RefKnown, ProjectedSoFar,
              Putting, Projecting, BeforeMove

(* A record cannot fail to load: GetHeadRaises and GetProjectedRaises do    *)
(* not happen to a writer that is alone.                                   *)
LEMMA NothingRaises ==
  ASSUME Closed, NEW w \in Writers, Solo(w)
  PROVE  ~GetHeadRaises(w) /\ ~GetProjectedRaises(w)
<1>1. pc[w] # "writeVersion" => Readable = objects
  BY DEF Solo, OneTorn, Readable
<1>2. seen[w] \subseteq objects
  BY WriterTypes DEF Closed
<1>3. pc[w] = "getProjected" => NewVersion(w) \in objects
  BY DEF Closed, AfterOpen
<1> QED
  BY <1>1, <1>2, <1>3 DEF GetHeadRaises, GetProjectedRaises

LEMMA NoOpSolo ==
  ASSUME Closed, NEW w \in Writers, Solo(w), GetHeadUnchanged(w) PROVE Solo(w)'
<1>1. /\ pc[w] = "getHead" /\ pc'[w] = "idle"
      /\ UNCHANGED <<objects, torn, ref, projections>>
      /\ acked' = acked \cup seen[w] /\ seen[w] # {}
  BY WriterTypes DEF Closed, GetHeadUnchanged, disk, Goto, Leave
<1>2. ref # {}
  BY <1>1 DEF Solo, RefFollows
<1> QED
  BY <1>1, <1>2 DEF Solo, RefFollows, NoChild, LinearOnDisk, OneTorn, Stamped, RefKnown, ProjectedSoFar,
              Putting, Projecting, BeforeMove

(* Opening the record: it is new, and nobody's parent.                     *)
LEMMA OpenVersionSolo ==
  ASSUME Closed, NEW w \in Writers, Solo(w), OpenVersion(w)
  PROVE  Solo(w)' /\ NewVersion(w) \notin objects
<1> DEFINE new == NewVersion(w)
<1>1. /\ pc[w] = "openVersion" /\ pc'[w] = "writeVersion"
      /\ UNCHANGED <<ref, projections, acked, req, seen>>
      /\ objects' = objects \cup {new} /\ torn' = torn \cup {new}
  BY WriterTypes DEF Closed, OpenVersion, Goto
<1>2. new' = new /\ new.parents = seen[w] /\ seen[w] = ref /\ seen[w] \subseteq objects
  BY <1>1, WriterTypes, NewVersionKept DEF Closed, Solo, RefFollows
<1>3. \A v \in objects : v.parents # ref
  BY <1>1 DEF Solo, NoChild, Putting
<1>4. new \notin objects
  BY <1>2, <1>3
<1>5. \A v \in objects' : new \notin v.parents
  BY <1>1, <1>2, <1>4 DEF Closed, LineageStored
<1>6. NoChild(w)'
  BY <1>1, <1>2, <1>5 DEF NoChild, Putting
<1>7. LinearOnDisk'
  BY <1>1, <1>2, <1>3 DEF Solo, LinearOnDisk
<1>8. OneTorn(w)'
  BY <1>1, <1>2 DEF Solo, OneTorn
<1>9. RefFollows(w)' /\ Stamped(w)' /\ RefKnown(w)' /\ ProjectedSoFar(w)'
  BY <1>1, <1>2 DEF Solo, RefFollows, Stamped, RefKnown, ProjectedSoFar, Putting, Projecting, BeforeMove
<1> QED
  BY <1>4, <1>6, <1>7, <1>8, <1>9 DEF Solo

LEMMA WriteVersionSolo ==
  ASSUME Closed, NEW w \in Writers, Solo(w), WriteVersion(w) \/ OpenRef(w) PROVE Solo(w)'
<1>1. /\ pc[w] \in {"writeVersion", "openRef"}
      /\ UNCHANGED <<objects, projections, acked, req, seen>>
      /\ torn' = {}
      /\ \/ pc'[w] = "openRef" /\ ref' = ref
         \/ pc'[w] = "writeRef" /\ ref' = {}
  BY WriterTypes DEF Closed, WriteVersion, OpenRef, Goto, Solo, OneTorn
<1>2. NewVersion(w)' = NewVersion(w)
  BY <1>1, NewVersionKept
<1> QED
  BY <1>1, <1>2 DEF Solo, RefFollows, NoChild, LinearOnDisk, OneTorn, Stamped, RefKnown, ProjectedSoFar,
              Putting, Projecting, BeforeMove

(* The ref moves to a version that is nobody's parent.                     *)
LEMMA WriteRefSolo ==
  ASSUME Closed, NEW w \in Writers, Solo(w), WriteRef(w) PROVE Solo(w)'
<1>1. /\ pc[w] = "writeRef" /\ pc'[w] = "getProjected" /\ ref' = {NewVersion(w)}
      /\ UNCHANGED <<objects, torn, projections, acked, req, seen>>
  BY WriterTypes DEF Closed, WriteRef, Goto
<1>2. NewVersion(w)' = NewVersion(w)
  BY <1>1, NewVersionKept
<1>3. \A v \in objects : v.parents # {NewVersion(w)}
  BY <1>1 DEF Solo, NoChild, Putting
<1> QED
  BY <1>1, <1>2, <1>3 DEF Solo, RefFollows, NoChild, LinearOnDisk, OneTorn, Stamped, RefKnown, ProjectedSoFar,
              Putting, Projecting, BeforeMove

LEMMA ProjectSolo ==
  ASSUME Closed, NEW w \in Writers, Solo(w), GetProjected(w) \/ OpenFile(w) PROVE Solo(w)'
<1>1. /\ pc[w] \in {"getProjected", "openFile"} /\ pc'[w] \in {"openFile", "writeFile"}
      /\ UNCHANGED <<objects, torn, ref, acked, req, seen>>
      /\ pc[w] = "getProjected" => pc'[w] = "openFile" /\ file'[w] = 1 /\ projections' = projections
      /\ pc[w] = "openFile" => /\ pc'[w] = "writeFile" /\ file' = file
                               /\ projections' = [projections EXCEPT ![file[w]] = {}]
  BY WriterTypes DEF Closed, GetProjected, OpenFile, Goto, disk
<1>2. NewVersion(w)' = NewVersion(w)
  BY <1>1, NewVersionKept
<1>3. ProjectedSoFar(w)'
  <2>1. /\ file \in [Writers -> 1..Len(Files)] /\ Len(Files) \in Nat
        /\ projections \in [1..Len(Files) -> SUBSET Contents]
    BY WriterTypes DEF Closed
  <2>2. CASE pc[w] = "getProjected"
    BY <1>1, <2>2 DEF ProjectedSoFar, BeforeMove
  <2>3. CASE pc[w] = "openFile"
    <3>1. projections'[file[w]] = {} /\ \A f \in 1..(file[w] - 1) : projections'[f] = projections[f]
      BY <1>1, <2>1, <2>3
    <3> QED
      BY <1>1, <2>3, <3>1 DEF Solo, ProjectedSoFar, BeforeMove
  <2> QED
    BY <1>1, <2>2, <2>3
<1> QED
  BY <1>1, <1>2, <1>3 DEF Solo, RefFollows, NoChild, LinearOnDisk, OneTorn, Stamped, RefKnown,
              Putting, Projecting

LEMMA WriteFileSolo ==
  ASSUME Closed, NEW w \in Writers, Solo(w), WriteFile(w) PROVE Solo(w)'
<1> DEFINE f == file[w]
<1>1. /\ pc[w] = "writeFile" /\ UNCHANGED <<objects, torn, ref>>
      /\ ref = {NewVersion(w)} /\ NewVersion(w).content = req[w].content
      /\ projections[f] = {}
  BY WriterTypes DEF Closed, WriteFile, Solo, RefFollows, ProjectedSoFar, Projecting
<1>2. f \in 1..Len(Files) /\ Len(Files) \in Nat /\ DOMAIN projections = 1..Len(Files)
  BY WriterTypes DEF Closed
<1>3. projections' = [projections EXCEPT ![f] = {req[w].content}]
  <2>1. PICK rest \in {{}, projections[f]} :
          projections' = [projections EXCEPT ![f] = {req[w].content} \cup rest]
    BY DEF WriteFile
  <2> QED
    BY <1>1, <2>1
<1>4. \A g \in 1..f : projections'[g] = {req[w].content}
  <2>1. \A g \in 1..(f - 1) : projections[g] = {req[w].content}
    BY <1>1 DEF Solo, ProjectedSoFar
  <2> QED
    BY <1>2, <1>3, <2>1
<1>5. CASE f < Len(Files) /\ file' = [file EXCEPT ![w] = f + 1] /\ Goto(w, "openFile")
           /\ UNCHANGED <<acked, req, seen>>
  <2>1. pc'[w] = "openFile" /\ file'[w] = f + 1
    BY <1>5, WriterTypes DEF Closed, Goto
  <2>2. NewVersion(w)' = NewVersion(w)
    BY <1>5, NewVersionKept
  <2>3. ProjectedSoFar(w)'
    <3>1. file'[w] - 1 = f
      BY <1>2, <2>1
    <3> QED
      BY <1>4, <1>5, <2>1, <3>1 DEF ProjectedSoFar, BeforeMove
  <2> QED
    BY <1>1, <1>5, <2>1, <2>2, <2>3 DEF Solo, RefFollows, NoChild, LinearOnDisk, OneTorn, Stamped,
       RefKnown, Putting, Projecting
<1>6. CASE f = Len(Files) /\ acked' = acked \cup {NewVersion(w)} /\ Leave(w)
  <2>1. pc'[w] = "idle"
    BY <1>6, WriterTypes DEF Closed, Leave, Goto
  <2>2. ProjectedSoFar(w)'
    <3>1. \A g \in DOMAIN projections' : projections'[g] = {req[w].content}
      BY <1>2, <1>3, <1>4, <1>6
    <3> QED
      BY <1>1, <2>1, <3>1 DEF ProjectedSoFar
  <2> QED
    BY <1>1, <1>6, <2>1, <2>2 DEF Solo, RefFollows, NoChild, LinearOnDisk, OneTorn, Stamped,
       RefKnown, Putting, Projecting
<1> QED
  BY <1>5, <1>6 DEF WriteFile

(* Readers change nothing that a writer is concerned with.                 *)
LEMMA ReaderSolo ==
  ASSUME Closed, NEW w \in Writers, Solo(w),
         (\E r \in Readers : ReaderStep(r)) \/ UNCHANGED vars
  PROVE  /\ Solo(w)' /\ pc'[w] = pc[w] /\ seen'[w] = seen[w] /\ NewVersion(w)' = NewVersion(w)
         /\ UNCHANGED <<objects, torn, ref, projections, acked, req, file>>
<1>1. UNCHANGED <<objects, torn, ref, projections, acked, req, file>>
  BY DEF ReaderStep, ReaderReadRef, ReaderGetVersion, disk, vars
<1>2. pc'[w] = pc[w] /\ seen'[w] = seen[w]
  BY WriterTypes, ProcessesDiffer, ZenonT(60) DEF Closed, ReaderStep, ReaderReadRef, ReaderGetVersion, Goto, vars
<1>3. NewVersion(w)' = NewVersion(w)
  BY <1>1, <1>2 DEF NewVersion
<1> QED
  BY <1>1, <1>2, <1>3 DEF Solo, RefFollows, NoChild, LinearOnDisk, OneTorn, Stamped, RefKnown,
     ProjectedSoFar, Putting, Projecting, BeforeMove

LEMMA SoloStep ==
  ASSUME Alone, SoloInv, [Next]_vars PROVE SoloInv'
<1>1. Closed' /\ Closed
  BY ClosedStep DEF SoloInv
<1>2. PICK w : Writers = {w}
  BY DEF Alone, OneWriter
<1>3. Solo(w) /\ w \in Writers
  BY <1>2 DEF SoloInv
<1>4. ~Crash(w)
  <2>1. crashes \in 0..MaxCrashes /\ MaxCrashes = 0
    BY <1>1 DEF Closed, TypeOK, Alone
  <2> QED
    BY <2>1 DEF Crash
<1>5. ASSUME BeginCommit(w) \/ WriterStep(w) PROVE Solo(w)'
  BY <1>1, <1>3, <1>5, BeginSolo, ReadSolo, NothingRaises, NoOpSolo, OpenVersionSolo,
     WriteVersionSolo, WriteRefSolo, ProjectSolo, WriteFileSolo DEF WriterStep
<1>6. ASSUME (\E r \in Readers : ReaderStep(r)) \/ UNCHANGED vars PROVE Solo(w)'
  BY <1>1, <1>3, <1>6, ReaderSolo
<1>7. Solo(w)'
  BY <1>2, <1>4, <1>5, <1>6 DEF Next
<1> QED
  BY <1>1, <1>2, <1>7 DEF SoloInv

LEMMA SoloAlways == ASSUME Alone PROVE Spec => []SoloInv
<1>1. Init => SoloInv
  BY InitIInv, SoloInit DEF IInv, SoloInv
<1>2. SoloInv /\ [Next]_vars => SoloInv'
  BY SoloStep
<1> QED
  BY <1>1, <1>2, PTL DEF Spec

-----------------------------------------------------------------------------
(* What the atomic store sees of a state with one writer.                  *)
AtomicVersions == objects \ Unpublished
AtomicHead     == ref \cup HeadBeforeCommit

LEMMA OnlyWriter ==
  ASSUME NEW w, Writers = {w}, NEW p
  PROVE  /\ {x \in Writers : p[x] \in {"writeVersion", "openRef", "writeRef"}} =
              IF p[w] \in Putting THEN {w} ELSE {}
         /\ {x \in Writers : p[x] = "writeRef"} = IF p[w] = "writeRef" THEN {w} ELSE {}
<1>1. {x \in Writers : p[x] \in {"writeVersion", "openRef", "writeRef"}} =
        IF p[w] \in Putting THEN {w} ELSE {}
  <2>1. CASE p[w] \in Putting
    BY <2>1 DEF Putting
  <2>2. CASE p[w] \notin Putting
    BY <2>2 DEF Putting
  <2> QED
    BY <2>1, <2>2
<1>2. {x \in Writers : p[x] = "writeRef"} = IF p[w] = "writeRef" THEN {w} ELSE {}
  <2>1. CASE p[w] = "writeRef"
    BY <2>1
  <2>2. CASE p[w] # "writeRef"
    BY <2>2
  <2> QED
    BY <2>1, <2>2
<1> QED
  BY <1>1, <1>2

LEMMA AtomicView ==
  ASSUME NEW w, Writers = {w}
  PROVE  /\ AtomicVersions = objects \ (IF pc[w] \in Putting THEN {NewVersion(w)} ELSE {})
         /\ AtomicHead = ref \cup (IF pc[w] = "writeRef" THEN seen[w] ELSE {})
         /\ AtomicVersions' = objects' \ (IF pc'[w] \in Putting THEN {NewVersion(w)'} ELSE {})
         /\ AtomicHead' = ref' \cup (IF pc'[w] = "writeRef" THEN seen'[w] ELSE {})
<1>1. Unpublished = IF pc[w] \in Putting THEN {NewVersion(w)} ELSE {}
  BY OnlyWriter DEF Unpublished
<1>2. HeadBeforeCommit = IF pc[w] = "writeRef" THEN seen[w] ELSE {}
  BY OnlyWriter DEF HeadBeforeCommit
<1>3. Unpublished' = IF pc'[w] \in Putting THEN {NewVersion(w)'} ELSE {}
  BY OnlyWriter DEF Unpublished
<1>4. HeadBeforeCommit' = IF pc'[w] = "writeRef" THEN seen'[w] ELSE {}
  BY OnlyWriter DEF HeadBeforeCommit
<1> QED
  BY <1>1, <1>2, <1>3, <1>4 DEF AtomicVersions, AtomicHead

(* Writing the ref is the commit; every other step is a stutter.           *)
LEMMA StepRefines ==
  ASSUME Alone, SoloInv, [Next]_vars
  PROVE  \/ AtomicVersions' = AtomicVersions /\ AtomicHead' = AtomicHead
         \/ \E w \in Writers :
              /\ req[w].stamp \in 1..MaxCommits /\ req[w].content \in Contents
              /\ \A v \in AtomicHead : v.content # req[w].content
              /\ NewVersion(w) = Version(req[w].content, AtomicHead, req[w].stamp)
              /\ AtomicVersions' = AtomicVersions \cup {NewVersion(w)}
              /\ AtomicHead' = {NewVersion(w)}
<1>1. PICK w : Writers = {w}
  BY DEF Alone, OneWriter
<1>2. Closed /\ Solo(w) /\ w \in Writers
  BY <1>1 DEF SoloInv
<1>3. /\ AtomicVersions = objects \ (IF pc[w] \in Putting THEN {NewVersion(w)} ELSE {})
      /\ AtomicHead = ref \cup (IF pc[w] = "writeRef" THEN seen[w] ELSE {})
  BY <1>1, AtomicView
<1>4. /\ AtomicVersions' = objects' \ (IF pc'[w] \in Putting THEN {NewVersion(w)'} ELSE {})
      /\ AtomicHead' = ref' \cup (IF pc'[w] = "writeRef" THEN seen'[w] ELSE {})
  BY <1>1, AtomicView
<1>5. CASE \/ BeginCommit(w) \/ ReadHeadRef(w) \/ GetHeadChanged(w) \/ GetHeadUnchanged(w)
           \/ GetProjected(w) \/ OpenFile(w) \/ WriteFile(w)
  <2>1. UNCHANGED <<objects, ref>> /\ pc[w] \notin Putting /\ pc'[w] \notin Putting
    BY <1>2, <1>5, WriterTypes DEF Closed, BeginCommit, ReadHeadRef, GetHeadChanged,
       GetHeadUnchanged, GetProjected, OpenFile, WriteFile, disk, Goto, Leave, Putting
  <2> QED
    BY <1>3, <1>4, <2>1 DEF Putting
<1>6. CASE OpenVersion(w)
  <2>1. /\ pc[w] = "openVersion" /\ pc'[w] = "writeVersion" /\ ref' = ref
        /\ objects' = objects \cup {NewVersion(w)} /\ NewVersion(w)' = NewVersion(w)
    BY <1>2, <1>6, WriterTypes, NewVersionKept DEF Closed, OpenVersion, Goto
  <2>2. NewVersion(w) \notin objects
    BY <1>2, <1>6, OpenVersionSolo
  <2> QED
    BY <1>3, <1>4, <2>1, <2>2 DEF Putting
<1>7. CASE WriteVersion(w)
  <2>1. /\ pc[w] = "writeVersion" /\ pc'[w] = "openRef" /\ UNCHANGED <<objects, ref>>
        /\ NewVersion(w)' = NewVersion(w)
    BY <1>2, <1>7, WriterTypes, NewVersionKept DEF Closed, WriteVersion, Goto
  <2> QED
    BY <1>3, <1>4, <2>1 DEF Putting
<1>8. CASE OpenRef(w)
  <2>1. /\ pc[w] = "openRef" /\ pc'[w] = "writeRef" /\ UNCHANGED <<objects, seen>>
        /\ NewVersion(w)' = NewVersion(w) /\ ref' = {} /\ seen[w] = ref
    BY <1>2, <1>8, WriterTypes, NewVersionKept DEF Closed, OpenRef, Goto, Solo, RefFollows
  <2> QED
    BY <1>3, <1>4, <2>1 DEF Putting
<1>9. CASE WriteRef(w)
  <2>1. /\ pc[w] = "writeRef" /\ pc'[w] = "getProjected" /\ objects' = objects
        /\ ref' = {NewVersion(w)} /\ ref = {}
    BY <1>2, <1>9, WriterTypes DEF Closed, WriteRef, Goto, Solo, RefFollows
  <2>2. NewVersion(w) \in objects /\ \A v \in seen[w] : v.content # req[w].content
    BY <1>2, <2>1 DEF Closed, AfterOpen
  <2>3. AtomicHead = seen[w] /\ AtomicVersions = objects \ {NewVersion(w)}
    BY <1>3, <2>1 DEF Putting
  <2>4. AtomicHead' = {NewVersion(w)} /\ AtomicVersions' = objects
    BY <1>4, <2>1 DEF Putting
  <2>5. NewVersion(w) = Version(req[w].content, seen[w], req[w].stamp)
    BY DEF NewVersion
  <2>6. req[w].content \in Contents /\ req[w].stamp \in 1..MaxCommits
    <3>1. /\ req[w].content \in Contents /\ req[w].stamp \in Nat /\ req[w].stamp =< begun
          /\ begun \in 0..MaxCommits
      BY <1>2, WriterTypes DEF Closed, TypeOK, ProcTypeOK
    <3>2. req[w].stamp >= 1
      BY <1>2, <2>1 DEF Solo, Stamped
    <3> QED
      BY <3>1, <3>2, BoundsAreNat
  <2>7. AtomicVersions' = AtomicVersions \cup {NewVersion(w)}
    BY <2>2, <2>3, <2>4
  <2> QED
    BY <1>2, <2>2, <2>3, <2>4, <2>5, <2>6, <2>7
<1>10. CASE (\E r \in Readers : ReaderStep(r)) \/ UNCHANGED vars
  BY <1>2, <1>3, <1>4, <1>10, ReaderSolo
<1>11. ~Crash(w) /\ ~GetHeadRaises(w) /\ ~GetProjectedRaises(w)
  <2>1. crashes \in 0..MaxCrashes /\ MaxCrashes = 0
    BY <1>2 DEF Closed, TypeOK, Alone
  <2> QED
    BY <1>2, <2>1, NothingRaises DEF Crash
<1> QED
  BY <1>1, <1>5, <1>6, <1>7, <1>8, <1>9, <1>10, <1>11 DEF Next, WriterStep

(* One writer that is not killed: every behaviour of the file-system calls  *)
(* is, seen through Unpublished and HeadBeforeCommit, one of the atomic     *)
(* store.                                                                  *)
THEOREM OneWriterIsAtomic == ASSUME Alone PROVE Spec => ImplementsAtomicStore
<1>1. Init => Atomic!StoreInit
  <2> SUFFICES ASSUME Init PROVE Atomic!StoreInit
    OBVIOUS
  <2>1. \A w \in Writers : pc[w] = "idle"
    BY DEF Init, Processes
  <2>2. objects = {} /\ ref = {}
    BY DEF Init
  <2>3. HeadBeforeCommit = {}
    BY <2>1 DEF HeadBeforeCommit
  <2> QED
    BY <2>2, <2>3 DEF Atomic!StoreInit
<1>2. SoloInv /\ [Next]_vars => [Atomic!StoreNext]_(Atomic!storeVars)
  <2> SUFFICES ASSUME SoloInv, [Next]_vars PROVE [Atomic!StoreNext]_(Atomic!storeVars)
    OBVIOUS
  <2>1. CASE AtomicVersions' = AtomicVersions /\ AtomicHead' = AtomicHead
    BY <2>1 DEF AtomicVersions, AtomicHead, Atomic!storeVars
  <2>2. ASSUME NEW w \in Writers,
               req[w].stamp \in 1..MaxCommits, req[w].content \in Contents,
               \A v \in AtomicHead : v.content # req[w].content,
               NewVersion(w) = Version(req[w].content, AtomicHead, req[w].stamp),
               AtomicVersions' = AtomicVersions \cup {NewVersion(w)},
               AtomicHead' = {NewVersion(w)}
        PROVE  Atomic!StoreNext
    <3> DEFINE c == req[w].content
               s == req[w].stamp
    <3>1. ~Atomic!Unchanged("recipe", c)
      BY <2>2 DEF Atomic!Unchanged, AtomicHead
    <3>2. Atomic!Version(c, AtomicHead, s) = NewVersion(w)
      BY <2>2 DEF Atomic!Version, Version
    <3>3. Atomic!CommitVersion("recipe", c, s)
      BY <2>2, <3>1, <3>2 DEF Atomic!CommitVersion, AtomicVersions, AtomicHead
    <3> QED
      BY <2>2, <3>3 DEF Atomic!StoreNext, Atomic!Commit
  <2> QED
    BY <2>1, <2>2, StepRefines
<1>3. Spec => []SoloInv
  BY SoloAlways
<1> QED
  BY <1>1, <1>2, <1>3, PTL DEF Spec, ImplementsAtomicStore, Atomic!StoreSpec

(* One writer that is not killed: once it is idle, every projection shows   *)
(* the version at HEAD.                                                    *)
THEOREM ProjectionsAreCurrent == ASSUME Alone PROVE Spec => []ProjectionsFollowHead
<1>1. SoloInv => ProjectionsFollowHead
  <2> SUFFICES ASSUME SoloInv, \A w \in Writers : pc[w] = "idle", NEW v \in ref \cap acked,
                      NEW f \in DOMAIN projections
               PROVE  projections[f] = {v.content}
    BY DEF ProjectionsFollowHead
  <2>1. PICK w \in Writers : TRUE
    BY DEF Alone, OneWriter
  <2> QED
    BY <2>1 DEF SoloInv, Solo, ProjectedSoFar, BeforeMove
<1> QED
  BY <1>1, SoloAlways, PTL

(* One writer that is not killed: what callers were told is committed is    *)
(* one line.                                                               *)
THEOREM AckedIsLinear == ASSUME Alone PROVE Spec => []AckedLineageIsLinear
<1>1. SoloInv => AckedLineageIsLinear
  <2> SUFFICES ASSUME SoloInv PROVE AckedLineageIsLinear
    OBVIOUS
  <2>1. PICK w \in Writers : TRUE
    BY DEF Alone, OneWriter
  <2>2. LinearOnDisk /\ acked \subseteq objects
    BY <2>1 DEF SoloInv, Solo, Closed, TypeOK, DiskTypeOK
  <2> QED
    BY <2>2 DEF LinearOnDisk, AckedLineageIsLinear
<1> QED
  BY <1>1, SoloAlways, PTL

(* One writer that is not killed: a commit that reads None is the first one *)
(* of its recipe.                                                          *)
THEOREM NoneIsNew == ASSUME Alone PROVE Spec => NoneMeansNew
<1>1. SoloInv /\ [Next]_vars =>
        [\A w \in Writers : pc[w] = "readRef" /\ pc'[w] = "openVersion" => acked = {}]_vars
  <2> SUFFICES ASSUME SoloInv, [Next]_vars, NEW w \in Writers, pc[w] = "readRef", pc'[w] = "openVersion"
               PROVE  acked = {}
    OBVIOUS
  <2>1. Writers = {w} /\ Closed /\ Solo(w)
    BY DEF Alone, OneWriter, SoloInv
  <2>2. CASE (\E r \in Readers : ReaderStep(r)) \/ UNCHANGED vars
    BY <2>1, <2>2, ReaderSolo
  <2>3. CASE BeginCommit(w) \/ Crash(w) \/ (WriterStep(w) /\ ~ReadHeadRef(w))
    BY <2>1, <2>3, WriterTypes DEF Closed, BeginCommit, Crash, WriterStep, GetHeadUnchanged,
       GetHeadChanged, GetHeadRaises, OpenVersion, WriteVersion, OpenRef, WriteRef, GetProjected,
       GetProjectedRaises, OpenFile, WriteFile, Goto, Leave
  <2>4. CASE ReadHeadRef(w)
    <3>1. ref = {}
      BY <2>1, <2>4, WriterTypes DEF Closed, ReadHeadRef, Goto
    <3> QED
      BY <2>1, <3>1 DEF Solo, RefKnown
  <2> QED
    BY <2>1, <2>2, <2>3, <2>4 DEF Next
<1> QED
  BY <1>1, SoloAlways, PTL DEF Spec, NoneMeansNew

=============================================================================
