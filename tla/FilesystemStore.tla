-------------------------- MODULE FilesystemStore --------------------------
(***************************************************************************)
(* FilesystemStore (store/fs.py) under RecipeStore.commit and .head        *)
(* (store/base.py), one recipe directory, one action per file-system call. *)
(* The web workers, the background worker and management commands open the *)
(* same directory from separate processes and take no lock, so any two     *)
(* calls interleave, and a process may be killed between any two of them.  *)
(*                                                                         *)
(* Path.write_text is open-with-truncate followed by a write: between the  *)
(* two the file is empty.  Every write is therefore two actions.           *)
(*                                                                         *)
(* A version is the tuple its id hashes (see RecipeStore.tla); its parents  *)
(* are the HEAD commit has read (no caller passes a list of its own).       *)
(*                                                                         *)
(* The ref is a set: _read_head_ref answers None for a missing and for an  *)
(* empty file alike, and {} is that None.  Files nobody reads back through *)
(* the store (.snapcook/HEAD, config.json) are left out.                   *)
(***************************************************************************)
EXTENDS Integers, Sequences

CONSTANTS Writers,       \* processes that call commit
          Readers,       \* processes that call head_recipe (the detail view)
          Contents,      \* canonical recipe contents
          Files,         \* the projections, in the order they are written
          FreshStamps,   \* TRUE: no two commits carry the same created_at and author
          MaxCommits,    \* bound on the calls of commit
          MaxCrashes     \* bound on the processes killed half-way

ASSUME SomeContent == Contents # {}
ASSUME ProcessesDiffer == Writers \cap Readers = {}
ASSUME SomeFile == Files \in Seq({"recipe.json", "recipe.cook", "README.md"}) /\ Files # <<>>
ASSUME FreshStampsIsBoolean == FreshStamps \in BOOLEAN
ASSUME BoundsAreNat == MaxCommits \in Nat /\ MaxCrashes \in Nat

Processes == Writers \cup Readers

VARIABLES
  objects,      \* the versions whose file exists under versions/
  torn,         \* those of them whose file is truncated and not yet written
  ref,          \* what refs/heads/main reads as: {} or the one version it names
  projections,  \* projections[f]: the set of contents a reader may find in file f:
                \*   {} missing or empty, {c} exactly c, more: overlapping writes
  pc,           \* the next call each process makes
  req,          \* req[w]: content and stamp of the commit w is making
  seen,         \* seen[p]: the head p read ({} for None)
  file,         \* file[w]: index in Files of the projection w writes next
  begun,        \* number of commits begun; the clock that stamps them
  crashes,      \* number of processes killed so far
  acked,        \* the versions commit has returned to some caller
  answer        \* answer[r]: the outcome of reader r's last call

disk  == <<objects, torn, ref, projections>>
vars  == <<objects, torn, ref, projections, pc, req, seen, file, begun, crashes, acked, answer>>

-----------------------------------------------------------------------------
Version(c, parents, s) == [content |-> c, parents |-> parents, stamp |-> s]

(* Fault: every record is a root.                                          *)
NewRoot(w) == Version(req[w].content, {}, req[w].stamp)

(* The record commit builds: its parents are the head it read.             *)
NewVersion(w) == Version(req[w].content, seen[w], req[w].stamp)

(* Files that read back as a valid record; an empty one fails validation.  *)
Readable == objects \ torn

Goto(p, label) == pc' = [pc EXCEPT ![p] = label]

NoRequest == [content |-> CHOOSE c \in Contents : TRUE, stamp |-> 0]

(* The call ends (returns, raises, or dies with its process): its locals go.*)
Leave(w) ==
  /\ Goto(w, "idle")
  /\ req'  = [req EXCEPT ![w] = NoRequest]
  /\ seen' = [seen EXCEPT ![w] = {}]
  /\ file' = [file EXCEPT ![w] = 1]

Init ==
  /\ objects = {} /\ torn = {} /\ ref = {}
  /\ projections = [f \in 1..Len(Files) |-> {}]
  /\ pc    = [p \in Processes |-> "idle"]
  /\ req   = [w \in Writers |-> NoRequest]
  /\ seen  = [p \in Processes |-> {}]
  /\ file  = [w \in Writers |-> 1]
  /\ begun = 0 /\ crashes = 0
  /\ acked = {}
  /\ answer = [r \in Readers |-> "none"]

-----------------------------------------------------------------------------
(* Fault: every commit carries one constant stamp.                         *)
BeginCommitUnstamped(w) ==
  /\ pc[w] = "idle" /\ begun < MaxCommits
  /\ begun' = begun + 1
  /\ \E c \in Contents : req' = [req EXCEPT ![w] = [content |-> c, stamp |-> 1]]
  /\ Goto(w, "readRef")
  /\ UNCHANGED <<disk, seen, file, crashes, acked, answer>>

(* A caller enters commit.  seed_corpus passes one constant created_at and *)
(* author on every run (FreshStamps = FALSE); an editor passes the clock.  *)
BeginCommit(w) ==
  /\ pc[w] = "idle" /\ begun < MaxCommits
  /\ begun' = begun + 1
  /\ \E c \in Contents :
       req' = [req EXCEPT ![w] = [content |-> c, stamp |-> IF FreshStamps THEN begun + 1 ELSE 1]]
  /\ Goto(w, "readRef")
  /\ UNCHANGED <<disk, seen, file, crashes, acked, answer>>

(* Fault: the ref of a new recipe is written before its record.            *)
ReadHeadRefThenMove(w) ==
  /\ pc[w] = "readRef"
  /\ seen' = [seen EXCEPT ![w] = ref]
  /\ Goto(w, IF ref = {} THEN "openRef" ELSE "getHead")
  /\ UNCHANGED <<disk, req, file, begun, crashes, acked, answer>>

(* commit calls head(): _read_head_ref.                                    *)
ReadHeadRef(w) ==
  /\ pc[w] = "readRef"
  /\ seen' = [seen EXCEPT ![w] = ref]
  /\ Goto(w, IF ref = {} THEN "openVersion" ELSE "getHead")
  /\ UNCHANGED <<disk, req, file, begun, crashes, acked, answer>>

(* head() loads the record the ref named; same content: return it (no-op). *)
GetHeadUnchanged(w) ==
  /\ pc[w] = "getHead" /\ seen[w] \subseteq Readable
  /\ \E v \in seen[w] : v.content = req[w].content
  /\ acked' = acked \cup seen[w]
  /\ Leave(w)
  /\ UNCHANGED <<disk, begun, crashes, answer>>

(* Fault: commit goes on whatever the content of HEAD is.                  *)
GetHeadWhatever(w) ==
  /\ pc[w] = "getHead" /\ seen[w] \subseteq Readable
  /\ Goto(w, "openVersion")
  /\ UNCHANGED <<disk, req, seen, file, begun, crashes, acked, answer>>

GetHeadChanged(w) ==
  /\ pc[w] = "getHead" /\ seen[w] \subseteq Readable
  /\ \A v \in seen[w] : v.content # req[w].content
  /\ Goto(w, "openVersion")
  /\ UNCHANGED <<disk, req, seen, file, begun, crashes, acked, answer>>

(* Fault: commit polls until the record is readable.                       *)
GetHeadAgain(w) ==
  /\ pc[w] = "getHead" /\ ~(seen[w] \subseteq Readable)
  /\ UNCHANGED vars

(* The record is missing or does not validate: head() raises, and so does  *)
(* commit, before it has written anything.                                 *)
GetHeadRaises(w) ==
  /\ pc[w] = "getHead" /\ ~(seen[w] \subseteq Readable)
  /\ Leave(w)
  /\ UNCHANGED <<disk, begun, crashes, acked, answer>>

(* Fault: the ref moves while the record is still empty.                   *)
OpenVersionThenMove(w) ==
  /\ pc[w] = "openVersion"
  /\ objects' = objects \cup {NewVersion(w)}
  /\ torn'    = torn \cup {NewVersion(w)}
  /\ Goto(w, "openRef")
  /\ UNCHANGED <<ref, projections, req, seen, file, begun, crashes, acked, answer>>

(* _put_version: the record's file, truncated if it was there already ...  *)
OpenVersion(w) ==
  /\ pc[w] = "openVersion"
  /\ objects' = objects \cup {NewVersion(w)}
  /\ torn'    = torn \cup {NewVersion(w)}
  /\ Goto(w, "writeVersion")
  /\ UNCHANGED <<ref, projections, req, seen, file, begun, crashes, acked, answer>>

(* ... and its bytes, which are the same whoever writes that id.           *)
WriteVersion(w) ==
  /\ pc[w] = "writeVersion"
  /\ torn' = torn \ {NewVersion(w)}
  /\ Goto(w, "openRef")
  /\ UNCHANGED <<objects, ref, projections, req, seen, file, begun, crashes, acked, answer>>

(* _write_head_ref: the branch ref, truncated ...                          *)
OpenRef(w) ==
  /\ pc[w] = "openRef"
  /\ ref' = {}
  /\ Goto(w, "writeRef")
  /\ UNCHANGED <<objects, torn, projections, req, seen, file, begun, crashes, acked, answer>>

(* Fault: the ref is left empty.                                           *)
WriteRefEmpty(w) ==
  /\ pc[w] = "writeRef"
  /\ Goto(w, "getProjected")
  /\ UNCHANGED <<disk, req, seen, file, begun, crashes, acked, answer>>

(* ... and written.  All ids have one length, so the last write wins.      *)
WriteRef(w) ==
  /\ pc[w] = "writeRef"
  /\ ref' = {NewVersion(w)}
  /\ Goto(w, "getProjected")
  /\ UNCHANGED <<objects, torn, projections, req, seen, file, begun, crashes, acked, answer>>

(* Fault: the first projection is skipped.                                 *)
GetProjectedOffByOne(w) ==
  /\ pc[w] = "getProjected" /\ NewVersion(w) \in Readable
  /\ file' = [file EXCEPT ![w] = Len(Files)]
  /\ Goto(w, "openFile")
  /\ UNCHANGED <<disk, req, seen, begun, crashes, acked, answer>>

(* _write_projections re-reads the record it is about to project.          *)
GetProjected(w) ==
  /\ pc[w] = "getProjected" /\ NewVersion(w) \in Readable
  /\ file' = [file EXCEPT ![w] = 1]
  /\ Goto(w, "openFile")
  /\ UNCHANGED <<disk, req, seen, begun, crashes, acked, answer>>

(* Another process is rewriting the same record just now: the load raises, *)
(* and commit raises after HEAD has moved.                                 *)
GetProjectedRaises(w) ==
  /\ pc[w] = "getProjected" /\ NewVersion(w) \notin Readable
  /\ Leave(w)
  /\ UNCHANGED <<disk, begun, crashes, acked, answer>>

OpenFile(w) ==
  /\ pc[w] = "openFile"
  /\ projections' = [projections EXCEPT ![file[w]] = {}]
  /\ Goto(w, "writeFile")
  /\ UNCHANGED <<objects, torn, ref, req, seen, file, begun, crashes, acked, answer>>

(* Fault: one file too many.                                               *)
WriteFileOffByOne(w) ==
  /\ pc[w] = "writeFile"
  /\ projections' = [projections EXCEPT ![file[w]] = {req[w].content}]
  /\ file' = [file EXCEPT ![w] = @ + 1]
  /\ Goto(w, "openFile")
  /\ UNCHANGED <<objects, torn, ref, req, seen, begun, crashes, acked, answer>>

(* The bytes go to offset 0 of whatever the file holds by now.  Empty: the *)
(* file holds this content.  Written by another process since: the tail of *)
(* the longer text survives, so what is there is this content or a mixture.*)
(* After the last file commit returns the record.                          *)
WriteFile(w) ==
  LET f == file[w] IN
  /\ pc[w] = "writeFile"
  /\ \E rest \in {{}, projections[f]} :
       projections' = [projections EXCEPT ![f] = {req[w].content} \cup rest]
  /\ \/ /\ f < Len(Files)
        /\ file' = [file EXCEPT ![w] = f + 1]
        /\ Goto(w, "openFile")
        /\ UNCHANGED <<acked, req, seen>>
     \/ /\ f = Len(Files)
        /\ acked' = acked \cup {NewVersion(w)}
        /\ Leave(w)
  /\ UNCHANGED <<objects, torn, ref, begun, crashes, answer>>

-----------------------------------------------------------------------------
(* head_recipe as the detail view calls it: the ref, then the record.      *)
ReaderReadRef(r) ==
  /\ pc[r] = "idle"
  /\ seen' = [seen EXCEPT ![r] = ref]
  /\ IF ref = {}
     THEN answer' = [answer EXCEPT ![r] = "no such recipe"] /\ UNCHANGED pc
     ELSE Goto(r, "getHead") /\ UNCHANGED answer
  /\ UNCHANGED <<disk, req, file, begun, crashes, acked>>

ReaderGetVersion(r) ==
  /\ pc[r] = "getHead"
  /\ seen' = [seen EXCEPT ![r] = {}]
  /\ answer' = [answer EXCEPT ![r] = IF seen[r] \subseteq Readable THEN "recipe" ELSE "error"]
  /\ Goto(r, "idle")
  /\ UNCHANGED <<disk, req, file, begun, crashes, acked>>

(* A writer is killed (a gunicorn or task timeout, a container stop): the  *)
(* files stay as they are and the restarted process remembers nothing.     *)
Crash(w) ==
  /\ pc[w] # "idle" /\ crashes < MaxCrashes
  /\ crashes' = crashes + 1
  /\ Leave(w)
  /\ UNCHANGED <<disk, begun, acked, answer>>

-----------------------------------------------------------------------------
WriterStep(w) ==
  \/ ReadHeadRef(w)
  \/ GetHeadUnchanged(w) \/ GetHeadChanged(w) \/ GetHeadRaises(w)
  \/ OpenVersion(w) \/ WriteVersion(w)
  \/ OpenRef(w) \/ WriteRef(w)
  \/ GetProjected(w) \/ GetProjectedRaises(w)
  \/ OpenFile(w) \/ WriteFile(w)

ReaderStep(r) == ReaderReadRef(r) \/ ReaderGetVersion(r)

Next ==
  \/ \E w \in Writers : BeginCommit(w) \/ WriterStep(w) \/ Crash(w)
  \/ \E r \in Readers : ReaderStep(r)

Spec == Init /\ [][Next]_vars

(* A running process is never paused for ever inside a commit: it holds no *)
(* lock and waits for nobody, it only has to be scheduled.  Nothing makes a *)
(* caller begin a commit or a reader ask.                                  *)
FairSpec == Spec /\ \A w \in Writers : WF_vars(WriterStep(w))

-----------------------------------------------------------------------------
(* What each variable holds.                                               *)
WriterLabels == {"idle", "readRef", "getHead", "openVersion", "writeVersion", "openRef",
                 "writeRef", "getProjected", "openFile", "writeFile"}

WellFormed(v) ==
  /\ v = Version(v.content, v.parents, v.stamp)
  /\ v.content \in Contents /\ v.stamp \in Nat

DiskTypeOK ==
  /\ torn \subseteq objects
  /\ \A v \in objects : WellFormed(v) /\ v.stamp =< begun
  /\ ref \subseteq objects /\ acked \subseteq objects
  /\ projections \in [1..Len(Files) -> SUBSET Contents]

ProcTypeOK ==
  /\ pc \in [Processes -> WriterLabels]
  /\ \A r \in Readers : pc[r] \in {"idle", "getHead"}
  /\ req \in [Writers -> [content : Contents, stamp : Nat]]
  /\ \A w \in Writers : req[w].stamp =< begun
  /\ seen \in [Processes -> SUBSET objects]
  /\ file \in [Writers -> 1..Len(Files)]

TypeOK ==
  /\ DiskTypeOK /\ ProcTypeOK
  /\ begun \in 0..MaxCommits /\ crashes \in 0..MaxCrashes
  /\ answer \in [Readers -> {"none", "no such recipe", "recipe", "error"}]

(* Whatever interleaves and whoever is killed, the ref and every parent     *)
(* pointer name a version whose file exists: the record is put before the   *)
(* ref moves, and nothing removes a record.  head() never finds HEAD        *)
(* missing and a clone is a complete replica of the lineage.                *)
LineageStored ==
  /\ ref \subseteq objects
  /\ \A v \in objects : v.parents \subseteq objects

(* When no two commits carry the same stamp, those files also validate:     *)
(* nobody who follows the ref or a parent pointer meets a half-written      *)
(* record, and no version commit has returned is ever damaged.              *)
LineageReadable ==
  FreshStamps =>
    /\ ref \subseteq Readable
    /\ \A v \in objects : v.parents \subseteq Readable
    /\ acked \subseteq Readable

(* A reader that found a ref gets a recipe, never an error, although the    *)
(* ref may move and other records be written between its two reads.         *)
ReadersNeverFail == FreshStamps => \A r \in Readers : answer[r] # "error"

(* The no-op rule survives concurrency and crashes: no stored version, not  *)
(* even an orphan, repeats the content of its own parent.                   *)
NoVersionRepeatsItsParent ==
  \A v \in objects : \A p \in v.parents : p.content # v.content

(* "Immutable version records": a record once readable stays readable.      *)
RecordsImmutable == [][Readable \subseteq Readable']_vars

(* "A commit's single parent is the previous HEAD": the versions callers    *)
(* were told are committed form one line, none the sibling of another.      *)
AckedLineageIsLinear == \A u, v \in acked : u.parents = v.parents => u = v

(* "The version id the branch points at, or None if the recipe is new": a   *)
(* commit that reads None, and so starts a lineage without parents, finds a *)
(* recipe of which nothing was ever committed.                              *)
NoneMeansNew ==
  [][\A w \in Writers : pc[w] = "readRef" /\ pc'[w] = "openVersion" => acked = {}]_vars

(* "Projections of HEAD, rewritten on every commit": once commit has        *)
(* returned HEAD to a caller and no commit is under way, every projection   *)
(* holds exactly the content at HEAD.                                       *)
ProjectionsFollowHead ==
  (\A w \in Writers : pc[w] = "idle") =>
    \A v \in ref \cap acked : \A f \in DOMAIN projections : projections[f] = {v.content}

(* Every commit ends, whatever the others do or wherever they died: there   *)
(* is no lock to wait for and no retry loop.                                *)
EveryCommitEnds == \A w \in Writers : pc[w] # "idle" ~> pc[w] = "idle"

(* A ref found empty in the middle of someone's commit is filled again.     *)
RefIsRestored == (acked # {} /\ ref = {}) ~> ref # {}

=============================================================================
