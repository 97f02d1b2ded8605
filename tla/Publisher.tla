------------------------------- MODULE Publisher -------------------------------
(***************************************************************************)
(* Publication of immutable versions, the durable pointer to the active    *)
(* one, and the snapshot one server process answers queries from:          *)
(* PackagePublisher (publish, rollback, recover), OntologyRuntime, and the *)
(* recovery that bootstrap runs before the server takes requests.          *)
(*                                                                         *)
(* A package is abstracted to the draft revision it was built from; whether *)
(* a draft passes the publication checks is a fact about its revision.     *)
(* An operation is one thread; its steps are the file replacements and the *)
(* assignments between which another thread, or a crash, can come.  The    *)
(* hidden staging directory has a random name and is never looked at, so   *)
(* it is left out.                                                         *)
(***************************************************************************)
EXTENDS Naturals, FiniteSets

CONSTANTS
  Workspaces,   \* the workspaces below the management root
  Managed,      \* the one whose pointer bootstrap recovers
  Versions,     \* the version identifiers clients choose from
  Inherited,    \* the managed version active from an earlier life, or None
  Ops,          \* publish and rollback requests, each a thread
  None,         \* no version, no workspace, no operation
  Publishable,  \* the revisions of each draft that pass assert_publishable
  MaxRevision,  \* bound: the last draft revision of a behaviour
  MaxCrashes,   \* bound: how often the server process dies
  MaxDamages    \* bound: how often a package directory is damaged from outside

ASSUME PublisherAssumption ==
  /\ Managed \in Workspaces
  /\ Inherited \in Versions \cup {None}
  /\ None \notin Workspaces \cup Versions \cup Ops
  /\ MaxRevision \in Nat
  /\ Publishable \in [Workspaces -> SUBSET (0 .. MaxRevision)]
  /\ MaxCrashes \in Nat /\ MaxDamages \in Nat

VARIABLES
  revision,  \* the revision of each draft.json
  package,   \* versions/<version>/ of each workspace
  metadata,  \* version-metadata/<version>.json: the revision it records
  pointer,   \* active-version.json of each workspace
  runtime,   \* the snapshot the server process holds
  server,    \* whether the process is down or serving requests
  wsLock,    \* _workspace_locks: the holder of each workspace's lock
  coordLock, \* _coordination_lock
  op,        \* what each request asked for, and the snapshot it has loaded
  pc,        \* where the thread of each request is
  result,    \* the answer the client got
  crashes, damages

disk    == <<revision, package, metadata, pointer>>
process == <<runtime, server>>
locks   == <<wsLock, coordLock>>
bounds  == <<crashes, damages>>
vars    == <<revision, package, metadata, pointer, runtime, server, wsLock,
             coordLock, op, pc, result, crashes, damages>>

Revisions == 0 .. MaxRevision
Labels    == {"idle", "begin", "commit", "summary", "coordinate", "install",
              "unlock", "answered"}
Answers   == {"ok", "refused", "conflict", "invalid", "not_found", "io_error", "lost"}

(* "by" is a history field: the operation that switched to this version. *)
Packages == [state : {"absent", "intact", "damaged"}, revision : Revisions]
Pointers == [version : Versions \cup {None}, by : Ops \cup {None}]
Snapshot == [workspace : Workspaces \cup {None}, version : Versions \cup {None},
             revision : Revisions, by : Ops \cup {None}]
Request  == [kind : {"publish", "rollback"}, workspace : Workspaces,
             version : Versions \cup {None}, expected : Revisions, loaded : Revisions]

NoPackage  == [state |-> "absent", revision |-> 0]
NoPointer  == [version |-> None, by |-> None]
NoSnapshot == [workspace |-> None, version |-> None, revision |-> 0, by |-> None]
NoRequest  == [kind |-> "publish", workspace |-> Managed, version |-> None,
               expected |-> 0, loaded |-> 0]
NoMetadata == MaxRevision + 1

Intact(w, v) == package[w][v].state = "intact"

-------------------------------------------------------------------------------
Goto(o, label) == pc' = [pc EXCEPT ![o] = label]

Answer(o, answer) ==
  /\ Goto(o, "answered")
  /\ result' = [result EXCEPT ![o] = answer]

(* Any exception under the workspace lock: the "with" blocks release what they
   hold and the client is answered. *)
Raise(o, answer) ==
  /\ Goto(o, "unlock")
  /\ result' = [result EXCEPT ![o] = answer]

(* The thread has in memory a package with this revision. *)
Load(o, n) ==
  op' = [op EXCEPT ![o] = [kind |-> op[o].kind, workspace |-> op[o].workspace,
                           version |-> op[o].version, expected |-> op[o].expected,
                           loaded |-> n]]

IsInherited(w, v) == w = Managed /\ v = Inherited

(* A server about to start, with what an earlier life left on the disk. *)
Init ==
  /\ revision = [w \in Workspaces |-> 0]
  /\ package = [w \in Workspaces |-> [v \in Versions |->
                  IF IsInherited(w, v) THEN [state |-> "intact", revision |-> 0]
                  ELSE NoPackage]]
  /\ metadata = [w \in Workspaces |-> [v \in Versions |->
                   IF IsInherited(w, v) THEN 0 ELSE NoMetadata]]
  /\ pointer = [w \in Workspaces |-> IF w = Managed
                  THEN [version |-> Inherited, by |-> None] ELSE NoPointer]
  /\ runtime = NoSnapshot
  /\ server = "down"
  /\ wsLock = [w \in Workspaces |-> None]
  /\ coordLock = None
  /\ op = [o \in Ops |-> NoRequest]
  /\ pc = [o \in Ops |-> "idle"]
  /\ result = [o \in Ops |-> "none"]
  /\ crashes = 0
  /\ damages = 0

(* An edit of the draft, by FileDraftStore.commit: it takes no publisher lock. *)
Edit(w) ==
  /\ server = "up"
  /\ revision[w] < MaxRevision
  /\ revision' = [revision EXCEPT ![w] = @ + 1]
  /\ UNCHANGED <<package, metadata, pointer, process, locks, op, pc, result, bounds>>

Submit(o) ==
  /\ server = "up"
  /\ pc[o] = "idle"
  /\ \E w \in Workspaces, v \in Versions :
       \/ \E expected \in 0 .. revision[w] :
            op' = [op EXCEPT ![o] = [kind |-> "publish", workspace |-> w, version |-> v,
                                     expected |-> expected, loaded |-> 0]]
       \/ op' = [op EXCEPT ![o] = [kind |-> "rollback", workspace |-> w, version |-> v,
                                   expected |-> 0, loaded |-> 0]]
  /\ Goto(o, "begin")
  /\ UNCHANGED <<disk, process, locks, result, bounds>>

-------------------------------------------------------------------------------
(* PackagePublisher.publish *)

(* Mutant: only the directory of the version is looked for. *)
ReservedByDirectoryOnly(w, v) == package[w][v].state # "absent"

Reserved(w, v) ==
  \/ package[w][v].state # "absent"
  \/ metadata[w][v] # NoMetadata
  \/ pointer[w].version = v

(* Take the workspace lock, refuse a reserved version, read the draft, compare
   the revisions, build and load the package in the staging directory. *)
PublishBegin(o) ==
  LET w == op[o].workspace IN
  /\ pc[o] = "begin" /\ op[o].kind = "publish"
  /\ wsLock[w] = None
  /\ wsLock' = [wsLock EXCEPT ![w] = o]
  /\ Load(o, revision[w])
  /\ \/ Raise(o, "io_error")
     \/ Reserved(w, op[o].version) /\ Raise(o, "refused")
     \/ /\ ~Reserved(w, op[o].version)
        /\ \/ revision[w] # op[o].expected /\ Raise(o, "conflict")
           \/ /\ revision[w] = op[o].expected
              /\ \/ revision[w] \notin Publishable[w] /\ Raise(o, "invalid")
                 \/ revision[w] \in Publishable[w] /\ Goto(o, "commit") /\ UNCHANGED result
  /\ UNCHANGED <<disk, process, coordLock, bounds>>

(* Mutant: the package is what the draft holds when the directory is renamed. *)
CommitVersionOfLatestDraft(o) ==
  LET w == op[o].workspace IN
  /\ pc[o] = "commit"
  /\ package' = [package EXCEPT ![w][op[o].version] =
                   [state |-> "intact", revision |-> revision[w]]]
  /\ Goto(o, "summary")
  /\ UNCHANGED <<revision, metadata, pointer, process, locks, op, result, bounds>>

(* Rename the staging directory; a directory cannot replace a version. *)
CommitVersion(o) ==
  LET w == op[o].workspace
      v == op[o].version IN
  /\ pc[o] = "commit"
  /\ \/ /\ package[w][v].state = "absent"
        /\ package' = [package EXCEPT ![w][v] =
                         [state |-> "intact", revision |-> op[o].loaded]]
        /\ Goto(o, "summary")
        /\ UNCHANGED result
     \/ Raise(o, "io_error") /\ UNCHANGED package
  /\ UNCHANGED <<revision, metadata, pointer, process, locks, op, bounds>>

(* Mutant: the metadata records the revision of the draft as it is now. *)
WriteSummaryOfLatestDraft(o) ==
  LET w == op[o].workspace IN
  /\ pc[o] = "summary"
  /\ metadata' = [metadata EXCEPT ![w][op[o].version] = revision[w]]
  /\ Goto(o, "coordinate")
  /\ UNCHANGED <<revision, package, pointer, process, locks, op, result, bounds>>

(* Mutant: metadata that could not be written is only logged. *)
WriteSummaryIgnoringErrors(o) ==
  LET w == op[o].workspace IN
  /\ pc[o] = "summary"
  /\ \/ metadata' = [metadata EXCEPT ![w][op[o].version] = op[o].loaded]
     \/ UNCHANGED metadata
  /\ Goto(o, "coordinate")
  /\ UNCHANGED <<revision, package, pointer, process, locks, op, result, bounds>>

WriteSummary(o) ==
  LET w == op[o].workspace IN
  /\ pc[o] = "summary"
  /\ \/ /\ metadata' = [metadata EXCEPT ![w][op[o].version] = op[o].loaded]
        /\ Goto(o, "coordinate")
        /\ UNCHANGED result
     \/ Raise(o, "io_error") /\ UNCHANGED metadata
  /\ UNCHANGED <<revision, package, pointer, process, locks, op, bounds>>

(* PackagePublisher.rollback, up to the coordinated switch: the directory must
   be there, load again, and have metadata. *)
RollbackBegin(o) ==
  LET w == op[o].workspace
      v == op[o].version IN
  /\ pc[o] = "begin" /\ op[o].kind = "rollback"
  /\ wsLock[w] = None
  /\ wsLock' = [wsLock EXCEPT ![w] = o]
  /\ Load(o, package[w][v].revision)
  /\ \/ package[w][v].state = "absent" /\ Raise(o, "not_found")
     \/ package[w][v].state # "absent" /\ Raise(o, "io_error")
     \/ /\ Intact(w, v)
        /\ \/ metadata[w][v] = NoMetadata /\ Raise(o, "not_found")
           \/ metadata[w][v] # NoMetadata /\ Goto(o, "coordinate") /\ UNCHANGED result
  /\ UNCHANGED <<disk, process, coordLock, bounds>>

-------------------------------------------------------------------------------
(* The switch both operations end with, under _coordination_lock. *)

(* Mutant: a pointer that could not be written is only logged. *)
WritePointerIgnoringErrors(o) ==
  LET w == op[o].workspace IN
  /\ pc[o] = "coordinate"
  /\ coordLock = None
  /\ coordLock' = o
  /\ \/ pointer' = [pointer EXCEPT ![w] = [version |-> op[o].version, by |-> o]]
     \/ UNCHANGED pointer
  /\ Goto(o, "install")
  /\ UNCHANGED <<revision, package, metadata, process, wsLock, op, result, bounds>>

(* Mutant: the client is told of a failure after the pointer has moved. *)
WritePointerReportingLate(o) ==
  LET w == op[o].workspace IN
  /\ pc[o] = "coordinate"
  /\ coordLock = None
  /\ pointer' = [pointer EXCEPT ![w] = [version |-> op[o].version, by |-> o]]
  /\ \/ coordLock' = o /\ Goto(o, "install") /\ UNCHANGED result
     \/ Raise(o, "io_error") /\ UNCHANGED coordLock
  /\ UNCHANGED <<revision, package, metadata, process, wsLock, op, bounds>>

WritePointer(o) ==
  LET w == op[o].workspace IN
  /\ pc[o] = "coordinate"
  /\ coordLock = None
  /\ \/ /\ pointer' = [pointer EXCEPT ![w] = [version |-> op[o].version, by |-> o]]
        /\ coordLock' = o
        /\ Goto(o, "install")
        /\ UNCHANGED result
     \/ Raise(o, "io_error") /\ UNCHANGED <<pointer, coordLock>>
  /\ UNCHANGED <<revision, package, metadata, process, wsLock, op, bounds>>

(* OntologyRuntime.install: one assignment, which cannot fail. *)
Install(o) ==
  /\ pc[o] = "install"
  /\ runtime' = [workspace |-> op[o].workspace, version |-> op[o].version,
                 revision |-> op[o].loaded, by |-> o]
  /\ coordLock' = None
  /\ Goto(o, "unlock")
  /\ UNCHANGED <<disk, server, wsLock, op, result, bounds>>

(* Mutant: the workspace lock stays taken when an operation fails. *)
UnlockOnlyOnSuccess(o) ==
  /\ pc[o] = "unlock"
  /\ wsLock' = IF result[o] = "none"
               THEN [wsLock EXCEPT ![op[o].workspace] = None] ELSE wsLock
  /\ Answer(o, IF result[o] = "none" THEN "ok" ELSE result[o])
  /\ UNCHANGED <<disk, process, coordLock, op, bounds>>

(* Mutant: the success path forgets its answer. *)
UnlockWithoutAnswer(o) ==
  /\ pc[o] = "unlock"
  /\ wsLock' = [wsLock EXCEPT ![op[o].workspace] = None]
  /\ Answer(o, result[o])
  /\ UNCHANGED <<disk, process, coordLock, op, bounds>>

Unlock(o) ==
  /\ pc[o] = "unlock"
  /\ wsLock' = [wsLock EXCEPT ![op[o].workspace] = None]
  /\ Answer(o, IF result[o] = "none" THEN "ok" ELSE result[o])
  /\ UNCHANGED <<disk, process, coordLock, op, bounds>>

-------------------------------------------------------------------------------
(* The life of the process *)

(* The process dies with its threads, its locks and its snapshot. *)
Crash ==
  /\ server = "up"
  /\ crashes < MaxCrashes
  /\ crashes' = crashes + 1
  /\ server' = "down"
  /\ runtime' = NoSnapshot
  /\ wsLock' = [w \in Workspaces |-> None]
  /\ coordLock' = None
  /\ LET alive == {o \in Ops : pc[o] \notin {"idle", "answered"}} IN
     /\ pc' = [o \in Ops |-> IF o \in alive THEN "answered" ELSE pc[o]]
     /\ result' = [o \in Ops |-> IF o \in alive THEN "lost" ELSE result[o]]
  /\ UNCHANGED <<disk, op, damages>>

Recoverable(w) == pointer[w].version # None /\ Intact(w, pointer[w].version)

(* The snapshot of the version a pointer names, as load_candidate builds it. *)
SnapshotOf(w) ==
  LET v == pointer[w].version IN
  [workspace |-> w, version |-> v, revision |-> package[w][v].revision,
   by |-> pointer[w].by]

(* Mutant: nothing is loaded until the next publication. *)
RecoverNothing ==
  /\ server = "down"
  /\ server' = "up"
  /\ runtime' = NoSnapshot
  /\ UNCHANGED <<disk, locks, op, pc, result, bounds>>

(* PackagePublisher.recover, run by the lifespan of the application before it
   serves requests: the pointer's own target or a degraded runtime. *)
Recover ==
  /\ server = "down"
  /\ server' = "up"
  /\ runtime' = IF Recoverable(Managed) THEN SnapshotOf(Managed) ELSE NoSnapshot
  /\ UNCHANGED <<disk, locks, op, pc, result, bounds>>

(* Somebody removes or spoils a version directory on the disk (external). *)
Damage(w, v) ==
  /\ damages < MaxDamages
  /\ package[w][v].state # "absent"
  /\ damages' = damages + 1
  /\ \E state \in {"absent", "damaged"} :
       package' = [package EXCEPT ![w][v] =
                     [state |-> state, revision |-> package[w][v].revision]]
  /\ UNCHANGED <<revision, metadata, pointer, process, locks, op, pc, result, crashes>>

Step(o) ==
  \/ PublishBegin(o) \/ CommitVersion(o) \/ WriteSummary(o)
  \/ RollbackBegin(o)
  \/ WritePointer(o) \/ Install(o) \/ Unlock(o)

Next ==
  \/ \E o \in Ops : Submit(o) \/ Step(o)
  \/ \E w \in Workspaces : Edit(w)
  \/ \E w \in Workspaces, v \in Versions : Damage(w, v)
  \/ Crash
  \/ Recover

Spec == Init /\ [][Next]_vars

(* Every thread that can take a step is run, and a dead process is started
   again by its supervisor (restart policy of the deployment).  Clients, the
   clock, crashes and damage are under no obligation. *)
FairSpec == Spec /\ WF_vars(Recover) /\ \A o \in Ops : WF_vars(Step(o))

-------------------------------------------------------------------------------
(* Every variable has its type, and an answered client has an answer. *)
TypeOK ==
  /\ revision \in [Workspaces -> Revisions]
  /\ package \in [Workspaces -> [Versions -> Packages]]
  /\ metadata \in [Workspaces -> [Versions -> Revisions \cup {NoMetadata}]]
  /\ pointer \in [Workspaces -> Pointers]
  /\ runtime \in Snapshot
  /\ server \in {"up", "down"}
  /\ wsLock \in [Workspaces -> Ops \cup {None}]
  /\ coordLock \in Ops \cup {None}
  /\ op \in [Ops -> Request]
  /\ pc \in [Ops -> Labels]
  /\ result \in [Ops -> Answers \cup {"none"}]
  /\ \A o \in Ops : pc[o] = "answered" => result[o] # "none"
  /\ crashes \in Nat /\ damages \in Nat

(* Pointer and runtime move together: whenever no switch is in progress, what
   the process answers from is the version its workspace's pointer names, put
   there by the operation that wrote the pointer.  A restart never picks
   another version. *)
RuntimeFollowsPointer ==
  coordLock = None /\ runtime # NoSnapshot =>
    LET active == pointer[runtime.workspace] IN
    runtime.version = active.version /\ runtime.by = active.by

(* A version, its metadata and the snapshot served from it speak of the same
   text of the draft, however the draft was edited meanwhile. *)
VersionRecordsItsRevision ==
  /\ \A w \in Workspaces, v \in Versions :
       Intact(w, v) /\ metadata[w][v] # NoMetadata =>
         package[w][v].revision = metadata[w][v]
  /\ runtime # NoSnapshot =>
       metadata[runtime.workspace][runtime.version] = runtime.revision

(* A publication that succeeded published the revision its client reviewed, and
   that revision had passed the checks. *)
PublishedAsReviewed ==
  \A o \in Ops :
    op[o].kind = "publish" /\ result[o] = "ok" =>
      /\ op[o].expected \in Publishable[op[o].workspace]
      /\ package[op[o].workspace][op[o].version].revision = op[o].expected

(* An announced version is never built again: once its directory is damaged or
   gone, no publication puts another package under the same identifier. *)
NeverRebuilt ==
  [][\A o \in Ops :
       LET w == op[o].workspace
           v == op[o].version IN
       op[o].kind = "publish" /\ result[o] = "ok" /\ package'[w][v].state = "intact" =>
         package'[w][v] = package[w][v]]_vars

(* A publication or rollback that reported an error is neither the active
   version on disk nor the one being served. *)
FailedSwitchKeepsActive ==
  \A o \in Ops :
    result[o] \notin {"none", "ok", "lost"} =>
      runtime.by # o /\ \A w \in Workspaces : pointer[w].by # o

(* The active version has metadata, so it is listed, protects its identifiers
   and can be rolled back to. *)
ActiveVersionIsListed ==
  \A w \in Workspaces :
    pointer[w].version # None => metadata[w][pointer[w].version] # NoMetadata

(* A process that serves requests has an ontology as long as the managed
   workspace has an active version that still loads: also after a crash
   between the pointer and the installation of the snapshot. *)
ReadyWhenRecoverable ==
  server = "up" /\ coordLock = None /\ Recoverable(Managed) => runtime # NoSnapshot

(* A committed version is never left where neither publication nor rollback can
   reach it: the promise that a version whose activation failed is kept for a
   later retry (section 10.1 of the package-management design). *)
NoStrandedVersion ==
  \A w \in Workspaces, v \in Versions :
    wsLock[w] = None /\ Intact(w, v) => metadata[w][v] # NoMetadata

(* Every operation is answered: the two locks are always given back. *)
EveryOperationAnswered ==
  \A o \in Ops : pc[o] # "idle" ~> pc[o] = "answered"
===============================================================================
