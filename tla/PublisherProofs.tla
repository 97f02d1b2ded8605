---------------------------- MODULE PublisherProofs ----------------------------
(***************************************************************************)
(* What holds of Publisher for every set of workspaces, versions and       *)
(* operations, and for every number of edits, crashes and damages.         *)
(***************************************************************************)
EXTENDS Publisher, TLAPS

(* A request names a version, only a publication builds a package, and a thread
   still at work has not chosen its answer. *)
OpInv ==
  \A o \in Ops :
    /\ pc[o] # "idle" => op[o].version \in Versions
    /\ pc[o] \in {"commit", "summary"} => op[o].kind = "publish"
    /\ pc[o] \notin {"unlock", "answered"} => result[o] = "none"

TypeInv == TypeOK /\ OpInv

(* A server about to start is in a well typed state. *)
LEMMA TypeInit == Init => TypeInv
  <1> SUFFICES ASSUME Init PROVE TypeInv
    OBVIOUS
  <1> USE PublisherAssumption DEF Init
  <1>1. 0 \in Revisions
    BY DEF Revisions
  <1>2. package \in [Workspaces -> [Versions -> Packages]]
    BY <1>1 DEF Packages, NoPackage
  <1>3. metadata \in [Workspaces -> [Versions -> Revisions \cup {NoMetadata}]]
    BY <1>1
  <1>4. pointer \in [Workspaces -> Pointers]
    BY DEF Pointers, NoPointer
  <1>5. NoSnapshot \in Snapshot
    BY <1>1 DEF NoSnapshot, Snapshot
  <1>6. NoRequest \in Request
    BY <1>1 DEF NoRequest, Request
  <1>7. TypeOK
    BY <1>1, <1>2, <1>3, <1>4, <1>5, <1>6 DEF TypeOK, Labels
  <1> QED
    BY <1>7 DEF TypeInv, OpInv

(* What the threads and the recovery build has the type of where it goes. *)
LEMMA TypesOfWrites ==
  ASSUME TypeOK, NEW o \in Ops
  PROVE  /\ \A state \in {"absent", "intact", "damaged"}, n \in Revisions :
              [state |-> state, revision |-> n] \in Packages
         /\ op[o].version \in Versions =>
              [version |-> op[o].version, by |-> o] \in Pointers
         /\ op[o].version \in Versions =>
              [workspace |-> op[o].workspace, version |-> op[o].version,
               revision |-> op[o].loaded, by |-> o] \in Snapshot
         /\ \A n \in Revisions : Load(o, n) => op' \in [Ops -> Request]
  <1>1. op[o] \in Request
    BY DEF TypeOK
  <1>2. \A state \in {"absent", "intact", "damaged"}, n \in Revisions :
          [state |-> state, revision |-> n] \in Packages
    BY DEF Packages
  <1>3. op[o].version \in Versions => [version |-> op[o].version, by |-> o] \in Pointers
    BY DEF Pointers
  <1>4. op[o].version \in Versions =>
          [workspace |-> op[o].workspace, version |-> op[o].version,
           revision |-> op[o].loaded, by |-> o] \in Snapshot
    BY <1>1 DEF Snapshot, Request
  <1>5. \A n \in Revisions : Load(o, n) => op' \in [Ops -> Request]
    <2> SUFFICES ASSUME NEW n \in Revisions, Load(o, n) PROVE op' \in [Ops -> Request]
      OBVIOUS
    <2>1. [kind |-> op[o].kind, workspace |-> op[o].workspace, version |-> op[o].version,
           expected |-> op[o].expected, loaded |-> n] \in Request
      BY <1>1 DEF Request
    <2> QED
      BY <2>1 DEF Load, TypeOK
  <1> QED
    BY <1>2, <1>3, <1>4, <1>5

(* Every step of a thread leaves the variables in their types. *)
LEMMA TypeStep ==
  ASSUME TypeOK, OpInv, NEW o \in Ops, Step(o)
  PROVE  TypeOK'
  <1> USE DEF TypeOK, Labels, Answers, disk, process, locks, bounds, Goto, Answer, Raise
  <1>0. op[o].workspace \in Workspaces /\ op[o].loaded \in Revisions
    BY DEF Request
  <1>1. CASE PublishBegin(o)
    <2>1. op' \in [Ops -> Request]
      BY <1>0, <1>1, TypesOfWrites DEF PublishBegin
    <2>2. /\ pc' \in [Ops -> Labels] /\ result' \in [Ops -> Answers \cup {"none"}]
          /\ wsLock' \in [Workspaces -> Ops \cup {None}]
      BY <1>0, <1>1 DEF PublishBegin
    <2>3. \A p \in Ops : pc'[p] = "answered" => pc[p] = "answered" /\ result'[p] = result[p]
      BY <1>1 DEF PublishBegin
    <2> QED
      BY <1>1, <2>1, <2>2, <2>3 DEF PublishBegin
  <1>2. CASE CommitVersion(o)
    <2>1. [state |-> "intact", revision |-> op[o].loaded] \in Packages
      BY <1>0, TypesOfWrites
    <2> DEFINE w == op[o].workspace
               v == op[o].version
               committed == [package[w] EXCEPT ![v] =
                               [state |-> "intact", revision |-> op[o].loaded]]
    <2>2. committed \in [Versions -> Packages]
      BY <1>0, <2>1
    <2>3. package' \in {package, [package EXCEPT ![w] = committed]}
      BY <1>2 DEF CommitVersion
    <2>4. package' \in [Workspaces -> [Versions -> Packages]]
      BY <2>2, <2>3
    <2> QED
      BY <1>2, <2>4 DEF CommitVersion
  <1>3. CASE WriteSummary(o)
    <2> DEFINE w == op[o].workspace
               written == [metadata[w] EXCEPT ![op[o].version] = op[o].loaded]
    <2>1. written \in [Versions -> Revisions \cup {NoMetadata}]
      BY <1>0
    <2>2. metadata' \in {metadata, [metadata EXCEPT ![w] = written]}
      BY <1>3 DEF WriteSummary
    <2>3. metadata' \in [Workspaces -> [Versions -> Revisions \cup {NoMetadata}]]
      BY <2>1, <2>2
    <2> QED
      BY <1>3, <2>3 DEF WriteSummary
  <1>4. CASE RollbackBegin(o)
    <2>1. op[o].version \in Versions
      BY <1>4 DEF RollbackBegin, OpInv
    <2>2. package[op[o].workspace][op[o].version].revision \in Revisions
      BY <1>0, <2>1 DEF Packages
    <2>3. op' \in [Ops -> Request]
      BY <1>4, <2>2, TypesOfWrites DEF RollbackBegin
    <2>4. /\ pc' \in [Ops -> Labels] /\ result' \in [Ops -> Answers \cup {"none"}]
          /\ wsLock' \in [Workspaces -> Ops \cup {None}]
      BY <1>0, <1>4 DEF RollbackBegin
    <2>5. \A p \in Ops : pc'[p] = "answered" => pc[p] = "answered" /\ result'[p] = result[p]
      BY <1>4 DEF RollbackBegin
    <2> QED
      BY <1>4, <2>3, <2>4, <2>5 DEF RollbackBegin
  <1>5. CASE WritePointer(o)
    <2>1. [version |-> op[o].version, by |-> o] \in Pointers
      BY <1>5, TypesOfWrites DEF WritePointer, OpInv
    <2>2. pointer' \in [Workspaces -> Pointers]
      BY <1>0, <1>5, <2>1 DEF WritePointer
    <2> QED
      BY <1>5, <2>2 DEF WritePointer
  <1>6. CASE Install(o)
    <2>1. runtime' \in Snapshot
      BY <1>6, TypesOfWrites DEF Install, OpInv
    <2> QED
      BY <1>6, <2>1 DEF Install
  <1>7. CASE Unlock(o)
    BY <1>7 DEF Unlock
  <1> QED
    BY <1>1, <1>2, <1>3, <1>4, <1>5, <1>6, <1>7 DEF Step

(* A thread follows the edges of its operation and leaves the others alone. *)
LEMMA ThreadStep ==
  ASSUME TypeOK, NEW o \in Ops, Step(o)
  PROVE  /\ \A p \in Ops \ {o} : pc'[p] = pc[p] /\ result'[p] = result[p] /\ op'[p] = op[p]
         /\ pc[o] \notin {"idle", "answered"}
         /\ pc'[o] \notin {"idle", "begin"}
         /\ /\ op'[o].kind = op[o].kind /\ op'[o].workspace = op[o].workspace
            /\ op'[o].version = op[o].version /\ op'[o].expected = op[o].expected
         /\ pc[o] # "begin" => op' = op
         /\ pc'[o] \in {"commit", "summary"} =>
              op[o].kind = "publish" \/ pc[o] \in {"commit", "summary"}
         /\ pc'[o] \notin {"unlock", "answered"} =>
              result'[o] = result[o] /\ pc[o] # "unlock"
  <1> USE DEF TypeOK, disk, process, locks, bounds, Goto, Answer, Raise, Load, Request
  <1>1. CASE PublishBegin(o)
    BY <1>1 DEF PublishBegin
  <1>2. CASE CommitVersion(o)
    BY <1>2 DEF CommitVersion
  <1>3. CASE WriteSummary(o)
    BY <1>3 DEF WriteSummary
  <1>4. CASE RollbackBegin(o)
    BY <1>4 DEF RollbackBegin
  <1>5. CASE WritePointer(o)
    BY <1>5 DEF WritePointer
  <1>6. CASE Install(o)
    BY <1>6 DEF Install
  <1>7. CASE Unlock(o)
    BY <1>7 DEF Unlock
  <1> QED
    BY <1>1, <1>2, <1>3, <1>4, <1>5, <1>6, <1>7 DEF Step

(* A new request waits at the entrance. *)
LEMMA SubmitStep ==
  ASSUME TypeOK, OpInv, NEW o \in Ops, Submit(o)
  PROVE  /\ TypeOK'
         /\ pc[o] = "idle" /\ pc'[o] = "begin" /\ result' = result
         /\ op'[o].version \in Versions
         /\ \A p \in Ops \ {o} : pc'[p] = pc[p] /\ op'[p] = op[p]
  <1> USE DEF TypeOK, disk, process, locks, bounds, Goto
  <1>1. PICK w \in Workspaces, v \in Versions :
          \/ \E expected \in 0 .. revision[w] :
               op' = [op EXCEPT ![o] = [kind |-> "publish", workspace |-> w, version |-> v,
                                        expected |-> expected, loaded |-> 0]]
          \/ op' = [op EXCEPT ![o] = [kind |-> "rollback", workspace |-> w, version |-> v,
                                      expected |-> 0, loaded |-> 0]]
    BY DEF Submit
  <1>2. /\ op' \in [Ops -> Request] /\ op'[o].version = v
        /\ \A p \in Ops \ {o} : op'[p] = op[p]
    <2>1. revision[w] \in 0 .. MaxRevision /\ MaxRevision \in Nat
      BY PublisherAssumption DEF Revisions
    <2>2. CASE \E expected \in 0 .. revision[w] :
                 op' = [op EXCEPT ![o] = [kind |-> "publish", workspace |-> w, version |-> v,
                                          expected |-> expected, loaded |-> 0]]
      BY <2>1, <2>2 DEF Request, Revisions
    <2>3. CASE op' = [op EXCEPT ![o] = [kind |-> "rollback", workspace |-> w, version |-> v,
                                        expected |-> 0, loaded |-> 0]]
      BY <2>1, <2>3 DEF Request, Revisions
    <2> QED
      BY <1>1, <2>2, <2>3
  <1>3. pc' = [pc EXCEPT ![o] = "begin"] /\ pc[o] = "idle" /\ result' = result
    BY DEF Submit
  <1>4. TypeOK'
    BY <1>2, <1>3 DEF Submit, Labels
  <1> QED
    BY <1>2, <1>3, <1>4

(* A crash ends every thread at work without an answer. *)
LEMMA CrashStep ==
  ASSUME TypeOK, Crash
  PROVE  /\ TypeOK'
         /\ op' = op
         /\ \A o \in Ops :
              IF pc[o] \in {"idle", "answered"}
              THEN pc'[o] = pc[o] /\ result'[o] = result[o]
              ELSE pc'[o] = "answered" /\ result'[o] = "lost"
  <1>1. NoSnapshot \in Snapshot
    BY PublisherAssumption DEF NoSnapshot, Snapshot, Revisions
  <1> QED
    BY <1>1 DEF TypeOK, Crash, disk, Labels, Answers

(* The steps that belong to no operation keep the types and the threads. *)
LEMMA EnvironmentStep ==
  ASSUME TypeOK,
         \/ \E w \in Workspaces : Edit(w)
         \/ \E w \in Workspaces, v \in Versions : Damage(w, v)
         \/ Recover
  PROVE  /\ TypeOK'
         /\ pc' = pc /\ result' = result /\ op' = op /\ wsLock' = wsLock
         /\ coordLock' = coordLock /\ metadata' = metadata /\ pointer' = pointer
  <1> USE DEF TypeOK, disk, process, locks, bounds
  <1>1. CASE \E w \in Workspaces : Edit(w)
    BY <1>1, PublisherAssumption DEF Edit, Revisions
  <1>2. CASE \E w \in Workspaces, v \in Versions : Damage(w, v)
    <2>1. PICK w \in Workspaces, v \in Versions : Damage(w, v)
      BY <1>2
    <2>2. package[w][v].revision \in Revisions
      BY DEF Packages
    <2>3. PICK state \in {"absent", "damaged"} :
            package' = [package EXCEPT ![w][v] =
                          [state |-> state, revision |-> package[w][v].revision]]
      BY <2>1 DEF Damage
    <2>4. [state |-> state, revision |-> package[w][v].revision] \in Packages
      BY <2>2 DEF Packages
    <2>5. package' \in [Workspaces -> [Versions -> Packages]]
      BY <2>3, <2>4
    <2> QED
      BY <2>1, <2>5 DEF Damage
  <1>3. CASE Recover
    <2>1. NoSnapshot \in Snapshot
      BY PublisherAssumption DEF NoSnapshot, Snapshot, Revisions
    <2>2. Recoverable(Managed) => SnapshotOf(Managed) \in Snapshot
      BY PublisherAssumption
      DEF Recoverable, Intact, SnapshotOf, Snapshot, Pointers, Packages
    <2> QED
      BY <1>3, <2>1, <2>2 DEF Recover
  <1> QED
    BY <1>1, <1>2, <1>3

(* The types and the shape of the threads are an inductive invariant. *)
LEMMA TypeInvNext == TypeInv /\ [Next]_vars => TypeInv'
  <1> SUFFICES ASSUME TypeOK, OpInv, [Next]_vars PROVE TypeInv'
    BY DEF TypeInv
  <1>1. CASE \E o \in Ops : Submit(o)
    BY <1>1, SubmitStep DEF TypeInv, OpInv
  <1>2. CASE \E o \in Ops : Step(o)
    <2>1. PICK o \in Ops : Step(o)
      BY <1>2
    <2>2. OpInv'
      BY <2>1, ThreadStep DEF OpInv
    <2> QED
      BY <2>1, <2>2, TypeStep DEF TypeInv
  <1>3. CASE \/ \E w \in Workspaces : Edit(w)
             \/ \E w \in Workspaces, v \in Versions : Damage(w, v)
             \/ Recover
    BY <1>3, EnvironmentStep DEF TypeInv, OpInv
  <1>4. CASE Crash
    BY <1>4, CrashStep DEF TypeInv, OpInv
  <1>5. CASE UNCHANGED vars
    <2>1. TypeOK'
      BY <1>5 DEF vars, TypeOK
    <2>2. OpInv'
      BY <1>5 DEF vars, OpInv
    <2> QED
      BY <2>1, <2>2 DEF TypeInv
  <1> QED
    BY <1>1, <1>2, <1>3, <1>4, <1>5 DEF Next

(* Every variable keeps its type, and an answered client has an answer. *)
THEOREM TypeCorrect == Spec => []TypeOK
  <1>1. TypeInv => TypeOK
    BY DEF TypeInv
  <1> QED
    BY TypeInit, TypeInvNext, <1>1, PTL DEF Spec

-------------------------------------------------------------------------------
(* The locks: a thread past the entrance holds the lock of its workspace, and
   the one between the two halves of a switch is the holder of the other. *)
Holding == {"commit", "summary", "coordinate", "install", "unlock"}

LockInv ==
  \A o \in Ops :
    /\ pc[o] \in Holding => wsLock[op[o].workspace] = o
    /\ pc[o] = "install" <=> coordLock = o

(* Two threads at work are at work on different workspaces. *)
LEMMA Exclusion ==
  ASSUME LockInv, NEW o \in Ops, NEW p \in Ops, pc[o] \in Holding, pc[p] \in Holding,
         op[o].workspace = op[p].workspace
  PROVE  o = p
  BY DEF LockInv

(* Both locks are free when the server starts. *)
LEMMA LockInit == Init => LockInv
  BY PublisherAssumption DEF Init, LockInv, Holding

(* A thread takes a free lock, and gives back only its own. *)
LEMMA LockStep ==
  ASSUME TypeOK, OpInv, LockInv, NEW o \in Ops, Step(o)
  PROVE  LockInv'
  <1> USE PublisherAssumption
      DEF TypeOK, LockInv, Holding, disk, process, locks, bounds, Goto, Answer, Raise
  <1>0. op[o].workspace \in Workspaces
    BY DEF Request
  <1>1. CASE PublishBegin(o) \/ RollbackBegin(o)
    <2>1. /\ wsLock[op[o].workspace] = None
          /\ wsLock' = [wsLock EXCEPT ![op[o].workspace] = o]
          /\ coordLock' = coordLock /\ pc[o] = "begin" /\ pc'[o] # "install"
      BY <1>1 DEF PublishBegin, RollbackBegin
    <2> QED
      BY <1>0, <2>1, ThreadStep
  <1>2. CASE CommitVersion(o) \/ WriteSummary(o)
    BY <1>2, ThreadStep DEF CommitVersion, WriteSummary
  <1>3. CASE WritePointer(o)
    BY <1>3, ThreadStep DEF WritePointer
  <1>4. CASE Install(o)
    BY <1>4, ThreadStep DEF Install
  <1>5. CASE Unlock(o)
    <2>1. \A p \in Ops \ {o} : pc[p] \in Holding => op[p].workspace # op[o].workspace
      BY <1>5, Exclusion DEF Unlock
    <2> QED
      BY <1>0, <1>5, <2>1 DEF Unlock
  <1> QED
    BY <1>1, <1>2, <1>3, <1>4, <1>5 DEF Step

(* No step lets two operations into one workspace, or two into the switch. *)
LEMMA LockNext == TypeInv /\ LockInv /\ [Next]_vars => LockInv'
  <1> SUFFICES ASSUME TypeOK, OpInv, LockInv, [Next]_vars PROVE LockInv'
    BY DEF TypeInv
  <1>1. CASE \E o \in Ops : Submit(o)
    <2>1. PICK o \in Ops : Submit(o)
      BY <1>1
    <2>2. wsLock' = wsLock /\ coordLock' = coordLock
      BY <2>1 DEF Submit, locks
    <2> QED
      BY <2>1, <2>2, SubmitStep DEF LockInv, Holding
  <1>2. CASE \E o \in Ops : Step(o)
    BY <1>2, LockStep
  <1>3. CASE \/ \E w \in Workspaces : Edit(w)
             \/ \E w \in Workspaces, v \in Versions : Damage(w, v)
             \/ Recover
    BY <1>3, EnvironmentStep DEF LockInv
  <1>4. CASE Crash
    <2>1. coordLock' = None /\ \A o \in Ops : pc'[o] \in {"idle", "answered"}
      BY <1>4 DEF Crash
    <2> QED
      BY <2>1, PublisherAssumption DEF LockInv, Holding
  <1>5. CASE UNCHANGED vars
    BY <1>5 DEF vars, LockInv
  <1> QED
    BY <1>1, <1>2, <1>3, <1>4, <1>5 DEF Next

-------------------------------------------------------------------------------
(* The operation has switched its workspace to its version. *)
Switched(o) ==
  \/ pc[o] = "install"
  \/ pc[o] = "unlock" /\ result[o] = "none"
  \/ pc[o] = "answered" /\ result[o] \in {"ok", "lost"}

(* The version of the operation has its metadata. *)
Recorded(o) ==
  \/ pc[o] \in {"coordinate", "install"}
  \/ pc[o] = "unlock" /\ result[o] = "none"
  \/ result[o] = "ok"

(* What the files say of each version, and each thread of the version it is
   publishing or switching to. *)
VersionInv ==
  /\ \A w \in Workspaces, v \in Versions :
       metadata[w][v] # NoMetadata => package[w][v].revision = metadata[w][v]
  /\ \A w \in Workspaces :
       pointer[w].version # None => metadata[w][pointer[w].version] # NoMetadata
  /\ \A o \in Ops :
       LET w == op[o].workspace
           v == op[o].version IN
       /\ pc[o] \in {"commit", "summary"} => metadata[w][v] = NoMetadata
       /\ pc[o] = "summary" => package[w][v].revision = op[o].loaded
       /\ Recorded(o) => metadata[w][v] = op[o].loaded
       /\ op[o].kind = "publish" /\ (pc[o] \in {"commit", "summary"} \/ Recorded(o)) =>
            op[o].loaded = op[o].expected /\ op[o].loaded \in Publishable[w]

(* Where the pointer, the runtime and the threads stand. *)
SwitchInv ==
  /\ \A o \in Ops : pc[o] = "install" =>
       pointer[op[o].workspace] = [version |-> op[o].version, by |-> o]
  /\ RuntimeFollowsPointer
  /\ runtime # NoSnapshot =>
       /\ runtime.workspace \in Workspaces /\ runtime.version \in Versions
       /\ metadata[runtime.workspace][runtime.version] = runtime.revision
  /\ \A o \in Ops :
       runtime.by = o \/ (\E w \in Workspaces : pointer[w].by = o) => Switched(o)
  /\ ReadyWhenRecoverable

(* A thread changes the files of its own version only: the package on its
   commit, the metadata after it. *)
LEMMA FileStep ==
  ASSUME TypeOK, OpInv, NEW o \in Ops, Step(o), NEW x \in Workspaces, NEW y \in Versions
  PROVE  LET own == x = op[o].workspace /\ y = op[o].version IN
         /\ metadata'[x][y] # metadata[x][y] =>
              pc[o] = "summary" /\ own /\ metadata'[x][y] = op[o].loaded
         /\ ~(pc[o] = "commit" /\ own) => package'[x][y].revision = package[x][y].revision
  <1> USE DEF TypeOK, disk
  <1>1. CASE CommitVersion(o)
    <2>1. metadata' = metadata /\ pc[o] = "commit"
      BY <1>1 DEF CommitVersion
    <2>2. CASE package' = package
      BY <2>1, <2>2
    <2>3. CASE package' = [package EXCEPT ![op[o].workspace][op[o].version] =
                             [state |-> "intact", revision |-> op[o].loaded]]
      BY <2>1, <2>3
    <2> QED
      BY <1>1, <2>2, <2>3 DEF CommitVersion
  <1>2. CASE WriteSummary(o)
    <2>1. package' = package /\ pc[o] = "summary"
      BY <1>2 DEF WriteSummary
    <2>2. CASE metadata' = metadata
      BY <2>1, <2>2
    <2>3. CASE metadata' = [metadata EXCEPT ![op[o].workspace][op[o].version] = op[o].loaded]
      BY <2>1, <2>3
    <2> QED
      BY <1>2, <2>2, <2>3 DEF WriteSummary
  <1> QED
    BY <1>1, <1>2
    DEF Step, PublishBegin, RollbackBegin, WritePointer, Install, Unlock

(* A pointer that changes is the one of the thread's workspace, and names its
   version. *)
LEMMA PointerStep ==
  ASSUME NEW o \in Ops, Step(o), pointer' # pointer
  PROVE  /\ pc[o] = "coordinate"
         /\ pointer' = [pointer EXCEPT ![op[o].workspace] =
                           [version |-> op[o].version, by |-> o]]
  BY DEF Step, PublishBegin, CommitVersion, WriteSummary, RollbackBegin, WritePointer,
         Install, Unlock, disk

(* What a thread knows of its version when it has moved on. *)
LEMMA OwnVersion ==
  ASSUME TypeOK, OpInv, VersionInv, NEW o \in Ops, Step(o)
  PROVE  LET w == op[o].workspace
             v == op[o].version IN
         /\ pc'[o] \in {"commit", "summary"} => metadata'[w][v] = NoMetadata
         /\ Recorded(o)' => metadata'[w][v] = op'[o].loaded
         /\ op[o].kind = "publish" /\ (pc'[o] \in {"commit", "summary"} \/ Recorded(o)') =>
              op'[o].loaded = op[o].expected /\ op'[o].loaded \in Publishable[w]
         /\ pc'[o] = "summary" => package'[w][v].revision = op'[o].loaded
  <1> USE DEF TypeOK, disk, process, locks, bounds, Goto, Answer, Raise, Recorded, VersionInv
  <1>0. op[o].workspace \in Workspaces /\ op[o].version \in Versions
    BY ThreadStep DEF OpInv, Request
  <1>1. CASE PublishBegin(o)
    BY <1>0, <1>1 DEF PublishBegin, OpInv, Load, Reserved
  <1>2. CASE CommitVersion(o)
    BY <1>0, <1>2 DEF CommitVersion, OpInv
  <1>3. CASE WriteSummary(o)
    BY <1>0, <1>3 DEF WriteSummary, OpInv
  <1>4. CASE RollbackBegin(o)
    BY <1>0, <1>4 DEF RollbackBegin, OpInv, Load, Intact
  <1>5. CASE WritePointer(o)
    BY <1>0, <1>5 DEF WritePointer, OpInv
  <1>6. CASE Install(o)
    BY <1>0, <1>6 DEF Install, OpInv
  <1>7. CASE Unlock(o)
    BY <1>0, <1>7 DEF Unlock, OpInv
  <1> QED
    BY <1>1, <1>2, <1>3, <1>4, <1>5, <1>6, <1>7 DEF Step

(* The mark for missing metadata is not a revision. *)
LEMMA NoMetadataIsNoRevision == NoMetadata \notin Revisions
  BY PublisherAssumption DEF NoMetadata, Revisions

(* The inherited version has the metadata of its revision, nothing else has any. *)
LEMMA VersionInit == Init => VersionInv
  <1> SUFFICES ASSUME Init PROVE VersionInv
    OBVIOUS
  <1> USE PublisherAssumption DEF Init
  <1>1. \A w \in Workspaces, v \in Versions :
          metadata[w][v] # NoMetadata => package[w][v].revision = metadata[w][v]
    BY DEF IsInherited
  <1>2. \A w \in Workspaces : pointer[w].version # None =>
          w = Managed /\ pointer[w].version = Inherited /\ Inherited \in Versions
    BY DEF NoPointer
  <1>3. 0 # NoMetadata
    BY DEF NoMetadata
  <1>4. \A w \in Workspaces : pointer[w].version # None =>
          metadata[w][pointer[w].version] # NoMetadata
    BY <1>2, <1>3 DEF IsInherited
  <1> QED
    BY <1>1, <1>4 DEF VersionInv, Recorded

(* No step separates a version from its metadata or from the thread that builds it. *)
LEMMA VersionNext == TypeInv /\ LockInv /\ VersionInv /\ [Next]_vars => VersionInv'
  <1> SUFFICES ASSUME TypeOK, OpInv, LockInv, VersionInv, [Next]_vars PROVE VersionInv'
    BY DEF TypeInv
  <1>1. CASE \E o \in Ops : Step(o)
    <2>1. PICK o \in Ops : Step(o)
      BY <1>1
    <2> DEFINE w == op[o].workspace
               v == op[o].version
    <2>2. w \in Workspaces /\ v \in Versions /\ op[o].loaded \in Revisions
      BY <2>1, ThreadStep DEF TypeOK, OpInv, Request
    <2>3. pc[o] \in {"commit", "summary"} =>
            metadata[w][v] = NoMetadata /\ (pc[o] = "summary" => package[w][v].revision = op[o].loaded)
      BY DEF VersionInv
    <2>4. ASSUME NEW x \in Workspaces, NEW y \in Versions, metadata'[x][y] # NoMetadata
          PROVE  package'[x][y].revision = metadata'[x][y]
      <3>1. CASE metadata'[x][y] = metadata[x][y]
        <4>1. package'[x][y].revision = package[x][y].revision
          BY <2>1, <2>3, <2>4, <3>1, FileStep
        <4> QED
          BY <2>4, <3>1, <4>1 DEF VersionInv
      <3>2. CASE metadata'[x][y] # metadata[x][y]
        <4>1. pc[o] = "summary" /\ x = w /\ y = v /\ metadata'[x][y] = op[o].loaded
          BY <2>1, <3>2, FileStep
        <4>2. package'[x][y].revision = package[x][y].revision
          BY <2>1, <4>1, FileStep
        <4> QED
          BY <2>3, <4>1, <4>2
      <3> QED
        BY <3>1, <3>2
    <2>5. ASSUME NEW x \in Workspaces, NEW y \in Versions, metadata[x][y] # NoMetadata
          PROVE  metadata'[x][y] = metadata[x][y]
      BY <2>1, <2>3, <2>5, FileStep
    <2>6. ASSUME NEW x \in Workspaces, pointer'[x].version # None
          PROVE  metadata'[x][pointer'[x].version] # NoMetadata
      <3>1. CASE pointer' = pointer
        BY <2>5, <2>6, <3>1 DEF VersionInv, TypeOK, Pointers
      <3>2. CASE pointer' # pointer
        <4>1. /\ pc[o] = "coordinate"
              /\ pointer' = [pointer EXCEPT ![w] = [version |-> v, by |-> o]]
          BY <2>1, <3>2, PointerStep
        <4>2. CASE x = w
          <5>1. metadata[w][v] = op[o].loaded
            BY <4>1 DEF VersionInv, Recorded
          <5>2. metadata'[w][v] # NoMetadata
            BY <2>2, <2>5, <5>1, NoMetadataIsNoRevision
          <5>3. pointer'[x].version = v
            BY <2>2, <4>1, <4>2 DEF TypeOK
          <5> QED
            BY <4>2, <5>2, <5>3
        <4>3. CASE x # w
          <5>1. pointer'[x] = pointer[x]
            BY <4>1, <4>3 DEF TypeOK
          <5> QED
            BY <2>5, <2>6, <5>1 DEF VersionInv, TypeOK, Pointers
        <4> QED
          BY <4>2, <4>3
      <3> QED
        BY <3>1, <3>2
    <2>7. ASSUME NEW p \in Ops
          PROVE  LET x == op'[p].workspace
                     y == op'[p].version IN
                 /\ pc'[p] \in {"commit", "summary"} => metadata'[x][y] = NoMetadata
                 /\ pc'[p] = "summary" => package'[x][y].revision = op'[p].loaded
                 /\ Recorded(p)' => metadata'[x][y] = op'[p].loaded
                 /\ op'[p].kind = "publish" /\ (pc'[p] \in {"commit", "summary"} \/ Recorded(p)') =>
                      op'[p].loaded = op'[p].expected /\ op'[p].loaded \in Publishable[x]
      <3>1. CASE p = o
        BY <2>1, <3>1, OwnVersion, ThreadStep
      <3>2. CASE p # o
        <4> DEFINE x == op[p].workspace
                   y == op[p].version
        <4>1. /\ pc'[p] = pc[p] /\ result'[p] = result[p] /\ op'[p] = op[p]
              /\ Recorded(p)' = Recorded(p)
          BY <2>1, <3>2, ThreadStep DEF Recorded
        <4>2. pc[p] # "idle" => x \in Workspaces /\ y \in Versions /\ op[p].loaded \in Revisions
          BY DEF TypeOK, OpInv, Request
        <4>3. pc[p] \in {"commit", "summary"} =>
                metadata'[x][y] = metadata[x][y] /\ package'[x][y].revision = package[x][y].revision
          <5> SUFFICES ASSUME pc[p] \in {"commit", "summary"}
                       PROVE  /\ metadata'[x][y] = metadata[x][y]
                              /\ package'[x][y].revision = package[x][y].revision
            OBVIOUS
          <5>1. pc[o] \in {"commit", "summary"} => op[p].workspace # op[o].workspace
            BY <3>2, Exclusion DEF Holding
          <5>2. op[p].workspace \in Workspaces /\ op[p].version \in Versions
            BY <4>2
          <5> QED
            BY <2>1, <5>1, <5>2, FileStep
        <4>4. Recorded(p) => pc[p] # "idle"
          BY DEF Recorded, OpInv
        <4>5. Recorded(p) => metadata'[x][y] = metadata[x][y]
          BY <2>5, <4>2, <4>4, NoMetadataIsNoRevision DEF VersionInv
        <4> QED
          BY <4>1, <4>3, <4>5 DEF VersionInv
      <3> QED
        BY <3>1, <3>2
    <2> QED
      BY <2>4, <2>6, <2>7 DEF VersionInv
  <1>2. CASE \E o \in Ops : Submit(o)
    <2>1. PICK o \in Ops : Submit(o)
      BY <1>2
    <2>2. /\ metadata' = metadata /\ package' = package /\ pointer' = pointer
          /\ result' = result
      BY <2>1 DEF Submit, disk
    <2>3. pc'[o] = "begin" /\ result[o] = "none"
      BY <2>1, SubmitStep DEF OpInv
    <2>4. ~Recorded(o)'
      BY <2>2, <2>3 DEF Recorded
    <2>5. \A p \in Ops \ {o} :
            pc'[p] = pc[p] /\ op'[p] = op[p] /\ Recorded(p)' = Recorded(p)
      BY <2>1, <2>2, SubmitStep DEF Recorded
    <2> QED
      BY <2>2, <2>3, <2>4, <2>5 DEF VersionInv
  <1>3. CASE Crash
    <2>1. /\ metadata' = metadata /\ package' = package /\ pointer' = pointer /\ op' = op
      BY <1>3 DEF Crash, disk
    <2>2. \A o \in Ops : pc'[o] \in {"idle", "answered"}
      BY <1>3, CrashStep
    <2>3. \A o \in Ops : Recorded(o)' => Recorded(o)
      BY <1>3, CrashStep DEF Recorded
    <2> QED
      BY <2>1, <2>2, <2>3 DEF VersionInv
  <1>4. CASE \/ \E w \in Workspaces : Edit(w)
             \/ \E w \in Workspaces, v \in Versions : Damage(w, v)
             \/ Recover
    <2>1. /\ pc' = pc /\ result' = result /\ op' = op
          /\ metadata' = metadata /\ pointer' = pointer
      BY <1>4, EnvironmentStep
    <2>2. \A x \in Workspaces, y \in Versions :
            package'[x][y].revision = package[x][y].revision
      <3>1. CASE (\E w \in Workspaces : Edit(w)) \/ Recover
        BY <3>1 DEF Edit, Recover, disk
      <3>2. CASE \E w \in Workspaces, v \in Versions : Damage(w, v)
        <4>1. PICK w \in Workspaces, v \in Versions : Damage(w, v)
          BY <3>2
        <4>2. PICK state \in {"absent", "damaged"} :
                package' = [package EXCEPT ![w][v] =
                              [state |-> state, revision |-> package[w][v].revision]]
          BY <4>1 DEF Damage
        <4> QED
          BY <4>2 DEF TypeOK
      <3> QED
        BY <1>4, <3>1, <3>2
    <2>3. \A o \in Ops : pc[o] = "summary" =>
            op[o].workspace \in Workspaces /\ op[o].version \in Versions
      BY DEF TypeOK, OpInv, Request
    <2>4. \A o \in Ops : Recorded(o)' = Recorded(o)
      BY <2>1 DEF Recorded
    <2> QED
      BY <2>1, <2>2, <2>3, <2>4 DEF VersionInv
  <1>5. CASE UNCHANGED vars
    BY <1>5 DEF vars, VersionInv, Recorded
  <1> QED
    BY <1>1, <1>2, <1>3, <1>4, <1>5 DEF Next

-------------------------------------------------------------------------------
(* A server about to start serves nothing, and its pointer was written by nobody alive. *)
LEMMA SwitchInit == Init => SwitchInv
  <1> SUFFICES ASSUME Init PROVE SwitchInv
    OBVIOUS
  <1> USE PublisherAssumption DEF Init
  <1>1. \A o \in Ops : runtime.by # o /\ \A w \in Workspaces : pointer[w].by # o
    BY DEF NoSnapshot, NoPointer
  <1> QED
    BY <1>1 DEF SwitchInv, RuntimeFollowsPointer, ReadyWhenRecoverable

(* The pointer and the runtime change in the two halves of a switch only, and
   a version the pointer names does not become readable again by itself. *)
LEMMA SwitchStep ==
  ASSUME TypeOK, OpInv, LockInv, VersionInv, SwitchInv, NEW o \in Ops, Step(o)
  PROVE  SwitchInv'
  <1> DEFINE w == op[o].workspace
             v == op[o].version
  <1>0. w \in Workspaces /\ v \in Versions
    BY ThreadStep DEF TypeOK, OpInv, Request
  <1>1. CASE WritePointer(o) /\ pc'[o] = "install"
    <2>1. /\ pointer' = [pointer EXCEPT ![w] = [version |-> v, by |-> o]]
          /\ coordLock' = o /\ runtime' = runtime /\ metadata' = metadata /\ op' = op
          /\ coordLock = None
      BY <1>1, PublisherAssumption DEF WritePointer, process, Raise, Goto, TypeOK
    <2>2. \A p \in Ops \ {o} : pc[p] # "install"
      BY <2>1, PublisherAssumption DEF LockInv
    <2>3. \A p \in Ops \ {o} : Switched(p)' = Switched(p)
      BY ThreadStep DEF Switched
    <2>4. Switched(o)'
      BY <1>1 DEF Switched
    <2>5. \A x \in Workspaces :
            pointer'[x] = IF x = w THEN [version |-> v, by |-> o] ELSE pointer[x]
      BY <2>1 DEF TypeOK
    <2>6. coordLock' # None
      BY <2>1, PublisherAssumption
    <2>7. \A p \in Ops : pc'[p] = "install" => p = o
      BY <2>2, ThreadStep
    <2>8. \A p \in Ops :
            runtime'.by = p \/ (\E x \in Workspaces : pointer'[x].by = p) => Switched(p)'
      BY <2>1, <2>3, <2>4, <2>5 DEF SwitchInv
    <2> QED
      BY <1>0, <2>1, <2>5, <2>6, <2>7, <2>8
      DEF SwitchInv, RuntimeFollowsPointer, ReadyWhenRecoverable
  <1>2. CASE Install(o)
    <2>1. /\ runtime' = [workspace |-> w, version |-> v, revision |-> op[o].loaded, by |-> o]
          /\ coordLock' = None /\ pointer' = pointer /\ metadata' = metadata
          /\ op' = op /\ result' = result /\ pc[o] = "install"
      BY <1>2 DEF Install, disk
    <2>2. pointer[w] = [version |-> v, by |-> o]
      BY <2>1 DEF SwitchInv
    <2>3. metadata[w][v] = op[o].loaded
      BY <2>1 DEF VersionInv, Recorded
    <2>4. runtime' # NoSnapshot
      BY <1>0, <2>1, PublisherAssumption DEF NoSnapshot
    <2>5. \A p \in Ops : Switched(p) => Switched(p)'
      BY <1>2, ThreadStep DEF Switched, Install, Goto, OpInv, TypeOK
    <2>6. \A p \in Ops : pc'[p] # "install"
      BY <1>2, ThreadStep DEF Install, Goto, LockInv, TypeOK
    <2>7. Switched(o)
      BY <2>1 DEF Switched
    <2> QED
      BY <1>0, <2>1, <2>2, <2>3, <2>4, <2>5, <2>6, <2>7
      DEF SwitchInv, RuntimeFollowsPointer, ReadyWhenRecoverable
  <1>3. CASE ~Install(o) /\ ~(WritePointer(o) /\ pc'[o] = "install")
    <2>1. /\ pointer' = pointer /\ runtime' = runtime /\ coordLock' = coordLock
          /\ server' = server /\ pc[o] # "install" /\ pc'[o] # "install"
      BY <1>3
      DEF Step, PublishBegin, CommitVersion, WriteSummary, RollbackBegin, WritePointer,
          Install, Unlock, disk, process, locks, Raise, Answer, Goto, TypeOK
    <2>2. \A x \in Workspaces, y \in Versions :
            metadata[x][y] # NoMetadata => metadata'[x][y] = metadata[x][y]
      <3> SUFFICES ASSUME NEW x \in Workspaces, NEW y \in Versions,
                          metadata[x][y] # NoMetadata
                   PROVE  metadata'[x][y] = metadata[x][y]
        OBVIOUS
      <3>1. pc[o] = "summary" => metadata[w][v] = NoMetadata
        BY DEF VersionInv
      <3> QED
        BY <3>1, FileStep
    <2>3. runtime # NoSnapshot => runtime.revision # NoMetadata
      BY NoMetadataIsNoRevision DEF TypeOK, Snapshot
    <2>4. \A p \in Ops : Switched(p) => Switched(p)'
      <3>1. CASE pc[o] = "unlock" /\ result[o] = "none"
        <4>1. Unlock(o)
          BY <3>1
          DEF Step, PublishBegin, CommitVersion, WriteSummary, RollbackBegin,
              WritePointer, Install
        <4>2. pc'[o] = "answered" /\ result'[o] = "ok"
          BY <3>1, <4>1 DEF Unlock, Answer, Goto, TypeOK
        <4> QED
          BY <4>2, ThreadStep DEF Switched
      <3>2. CASE ~(pc[o] = "unlock" /\ result[o] = "none")
        BY <2>1, <3>2, ThreadStep DEF Switched
      <3> QED
        BY <3>1, <3>2
    <2>5. Recoverable(Managed)' => Recoverable(Managed)
      <3>1. CASE CommitVersion(o)
        <4>1. metadata[w][v] = NoMetadata
          BY <3>1 DEF CommitVersion, VersionInv
        <4>2. pointer[w].version # v
          BY <1>0, <4>1, PublisherAssumption DEF VersionInv
        <4>3. package' = package \/
              package' = [package EXCEPT ![w][v] =
                            [state |-> "intact", revision |-> op[o].loaded]]
          BY <3>1 DEF CommitVersion
        <4>4. \A y \in Versions : y = pointer[Managed].version =>
                package'[Managed][y] = package[Managed][y]
          <5>1. package \in [Workspaces -> [Versions -> Packages]] /\ Managed \in Workspaces
            BY PublisherAssumption DEF TypeOK
          <5>2. CASE w = Managed
            BY <4>2, <4>3, <5>1, <5>2
          <5>3. CASE w # Managed
            <6>1. package'[Managed] = package[Managed]
              BY <1>0, <4>3, <5>1, <5>3
            <6> QED
              BY <6>1
          <5> QED
            BY <5>2, <5>3
        <4> QED
          BY <2>1, <4>4, PublisherAssumption DEF Recoverable, Intact, TypeOK, Pointers
      <3>2. CASE package' = package
        BY <2>1, <3>2 DEF Recoverable, Intact
      <3> QED
        BY <3>1, <3>2
        DEF Step, PublishBegin, WriteSummary, RollbackBegin, WritePointer,
            Install, Unlock, disk
    <2>6. ReadyWhenRecoverable'
      BY <2>1, <2>5 DEF SwitchInv, ReadyWhenRecoverable
    <2>7. RuntimeFollowsPointer'
      BY <2>1 DEF SwitchInv, RuntimeFollowsPointer
    <2>8. \A p \in Ops : pc'[p] = "install" => pc[p] = "install" /\ op'[p] = op[p]
      BY <2>1, ThreadStep
    <2>9. runtime' # NoSnapshot =>
            /\ runtime'.workspace \in Workspaces /\ runtime'.version \in Versions
            /\ metadata'[runtime'.workspace][runtime'.version] = runtime'.revision
      BY <2>1, <2>2, <2>3 DEF SwitchInv
    <2> QED
      BY <2>1, <2>4, <2>6, <2>7, <2>8, <2>9 DEF SwitchInv
  <1> QED
    BY <1>1, <1>2, <1>3

(* No step separates the pointer of a workspace from what the process serves. *)
LEMMA SwitchNext ==
  TypeInv /\ LockInv /\ VersionInv /\ SwitchInv /\ [Next]_vars => SwitchInv'
  <1> SUFFICES ASSUME TypeOK, OpInv, LockInv, VersionInv, SwitchInv, [Next]_vars
               PROVE  SwitchInv'
    BY DEF TypeInv
  <1>1. CASE \E o \in Ops : Step(o)
    BY <1>1, SwitchStep
  <1>2. CASE \E o \in Ops : Submit(o)
    <2>1. PICK o \in Ops : Submit(o)
      BY <1>2
    <2>2. /\ metadata' = metadata /\ package' = package /\ pointer' = pointer
          /\ runtime' = runtime /\ server' = server /\ coordLock' = coordLock
      BY <2>1 DEF Submit, disk, process, locks
    <2>3. ~Switched(o)
      BY <2>1, SubmitStep DEF Switched
    <2>4. \A p \in Ops \ {o} :
            pc'[p] = pc[p] /\ op'[p] = op[p] /\ Switched(p)' = Switched(p)
      BY <2>1, SubmitStep DEF Switched
    <2>5. pc'[o] # "install"
      BY <2>1, SubmitStep
    <2> QED
      BY <2>2, <2>3, <2>4, <2>5
      DEF SwitchInv, RuntimeFollowsPointer, ReadyWhenRecoverable, Recoverable, Intact
  <1>3. CASE Crash
    <2>1. /\ pointer' = pointer /\ runtime' = NoSnapshot /\ server' = "down"
      BY <1>3 DEF Crash, disk
    <2>2. \A o \in Ops : pc'[o] # "install" /\ (Switched(o) => Switched(o)')
      BY <1>3, CrashStep DEF Switched
    <2>3. \A o \in Ops : runtime'.by # o
      BY <2>1, PublisherAssumption DEF NoSnapshot
    <2> QED
      BY <2>1, <2>2, <2>3 DEF SwitchInv, RuntimeFollowsPointer, ReadyWhenRecoverable
  <1>4. CASE Recover
    <2>1. /\ pc' = pc /\ result' = result /\ op' = op /\ coordLock' = coordLock
          /\ metadata' = metadata /\ pointer' = pointer /\ package' = package
      BY <1>4, EnvironmentStep DEF Recover, disk
    <2>2. \A o \in Ops : Switched(o)' = Switched(o)
      BY <2>1 DEF Switched
    <2>3. CASE Recoverable(Managed)
      <3> DEFINE v == pointer[Managed].version
      <3>1. runtime' = SnapshotOf(Managed)
        BY <1>4, <2>3 DEF Recover
      <3>2. runtime' # NoSnapshot
        BY <3>1, PublisherAssumption DEF SnapshotOf, NoSnapshot
      <3>3. v \in Versions
        BY <2>3, PublisherAssumption DEF Recoverable, TypeOK, Pointers
      <3>4. metadata[Managed][v] = package[Managed][v].revision
        BY <2>3, <3>3, PublisherAssumption DEF Recoverable, VersionInv
      <3>5. /\ runtime'.workspace = Managed /\ runtime'.version = v
            /\ runtime'.by = pointer[Managed].by
            /\ runtime'.revision = package[Managed][v].revision
        BY <3>1 DEF SnapshotOf
      <3> QED
        BY <2>1, <2>2, <3>2, <3>3, <3>4, <3>5, PublisherAssumption
        DEF SwitchInv, RuntimeFollowsPointer, ReadyWhenRecoverable
    <2>4. CASE ~Recoverable(Managed)
      <3>1. runtime' = NoSnapshot /\ ~Recoverable(Managed)'
        BY <1>4, <2>1, <2>4 DEF Recover, Recoverable, Intact
      <3>2. \A o \in Ops : runtime'.by # o
        BY <3>1, PublisherAssumption DEF NoSnapshot
      <3> QED
        BY <2>1, <2>2, <3>1, <3>2
        DEF SwitchInv, RuntimeFollowsPointer, ReadyWhenRecoverable
    <2> QED
      BY <2>3, <2>4
  <1>5. CASE \/ \E w \in Workspaces : Edit(w)
             \/ \E w \in Workspaces, v \in Versions : Damage(w, v)
    <2>1. /\ pc' = pc /\ result' = result /\ op' = op /\ coordLock' = coordLock
          /\ metadata' = metadata /\ pointer' = pointer
      BY <1>5, EnvironmentStep
    <2>2. runtime' = runtime /\ server' = server
      BY <1>5 DEF Edit, Damage, process
    <2>3. \A w \in Workspaces, v \in Versions :
            package'[w][v].state = "intact" => package[w][v].state = "intact"
      <3>1. CASE \E w \in Workspaces : Edit(w)
        BY <3>1 DEF Edit
      <3>2. CASE \E w \in Workspaces, v \in Versions : Damage(w, v)
        <4>1. PICK w \in Workspaces, v \in Versions : Damage(w, v)
          BY <3>2
        <4>2. PICK state \in {"absent", "damaged"} :
                package' = [package EXCEPT ![w][v] =
                              [state |-> state, revision |-> package[w][v].revision]]
          BY <4>1 DEF Damage
        <4> QED
          BY <4>2 DEF TypeOK
      <3> QED
        BY <1>5, <3>1, <3>2
    <2>4. Recoverable(Managed)' => Recoverable(Managed)
      BY <2>1, <2>3, PublisherAssumption DEF Recoverable, Intact, TypeOK, Pointers
    <2>5. \A o \in Ops : Switched(o)' = Switched(o)
      BY <2>1 DEF Switched
    <2>6. ReadyWhenRecoverable' /\ RuntimeFollowsPointer'
      BY <2>1, <2>2, <2>4 DEF SwitchInv, ReadyWhenRecoverable, RuntimeFollowsPointer
    <2> QED
      BY <2>1, <2>2, <2>5, <2>6 DEF SwitchInv
  <1>6. CASE UNCHANGED vars
    BY <1>6
    DEF vars, SwitchInv, Switched, RuntimeFollowsPointer, ReadyWhenRecoverable,
        Recoverable, Intact
  <1> QED
    BY <1>1, <1>2, <1>3, <1>4, <1>5, <1>6 DEF Next

-------------------------------------------------------------------------------
IInv == TypeInv /\ LockInv /\ VersionInv /\ SwitchInv

(* The four invariants together are inductive. *)
LEMMA Inductive == Spec => []IInv
  <1>1. Init => IInv
    BY TypeInit, LockInit, VersionInit, SwitchInit DEF IInv
  <1>2. IInv /\ [Next]_vars => IInv'
    BY TypeInvNext, LockNext, VersionNext, SwitchNext DEF IInv
  <1> QED
    BY <1>1, <1>2, PTL DEF Spec

(* Whenever no switch is in progress the process answers from the version its
   workspace's pointer names, as the operation that wrote the pointer left it. *)
THEOREM PointerAndRuntimeAgree == Spec => []RuntimeFollowsPointer
  <1>1. IInv => RuntimeFollowsPointer
    BY DEF IInv, SwitchInv
  <1> QED
    BY Inductive, <1>1, PTL

(* A process that serves requests has an ontology when there is one to recover. *)
THEOREM RecoveredWhenPossible == Spec => []ReadyWhenRecoverable
  <1>1. IInv => ReadyWhenRecoverable
    BY DEF IInv, SwitchInv
  <1> QED
    BY Inductive, <1>1, PTL

(* The active version has metadata. *)
THEOREM ActiveListed == Spec => []ActiveVersionIsListed
  <1>1. IInv => ActiveVersionIsListed
    BY DEF IInv, VersionInv, ActiveVersionIsListed
  <1> QED
    BY Inductive, <1>1, PTL

(* Version, metadata and served snapshot speak of the same text. *)
THEOREM VersionsRecordRevisions == Spec => []VersionRecordsItsRevision
  <1>1. IInv => VersionRecordsItsRevision
    BY DEF IInv, VersionInv, SwitchInv, VersionRecordsItsRevision
  <1> QED
    BY Inductive, <1>1, PTL

(* What was published is what its client reviewed, and had passed the checks. *)
THEOREM PublishedReviewed == Spec => []PublishedAsReviewed
  <1>1. IInv => PublishedAsReviewed
    <2> SUFFICES ASSUME IInv, NEW o \in Ops, op[o].kind = "publish", result[o] = "ok"
                 PROVE  /\ op[o].expected \in Publishable[op[o].workspace]
                        /\ package[op[o].workspace][op[o].version].revision = op[o].expected
      BY DEF PublishedAsReviewed
    <2>1. Recorded(o)
      BY DEF Recorded
    <2>2. pc[o] # "idle"
      BY DEF IInv, TypeInv, OpInv
    <2>3. /\ op[o].workspace \in Workspaces /\ op[o].version \in Versions
          /\ op[o].loaded \in Revisions
      BY <2>2 DEF IInv, TypeInv, TypeOK, OpInv, Request
    <2>4. /\ metadata[op[o].workspace][op[o].version] = op[o].loaded
          /\ op[o].loaded = op[o].expected
          /\ op[o].loaded \in Publishable[op[o].workspace]
      BY <2>1 DEF IInv, VersionInv
    <2> QED
      BY <2>3, <2>4, NoMetadataIsNoRevision DEF IInv, VersionInv
  <1> QED
    BY Inductive, <1>1, PTL

(* An operation that reported an error is neither active on disk nor served. *)
THEOREM FailureKeepsActive == Spec => []FailedSwitchKeepsActive
  <1>1. IInv => FailedSwitchKeepsActive
    <2> SUFFICES ASSUME IInv, NEW o \in Ops, result[o] \notin {"none", "ok", "lost"}
                 PROVE  runtime.by # o /\ \A w \in Workspaces : pointer[w].by # o
      BY Zenon DEF FailedSwitchKeepsActive
    <2>1. SwitchInv
      BY DEF IInv
    <2>2. ~Switched(o)
      BY DEF IInv, TypeInv, OpInv, Switched
    <2> QED
      BY <2>1, <2>2 DEF SwitchInv
  <1> QED
    BY Inductive, <1>1, PTL

(* Nothing puts another package under the identifier of an announced version. *)
THEOREM AnnouncedNeverRebuilt == Spec => NeverRebuilt
  <1> DEFINE Kept(o) ==
        LET w == op[o].workspace
            v == op[o].version IN
        op[o].kind = "publish" /\ result[o] = "ok" /\ package'[w][v].state = "intact" =>
          package'[w][v] = package[w][v]
  <1>1. IInv /\ [Next]_vars => [\A o \in Ops : Kept(o)]_vars
    <2> SUFFICES ASSUME IInv, [Next]_vars, NEW o \in Ops,
                        result[o] = "ok",
                        package'[op[o].workspace][op[o].version].state = "intact"
                 PROVE  package'[op[o].workspace][op[o].version]
                          = package[op[o].workspace][op[o].version]
      OBVIOUS
    <2> DEFINE w == op[o].workspace
               v == op[o].version
    <2>1. w \in Workspaces /\ v \in Versions /\ op[o].loaded \in Revisions
      BY DEF IInv, TypeInv, TypeOK, OpInv, Request
    <2>2. metadata[w][v] # NoMetadata
      BY <2>1, NoMetadataIsNoRevision DEF IInv, VersionInv, Recorded
    <2>3. CASE \E p \in Ops : CommitVersion(p)
      <3>1. PICK p \in Ops : CommitVersion(p)
        BY <2>3
      <3>2. ~(op[p].workspace = w /\ op[p].version = v)
        BY <2>2, <3>1 DEF CommitVersion, IInv, VersionInv
      <3>3. package \in [Workspaces -> [Versions -> Packages]]
        BY DEF IInv, TypeInv, TypeOK
      <3>4. \/ package' = package
            \/ package' = [package EXCEPT ![op[p].workspace][op[p].version] =
                             [state |-> "intact", revision |-> op[p].loaded]]
        BY <3>1 DEF CommitVersion
      <3> QED
        BY <2>1, <3>2, <3>3, <3>4
    <2>4. CASE \E x \in Workspaces, y \in Versions : Damage(x, y)
      <3>1. PICK x \in Workspaces, y \in Versions : Damage(x, y)
        BY <2>4
      <3>2. PICK state \in {"absent", "damaged"} :
              package' = [package EXCEPT ![x][y] =
                            [state |-> state, revision |-> package[x][y].revision]]
        BY <3>1 DEF Damage
      <3>3. package \in [Workspaces -> [Versions -> Packages]]
        BY DEF IInv, TypeInv, TypeOK
      <3>4. ~(x = w /\ y = v)
        BY <2>1, <3>2, <3>3
      <3> QED
        BY <2>1, <3>2, <3>3, <3>4
    <2>5. CASE \E p \in Ops : Submit(p) \/ (Step(p) /\ ~CommitVersion(p))
      <3>1. package' = package
        BY <2>5 DEF Submit, Step, PublishBegin, WriteSummary, RollbackBegin, WritePointer,
                    Install, Unlock, disk
      <3> QED
        BY <3>1
    <2>6. CASE (\E x \in Workspaces : Edit(x)) \/ Crash \/ Recover \/ UNCHANGED vars
      <3>1. package' = package
        BY <2>6 DEF Edit, Crash, Recover, disk, vars
      <3> QED
        BY <3>1
    <2> QED
      BY <2>3, <2>4, <2>5, <2>6, Zenon DEF Next, Step
  <1> QED
    BY Inductive, <1>1, PTL DEF Spec, NeverRebuilt
===============================================================================
