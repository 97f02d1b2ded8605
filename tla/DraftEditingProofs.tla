--------------------------- MODULE DraftEditingProofs ---------------------------
(***************************************************************************)
(* Theorems about DraftEditing for every set of objects, fields, relations, *)
(* editors and delete requests, however their commits overlap.  The        *)
(* inductive invariant IInv is the type invariant with one part for each   *)
(* question: which revisions exist (RevisionInv), whether the texts can be *)
(* read (ReadableInv), what a disposition stands for (ReviewInv), what a   *)
(* delete may have missed (RaceInv), and how long what it has counted      *)
(* stays true (ImpactInv).                                                 *)
(***************************************************************************)
EXTENDS DraftEditing, FiniteSetTheorems, TLAPS

(* A thread commits from a revision that has been written, and within the bound;
   a client quotes no other. *)
RevisionInv ==
  /\ draft.revision <= latest
  /\ \A t \in Threads : base[t].revision <= latest
  /\ \A t \in Committing : base[t].revision < MaxRevision
  /\ \A d \in Deletes : expected[d] <= latest

(* The draft, and every text a commit has read, can be read again. *)
ReadableInv ==
  /\ Consistent(draft)
  /\ \A t \in Threads : Consistent(base[t])

(* A disposition in the draft, in a text a commit has read, and a relation
   published because of one, was recorded for a relation between the same
   fields. *)
Reviewed(id, endpoints) ==
  \E v \in reviewed : v.id = id /\ {v.source, v.target} = endpoints

ReviewedIn(text) == \A k \in text.dispositions : Reviewed(k.id, k.endpoints)

ReviewInv ==
  /\ ReviewedIn(draft)
  /\ \A t \in Threads : ReviewedIn(base[t])
  /\ \A p \in building.relied : Reviewed(p.id, {p.source, p.target})
  /\ \A p \in relied : Reviewed(p.id, {p.source, p.target})

(* What a delete does not know to be published was listed at the revision it
   quotes. *)
MissedAtRevision(d) == \A i \in Listed : i \in protected[d] \/ listedAt[i] = expected[d]

(* That is so while the draft is the one text of the revision the delete quotes,
   and while the text its commit has read is still the draft. *)
RaceInv ==
  \A d \in Deletes :
    /\ phase[d] = "commit" /\ draft.revision = expected[d] /\ expected[d] \notin reused =>
         MissedAtRevision(d)
    /\ phase[d] = "write" => base[d].revision = expected[d]
    /\ phase[d] = "write" /\ base[d] = draft /\ expected[d] \notin reused =>
         MissedAtRevision(d)

(* The impact a delete has counted is true of the one text of the revision it
   quotes. *)
ImpactInv ==
  \A d \in Deletes :
    /\ phase[d] \in {"editor", "commit"} /\ draft.revision = expected[d]
         /\ expected[d] \notin reused => impact[d] = ImpactOf(draft, target[d])
    /\ phase[d] = "write" /\ expected[d] \notin reused =>
         impact[d] = ImpactOf(base[d], target[d])

IInv == TypeOK /\ RevisionInv /\ ReadableInv /\ ReviewInv /\ RaceInv /\ ImpactInv

-------------------------------------------------------------------------------
(* Texts *)

(* The empty text is a text, can be read, and holds no disposition. *)
LEMMA EmptyTextIsText ==
  EmptyText \in Text /\ EmptyText.revision = 0 /\ Consistent(EmptyText)
    /\ EmptyText.dispositions = {}
  BY DraftEditingAssumption DEF EmptyText, Text, Revisions, Consistent

(* The number of a revision is no part of its content. *)
LEMMA Renumbered ==
  ASSUME NEW text \in Text, NEW n \in Revisions
  PROVE  LET new == [text EXCEPT !.revision = n]
         IN  /\ new \in Text /\ new.revision = n
             /\ new.objects = text.objects /\ new.fields = text.fields
             /\ new.relations = text.relations /\ new.policies = text.policies
             /\ new.dispositions = text.dispositions
             /\ Consistent(text) => Consistent(new)
  BY DEF Text, Consistent

(* Editors and deletes are different threads. *)
LEMMA Apart ==
  /\ \A e \in Editors : e \in Threads /\ e \notin Deletes
  /\ \A d \in Deletes : d \in Threads /\ d \notin Editors
  BY DraftEditingAssumption DEF Threads

(* What a cascade leaves of a text is a text. *)
LEMMA CascadeTypes ==
  ASSUME NEW text \in Text, NEW i \in Identifiers
  PROVE  LET new == Without(text, i)
         IN  /\ new \in Text
             /\ new.objects = text.objects \ RemovedObjects(i)
             /\ new.fields = text.fields \ RemovedFields(i)
             /\ new.relations = RelationsWithout(text, i)
             /\ new.policies = PoliciesWithout(text, i)
             /\ new.dispositions = text.dispositions
  <1>1. RelationsWithout(text, i) \in [Relations -> Relation \cup {NoRelation}]
    BY DEF RelationsWithout, Text
  <1>2. PoliciesWithout(text, i) \in [Objects -> Fields \cup {None}]
    BY DEF PoliciesWithout, Text
  <1> QED
    BY <1>1, <1>2 DEF Without, Text

(* The aggregates of an impact are numbers: the sets they count are finite. *)
LEMMA ImpactTypes ==
  ASSUME NEW text \in Text, NEW i \in Identifiers
  PROVE  ImpactOf(text, i) \in Impact
  <1> DEFINE F == text.fields \cap RemovedFields(i)
             R == {r \in Relations : text.relations[r] # NoRelation
                                       /\ Touches(text.relations[r], i)}
             P == {o \in Objects : text.policies[o] \in RemovedFields(i)}
  <1>1. RemovedFields(i) \subseteq Fields
    BY DEF Identifiers, RemovedFields, FieldsOf
  <1>2. IsFiniteSet(F)
    BY <1>1, FS_Subset, DraftEditingAssumption
  <1>3. IsFiniteSet(R)
    BY FS_Subset, DraftEditingAssumption
  <1>4. IsFiniteSet(P)
    BY FS_Subset, DraftEditingAssumption
  <1>5. Cardinality(F) \in Nat /\ Cardinality(R) \in Nat /\ Cardinality(P) \in Nat
    BY <1>2, <1>3, <1>4, FS_CardinalityType
  <1> HIDE DEF F, R, P
  <1>6. [fields |-> Cardinality(F), relations |-> Cardinality(R),
         policies |-> Cardinality(P)] \in Impact
    BY <1>5 DEF Impact
  <1> QED
    BY <1>6 DEF ImpactOf, F, R, P

-------------------------------------------------------------------------------
(* What the mutators make of the text they are given *)

(* An edit that is written keeps the objects and fields of the text it read,
   leaves no reference dangling, and adds no disposition without a review. *)
Edited(e, text) ==
  /\ text \in Text /\ EditWrite(e, text)
  /\ Consistent(text)
  /\ base[e].objects \subseteq text.objects /\ base[e].fields \subseteq text.fields
  /\ reviewed \subseteq reviewed' /\ reviewed' \subseteq Directed
  /\ \A k \in text.dispositions :
       \/ k \in base[e].dispositions
       \/ \E v \in reviewed' : v.id = k.id /\ {v.source, v.target} = k.endpoints

(* Import: the fields of the batch belong to its objects. *)
LEMMA ImportEdits ==
  ASSUME TypeOK, ReadableInv, NEW e \in Editors,
         NEW os \in SUBSET Objects, NEW fs \in SUBSET FieldsOf(os), Import(e, os, fs)
  PROVE  \E text : Edited(e, text)
  <1> DEFINE old == base[e]
             new == [old EXCEPT !.objects = @ \cup os, !.fields = @ \cup fs]
  <1>1. old \in Text /\ Consistent(old)
    BY Apart DEF TypeOK, ReadableInv
  <1>2. fs \subseteq Fields
    BY DEF FieldsOf
  <1>3. new \in Text
    BY <1>1, <1>2 DEF Text
  <1>4. /\ new.objects = old.objects \cup os /\ new.fields = old.fields \cup fs
        /\ new.relations = old.relations /\ new.policies = old.policies
        /\ new.dispositions = old.dispositions
    BY <1>1 DEF Text
  <1>5. EditWrite(e, new) /\ reviewed' = reviewed
    BY DEF Import
  <1> HIDE DEF old, new
  <1>6. Consistent(new)
    <2>1. new.fields \subseteq FieldsOf(new.objects)
      BY <1>1, <1>4 DEF Consistent, FieldsOf
    <2> QED
      BY <1>1, <1>4, <2>1 DEF Consistent
  <1>7. Edited(e, new)
    <2>1. reviewed' \subseteq Directed
      BY <1>5 DEF TypeOK
    <2> QED
      BY <1>3, <1>4, <1>5, <1>6, <2>1 DEF Edited, old
  <1> QED
    BY <1>7

(* Describe: the text as it was. *)
LEMMA DescribeEdits ==
  ASSUME TypeOK, ReadableInv, NEW e \in Editors, Describe(e)
  PROVE  \E text : Edited(e, text)
  <1>1. base[e] \in Text /\ Consistent(base[e])
    BY Apart DEF TypeOK, ReadableInv
  <1>2. Edited(e, base[e])
    BY <1>1 DEF Edited, Describe, TypeOK
  <1> QED
    BY <1>2

(* Relations and policies: their fields are fields of the text. *)
LEMMA RelationEdits ==
  ASSUME TypeOK, ReadableInv, NEW e \in Editors, NEW r \in Relations,
         \/ \E relation \in RelationRequest : UpsertRelation(e, r, relation)
         \/ DeleteRelation(e, r)
  PROVE  \E text : Edited(e, text)
  <1> DEFINE old == base[e]
  <1>1. old \in Text /\ Consistent(old)
    BY Apart DEF TypeOK, ReadableInv
  <1>2. PICK relation \in Relation \cup {NoRelation} :
          /\ EditWrite(e, [old EXCEPT !.relations = [@ EXCEPT ![r] = relation]])
          /\ reviewed' = reviewed
          /\ relation # NoRelation => {relation.source, relation.target} \subseteq old.fields
    BY DEF UpsertRelation, DeleteRelation, Relation
  <1> DEFINE new == [old EXCEPT !.relations = [@ EXCEPT ![r] = relation]]
  <1>3. new \in Text
    BY <1>1 DEF Text
  <1>4. /\ new.objects = old.objects /\ new.fields = old.fields
        /\ new.relations = [old.relations EXCEPT ![r] = relation]
        /\ new.policies = old.policies /\ new.dispositions = old.dispositions
    BY <1>1 DEF Text
  <1>5. old.relations \in [Relations -> Relation \cup {NoRelation}]
    BY <1>1 DEF Text
  <1>6. EditWrite(e, new)
    BY <1>2
  <1> HIDE DEF old, new
  <1>7. Consistent(new)
    BY <1>1, <1>2, <1>4, <1>5 DEF Consistent
  <1>8. Edited(e, new)
    <2>1. reviewed' \subseteq Directed
      BY <1>2 DEF TypeOK
    <2> QED
      BY <1>2, <1>3, <1>4, <1>6, <1>7, <2>1 DEF Edited, old
  <1> QED
    BY <1>8

LEMMA PolicyEdits ==
  ASSUME TypeOK, ReadableInv, NEW e \in Editors, NEW f \in Fields, UpsertPolicy(e, f)
  PROVE  \E text : Edited(e, text)
  <1> DEFINE old == base[e]
             new == [old EXCEPT !.policies = [@ EXCEPT ![OwnerOf[f]] = f]]
  <1>1. old \in Text /\ Consistent(old)
    BY Apart DEF TypeOK, ReadableInv
  <1>2. EditWrite(e, new) /\ reviewed' = reviewed /\ f \in old.fields
    BY DEF UpsertPolicy
  <1>3. new \in Text
    BY <1>1 DEF Text
  <1>4. /\ new.objects = old.objects /\ new.fields = old.fields
        /\ new.policies = [old.policies EXCEPT ![OwnerOf[f]] = f]
        /\ new.relations = old.relations /\ new.dispositions = old.dispositions
    BY <1>1 DEF Text
  <1>5. old.policies \in [Objects -> Fields \cup {None}]
    BY <1>1 DEF Text
  <1> HIDE DEF old, new
  <1>6. Consistent(new)
    BY <1>1, <1>2, <1>4, <1>5 DEF Consistent
  <1>7. Edited(e, new)
    <2>1. reviewed' \subseteq Directed
      BY <1>2 DEF TypeOK
    <2> QED
      BY <1>2, <1>3, <1>4, <1>6, <2>1 DEF Edited, old
  <1> QED
    BY <1>7

(* Resolve: the disposition it adds and the review it records are of one
   relation. *)
LEMMA ResolveEdits ==
  ASSUME TypeOK, ReadableInv, NEW e \in Editors, NEW r \in Relations, Resolve(e, r)
  PROVE  \E text : Edited(e, text)
  <1> DEFINE old == base[e]
             k == DiagnosticOf(r, old.relations[r])
             v == AsDirected(r, old.relations[r])
             new == [old EXCEPT !.dispositions = @ \cup {k}]
  <1>1. old \in Text /\ Consistent(old)
    BY Apart DEF TypeOK, ReadableInv
  <1>2. EditWrite(e, new) /\ reviewed' = reviewed \cup {v}
    BY DEF Resolve
  <1>3. old.relations[r] \in Relation
    BY <1>1 DEF Resolve, Unconfirmed, Text, NoRelation
  <1>4. k \in Diagnostic /\ v \in Directed
    BY <1>3 DEF DiagnosticOf, Diagnostic, AsDirected, Directed, Relation, RelationRequest
  <1>5. v.id = k.id /\ {v.source, v.target} = k.endpoints
    BY DEF AsDirected, DiagnosticOf
  <1> HIDE DEF k, v
  <1>6. new \in Text
    BY <1>1, <1>4 DEF Text
  <1>7. /\ new.objects = old.objects /\ new.fields = old.fields
        /\ new.relations = old.relations /\ new.policies = old.policies
        /\ new.dispositions = old.dispositions \cup {k}
    BY <1>1 DEF Text
  <1> HIDE DEF old, new
  <1>8. Consistent(new)
    BY <1>1, <1>7 DEF Consistent
  <1>9. Edited(e, new)
    <2>1. reviewed' \subseteq Directed /\ reviewed \subseteq reviewed'
      BY <1>2, <1>4 DEF TypeOK
    <2>2. \E u \in reviewed' : u.id = k.id /\ {u.source, u.target} = k.endpoints
      BY <1>2, <1>5
    <2> QED
      BY <1>2, <1>6, <1>7, <1>8, <2>1, <2>2 DEF Edited, old
  <1> QED
    BY <1>9

(* A step of an editor reads, gives up, or writes an edited text. *)
LEMMA EditSteps ==
  ASSUME TypeOK, ReadableInv, NEW e \in Editors, EditStep(e)
  PROVE  EditRead(e) \/ EditFail(e) \/ \E text : Edited(e, text)
  BY ImportEdits, DescribeEdits, RelationEdits, PolicyEdits, ResolveEdits DEF EditStep

(* A delete that is written leaves a cascade of the text it read. *)
LEMMA DeleteWrites ==
  ASSUME TypeOK, NEW d \in Deletes, CommitDelete(d)
  PROVE  /\ target[d] \in Identifiers /\ phase[d] = "write"
         /\ Without(base[d], target[d]) \in Text
         /\ WriteText(d, Without(base[d], target[d]))
         /\ Consistent(Without(base[d], target[d]))
  <1>1. base[d] \in Text
    BY Apart DEF TypeOK
  <1>2. target[d] \in Identifiers
    BY <1>1 DEF CommitDelete, Text, Identifiers
  <1> QED
    BY <1>1, <1>2, CascadeTypes DEF CommitDelete, CascadeConsistent

-------------------------------------------------------------------------------
(* Types and revisions *)

(* The invariant of types and revisions. *)
Typed == TypeOK /\ RevisionInv

(* The type invariant holds of the empty draft. *)
LEMMA TypeInit == Init => Typed
  <1> SUFFICES ASSUME Init PROVE Typed
    OBVIOUS
  <1>1. TypeOK
    BY DraftEditingAssumption, EmptyTextIsText
    DEF Init, TypeOK, Revisions, Build, NoBuild, Identifiers, Never, Phases, Impact, NoImpact
  <1>2. Committing = {}
    BY DEF Init, Committing
  <1>3. RevisionInv
    BY <1>2, EmptyTextIsText DEF Init, RevisionInv
  <1> QED
    BY <1>1, <1>3 DEF Typed

(* Revisions are numbers. *)
LEMMA RevisionTypes ==
  ASSUME TypeOK
  PROVE  /\ MaxRevision \in Nat
         /\ draft \in Text /\ draft.revision \in Nat /\ latest \in Nat
         /\ \A t \in Threads : base[t] \in Text /\ base[t].revision \in Nat
         /\ \A d \in Deletes : expected[d] \in Nat
         /\ \A i \in Identifiers : listedAt[i] \in Nat
         /\ \A i \in Listed : i \in Identifiers
  BY DraftEditingAssumption DEF TypeOK, Text, Revisions, Never, Listed

(* A text that is written takes a revision within the bound; one that has been
   written before is reused from then on. *)
LEMMA WriteTypes ==
  ASSUME Typed, NEW t \in Committing, NEW text \in Text, WriteText(t, text)
  PROVE  LET n == base[t].revision + 1
         IN  /\ n \in Revisions /\ t \in Threads
             /\ draft' = [text EXCEPT !.revision = n] /\ draft' \in Text
             /\ draft'.revision = n
             /\ draft'.objects = text.objects /\ draft'.fields = text.fields
             /\ draft'.relations = text.relations /\ draft'.policies = text.policies
             /\ draft'.dispositions = text.dispositions
             /\ Consistent(text) => Consistent(draft')
             /\ latest' \in Revisions /\ latest <= latest' /\ n <= latest'
             /\ reused \subseteq reused' /\ reused' \subseteq Revisions
             /\ n <= latest => n \in reused'
             /\ base' = [base EXCEPT ![t] = EmptyText]
             /\ base' \in [Threads -> Text]
             /\ base'[t] = EmptyText
             /\ \A u \in Threads : u # t => base'[u] = base[u]
  <1> DEFINE n == base[t].revision + 1
  <1>1. t \in Threads
    BY DEF Committing, Threads, Typed, TypeOK
  <1>2. n \in Revisions /\ n \in Nat
    BY <1>1, RevisionTypes DEF Typed, RevisionInv, Revisions
  <1>3. draft' = [text EXCEPT !.revision = n]
    BY DEF WriteText
  <1>4. /\ latest' = IF n > latest THEN n ELSE latest
        /\ reused' = IF n > latest THEN reused ELSE reused \cup {n}
        /\ base' = [base EXCEPT ![t] = EmptyText]
    BY DEF WriteText
  <1>5. latest \in Revisions /\ latest \in Nat /\ reused \subseteq Revisions
    BY RevisionTypes DEF Typed, TypeOK
  <1>6. /\ base' \in [Threads -> Text] /\ base'[t] = EmptyText
        /\ \A u \in Threads : u # t => base'[u] = base[u]
    BY <1>1, <1>4, EmptyTextIsText DEF Typed, TypeOK
  <1>7. /\ draft' \in Text /\ draft'.revision = n
        /\ draft'.objects = text.objects /\ draft'.fields = text.fields
        /\ draft'.relations = text.relations /\ draft'.policies = text.policies
        /\ draft'.dispositions = text.dispositions
        /\ Consistent(text) => Consistent(draft')
    BY <1>2, <1>3, Renumbered
  <1> HIDE DEF n
  <1>8. /\ latest' \in Revisions /\ latest <= latest' /\ n <= latest'
        /\ reused \subseteq reused' /\ reused' \subseteq Revisions
        /\ n <= latest => n \in reused'
    BY <1>2, <1>4, <1>5
  <1> QED
    BY <1>1, <1>2, <1>3, <1>4, <1>6, <1>7, <1>8 DEF n

(* A write keeps what RevisionInv says of the revisions. *)
LEMMA WriteRevisions ==
  ASSUME Typed, NEW t \in Committing, NEW text \in Text, WriteText(t, text),
         Committing' \subseteq Committing \ {t},
         \A d \in Deletes : expected'[d] \in {expected[d], 0}
  PROVE  RevisionInv'
  <1>1. /\ latest \in Nat /\ latest' \in Nat /\ latest <= latest'
        /\ draft'.revision <= latest' /\ base'[t].revision = 0
        /\ \A u \in Threads : u # t => base'[u] = base[u]
    BY WriteTypes, RevisionTypes, EmptyTextIsText DEF Revisions, Typed
  <1>2. \A u \in Threads : base[u].revision \in Nat /\ base[u].revision <= latest
    BY RevisionTypes DEF Typed, RevisionInv
  <1>3. \A u \in Threads : base'[u].revision <= latest'
    BY <1>1, <1>2
  <1>4. \A u \in Committing' : u \in Threads /\ u # t /\ base[u].revision < MaxRevision
    BY DEF Typed, RevisionInv, Committing, Threads, TypeOK
  <1>5. \A d \in Deletes : expected'[d] <= latest'
    BY <1>1, RevisionTypes DEF Typed, RevisionInv
  <1> QED
    BY <1>1, <1>3, <1>4, <1>5 DEF RevisionInv

(* A read keeps the types and the revisions. *)
LEMMA ReadTypes ==
  ASSUME Typed, NEW t \in Threads, ReadText(t)
  PROVE  /\ base' \in [Threads -> Text] /\ base'[t] = draft
         /\ \A u \in Threads : u # t => base'[u] = base[u]
         /\ UNCHANGED <<draft, latest, reused>>
         /\ Committing' = Committing \cup {t} /\ expected' = expected => RevisionInv'
  <1>1. /\ base' \in [Threads -> Text] /\ base'[t] = draft
        /\ \A u \in Threads : u # t => base'[u] = base[u]
        /\ UNCHANGED <<draft, latest, reused>>
    BY DEF ReadText, Typed, TypeOK
  <1>2. draft.revision < MaxRevision
    BY DEF ReadText
  <1>3. ASSUME Committing' = Committing \cup {t}, expected' = expected
        PROVE  RevisionInv'
    <2>1. \A u \in Committing : u \in Threads
      BY DEF Committing, Threads, Typed, TypeOK
    <2> QED
      BY <1>1, <1>2, <1>3, <2>1 DEF Typed, RevisionInv
  <1> QED
    BY <1>1, <1>3

(* A commit that is given up keeps the types and the revisions. *)
LEMMA ClearTypes ==
  ASSUME Typed, NEW t \in Threads, base' = [base EXCEPT ![t] = EmptyText],
         UNCHANGED <<draft, latest, reused>>
  PROVE  /\ base' \in [Threads -> Text] /\ base'[t] = EmptyText
         /\ \A u \in Threads : u # t => base'[u] = base[u]
         /\ Committing' \subseteq Committing \ {t}
              /\ (\A d \in Deletes : expected'[d] \in {expected[d], 0}) => RevisionInv'
  <1>1. /\ base' \in [Threads -> Text] /\ base'[t] = EmptyText
        /\ \A u \in Threads : u # t => base'[u] = base[u]
    BY EmptyTextIsText DEF Typed, TypeOK
  <1>2. ASSUME Committing' \subseteq Committing \ {t},
               \A d \in Deletes : expected'[d] \in {expected[d], 0}
        PROVE  RevisionInv'
    <2>1. \A u \in Committing : u \in Threads
      BY DEF Committing, Threads, Typed, TypeOK
    <2> QED
      BY <1>1, <1>2, <2>1, EmptyTextIsText, RevisionTypes DEF Typed, RevisionInv
  <1> QED
    BY <1>1, <1>2

(* Every edit keeps the types. *)
LEMMA TypeEdit ==
  ASSUME Typed, ReadableInv, NEW e \in Editors, EditStep(e)
  PROVE  Typed'
  <1> USE Apart
  <1>1. CASE EditRead(e)
    <2>1. Committing' = Committing \cup {e} /\ expected' = expected
      BY <1>1 DEF EditRead, Committing, deletion
    <2>2. RevisionInv' /\ base' \in [Threads -> Text]
      BY <1>1, <2>1, ReadTypes DEF EditRead
    <2>3. TypeOK'
      BY <1>1, <2>2 DEF EditRead, ReadText, Typed, TypeOK, publication, deletion
    <2> QED
      BY <2>2, <2>3 DEF Typed
  <1>2. CASE EditFail(e)
    <2>1. Committing' \subseteq Committing \ {e} /\ expected' = expected
      BY <1>2 DEF EditFail, Committing, deletion
    <2>2. RevisionInv' /\ base' \in [Threads -> Text]
      BY <1>2, <2>1, ClearTypes DEF EditFail
    <2>3. TypeOK'
      BY <1>2, <2>2 DEF EditFail, Typed, TypeOK, publication, deletion
    <2> QED
      BY <2>2, <2>3 DEF Typed
  <1>3. CASE \E text : Edited(e, text)
    <2>1. PICK text : Edited(e, text)
      BY <1>3
    <2>2. text \in Text /\ EditWrite(e, text) /\ reviewed' \in SUBSET Directed
      BY <2>1 DEF Edited
    <2>3. e \in Committing /\ WriteText(e, text)
      BY <2>2 DEF EditWrite, Committing
    <2>4. Committing' \subseteq Committing \ {e} /\ expected' = expected
      BY <2>2 DEF EditWrite, Committing, deletion
    <2>5. RevisionInv'
      BY <2>2, <2>3, <2>4, WriteRevisions
    <2>6. /\ draft' \in Text /\ latest' \in Revisions /\ reused' \subseteq Revisions
          /\ base' \in [Threads -> Text]
      BY <2>2, <2>3, WriteTypes
    <2>7. TypeOK'
      BY <2>2, <2>6 DEF EditWrite, Typed, TypeOK, publication, deletion
    <2> QED
      BY <2>5, <2>7 DEF Typed
  <1> QED
    BY <1>1, <1>2, <1>3, EditSteps DEF Typed

(* Every step of a publication keeps the types, and reads the draft only. *)
LEMMA TypePublish == Typed /\ PublishStep => Typed'
  <1> SUFFICES ASSUME Typed, PublishStep PROVE Typed'
    OBVIOUS
  <1>1. UNCHANGED <<draft, base, editing, latest, reused, reviewed, phase, target, expected,
                    impact, protected>>
    BY DEF PublishStep, PublishRead, PublishList, PublishFail, commits, deletion
  <1>2. RevisionInv'
    BY <1>1 DEF Typed, RevisionInv, Committing
  <1>3. /\ building' \in Build
        /\ listedAt' \in [Identifiers -> Revisions \cup {Never}]
        /\ relied' \in SUBSET Directed
    <2>1. CASE PublishRead
      <3>1. {AsDirected(r, draft.relations[r]) : r \in Unconfirmed(draft)} \subseteq Directed
        BY DEF Typed, TypeOK, Text, Unconfirmed, AsDirected, Directed, Relation,
               RelationRequest, NoRelation
      <3>2. building' \in Build
        BY <2>1, <3>1 DEF PublishRead, Build, Typed, TypeOK, Text
      <3> QED
        BY <2>1, <3>2 DEF PublishRead, Typed, TypeOK
    <2>2. CASE PublishList
      <3>1. draft.revision \in Revisions
        BY DEF Typed, TypeOK, Text
      <3> QED
        BY <2>2, <3>1 DEF PublishList, Typed, TypeOK, Build, NoBuild
    <2>3. CASE PublishFail
      BY <2>3 DEF PublishFail, Typed, TypeOK, Build, NoBuild
    <2> QED
      BY <2>1, <2>2, <2>3 DEF PublishStep
  <1> QED
    BY <1>1, <1>2, <1>3 DEF Typed, TypeOK

(* An answered delete leaves the placeholders behind, and the others alone. *)
LEMMA ForgetTypes ==
  ASSUME TypeOK, NEW d \in Deletes, Forget(d)
  PROVE  /\ target' \in [Deletes -> Identifiers \cup {None}]
         /\ expected' \in [Deletes -> Revisions]
         /\ impact' \in [Deletes -> Impact]
         /\ protected' \in [Deletes -> SUBSET Identifiers]
         /\ expected'[d] = 0
         /\ \A u \in Deletes : u # d =>
              /\ target'[u] = target[u] /\ expected'[u] = expected[u]
              /\ impact'[u] = impact[u] /\ protected'[u] = protected[u]
  <1>1. NoImpact \in Impact /\ 0 \in Revisions
    BY DraftEditingAssumption DEF NoImpact, Impact, Revisions
  <1> QED
    BY <1>1 DEF Forget, TypeOK

(* Every step of a delete keeps the types. *)
LEMMA TypeDelete ==
  ASSUME Typed, NEW d \in Deletes, DeleteStep(d)
  PROVE  Typed'
  <1> USE Apart
  <1>1. CASE ReadImpact(d)
    <2>1. PICK i \in draft.objects \cup draft.fields, n \in 0 .. latest :
            /\ target' = [target EXCEPT ![d] = i]
            /\ expected' = [expected EXCEPT ![d] = n]
            /\ impact' = [impact EXCEPT ![d] = ImpactOf(draft, i)]
      BY <1>1 DEF ReadImpact
    <2>2. i \in Identifiers
      BY DEF Typed, TypeOK, Text, Identifiers
    <2>3. n \in Revisions /\ n <= latest
      BY RevisionTypes DEF Typed, TypeOK, Revisions
    <2>4. ImpactOf(draft, i) \in Impact
      BY <2>2, ImpactTypes DEF Typed, TypeOK
    <2>5. /\ target' \in [Deletes -> Identifiers \cup {None}]
          /\ expected' \in [Deletes -> Revisions]
          /\ impact' \in [Deletes -> Impact]
          /\ \A u \in Deletes : expected'[u] \in {expected[u], n}
      BY <2>1, <2>2, <2>3, <2>4 DEF Typed, TypeOK
    <2>6. phase' \in [Deletes -> Phases] /\ Committing' = Committing
      BY <1>1 DEF ReadImpact, Typed, TypeOK, Phases, Committing
    <2>7. TypeOK'
      BY <1>1, <2>5, <2>6 DEF ReadImpact, Typed, TypeOK, commits, publication
    <2>8. RevisionInv'
      BY <1>1, <2>3, <2>5, <2>6 DEF ReadImpact, Typed, RevisionInv, commits
    <2> QED
      BY <2>7, <2>8 DEF Typed
  <1>2. CASE ReadPublished(d)
    <2>1. TypeOK'
      BY <1>2 DEF ReadPublished, Typed, TypeOK, Listed, Phases, commits, publication
    <2>2. Committing' = Committing
      BY <1>2 DEF ReadPublished, Typed, TypeOK, Committing
    <2>3. RevisionInv'
      BY <1>2, <2>2 DEF ReadPublished, Typed, RevisionInv, commits
    <2> QED
      BY <2>1, <2>3 DEF Typed
  <1>3. CASE ReadDraft(d)
    <2>1. Committing' = Committing \cup {d} /\ phase' \in [Deletes -> Phases]
      BY <1>3 DEF ReadDraft, Typed, TypeOK, Committing, Phases
    <2>2. RevisionInv' /\ base' \in [Threads -> Text]
      BY <1>3, <2>1, ReadTypes DEF ReadDraft
    <2>3. TypeOK'
      BY <1>3, <2>1, <2>2 DEF ReadDraft, ReadText, Typed, TypeOK, publication
    <2> QED
      BY <2>2, <2>3 DEF Typed
  <1>4. CASE CommitDelete(d)
    <2> DEFINE text == Without(base[d], target[d])
    <2>1. text \in Text /\ WriteText(d, text) /\ phase[d] = "write"
      BY <1>4, DeleteWrites DEF Typed
    <2>2. /\ d \in Committing /\ Committing' \subseteq Committing \ {d}
          /\ phase' \in [Deletes -> Phases]
      BY <1>4, <2>1 DEF CommitDelete, Committing, Typed, TypeOK, Phases
    <2>3. Forget(d)
      BY <1>4 DEF CommitDelete
    <2> HIDE DEF text
    <2>4. RevisionInv'
      BY <2>1, <2>2, <2>3, ForgetTypes, WriteRevisions DEF Typed
    <2>5. /\ draft' \in Text /\ latest' \in Revisions /\ reused' \subseteq Revisions
          /\ base' \in [Threads -> Text]
      BY <2>1, <2>2, WriteTypes
    <2>6. TypeOK'
      BY <1>4, <2>2, <2>3, <2>5, ForgetTypes DEF CommitDelete, Typed, TypeOK, publication
    <2> QED
      BY <2>4, <2>6 DEF Typed
  <1>5. CASE RefuseDelete(d)
    <2>1. Committing' \subseteq Committing \ {d} /\ phase' \in [Deletes -> Phases]
      BY <1>5 DEF RefuseDelete, Committing, Typed, TypeOK, Phases
    <2>2. Forget(d)
      BY <1>5 DEF RefuseDelete
    <2>3. RevisionInv' /\ base' \in [Threads -> Text]
      BY <1>5, <2>1, <2>2, ForgetTypes, ClearTypes DEF RefuseDelete, Typed
    <2>4. TypeOK'
      BY <1>5, <2>1, <2>2, <2>3, ForgetTypes DEF RefuseDelete, Typed, TypeOK, publication
    <2> QED
      BY <2>3, <2>4 DEF Typed
  <1> QED
    BY <1>1, <1>2, <1>3, <1>4, <1>5 DEF DeleteStep

(* Every step keeps the types. *)
LEMMA TypeNext == Typed /\ ReadableInv /\ [Next]_vars => Typed'
  <1>1. Typed /\ UNCHANGED vars => Typed'
    BY DEF Typed, TypeOK, RevisionInv, Committing, vars
  <1> QED
    BY <1>1, TypeEdit, TypePublish, TypeDelete DEF Next

-------------------------------------------------------------------------------
(* What a step does to the texts *)

(* A commit writes a text made of the one it read. *)
Writes(t, text) ==
  /\ t \in Committing /\ text \in Text
  /\ WriteText(t, text) /\ Consistent(text)
  /\ \A k \in text.dispositions :
       \/ k \in base[t].dispositions
       \/ \E v \in reviewed' : v.id = k.id /\ {v.source, v.target} = k.endpoints

(* No text is written; a thread reads the draft, or forgets what it has read. *)
Reads ==
  /\ UNCHANGED <<draft, latest, reused>>
  /\ \A t \in Threads : base'[t] \in {base[t], draft, EmptyText}

(* Every step writes one text or none. *)
LEMMA TextSteps ==
  ASSUME Typed, ReadableInv, [Next]_vars
  PROVE  /\ reviewed \subseteq reviewed'
         /\ Reads \/ \E t \in Threads : \E text : Writes(t, text)
  <1> USE Apart
  <1>1. CASE \E e \in Editors : EditStep(e)
    <2>1. PICK e \in Editors : EditStep(e)
      BY <1>1
    <2>2. CASE EditRead(e)
      BY <2>2, ReadTypes DEF EditRead, Reads
    <2>3. CASE EditFail(e)
      BY <2>3, ClearTypes DEF EditFail, Reads
    <2>4. CASE \E text : Edited(e, text)
      <3>1. PICK text : Edited(e, text)
        BY <2>4
      <3>2. Writes(e, text)
        BY <3>1 DEF Edited, EditWrite, Writes, Committing
      <3> QED
        BY <3>1, <3>2 DEF Edited
    <2> QED
      BY <2>1, <2>2, <2>3, <2>4, EditSteps DEF Typed
  <1>2. CASE PublishStep
    BY <1>2 DEF PublishStep, PublishRead, PublishList, PublishFail, commits, Reads
  <1>3. CASE \E d \in Deletes : DeleteStep(d)
    <2>1. PICK d \in Deletes : DeleteStep(d)
      BY <1>3
    <2>2. reviewed' = reviewed
      BY <2>1 DEF DeleteStep, ReadImpact, ReadPublished, ReadDraft, CommitDelete, RefuseDelete
    <2>3. CASE ReadImpact(d) \/ ReadPublished(d)
      BY <2>2, <2>3 DEF ReadImpact, ReadPublished, commits, Reads
    <2>4. CASE ReadDraft(d)
      BY <2>2, <2>4, ReadTypes DEF ReadDraft, Reads
    <2>5. CASE RefuseDelete(d)
      BY <2>2, <2>5, ClearTypes DEF RefuseDelete, Reads
    <2>6. CASE CommitDelete(d)
      <3> DEFINE text == Without(base[d], target[d])
      <3>1. /\ text \in Text /\ WriteText(d, text) /\ Consistent(text)
            /\ d \in Committing
        BY <2>6, DeleteWrites DEF Typed, Committing
      <3>2. text.dispositions = base[d].dispositions
        BY <2>6, DeleteWrites, CascadeTypes DEF Typed, TypeOK
      <3>3. Writes(d, text)
        BY <3>1, <3>2 DEF Writes
      <3> QED
        BY <2>2, <3>3
    <2> QED
      BY <2>1, <2>3, <2>4, <2>5, <2>6 DEF DeleteStep
  <1>4. CASE UNCHANGED vars
    BY <1>4 DEF vars, Reads
  <1> QED
    BY <1>1, <1>2, <1>3, <1>4 DEF Next

(* Whoever writes a revision that has been written before makes it a reused one;
   a reused revision stays one. *)
LEMMA Reuse ==
  ASSUME Typed, ReadableInv, [Next]_vars
  PROVE  /\ reused \subseteq reused'
         /\ \/ UNCHANGED draft
            \/ draft'.revision \in Nat
                 /\ (draft'.revision <= latest => draft'.revision \in reused')
  <1>1. CASE Reads
    BY <1>1 DEF Reads
  <1>2. CASE \E t \in Threads : \E text : Writes(t, text)
    <2>1. PICK t \in Threads : \E text : Writes(t, text)
      BY <1>2
    <2>2. PICK text : Writes(t, text)
      BY <2>1
    <2>3. t \in Committing /\ text \in Text /\ WriteText(t, text)
      BY <2>2 DEF Writes
    <2> QED
      BY <2>3, WriteTypes DEF Revisions
  <1> QED
    BY <1>1, <1>2, TextSteps

(* A text is written only if it is consistent. *)
LEMMA ReadableNext == Typed /\ ReadableInv /\ [Next]_vars => ReadableInv'
  <1> SUFFICES ASSUME Typed, ReadableInv, [Next]_vars PROVE ReadableInv'
    OBVIOUS
  <1>1. CASE Reads
    BY <1>1, EmptyTextIsText DEF Reads, ReadableInv
  <1>2. CASE \E t \in Threads : \E text : Writes(t, text)
    <2>1. PICK t \in Threads : \E text : Writes(t, text)
      BY <1>2
    <2>2. PICK text : Writes(t, text)
      BY <2>1
    <2>3. t \in Committing /\ text \in Text /\ WriteText(t, text) /\ Consistent(text)
      BY <2>2 DEF Writes
    <2>4. /\ Consistent(draft') /\ base'[t] = EmptyText
          /\ \A u \in Threads : u # t => base'[u] = base[u]
      BY <2>3, WriteTypes
    <2> QED
      BY <2>4, EmptyTextIsText DEF ReadableInv
  <1> QED
    BY <1>1, <1>2, TextSteps

(* The cascade of any object or field of a consistent text is consistent: the
   validation behind a delete never refuses it. *)
LEMMA ReadableCascades ==
  ASSUME NEW text \in Text, Consistent(text), NEW i \in text.objects \cup text.fields
  PROVE  CascadeConsistent(text, i)
  <1> USE DraftEditingAssumption
  <1> DEFINE new == Without(text, i)
  <1>0. /\ new.objects = text.objects \ RemovedObjects(i)
        /\ new.fields = text.fields \ RemovedFields(i)
        /\ new.relations = RelationsWithout(text, i)
        /\ new.policies = PoliciesWithout(text, i)
    BY CascadeTypes DEF Text, Identifiers
  <1> HIDE DEF new
  <1>1. new.fields \subseteq FieldsOf(new.objects)
    BY <1>0 DEF Consistent, RemovedFields, RemovedObjects, FieldsOf, Text
  <1>2. ASSUME NEW r \in Relations, new.relations[r] # NoRelation
        PROVE  {new.relations[r].source, new.relations[r].target} \subseteq new.fields
    <2>1. new.relations[r] = text.relations[r] /\ ~Touches(text.relations[r], i)
      BY <1>0, <1>2 DEF RelationsWithout
    <2> QED
      BY <1>0, <1>2, <2>1 DEF Touches, Consistent
  <1>3. ASSUME NEW o \in Objects, new.policies[o] # None
        PROVE  new.policies[o] \in new.fields /\ OwnerOf[new.policies[o]] = o
    <2>1. new.policies[o] = text.policies[o] /\ text.policies[o] \notin RemovedFields(i)
      BY <1>0, <1>3 DEF PoliciesWithout
    <2> QED
      BY <1>0, <1>3, <2>1 DEF Consistent
  <1> QED
    BY <1>1, <1>2, <1>3 DEF CascadeConsistent, Consistent, new

-------------------------------------------------------------------------------
(* What dispositions stand for *)

(* A review is never taken back. *)
LEMMA ReviewedStays ==
  ASSUME reviewed \subseteq reviewed', NEW id, NEW endpoints, Reviewed(id, endpoints)
  PROVE  Reviewed(id, endpoints)'
  BY DEF Reviewed

(* No step makes a disposition without a review. *)
LEMMA ReviewTexts ==
  ASSUME Typed, ReadableInv, ReviewInv, [Next]_vars
  PROVE  ReviewedIn(draft)' /\ \A t \in Threads : ReviewedIn(base[t])'
  <1>1. reviewed \subseteq reviewed'
    BY TextSteps
  <1>2. CASE Reads
    BY <1>1, <1>2, EmptyTextIsText, ReviewedStays DEF Reads, ReviewInv, ReviewedIn
  <1>3. CASE \E t \in Threads : \E text : Writes(t, text)
    <2>1. PICK t \in Threads : \E text : Writes(t, text)
      BY <1>3
    <2>2. PICK text : Writes(t, text)
      BY <2>1
    <2>3. t \in Committing /\ text \in Text /\ WriteText(t, text)
      BY <2>2 DEF Writes
    <2>4. /\ draft'.dispositions = text.dispositions /\ base'[t] = EmptyText
          /\ \A u \in Threads : u # t => base'[u] = base[u]
      BY <2>3, WriteTypes
    <2>5. \A k \in text.dispositions : Reviewed(k.id, k.endpoints)'
      BY <1>1, <2>2, ReviewedStays DEF Writes, ReviewInv, ReviewedIn, Reviewed
    <2>6. ReviewedIn(draft)'
      BY <2>4, <2>5 DEF ReviewedIn
    <2>7. ASSUME NEW u \in Threads PROVE ReviewedIn(base[u])'
      BY <1>1, <2>4, EmptyTextIsText, ReviewedStays DEF ReviewInv, ReviewedIn
    <2> QED
      BY <2>6, <2>7
  <1> QED
    BY <1>2, <1>3, TextSteps

(* Nor does one publish a relation because of a disposition nobody reviewed. *)
LEMMA ReviewNext == Typed /\ ReadableInv /\ ReviewInv /\ [Next]_vars => ReviewInv'
  <1> SUFFICES ASSUME Typed, ReadableInv, ReviewInv, [Next]_vars PROVE ReviewInv'
    OBVIOUS
  <1>1. reviewed \subseteq reviewed'
    BY TextSteps
  <1>2. ASSUME NEW p \in building'.relied \cup relied'
        PROVE  Reviewed(p.id, {p.source, p.target})'
    <2>1. CASE p \in building.relied \cup relied
      BY <1>1, <2>1, ReviewedStays DEF ReviewInv
    <2>2. CASE p \notin building.relied \cup relied
      <3>1. PublishRead
        <4>1. CASE \E e \in Editors : EditStep(e)
          BY <1>2, <2>2, <4>1 DEF EditStep, EditRead, EditFail, Import, Describe, UpsertRelation,
             DeleteRelation, UpsertPolicy, Resolve, EditWrite, publication
        <4>2. CASE \E d \in Deletes : DeleteStep(d)
          BY <1>2, <2>2, <4>2 DEF DeleteStep, ReadImpact, ReadPublished, ReadDraft,
             CommitDelete, RefuseDelete, publication
        <4>3. CASE PublishList \/ PublishFail \/ UNCHANGED vars
          BY <1>2, <2>2, <4>3 DEF PublishList, PublishFail, NoBuild, vars
        <4> QED
          BY <4>1, <4>2, <4>3 DEF Next, PublishStep
      <3>2. PICK r \in Unconfirmed(draft) : p = AsDirected(r, draft.relations[r])
        BY <1>2, <2>2, <3>1 DEF PublishRead
      <3>3. DiagnosticOf(r, draft.relations[r]) \in draft.dispositions
        BY <3>1, <3>2 DEF PublishRead, Publishable
      <3>4. Reviewed(r, {draft.relations[r].source, draft.relations[r].target})
        BY <3>3 DEF ReviewInv, ReviewedIn, DiagnosticOf
      <3> QED
        BY <1>1, <3>2, <3>4, ReviewedStays DEF AsDirected
    <2> QED
      BY <2>1, <2>2
  <1> QED
    BY <1>2, ReviewTexts DEF ReviewInv

-------------------------------------------------------------------------------
(* What a delete may have missed, and what it has counted *)

(* No other thread touches what a delete has read. *)
LEMMA Own ==
  ASSUME Typed, [Next]_vars, NEW d \in Deletes, ~DeleteStep(d)
  PROVE  /\ phase'[d] = phase[d] /\ target'[d] = target[d] /\ expected'[d] = expected[d]
         /\ impact'[d] = impact[d] /\ protected'[d] = protected[d]
         /\ base'[d] = base[d]
  <1> USE Apart
  <1>1. CASE \E e \in Editors : EditStep(e)
    <2>1. PICK e \in Editors : EditStep(e)
      BY <1>1
    <2>2. UNCHANGED deletion
      BY <2>1 DEF EditStep, EditRead, EditFail, Import, Describe, UpsertRelation,
                  DeleteRelation, UpsertPolicy, Resolve, EditWrite
    <2>3. \E text \in {draft, EmptyText} : base' = [base EXCEPT ![e] = text]
      BY <2>1 DEF EditStep, EditRead, EditFail, Import, Describe, UpsertRelation,
                  DeleteRelation, UpsertPolicy, Resolve, EditWrite, ReadText, WriteText
    <2> QED
      BY <2>2, <2>3 DEF deletion, Typed, TypeOK
  <1>2. CASE PublishStep \/ UNCHANGED vars
    BY <1>2 DEF PublishStep, PublishRead, PublishList, PublishFail, vars, deletion, commits
  <1>3. CASE \E o \in Deletes : DeleteStep(o)
    <2>1. PICK o \in Deletes : DeleteStep(o) /\ o # d
      BY <1>3
    <2>2. CASE ReadImpact(o) \/ ReadPublished(o)
      BY <2>1, <2>2 DEF ReadImpact, ReadPublished, commits, Typed, TypeOK
    <2>3. CASE ReadDraft(o)
      BY <2>1, <2>3 DEF ReadDraft, ReadText, Typed, TypeOK
    <2>4. CASE CommitDelete(o) \/ RefuseDelete(o)
      <3>1. Forget(o) /\ phase'[d] = phase[d]
        BY <2>1, <2>4 DEF CommitDelete, RefuseDelete, Typed, TypeOK
      <3>2. base' = [base EXCEPT ![o] = EmptyText]
        BY <2>4 DEF CommitDelete, RefuseDelete, WriteText
      <3> QED
        BY <2>1, <3>1, <3>2, ForgetTypes DEF Typed, TypeOK
    <2> QED
      BY <2>1, <2>2, <2>3, <2>4 DEF DeleteStep
  <1> QED
    BY <1>1, <1>2, <1>3 DEF Next

(* The first listing of an identifier takes the revision the draft then has. *)
LEMMA ListedNow ==
  ASSUME Typed, [Next]_vars, NEW i \in Listed'
  PROVE  \/ i \in Listed /\ listedAt'[i] = listedAt[i]
         \/ listedAt'[i] = draft.revision
  <1>1. CASE PublishList
    BY <1>1 DEF PublishList, Listed
  <1>2. CASE ~PublishList
    <2>1. listedAt' = listedAt
      <3>1. CASE \E e \in Editors : EditStep(e)
        BY <3>1 DEF EditStep, EditRead, EditFail, Import, Describe, UpsertRelation,
                    DeleteRelation, UpsertPolicy, Resolve, EditWrite, publication
      <3>2. CASE \E d \in Deletes : DeleteStep(d)
        BY <3>2 DEF DeleteStep, ReadImpact, ReadPublished, ReadDraft, CommitDelete,
                    RefuseDelete, publication
      <3>3. CASE PublishRead \/ PublishFail \/ UNCHANGED vars
        BY <3>3 DEF PublishRead, PublishFail, vars
      <3> QED
        BY <1>2, <3>1, <3>2, <3>3 DEF Next, PublishStep
    <2> QED
      BY <2>1 DEF Listed
  <1> QED
    BY <1>1, <1>2

(* The one text of a revision that has been written is not written again: the
   next text with that number makes it a reused one. *)
LEMMA OneText ==
  ASSUME Typed, ReadableInv, [Next]_vars, NEW n \in Nat, n <= latest,
         draft'.revision = n, n \notin reused'
  PROVE  draft' = draft /\ n \notin reused
  BY Reuse

(* What is listed while a delete is under way is listed at the revision it
   quotes, or not before the draft has left that revision. *)
LEMMA RaceNext == Typed /\ ReadableInv /\ RaceInv /\ [Next]_vars => RaceInv'
  <1> SUFFICES ASSUME Typed, ReadableInv, RaceInv, [Next]_vars, NEW d \in Deletes
      PROVE  /\ phase'[d] = "commit" /\ draft'.revision = expected'[d]
                  /\ expected'[d] \notin reused' => MissedAtRevision(d)'
             /\ phase'[d] = "write" => base'[d].revision = expected'[d]
             /\ phase'[d] = "write" /\ base'[d] = draft' /\ expected'[d] \notin reused' =>
                  MissedAtRevision(d)'
    BY DEF RaceInv
  <1>0. expected[d] \in Nat /\ expected[d] <= latest
    BY RevisionTypes DEF Typed, RevisionInv
  <1>1. CASE ~DeleteStep(d)
    <2>1. /\ phase'[d] = phase[d] /\ expected'[d] = expected[d]
          /\ protected'[d] = protected[d] /\ base'[d] = base[d]
      BY <1>1, Own
    <2>2. ASSUME MissedAtRevision(d), draft.revision = expected[d]
          PROVE  MissedAtRevision(d)'
      BY <2>1, <2>2, ListedNow DEF MissedAtRevision
    <2>3. ASSUME phase[d] = "commit", draft'.revision = expected[d], expected[d] \notin reused'
          PROVE  MissedAtRevision(d)'
      <3>1. draft' = draft /\ expected[d] \notin reused
        BY <1>0, <2>3, OneText
      <3> QED
        BY <2>2, <2>3, <3>1 DEF RaceInv
    <2>4. phase[d] = "write" => base[d].revision = expected[d]
      BY DEF RaceInv
    <2>5. ASSUME phase[d] = "write", base[d] = draft', expected[d] \notin reused'
          PROVE  MissedAtRevision(d)'
      <3>1. draft' = draft /\ expected[d] \notin reused
        BY <1>0, <2>4, <2>5, OneText
      <3> QED
        BY <2>2, <2>4, <2>5, <3>1 DEF RaceInv
    <2> QED
      BY <2>1, <2>3, <2>4, <2>5
  <1>2. CASE ReadPublished(d)
    <2>1. phase'[d] = "commit" /\ protected'[d] = Listed /\ listedAt' = listedAt
      BY <1>2 DEF ReadPublished, Typed, TypeOK, publication
    <2> QED
      BY <2>1 DEF MissedAtRevision, Listed
  <1>3. CASE ReadDraft(d)
    <2>1. /\ phase[d] = "commit" /\ draft.revision = expected[d]
          /\ UNCHANGED <<draft, reused, listedAt, expected, protected>>
          /\ phase'[d] = "write" /\ base'[d] = draft
      BY <1>3, Apart DEF ReadDraft, ReadText, Typed, TypeOK, publication
    <2>2. MissedAtRevision(d) => MissedAtRevision(d)'
      BY <2>1 DEF MissedAtRevision, Listed
    <2> QED
      BY <2>1, <2>2 DEF RaceInv
  <1>4. CASE ReadImpact(d) \/ CommitDelete(d) \/ RefuseDelete(d)
    <2>1. phase'[d] \notin {"commit", "write"}
      BY <1>4 DEF ReadImpact, CommitDelete, RefuseDelete, Typed, TypeOK
    <2> QED
      BY <2>1
  <1> QED
    BY <1>1, <1>2, <1>3, <1>4 DEF DeleteStep

(* What an impact counts is a function of the text it is counted in. *)
LEMMA ImpactNext == Typed /\ ReadableInv /\ ImpactInv /\ [Next]_vars => ImpactInv'
  <1> SUFFICES ASSUME Typed, ReadableInv, ImpactInv, [Next]_vars, NEW d \in Deletes
      PROVE  /\ phase'[d] \in {"editor", "commit"} /\ draft'.revision = expected'[d]
                  /\ expected'[d] \notin reused' => impact'[d] = ImpactOf(draft', target'[d])
             /\ phase'[d] = "write" /\ expected'[d] \notin reused' =>
                  impact'[d] = ImpactOf(base'[d], target'[d])
    BY DEF ImpactInv, ImpactOf, Touches
  <1>0. expected[d] \in Nat /\ expected[d] <= latest /\ reused \subseteq reused'
    BY RevisionTypes, Reuse DEF Typed, RevisionInv
  <1>1. CASE ~DeleteStep(d)
    <2>1. /\ phase'[d] = phase[d] /\ expected'[d] = expected[d] /\ target'[d] = target[d]
          /\ impact'[d] = impact[d] /\ base'[d] = base[d]
      BY <1>1, Own
    <2>2. ASSUME phase[d] \in {"editor", "commit"}, draft'.revision = expected[d],
                 expected[d] \notin reused'
          PROVE  impact[d] = ImpactOf(draft', target[d])
      <3>1. draft' = draft /\ expected[d] \notin reused
        BY <1>0, <2>2, OneText
      <3> QED
        BY <2>2, <3>1 DEF ImpactInv
    <2>3. ASSUME phase[d] = "write", expected[d] \notin reused'
          PROVE  impact[d] = ImpactOf(base[d], target[d])
      BY <1>0, <2>3 DEF ImpactInv
    <2> QED
      BY <2>1, <2>2, <2>3
  <1>2. CASE ReadImpact(d)
    <2>1. PICK i \in draft.objects \cup draft.fields :
            /\ target' = [target EXCEPT ![d] = i]
            /\ impact' = [impact EXCEPT ![d] = ImpactOf(draft, i)]
      BY <1>2 DEF ReadImpact
    <2>2. /\ target'[d] = i /\ impact'[d] = ImpactOf(draft, i)
          /\ phase'[d] = "editor" /\ draft' = draft
      BY <1>2, <2>1 DEF ReadImpact, Typed, TypeOK, commits
    <2> QED
      BY <2>2
  <1>3. CASE ReadPublished(d)
    <2>1. /\ phase[d] = "editor" /\ phase'[d] = "commit"
          /\ UNCHANGED <<draft, reused, target, expected, impact>>
      BY <1>3 DEF ReadPublished, Typed, TypeOK, commits
    <2> QED
      BY <2>1 DEF ImpactInv
  <1>4. CASE ReadDraft(d)
    <2>1. /\ phase[d] = "commit" /\ draft.revision = expected[d]
          /\ UNCHANGED <<draft, reused, target, expected, impact>>
          /\ phase'[d] = "write" /\ base'[d] = draft
      BY <1>4, Apart DEF ReadDraft, ReadText, Typed, TypeOK
    <2> QED
      BY <2>1 DEF ImpactInv
  <1>5. CASE CommitDelete(d) \/ RefuseDelete(d)
    <2>1. phase'[d] \notin {"editor", "commit", "write"}
      BY <1>5 DEF CommitDelete, RefuseDelete, Typed, TypeOK
    <2> QED
      BY <2>1
  <1> QED
    BY <1>1, <1>2, <1>3, <1>4, <1>5 DEF DeleteStep

-------------------------------------------------------------------------------
(* The invariant, and what follows from it *)

(* At the start no text has been written, no delete is under way and nothing is
   published. *)
LEMMA InitParts == Init => ReadableInv /\ ReviewInv /\ RaceInv /\ ImpactInv
  BY EmptyTextIsText
  DEF Init, ReadableInv, ReviewInv, ReviewedIn, NoBuild, RaceInv, ImpactInv

(* The parts hold together in every reachable state. *)
THEOREM Inductive == Spec => []IInv
  <1>1. Init => IInv
    BY TypeInit, InitParts DEF Typed, IInv
  <1>2. IInv /\ [Next]_vars => IInv'
    BY TypeNext, ReadableNext, ReviewNext, RaceNext, ImpactNext DEF IInv, Typed
  <1> QED
    BY <1>1, <1>2, PTL DEF Spec

(* Every variable keeps its type. *)
THEOREM TypeCorrect == Spec => []TypeOK
  <1>1. IInv => TypeOK
    BY DEF IInv
  <1> QED
    BY Inductive, <1>1, PTL

(* Whatever the edits write can be read again, however their commits overlap. *)
THEOREM Readable == Spec => []DraftReadable
  <1>1. IInv => DraftReadable
    BY DEF IInv, ReadableInv, DraftReadable
  <1> QED
    BY Inductive, <1>1, PTL

(* No object and no field of a draft has a cascade that validation refuses. *)
THEOREM CascadesComplete == Spec => []CascadesAreComplete
  <1>1. IInv => CascadesAreComplete
    BY ReadableCascades DEF IInv, TypeOK, ReadableInv, CascadesAreComplete
  <1> QED
    BY Inductive, <1>1, PTL

(* A relation published on the strength of a disposition was reviewed between
   the same fields. *)
THEOREM EndpointsReviewed == Spec => []PublishedEndpointsConfirmed
  <1>1. IInv => PublishedEndpointsConfirmed
    BY DEF IInv, ReviewInv, Reviewed, PublishedEndpointsConfirmed
  <1> QED
    BY Inductive, <1>1, PTL

(* A commit that overwrites nothing takes identifiers out of the draft only if
   it is a delete, whose text is then still the draft. *)
LEMMA OnlyDeletesRemove ==
  ASSUME Typed, ReadableInv, [Next]_vars, Gone # {},
         ~(\E t \in Threads : Overwrites(t))
  PROVE  \E d \in Deletes : CommitDelete(d) /\ base[d] = draft
  <1> USE Apart
  <1>0. draft' # draft
    BY DEF Gone
  <1>1. CASE \E e \in Editors : EditStep(e)
    <2>1. PICK e \in Editors : EditStep(e)
      BY <1>1
    <2>2. PICK text : Edited(e, text)
      BY <1>0, <2>1, EditSteps DEF Typed, EditRead, EditFail, ReadText
    <2>3. text \in Text /\ e \in Committing /\ WriteText(e, text) /\ e \notin Committing'
      BY <2>2 DEF Edited, EditWrite, Committing
    <2>4. base[e] = draft
      BY <1>0, <2>3 DEF Overwrites
    <2>5. draft.objects \subseteq draft'.objects /\ draft.fields \subseteq draft'.fields
      BY <2>2, <2>3, <2>4, WriteTypes DEF Edited
    <2> QED
      BY <2>5 DEF Gone
  <1>2. CASE PublishStep \/ UNCHANGED vars
    BY <1>0, <1>2 DEF PublishStep, PublishRead, PublishList, PublishFail, commits, vars
  <1>3. CASE \E d \in Deletes : DeleteStep(d)
    <2>1. PICK d \in Deletes : DeleteStep(d)
      BY <1>3
    <2>2. CommitDelete(d)
      BY <1>0, <2>1 DEF DeleteStep, ReadImpact, ReadPublished, ReadDraft, ReadText,
                        RefuseDelete, commits
    <2>3. d \in Committing /\ d \notin Committing'
      BY <2>2 DEF CommitDelete, Committing, Typed, TypeOK
    <2> QED
      BY <1>0, <2>2, <2>3 DEF Overwrites
  <1> QED
    BY <1>1, <1>2, <1>3 DEF Next

(* A published identifier is lost in three ways only: by a commit that overwrites
   a text it has not read, by a delete at the very revision the identifier was
   listed at, or by one that quotes a revision two texts have carried. *)
THEOREM LostOnlyInRace == Spec => PublishedLostOnlyInRace
  <1>1. IInv /\ [Next]_vars =>
          [\A i \in Gone \cap Listed :
             \/ \E t \in Threads : Overwrites(t)
             \/ listedAt[i] = draft.revision
             \/ draft.revision \in reused]_vars
    <2> SUFFICES ASSUME IInv, [Next]_vars, NEW i \in Gone \cap Listed,
                        ~(\E t \in Threads : Overwrites(t)), draft.revision \notin reused
                 PROVE  listedAt[i] = draft.revision
      OBVIOUS
    <2>0. Typed /\ ReadableInv /\ TypeOK
      BY DEF IInv, Typed
    <2>1. PICK d \in Deletes : CommitDelete(d) /\ base[d] = draft
      BY <2>0, OnlyDeletesRemove
    <2> DEFINE j == target[d]
               text == Without(draft, j)
    <2>2. /\ j \in Identifiers /\ phase[d] = "write" /\ text \in Text /\ WriteText(d, text)
          /\ d \in Committing /\ draft \in Text
      BY <2>0, <2>1, DeleteWrites, RevisionTypes DEF Committing
    <2>3. /\ text.objects = draft.objects \ RemovedObjects(j)
          /\ text.fields = draft.fields \ RemovedFields(j)
      BY <2>2, CascadeTypes
    <2> HIDE DEF text
    <2>4. draft'.objects = text.objects /\ draft'.fields = text.fields
      BY <2>0, <2>2, WriteTypes
    <2>5. i \in RemovedObjects(j) \/ i \in draft.fields \cap RemovedFields(j)
      BY <2>3, <2>4 DEF Gone
    <2>6. i \notin protected[d]
      <3>1. ~IsProtected(d)
        BY <2>1 DEF CommitDelete
      <3>2. CASE j \in Objects
        BY <2>1, <2>5, <3>1, <3>2, DraftEditingAssumption
        DEF IsProtected, RemovedObjects, RemovedFields
      <3>3. CASE j \notin Objects
        BY <2>5, <3>1, <3>3 DEF IsProtected, RemovedObjects, RemovedFields
      <3> QED
        BY <3>2, <3>3
    <2>7. expected[d] = draft.revision /\ MissedAtRevision(d)
      BY <2>1, <2>2 DEF IInv, RaceInv
    <2> QED
      BY <2>6, <2>7 DEF MissedAtRevision
  <1> QED
    BY Inductive, <1>1, PTL DEF Spec, PublishedLostOnlyInRace

(* The aggregates in the audit of an applied delete are those of what it took
   out of the text it read, unless two texts have carried its revision. *)
THEOREM AuditIsExact == Spec => AuditedImpactIsExact
  <1> DEFINE Exact(d) ==
        phase[d] = "write" /\ phase'[d] = "applied" /\ expected[d] \notin reused =>
          impact[d] =
            [fields |-> Cardinality(base[d].fields \ draft'.fields),
             relations |-> Cardinality({r \in Relations :
                             draft'.relations[r] # base[d].relations[r]}),
             policies |-> Cardinality({o \in Objects :
                             draft'.policies[o] # base[d].policies[o]})]
  <1>1. IInv /\ [Next]_vars => [\A d \in Deletes : Exact(d)]_vars
    <2> SUFFICES ASSUME IInv, [Next]_vars, NEW d \in Deletes, phase[d] = "write",
                        phase'[d] = "applied", expected[d] \notin reused
                 PROVE  Exact(d)
      OBVIOUS
    <2> DEFINE i == target[d]
               text == base[d]
               new == Without(text, i)
    <2>0. Typed /\ TypeOK
      BY DEF IInv, Typed
    <2>1. CommitDelete(d)
      <3>1. DeleteStep(d)
        BY <2>0, Own
      <3> QED
        BY <2>0, <3>1 DEF DeleteStep, ReadImpact, ReadPublished, ReadDraft, RefuseDelete, TypeOK
    <2>2. impact[d] = ImpactOf(text, i)
      BY DEF IInv, ImpactInv
    <2>3. /\ i \in Identifiers /\ new \in Text /\ WriteText(d, new)
          /\ d \in Committing /\ text \in Text
      BY <2>0, <2>1, Apart, DeleteWrites, RevisionTypes DEF Committing
    <2>4. /\ new.fields = text.fields \ RemovedFields(i)
          /\ new.relations = RelationsWithout(text, i)
          /\ new.policies = PoliciesWithout(text, i)
      BY <2>3, CascadeTypes
    <2>5. None \notin RemovedFields(i)
      BY <2>3, DraftEditingAssumption DEF RemovedFields, FieldsOf, Identifiers
    <2> HIDE DEF new, text, i
    <2>6. /\ draft'.fields = new.fields /\ draft'.relations = new.relations
          /\ draft'.policies = new.policies
      BY <2>0, <2>3, WriteTypes
    <2>7. text.fields \ draft'.fields = text.fields \cap RemovedFields(i)
      BY <2>4, <2>6
    <2>8. {r \in Relations : draft'.relations[r] # text.relations[r]}
            = {r \in Relations : text.relations[r] # NoRelation
                                   /\ Touches(text.relations[r], i)}
      BY <2>4, <2>6 DEF RelationsWithout
    <2>9. {o \in Objects : draft'.policies[o] # text.policies[o]}
            = {o \in Objects : text.policies[o] \in RemovedFields(i)}
      BY <2>4, <2>5, <2>6 DEF PoliciesWithout
    <2> QED
      BY <2>2, <2>7, <2>8, <2>9 DEF ImpactOf, text
  <1> QED
    BY Inductive, <1>1, PTL DEF Spec, AuditedImpactIsExact
===============================================================================
