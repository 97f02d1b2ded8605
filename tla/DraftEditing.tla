------------------------------ MODULE DraftEditing ------------------------------
(***************************************************************************)
(* The content of one draft under DraftEditor and OntologyManagementService *)
(* - objects, fields, relations, temporal policies, dispositions of        *)
(* diagnostics - and what publication takes from it: the gate of           *)
(* assert_publishable and the identifiers of listed versions, which a      *)
(* delete must respect.                                                    *)
(*                                                                         *)
(* An edit is a thread of two steps, a delete one of four: every request    *)
(* has a store and a lock table of its own (app.state holds none), so      *)
(* between the reading and the writing of one commit another may come, and *)
(* two commits may write the same revision.  What a delete read before its *)
(* commit may be old by then; so may what a publication read.              *)
(* Descriptive texts, and the cardinality and label of a relation, tell no *)
(* property apart and are left out.                                        *)
(***************************************************************************)
EXTENDS Naturals, FiniteSets

CONSTANTS
  Objects,     \* the objects clients can import, by stable identifier
  Fields,      \* the fields, by stable identifier
  OwnerOf,     \* the object whose name is part of the identifier of a field
  TypeOf,      \* the xsd type of each field
  PartitionOf, \* the field an object's name obliges it to have, or None
  Relations,   \* the relation identifiers clients choose from
  Editors,     \* clients that edit, one request after another
  Deletes,     \* delete requests, each a thread
  None,        \* no field, no object
  MaxRevision  \* bound: the last draft revision of a behaviour

ASSUME DraftEditingAssumption ==
  /\ IsFiniteSet(Objects) /\ IsFiniteSet(Fields) /\ IsFiniteSet(Relations)
  /\ Objects \cap Fields = {} /\ Editors \cap Deletes = {}
  /\ None \notin Objects \cup Fields
  /\ OwnerOf \in [Fields -> Objects]
  /\ DOMAIN TypeOf = Fields
  /\ PartitionOf \in [Objects -> Fields \cup {None}]
  /\ \A o \in Objects : PartitionOf[o] # None => OwnerOf[PartitionOf[o]] = o
  /\ MaxRevision \in Nat

VARIABLES
  draft,        \* draft.json
  base,         \* the text the commit of each thread has read
  editing,      \* the editors between the reading and the writing of a commit
  latest,       \* history: the highest revision ever written
  reused,       \* history: the revisions written more than once
  building,     \* what a running publication has read, or NoBuild
  listedAt,     \* the draft's revision when an identifier was first listed
  relied,       \* history: published relations confirmed by a disposition
  reviewed,     \* history: the relations dispositions were recorded for
  phase,        \* where the thread of each delete is
  target,       \* the object or field it deletes
  expected,     \* the revision its client quoted
  impact,       \* the aggregates it will leave in the audit
  protected     \* the published identifiers it has read

commits == <<draft, base, latest, reused>>
publication == <<building, listedAt, relied>>
deletion == <<phase, target, expected, impact, protected>>
vars == <<draft, base, editing, latest, reused, building, listedAt, relied, reviewed,
          phase, target, expected, impact, protected>>

Identifiers == Objects \cup Fields
Revisions   == 0 .. MaxRevision
Never       == MaxRevision + 1
Phases      == {"idle", "editor", "commit", "write", "applied"}
Threads     == Editors \cup Deletes

FieldsOf(os) == {f \in Fields : OwnerOf[f] \in os}

(* What a client can send, and what DraftRelation lets into a draft. *)
RelationRequest == [source : Fields, target : Fields,
                    active : BOOLEAN, confirmed : BOOLEAN]
DistinctEndpoints(relation) == OwnerOf[relation.source] # OwnerOf[relation.target]
Relation == {relation \in RelationRequest : DistinctEndpoints(relation)}
NoRelation == [source |-> None, target |-> None, active |-> FALSE, confirmed |-> FALSE]

(* A relation as a person saw it: which way it points is part of it. *)
Directed == [id : Relations, source : Fields, target : Fields]
Diagnostic == [id : Relations, endpoints : SUBSET Fields]

Text == [revision : Revisions, objects : SUBSET Objects, fields : SUBSET Fields,
         relations : [Relations -> Relation \cup {NoRelation}],
         policies : [Objects -> Fields \cup {None}],
         dispositions : SUBSET Diagnostic]
EmptyText == [revision |-> 0, objects |-> {}, fields |-> {},
              relations |-> [r \in Relations |-> NoRelation],
              policies |-> [o \in Objects |-> None], dispositions |-> {}]

Build   == [objects : SUBSET Objects, fields : SUBSET Fields, relied : SUBSET Directed]
NoBuild == [objects |-> {}, fields |-> {}, relied |-> {}]
Impact  == [fields : Nat, relations : Nat, policies : Nat]
NoImpact == [fields |-> 0, relations |-> 0, policies |-> 0]

-------------------------------------------------------------------------------
(* WorkspaceDraft.require_consistent_references *)
Consistent(text) ==
  /\ text.fields \subseteq FieldsOf(text.objects)
  /\ \A r \in Relations : text.relations[r] # NoRelation =>
       {text.relations[r].source, text.relations[r].target} \subseteq text.fields
  /\ \A o \in Objects : text.policies[o] # None =>
       text.policies[o] \in text.fields /\ OwnerOf[text.policies[o]] = o

(* Mutant: the diagnostic is identified by the relation alone. *)
DiagnosticOfRelationId(r, relation) == [id |-> r, endpoints |-> {}]

(* stable_diagnostic_id: the hash of the sorted set of the identifiers. *)
DiagnosticOf(r, relation) ==
  [id |-> r, endpoints |-> {relation.source, relation.target}]

AsDirected(r, relation) ==
  [id |-> r, source |-> relation.source, target |-> relation.target]

(* The active relations DraftValidator wants a person to confirm. *)
Unconfirmed(text) ==
  {r \in Relations : text.relations[r].active /\ ~text.relations[r].confirmed}

(* assert_publishable, for valid identifiers and short names and active fields. *)
Publishable(text) ==
  /\ \A r \in Unconfirmed(text) : DiagnosticOf(r, text.relations[r]) \in text.dispositions
  /\ \A r \in Relations : text.relations[r].active =>
       TypeOf[text.relations[r].source] = TypeOf[text.relations[r].target]
  /\ \A o \in text.objects : PartitionOf[o] # None => PartitionOf[o] \in text.fields

Listed == {i \in Identifiers : listedAt[i] # Never}

Init ==
  /\ draft = EmptyText
  /\ base = [t \in Threads |-> EmptyText]
  /\ editing = {}
  /\ latest = 0 /\ reused = {}
  /\ building = NoBuild
  /\ listedAt = [i \in Identifiers |-> Never]
  /\ relied = {} /\ reviewed = {}
  /\ phase = [d \in Deletes |-> "idle"]
  /\ target = [d \in Deletes |-> None]
  /\ expected = [d \in Deletes |-> 0]
  /\ impact = [d \in Deletes |-> NoImpact]
  /\ protected = [d \in Deletes |-> {}]

-------------------------------------------------------------------------------
(* The two halves of FileDraftStore.commit.  The lock it holds in between is in
   the table of the request's own store, and keeps nobody out. *)

ReadText(t) ==
  /\ draft.revision < MaxRevision
  /\ base' = [base EXCEPT ![t] = draft]
  /\ UNCHANGED <<draft, latest, reused>>

(* Write what the mutator made of the text that was read. *)
WriteText(t, text) ==
  LET n == base[t].revision + 1 IN
  /\ draft' = [text EXCEPT !.revision = n]
  /\ latest' = IF n > latest THEN n ELSE latest
  /\ reused' = IF n > latest THEN reused ELSE reused \cup {n}
  /\ base' = [base EXCEPT ![t] = EmptyText]

-------------------------------------------------------------------------------
(* Edits.  The client quotes the revision the commit then finds: one that
   quotes another is turned down and leaves nothing behind. *)

EditRead(e) ==
  /\ e \notin editing
  /\ editing' = editing \cup {e}
  /\ ReadText(e)
  /\ UNCHANGED <<publication, reviewed, deletion>>

EditWrite(e, text) ==
  /\ e \in editing
  /\ editing' = editing \ {e}
  /\ WriteText(e, text)
  /\ UNCHANGED <<publication, deletion>>

(* The mutator refuses what it is given, or the file cannot be replaced. *)
EditFail(e) ==
  /\ e \in editing
  /\ editing' = editing \ {e}
  /\ base' = [base EXCEPT ![e] = EmptyText]
  /\ UNCHANGED <<draft, latest, reused, publication, reviewed, deletion>>

(* Mutant: a batch replaces the objects it shares with the draft. *)
ImportReplacing(e, os, fs) ==
  LET text == base[e] IN
  /\ os # {} /\ fs \subseteq FieldsOf(os)
  /\ EditWrite(e, [text EXCEPT !.objects = @ \cup os, !.fields = (@ \ FieldsOf(os)) \cup fs])
  /\ UNCHANGED reviewed

(* The confirmed batch is appended as it is; none of it is in the text yet. *)
Import(e, os, fs) ==
  LET text == base[e] IN
  /\ os # {} /\ os \cap text.objects = {} /\ fs \subseteq FieldsOf(os)
  /\ EditWrite(e, [text EXCEPT !.objects = @ \cup os, !.fields = @ \cup fs])
  /\ UNCHANGED reviewed

(* update_object, update_field: a new revision, the same structure. *)
Describe(e) ==
  /\ base[e].objects # {}
  /\ EditWrite(e, base[e])
  /\ UNCHANGED reviewed

(* Mutant: the two endpoints may belong to one object. *)
UpsertRelationWithinObject(e, r, relation) ==
  LET text == base[e] IN
  /\ {relation.source, relation.target} \subseteq text.fields
  /\ EditWrite(e, [text EXCEPT !.relations = [@ EXCEPT ![r] = relation]])
  /\ UNCHANGED reviewed

(* Both endpoints must be fields the text's objects own. *)
UpsertRelation(e, r, relation) ==
  LET text == base[e] IN
  /\ DistinctEndpoints(relation)
  /\ {relation.source, relation.target} \subseteq text.fields
  /\ EditWrite(e, [text EXCEPT !.relations = [@ EXCEPT ![r] = relation]])
  /\ UNCHANGED reviewed

DeleteRelation(e, r) ==
  LET text == base[e] IN
  /\ text.relations[r] # NoRelation
  /\ EditWrite(e, [text EXCEPT !.relations = [@ EXCEPT ![r] = NoRelation]])
  /\ UNCHANGED reviewed

(* One policy for each object: the new one replaces the old. *)
UpsertPolicy(e, f) ==
  LET text == base[e] IN
  /\ f \in text.fields
  /\ EditWrite(e, [text EXCEPT !.policies = [@ EXCEPT ![OwnerOf[f]] = f]])
  /\ UNCHANGED reviewed

(* resolve_diagnostic: only a confirmation can be disposed of, and the
   disposition stays in the draft whatever becomes of the relation. *)
Resolve(e, r) ==
  LET text == base[e] IN
  /\ r \in Unconfirmed(text)
  /\ EditWrite(e, [text EXCEPT !.dispositions = @ \cup {DiagnosticOf(r, text.relations[r])}])
  /\ reviewed' = reviewed \cup {AsDirected(r, text.relations[r])}

-------------------------------------------------------------------------------
(* Publication, as far as the draft is concerned *)

(* Read the draft and pass the gate; the draft's revision does not change.  To
   publish an empty draft would list nothing. *)
PublishRead ==
  /\ building = NoBuild
  /\ draft.objects # {}
  /\ Publishable(draft)
  /\ building' = [objects |-> draft.objects, fields |-> draft.fields,
                  relied |-> {AsDirected(r, draft.relations[r]) : r \in Unconfirmed(draft)}]
  /\ UNCHANGED <<commits, editing, listedAt, relied, reviewed, deletion>>

(* The metadata of the version is written: list_versions shows it. *)
PublishList ==
  /\ building # NoBuild
  /\ listedAt' = [i \in Identifiers |->
                    IF listedAt[i] = Never /\ i \in building.objects \cup building.fields
                    THEN draft.revision ELSE listedAt[i]]
  /\ relied' = relied \cup building.relied
  /\ building' = NoBuild
  /\ UNCHANGED <<commits, editing, reviewed, deletion>>

PublishFail ==
  /\ building # NoBuild
  /\ building' = NoBuild
  /\ UNCHANGED <<commits, editing, listedAt, relied, reviewed, deletion>>

-------------------------------------------------------------------------------
(* delete_object and delete_field *)

RemovedObjects(i) == {i} \cap Objects
RemovedFields(i)  == IF i \in Objects THEN FieldsOf({i}) ELSE {i}

(* Mutant: only the relations that start at what is removed are found. *)
TouchesFromSource(relation, i) == relation.source \in RemovedFields(i)

Touches(relation, i) == {relation.source, relation.target} \cap RemovedFields(i) # {}

RelationsWithout(text, i) ==
  [r \in Relations |->
     IF Touches(text.relations[r], i) THEN NoRelation ELSE text.relations[r]]

(* Mutant: the policy of a removed partition field stays. *)
PoliciesWithoutObject(text, i) == [text.policies EXCEPT ![i] = None]

PoliciesWithout(text, i) ==
  [o \in Objects |->
     IF text.policies[o] \in RemovedFields(i) THEN None ELSE text.policies[o]]

(* What the mutator of a delete makes of a text. *)
Without(text, i) ==
  [text EXCEPT !.objects = @ \ RemovedObjects(i), !.fields = @ \ RemovedFields(i),
               !.relations = RelationsWithout(text, i),
               !.policies = PoliciesWithout(text, i)]

(* What is left of the text is consistent: _validated does not raise. *)
CascadeConsistent(text, i) == Consistent(Without(text, i))

(* Mutant: relations are counted at their source only. *)
ImpactAtSource(text, i) ==
  [fields |-> Cardinality(text.fields \cap RemovedFields(i)),
   relations |-> Cardinality({r \in Relations : text.relations[r] # NoRelation
                                /\ TouchesFromSource(text.relations[r], i)}),
   policies |-> Cardinality({o \in Objects : text.policies[o] \in RemovedFields(i)})]

(* object_delete_impact, field_delete_impact *)
ImpactOf(text, i) ==
  [fields |-> Cardinality(text.fields \cap RemovedFields(i)),
   relations |-> Cardinality({r \in Relations : text.relations[r] # NoRelation
                                /\ Touches(text.relations[r], i)}),
   policies |-> Cardinality({o \in Objects : text.policies[o] \in RemovedFields(i)})]

(* The route reads the impact first, for the audit.  A client quotes a revision
   it has been shown. *)
ReadImpact(d) ==
  /\ phase[d] = "idle"
  /\ \E i \in draft.objects \cup draft.fields, n \in 0 .. latest :
       /\ target' = [target EXCEPT ![d] = i]
       /\ expected' = [expected EXCEPT ![d] = n]
       /\ impact' = [impact EXCEPT ![d] = ImpactOf(draft, i)]
  /\ phase' = [phase EXCEPT ![d] = "editor"]
  /\ UNCHANGED <<commits, editing, publication, reviewed, protected>>

(* _editor_for: the identifiers of every listed version. *)
ReadPublished(d) ==
  /\ phase[d] = "editor"
  /\ protected' = [protected EXCEPT ![d] = Listed]
  /\ phase' = [phase EXCEPT ![d] = "commit"]
  /\ UNCHANGED <<commits, editing, publication, reviewed, target, expected, impact>>

(* Mutant: a delete is applied to whatever revision it meets. *)
ReadDraftAnyRevision(d) ==
  /\ phase[d] = "commit"
  /\ ReadText(d)
  /\ phase' = [phase EXCEPT ![d] = "write"]
  /\ UNCHANGED <<editing, publication, reviewed, target, expected, impact, protected>>

(* The first half of the commit: the revision is the one the client quoted. *)
ReadDraft(d) ==
  /\ phase[d] = "commit"
  /\ draft.revision = expected[d]
  /\ ReadText(d)
  /\ phase' = [phase EXCEPT ![d] = "write"]
  /\ UNCHANGED <<editing, publication, reviewed, target, expected, impact, protected>>

(* An object with a published field, or a field of a published object, is as
   protected as one that is published itself. *)
IsProtected(d) ==
  LET i == target[d] IN
  \/ i \in protected[d]
  \/ i \in Objects /\ protected[d] \cap base[d].fields \cap FieldsOf({i}) # {}
  \/ i \in Fields /\ OwnerOf[i] \in protected[d]

(* The thread of an answered request is gone, with all it has read. *)
Forget(d) ==
  /\ target' = [target EXCEPT ![d] = None]
  /\ expected' = [expected EXCEPT ![d] = 0]
  /\ impact' = [impact EXCEPT ![d] = NoImpact]
  /\ protected' = [protected EXCEPT ![d] = {}]

(* The mutator, and the second half of the commit. *)
CommitDelete(d) ==
  LET text == base[d]
      i == target[d]
  IN /\ phase[d] = "write"
     /\ i \in text.objects \cup text.fields
     /\ ~IsProtected(d)
     /\ CascadeConsistent(text, i)
     /\ WriteText(d, Without(text, i))
     /\ phase' = [phase EXCEPT ![d] = "applied"]
     /\ Forget(d)
     /\ UNCHANGED <<editing, publication, reviewed>>

(* A published package that does not load any more; a conflict, a missing
   target, a protected one; a request without the cascade flag or the right
   name; a file that cannot be replaced.  The client may ask again. *)
RefuseDelete(d) ==
  /\ phase[d] \in {"editor", "commit", "write"}
  /\ phase' = [phase EXCEPT ![d] = "idle"]
  /\ base' = [base EXCEPT ![d] = EmptyText]
  /\ Forget(d)
  /\ UNCHANGED <<draft, latest, reused, editing, publication, reviewed>>

DeleteStep(d) ==
  \/ ReadImpact(d) \/ ReadPublished(d) \/ ReadDraft(d) \/ CommitDelete(d)
  \/ RefuseDelete(d)

EditStep(e) ==
  \/ EditRead(e) \/ EditFail(e)
  \/ \E os \in SUBSET Objects : \E fs \in SUBSET FieldsOf(os) : Import(e, os, fs)
  \/ Describe(e)
  \/ \E r \in Relations : \E relation \in RelationRequest : UpsertRelation(e, r, relation)
  \/ \E r \in Relations : DeleteRelation(e, r) \/ Resolve(e, r)
  \/ \E f \in Fields : UpsertPolicy(e, f)

PublishStep == PublishRead \/ PublishList \/ PublishFail

Next ==
  \/ \E e \in Editors : EditStep(e)
  \/ PublishStep
  \/ \E d \in Deletes : DeleteStep(d)

Spec == Init /\ [][Next]_vars

-------------------------------------------------------------------------------
(* Every variable has its type. *)
TypeOK ==
  /\ draft \in Text
  /\ base \in [Threads -> Text]
  /\ editing \in SUBSET Editors
  /\ latest \in Revisions /\ reused \in SUBSET Revisions
  /\ building \in Build
  /\ listedAt \in [Identifiers -> Revisions \cup {Never}]
  /\ relied \in SUBSET Directed /\ reviewed \in SUBSET Directed
  /\ phase \in [Deletes -> Phases]
  /\ target \in [Deletes -> Identifiers \cup {None}]
  /\ expected \in [Deletes -> Revisions]
  /\ impact \in [Deletes -> Impact]
  /\ protected \in [Deletes -> SUBSET Identifiers]

(* Whatever is written can be read again, however commits overlap:
   WorkspaceDraft refuses a text with a dangling reference, and most edits write
   without validating. *)
DraftReadable == Consistent(draft)

(* A cascade removes all that refers to its target, so that no object or field
   of any draft is left that can never be deleted. *)
CascadesAreComplete ==
  \A i \in draft.objects \cup draft.fields : CascadeConsistent(draft, i)

(* A published relation that nobody marked as confirmed was seen by a person
   between the very fields it was published with, whatever has been edited,
   deleted, imported or created again since. *)
PublishedEndpointsConfirmed ==
  \A p \in relied : \E v \in reviewed :
    v.id = p.id /\ {v.source, v.target} = {p.source, p.target}

(* The same of the direction of the relation. *)
PublishedDirectionConfirmed == relied \subseteq reviewed

Gone == (draft.objects \cup draft.fields) \ (draft'.objects \cup draft'.fields)

(* The threads between the two halves of a commit. *)
Committing == editing \cup {d \in Deletes : phase[d] = "write"}

(* The step replaces a text its thread has not read: another commit came between
   the two halves of this one. *)
Overwrites(t) == t \in Committing \ Committing' /\ base[t] # draft /\ draft' # draft

(* A published identifier leaves the draft in three ways only: by a commit that
   overwrites a text it has not read; by a delete that raced the publication,
   at the very revision the identifier was listed at; or by a delete whose
   client quoted a revision that two texts have carried. *)
PublishedLostOnlyInRace ==
  [][\A i \in Gone \cap Listed :
       \/ \E t \in Threads : Overwrites(t)
       \/ listedAt[i] = draft.revision
       \/ draft.revision \in reused]_vars

(* The audit event of an applied delete tells what the delete removed from the
   text it read, although it was read in a step of its own before the commit -
   unless the revision the client quoted has named two texts. *)
AuditedImpactIsExact ==
  [][\A d \in Deletes :
       phase[d] = "write" /\ phase'[d] = "applied" /\ expected[d] \notin reused =>
         impact[d] =
           [fields |-> Cardinality(base[d].fields \ draft'.fields),
            relations |-> Cardinality({r \in Relations :
                            draft'.relations[r] # base[d].relations[r]}),
            policies |-> Cardinality({o \in Objects :
                            draft'.policies[o] # base[d].policies[o]})]]_vars
===============================================================================
