---------------------------- MODULE OntologyMetadata ----------------------------
(***************************************************************************)
(* The tables the legacy client reads its ontology from, edited through    *)
(* api/routes/ontology.py: comments are DDL, descriptions of fields are    *)
(* versioned rows, an import writes both.  Every server process keeps what *)
(* it has read in _CACHE until it expires or an edit of the same process   *)
(* clears it.                                                              *)
(*                                                                         *)
(* The comments of all tables are one number that grows with every edit.   *)
(* MySQL is external: a statement of DDL commits what the connection has   *)
(* written before, and an UPDATE holds the rows it has changed.            *)
(***************************************************************************)
EXTENDS Naturals, FiniteSets

CONSTANTS
  Servers, \* the processes
  Editors, \* the editing requests
  Readers, \* the questions that read the tables
  Fields,  \* the fields a description is imported for
  ServerOf \* the process that takes each request and question

ASSUME MetadataAssumption ==
  /\ IsFiniteSet(Servers) /\ IsFiniteSet(Editors) /\ IsFiniteSet(Readers) /\ IsFiniteSet(Fields)
  /\ ServerOf \in [Editors \cup Readers -> Servers]
  /\ "migrated" \notin Editors

VARIABLES
  comments,    \* the number of the last edit of a comment
  active,      \* the enabled descriptions of each field, named by their editors
  cached,      \* _CACHE of each process: an entry for "tables", or none
  editor,      \* what each request has done
  reader,      \* what each question has loaded
  acknowledged \* history: per process, the last edit it has confirmed to a client

metadataVars == <<comments, active, cached, editor, reader, acknowledged>>

(* "held" tells an entry from none; "crossed" is history: the load began before
   an edit that cleared the cache and ended after it. *)
Entries == [held : BOOLEAN, value : Nat, crossed : BOOLEAN]
NoEntry == [held |-> FALSE, value |-> 0, crossed |-> TRUE]

MetadataInit ==
  /\ comments = 0
  /\ active = [f \in Fields |-> {"migrated"}]
  /\ cached = [s \in Servers |-> NoEntry]
  /\ editor = [e \in Editors |-> [phase |-> "new", edit |-> 0, fields |-> {}]]
  /\ reader = [r \in Readers |-> [phase |-> "new", loaded |-> NoEntry]]
  /\ acknowledged = [s \in Servers |-> 0]

EditorAt(e, phase) == editor[e].phase = phase
EditorGoes(e, phase) == editor' = [editor EXCEPT ![e].phase = phase]

(* update_object_comment, update_column_comment, update_object_desc: committed ... *)
AlterComment(e) ==
  /\ EditorAt(e, "new")
  /\ comments' = comments + 1
  /\ editor' = [editor EXCEPT ![e] = [phase |-> "altered", edit |-> comments + 1, fields |-> {}]]
  /\ UNCHANGED <<active, cached, reader, acknowledged>>

(* Mutant: nothing is cleared. *)
ClearNothing(e) ==
  /\ EditorAt(e, "altered")
  /\ acknowledged' = [acknowledged EXCEPT ![ServerOf[e]] = IF editor[e].edit > @ THEN editor[e].edit ELSE @]
  /\ EditorGoes(e, "done")
  /\ UNCHANGED <<comments, active, cached, reader>>

(* ... then clear_ontology_cache, which a load that is under way outlives. *)
ClearCache(e) ==
  /\ EditorAt(e, "altered")
  /\ LET s == ServerOf[e]
     IN /\ cached' = [cached EXCEPT ![s] = NoEntry]
        /\ acknowledged' = [acknowledged EXCEPT ![s] = IF editor[e].edit > @ THEN editor[e].edit ELSE @]
        /\ reader' = [r \in Readers |-> IF ServerOf[r] = s /\ reader[r].phase = "loaded"
                                           /\ reader[r].loaded.value < editor[e].edit
                                        THEN [reader[r] EXCEPT !.loaded.crossed = TRUE] ELSE reader[r]]
  /\ EditorGoes(e, "done")
  /\ UNCHANGED <<comments, active>>

(* upsert_field_meta of one field, import_field_meta of all: enabled rows are
   disabled and new ones inserted, in a transaction that excludes others from
   these fields. *)
WriteDescriptions(e) ==
  /\ EditorAt(e, "new")
  /\ \E fields \in {Fields} \cup {{f} : f \in Fields} :
       /\ \A other \in Editors : EditorAt(other, "writing") => fields \cap editor[other].fields = {}
       /\ editor' = [editor EXCEPT ![e] = [phase |-> "writing", edit |-> 0, fields |-> fields]]
  /\ UNCHANGED <<comments, active, cached, reader, acknowledged>>

Described(e, fields) == [f \in Fields |-> IF f \in fields THEN {e} ELSE active[f]]

CommitDescriptions(e) ==
  /\ EditorAt(e, "writing")
  /\ active' = Described(e, editor[e].fields)
  /\ EditorGoes(e, "done")
  /\ UNCHANGED <<comments, cached, reader, acknowledged>>

(* Mutant: the tables' comments are altered between the rows of the import. *)
AlterBetweenRows(e) ==
  /\ EditorAt(e, "writing") /\ editor[e].fields = Fields
  /\ \E f \in Fields : active' = Described(e, {f})
  /\ comments' = comments + 1
  /\ EditorGoes(e, "importing")
  /\ UNCHANGED <<cached, reader, acknowledged>>

(* An import also sets comments, which commits the rows; descriptions of tables
   follow.  It clears no cache. *)
AlterByImport(e) ==
  /\ EditorAt(e, "writing") /\ editor[e].fields = Fields
  /\ active' = Described(e, Fields)
  /\ comments' = comments + 1
  /\ EditorGoes(e, "importing")
  /\ UNCHANGED <<cached, reader, acknowledged>>

FinishImport(e) ==
  /\ EditorAt(e, "importing")
  /\ EditorGoes(e, "done")
  /\ UNCHANGED <<comments, active, cached, reader, acknowledged>>

(* An error of the database: what is not committed is rolled back. *)
EditFails(e) ==
  /\ editor[e].phase \in {"new", "writing", "importing"}
  /\ EditorGoes(e, "failed")
  /\ UNCHANGED <<comments, active, cached, reader, acknowledged>>

(* _cached: an entry is used as it is, ... *)
UseCache(r) ==
  /\ reader[r].phase = "new" /\ cached[ServerOf[r]] # NoEntry
  /\ reader' = [reader EXCEPT ![r].phase = "done", ![r].loaded = cached[ServerOf[r]]]
  /\ UNCHANGED <<comments, active, cached, editor, acknowledged>>

(* ... without one the tables are read, and then the entry is made. *)
LoadTables(r) ==
  /\ reader[r].phase = "new" /\ cached[ServerOf[r]] = NoEntry
  /\ reader' = [reader EXCEPT ![r].phase = "loaded",
                              ![r].loaded = [held |-> TRUE, value |-> comments, crossed |-> FALSE]]
  /\ UNCHANGED <<comments, active, cached, editor, acknowledged>>

StoreTables(r) ==
  /\ reader[r].phase = "loaded"
  /\ cached' = [cached EXCEPT ![ServerOf[r]] = reader[r].loaded]
  /\ reader' = [reader EXCEPT ![r].phase = "done"]
  /\ UNCHANGED <<comments, active, editor, acknowledged>>

ExpireCache(s) ==
  /\ cached[s] # NoEntry
  /\ cached' = [cached EXCEPT ![s] = NoEntry]
  /\ UNCHANGED <<comments, active, editor, reader, acknowledged>>

EditorStep(e) ==
  \/ ClearCache(e) \/ CommitDescriptions(e) \/ AlterByImport(e) \/ FinishImport(e)
MetadataNext ==
  \/ \E e \in Editors : AlterComment(e) \/ WriteDescriptions(e) \/ EditorStep(e) \/ EditFails(e)
  \/ \E r \in Readers : UseCache(r) \/ LoadTables(r) \/ StoreTables(r)
  \/ \E s \in Servers : ExpireCache(s)

MetadataSpec == MetadataInit /\ [][MetadataNext]_metadataVars

-------------------------------------------------------------------------------
MetadataTypeOK ==
  /\ comments \in Nat
  /\ active \in [Fields -> SUBSET (Editors \cup {"migrated"})]
  /\ cached \in [Servers -> Entries]
  /\ editor \in [Editors -> [edit : Nat, fields : SUBSET Fields,
                             phase : {"new", "altered", "writing", "importing", "done", "failed"}]]
  /\ reader \in [Readers -> [phase : {"new", "loaded", "done"}, loaded : Entries]]
  /\ acknowledged \in [Servers -> Nat]

(* What the process that confirmed an edit caches from then on has the edit,
   "effective at once" as the routes say; only a load that was under way while
   the cache was cleared brings the old tables back, until they expire. *)
EditsTakeEffect ==
  \A s \in Servers : cached[s].crossed \/ cached[s].value >= acknowledged[s]

(* A field never has two enabled descriptions, and an import describes all its
   fields or none, though its DDL commits in the middle. *)
DescriptionsAreWhole ==
  \A f \in Fields :
    /\ Cardinality(active[f]) <= 1
    /\ \A e \in active[f] \cap Editors : \A g \in editor[e].fields : active[g] \subseteq Editors /\ active[g] # {}

(* Confirmed edits of this router stay visible and whole. *)
MetadataIsConsistent == EditsTakeEffect /\ DescriptionsAreWhole
===============================================================================
