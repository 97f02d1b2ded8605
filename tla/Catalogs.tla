-------------------------------- MODULE Catalogs --------------------------------
(***************************************************************************)
(* From a managed draft to the catalog the planners read.  The gate        *)
(* (DraftValidator.assert_publishable) judges the draft, PackageBuilder    *)
(* writes it as RDF, OntologyRepository.publish checks the shapes, parses  *)
(* the graph into a catalog or refuses it with every violation it found,   *)
(* and adds the policies that table names imply.  A graph need not come    *)
(* from a draft: packages are also written by hand.                        *)
(*                                                                         *)
(* A graph is a set of triples.  A term is <<sort, scope, text>>: "uri",   *)
(* "lit", "blank", "bad" (a URI that is relative, a file or malformed) or  *)
(* "name" (a derived short name, by kind and cleaned identifier).          *)
(***************************************************************************)
EXTENDS Periods

CONSTANTS
  PackageDrafts,  \* drafts someone publishes
  HandGraphs,     \* graphs of packages written by hand
  ListingOrders,  \* orders in which the store may list the arguments of an expression
  Clean,          \* what remains of an identifier in a short name
  Upper,          \* the upper case of those names that are not in it
  SuffixOf,       \* the ending of physical table names that says their partition
  BadNames,       \* texts that are no identifiers
  Credentials,    \* predicates that normalise to the name of a credential
  MaxDepth, MaxNodes, MaxItems, MaxEdges, \* limits of one expression (64, 1024, 1024, 4096)
  ScanTerms, ScanEdges                    \* the budget of the credential scan (1024, 4096)

ASSUME CatalogAssumption ==
  /\ {MaxDepth, MaxNodes, MaxItems, MaxEdges, ScanTerms, ScanEdges} \subseteq Nat
  /\ MaxDepth > 0

VARIABLE package \* one package on its way

Kind == {"Concept", "Property", "Relation", "BusinessRule", "DataSource", "PhysicalMapping",
         "TemporalPartitionPolicy"}
Uri(scope, id) == <<"uri", scope, id>>
EmptyText      == ""
Lit(text)      == <<"lit", EmptyText, text>>
Bool(b)        == Lit(IF b THEN "true" ELSE "false")
Absent         == <<"none", EmptyText, EmptyText>>
UpperOf(name)  == IF name \in DOMAIN Upper THEN Upper[name] ELSE name
Suffix(name)   == IF name \in DOMAIN SuffixOf THEN SuffixOf[name] ELSE "T"
Strategy       == [day |-> "t_minus_2", month |-> "previous_complete_month"]
Xsd            == {Uri("xsd", t) : t \in {"string", "integer", "date"}}

-------------------------------------------------------------------------------
(* Drafts: what an object's name asks for, and which policies are in force. *)
FieldsIn(d)   == UNION {o.fields : o \in d.objects}
Owned(d, o, f) == {x.id : x \in {y \in d.objects : \E z \in y.fields : z.id = f}} = {o}
Conventional(o) == Suffix(o.physical) \in DOMAIN Convention
PartitionFields(o) ==
  {f \in o.fields : UpperOf(f.physical) = Convention[Suffix(o.physical)].field /\ f.active}

EffectivePolicies(d) ==
  LET conventional == {o \in d.objects : Conventional(o)}
  IN {p \in d.policies : p.object \notin {o.id : o \in conventional}}
     \cup UNION {{[object |-> o.id, field |-> f.id, grain |-> Convention[Suffix(o.physical)].grain,
                   strategy |-> Strategy[Convention[Suffix(o.physical)].grain], active |-> TRUE, override |-> TRUE] :
                    f \in PartitionFields(o)} :
                  o \in {x \in conventional : x.active /\ Cardinality(PartitionFields(x)) = 1}}

(* Mutant: a disposition does not make the relation a confirmed one. *)
EffectiveAsDrafted(r) == r.confirmed

(* relation_is_effectively_confirmed; disposed: a diagnostic of exactly this relation
   and these endpoints was resolved or dismissed. *)
Effective(r) == r.confirmed \/ (r.active /\ r.disposed)

(* managed_short_name *)
Short(kind, id)  == <<"name", kind, Clean[id]>>
PolicyShort(p)   == <<"name", "TemporalPolicy", <<Clean[p.object], Clean[p.field]>>>>
ManagedNames(d) ==
  {<<Short("DataSource", d.source.id), d.source.id>>}
  \cup (UNION {{<<Short(k, o.id), o.id>> : k \in {"Concept", "ObjectMapping"}} : o \in d.objects})
  \cup (UNION {{<<Short(k, f.id), f.id>> : k \in {"Property", "FieldMapping"}} : f \in FieldsIn(d)})
  \cup {<<Short("Relation", r.id), r.id>> : r \in d.relations}
  \cup {<<PolicyShort(p), <<p.object, p.field>>>> : p \in d.policies}

Shared(pairs) == \E x, y \in pairs : x[1] = y[1] /\ x[2] # y[2]

(* DraftValidator.validate: what no disposition can settle, and the relations that
   still wait for one. *)
Diagnostics(d) ==
  LET owned(r) == Owned(d, r.from, r.fromField) /\ Owned(d, r.to, r.toField)
      actives  == {r \in d.relations : r.active /\ owned(r)}
      typeOf(f) == {x.type : x \in {y \in FieldsIn(d) : y.id = f}}
      holds == [
        duplicate_object_id   |-> Shared({<<o.id, o>> : o \in d.objects}),
        duplicate_field_id    |-> Shared(UNION {{<<f.id, <<o.id, f>>>> : f \in o.fields} : o \in d.objects}),
        duplicate_relation_id |-> Shared({<<r.id, r>> : r \in d.relations}),
        invalid_object_identifier |-> \E o \in d.objects : o.physical \in BadNames,
        invalid_field_identifier  |-> \E f \in FieldsIn(d) : f.physical \in BadNames,
        invalid_field_type        |-> \E f \in FieldsIn(d) : Uri("xsd", f.type) \notin Xsd,
        duplicate_managed_short_name |-> Shared(ManagedNames(d)),
        relation_endpoint_not_owned |-> \E r \in d.relations : ~owned(r),
        relation_confirmation_required |-> \E r \in actives : ~r.confirmed /\ ~r.disposed,
        relation_incompatible_field_types |-> \E r \in actives : typeOf(r.fromField) # typeOf(r.toField),
        automatic_partition_field_missing |->
          \E o \in d.objects : Conventional(o) /\ o.active /\ Cardinality(PartitionFields(o)) # 1,
        multiple_temporal_policies_for_object |-> Shared({<<p.object, p>> : p \in d.policies}),
        temporal_partition_field_not_owned |-> \E p \in d.policies : ~Owned(d, p.object, p.field),
        temporal_strategy_grain_mismatch |-> \E p \in d.policies : p.strategy # Strategy[p.grain]]
  IN {code \in DOMAIN holds : holds[code]}

-------------------------------------------------------------------------------
(* PackageBuilder: the graphs it writes. *)
Element(uri, kind, short, labels) ==
  {<<uri, "type", Uri("oa", kind)>>, <<uri, "shortName", short>>, <<uri, "label", short>>}
  \cup {<<uri, "label", Lit(l)>> : l \in labels}
Standard == [Concept |-> "Class", Property |-> "DatatypeProperty", Relation |-> "ObjectProperty"]
Typed(uri, kind) == <<uri, "type", Uri("owl", Standard[kind])>>

FieldTriples(o, f) ==
  LET p == Uri("property", f.id)
  IN Element(p, "Property", Short("Property", f.id), {f.physical} \cup f.aliases)
     \cup {Typed(p, "Property"), <<p, "domain", Uri("concept", o.id)>>, <<p, "range", Uri("xsd", f.type)>>}
RelationTriples(r, confirmed) ==
  LET u == Uri("relation", r.id)
  IN Element(u, "Relation", Short("Relation", r.id), {})
     \cup {Typed(u, "Relation"), <<u, "domain", Uri("concept", r.from)>>, <<u, "range", Uri("concept", r.to)>>,
           <<u, "sourceProperty", Uri("property", r.fromField)>>, <<u, "targetProperty", Uri("property", r.toField)>>,
           <<u, "status", Lit(IF r.active THEN "active" ELSE "inactive")>>, <<u, "confirmed", Bool(confirmed)>>}
DomainTriples(d) ==
  (UNION {Element(Uri("concept", o.id), "Concept", Short("Concept", o.id), {o.physical})
         \cup {Typed(Uri("concept", o.id), "Concept")} : o \in d.objects})
  \cup (UNION {UNION {FieldTriples(o, f) : f \in o.fields} : o \in d.objects})
  \cup UNION {RelationTriples(r, Effective(r)) : r \in d.relations}

MappingOf(uri, short, element, source, about, name, active) ==
  Element(uri, "PhysicalMapping", short, {})
  \cup {<<uri, "semanticElement", element>>, <<uri, "dataSource", source>>, <<uri, about, Lit(name)>>,
        <<uri, "enabled", Bool(active)>>}
MappingTriples(d) ==
  LET source == Uri("source", d.source.id)
  IN Element(source, "DataSource", Short("DataSource", d.source.id), {})
     \cup {<<source, "platformType", Lit(d.source.platform)>>}
     \cup (UNION {MappingOf(Uri("objectMapping", o.id), Short("ObjectMapping", o.id), Uri("concept", o.id),
                           source, "objectName", o.physical, o.active) : o \in d.objects})
     \cup UNION {MappingOf(Uri("fieldMapping", f.id), Short("FieldMapping", f.id), Uri("property", f.id),
                           source, "fieldName", f.physical, f.active) : f \in FieldsIn(d)}

PolicyTriples(d) ==
  UNION {LET u == Uri("policy", <<p.object, p.field>>)
         IN Element(u, "TemporalPartitionPolicy", PolicyShort(p), {})
            \cup {<<u, "appliesTo", Uri("concept", p.object)>>, <<u, "partitionProperty", Uri("property", p.field)>>,
                  <<u, "partitionGrain", Lit(p.grain)>>, <<u, "defaultStrategy", Lit(p.strategy)>>,
                  <<u, "allowQueryOverride", Bool(p.override)>>,
                  <<u, "status", Lit(IF p.active THEN "active" ELSE "inactive")>>} :
           p \in EffectivePolicies(d)}
Written(d) == DomainTriples(d) \cup MappingTriples(d) \cup PolicyTriples(d)

(* A draft is finite and what has a name is named (models.py): no diagnostic asks.  Nor
   does one ask whether base_uri makes stable URIs (_is_stable_semantic_uri): that it
   does is part of Uri, which gives every element a URI the parser accepts. *)
WellDrafted(d) ==
  /\ IsFiniteSet(d.objects) /\ IsFiniteSet(d.relations) /\ IsFiniteSet(d.policies)
  /\ \A o \in d.objects : IsFiniteSet(o.fields) /\ o.physical # EmptyText /\ o.active \in BOOLEAN
  /\ \A f \in FieldsIn(d) : IsFiniteSet(f.aliases) /\ f.physical # EmptyText /\ f.active \in BOOLEAN
  /\ \A r \in d.relations : {r.active, r.confirmed, r.disposed} \subseteq BOOLEAN
  /\ \A p \in d.policies : p.grain \in DOMAIN Strategy /\ {p.active, p.override} \subseteq BOOLEAN
  /\ d.source.platform # EmptyText

(* A graph is finite and of terms.  Nobody writes by hand the short name that stands for
   the hash of a URI; the store lists every argument. *)
WellWritten(g) ==
  /\ IsFiniteSet(g)
  /\ \A t \in g : /\ t[3][1] = "lit" => t[3] = Lit(t[3][3])
                  /\ t[3][1] = "name" => t[3][2] # "AutomaticTemporal"
                  /\ t[2] = "argument" => \A rank \in ListingOrders : rank[t[3]] \in Nat

(* The predicates PackageBuilder and its policies write. *)
Vocabulary ==
  {"type", "shortName", "label", "domain", "range", "sourceProperty", "targetProperty", "status", "confirmed",
   "semanticElement", "dataSource", "objectName", "fieldName", "enabled", "platformType",
   "appliesTo", "partitionProperty", "partitionGrain", "defaultStrategy", "allowQueryOverride"}

ASSUME PackageAssumption ==
  /\ \A g \in HandGraphs : WellWritten(g)
  /\ \A d \in PackageDrafts : WellDrafted(d)
  /\ Credentials \cap Vocabulary = {}
  /\ EmptyText \notin DOMAIN Upper /\ \A n \in DOMAIN Upper : Upper[n] # EmptyText

-------------------------------------------------------------------------------
(* Reading a graph. *)
Said(g, s, p)  == {t[3] : t \in {u \in g : u[1] = s /\ u[2] = p}}
Marked(g, kind) == {t[1] : t \in {u \in g : u[2] = "type" /\ u[3] = Uri("oa", kind)}}
Elements(g, kind) == {s \in Marked(g, kind) : s[1] = "uri"}
Literals(S)    == {v \in S : v[1] \in {"lit", "name"}}
Only(S)        == CHOOSE x \in S : TRUE

(* _single_uri, _optional_uri, _uris and what _capture reports of them. *)
Single(g, s, p) ==
  LET said == Said(g, s, p)
  IN IF Cardinality(said) = 1 /\ Only(said)[1] = "uri" THEN Only(said) ELSE Absent
SingleWrong(g, s, p, code) ==
  LET said == Said(g, s, p)
  IN IF \E v \in said : v[1] # "uri" THEN {<<"invalid_ontology_reference", s, p>>}
     ELSE IF Cardinality(said) # 1 THEN {<<code, s, p>>} ELSE {}
OptionalWrong(g, s, p, code) == IF Said(g, s, p) = {} THEN {} ELSE SingleWrong(g, s, p, code)
Several(g, s, p) == {v \in Said(g, s, p) : v[1] = "uri"}
SeveralWrong(g, s, p) ==
  IF Several(g, s, p) # Said(g, s, p) THEN {<<"invalid_ontology_reference", s, p>>} ELSE {}
Dangling(g, s, p, refs, kinds, code) ==
  IF refs \ {Absent} \subseteq UNION {Elements(g, k) : k \in kinds} THEN {} ELSE {<<code, s, p>>}
ConceptWrong(g, s, p, refs) == Dangling(g, s, p, refs, {"Concept"}, "dangling_concept_reference")

(* _single_literal and _optional_literal; an empty text counts as the default. *)
Text(g, s, p, default) ==
  LET said == Said(g, s, p)
  IN IF said \subseteq {Lit(EmptyText)} THEN Lit(default)
     ELSE IF Cardinality(said) = 1 /\ Literals(said) = said THEN Only(said) ELSE Absent
Required(g, s, p) ==
  LET said == Said(g, s, p)
  IN IF Cardinality(said) = 1 /\ Literals(said) = said THEN Only(said) ELSE Absent
TextWrong(g, s, p, default, values, code) ==
  IF Text(g, s, p, default)[3] \in values THEN {} ELSE {<<code, s, p>>}
LiteralWrong(g, s, p, code) == IF Cardinality(Said(g, s, p)) > 1 \/ Literals(Said(g, s, p)) # Said(g, s, p)
                               THEN {<<code, s, p>>} ELSE {}
Booleans == {"true", "false"}

(* _element_fields and _validate_short_name; the standard type of its kind. *)
ShortOf(g, s)  == Required(g, s, "shortName")
LabelsOf(g, s) == Literals(Said(g, s, "label")) \ {Lit(EmptyText)}
Named(g, s)    == ShortOf(g, s) \notin {Absent, Lit(EmptyText)} /\ LabelsOf(g, s) # {}
                  /\ ShortOf(g, s) \notin {Lit(b) : b \in BadNames}
NameWrong(g, s) ==
  (IF ShortOf(g, s) \in {Absent, Lit(EmptyText)} THEN {<<"missing_short_name", s, "shortName">>} ELSE {})
  \cup (IF LabelsOf(g, s) = {} THEN {<<"missing_label", s, "label">>} ELSE {})
  \cup (IF ShortOf(g, s) \in {Lit(b) : b \in BadNames} THEN {<<"invalid_short_name", s, "shortName">>} ELSE {})
TypeWrong(g, kind) ==
  {<<"missing_standard_type", s, "type">> : s \in {x \in Elements(g, kind) : Typed(x, kind) \notin g}}

-------------------------------------------------------------------------------
(* parse_catalog, kind by kind: what is found, and what is wrong. *)
Read(found, wrong) == [found |-> found, wrong |-> wrong]

ReadConcepts(g) ==
  LET all == Elements(g, "Concept")
  IN Read({[uri |-> s, short |-> ShortOf(g, s), labels |-> LabelsOf(g, s), parents |-> Several(g, s, "subClassOf"),
            children |-> {c \in all : s \in Said(g, c, "subClassOf")}] : s \in {x \in all : Named(g, x)}},
          TypeWrong(g, "Concept") \cup UNION {NameWrong(g, s) \cup SeveralWrong(g, s, "subClassOf")
             \cup ConceptWrong(g, s, "subClassOf", Several(g, s, "subClassOf")) : s \in all})

ReadProperties(g) ==
  LET all == Elements(g, "Property")
      domain(s) == Single(g, s, "domain")
      range(s)  == Single(g, s, "range")
  IN Read({[uri |-> s, short |-> ShortOf(g, s), labels |-> LabelsOf(g, s), of |-> domain(s), type |-> range(s)] :
             s \in {x \in all : Named(g, x) /\ Absent \notin {domain(x), range(x)}}},
          TypeWrong(g, "Property") \cup UNION {NameWrong(g, s)
             \cup SingleWrong(g, s, "domain", "missing_domain") \cup SingleWrong(g, s, "range", "missing_range")
             \cup ConceptWrong(g, s, "domain", {domain(s)})
             \cup (IF range(s) \in Xsd \cup {Absent} THEN {} ELSE {<<"invalid_datatype_range", s, "range">>}) : s \in all})

(* A property is foreign to a concept unless it was read with that domain. *)
Foreign(g, p, c) ==
  LET read == p \in Elements(g, "Property") /\ Named(g, p) /\ Single(g, p, "range") # Absent
  IN p # Absent /\ (IF read THEN Single(g, p, "domain") ELSE Absent) # c
(* The integers the instances write. *)
Priorities == [t \in {"0", "1", "100"} |-> IF t = "0" THEN 0 ELSE IF t = "1" THEN 1 ELSE 100]

ReadRelations(g) ==
  LET all == Elements(g, "Relation")
      end(s, p) == Single(g, s, p)
      confirmed(s) == Text(g, s, "confirmed", "false")[3]
      endWrong(s, at, key) ==
        SingleWrong(g, s, at, IF at = "domain" THEN "missing_domain" ELSE "missing_range") \cup ConceptWrong(g, s, at, {end(s, at)})
        \cup OptionalWrong(g, s, key, "invalid_relation_property")
        \cup Dangling(g, s, key, {end(s, key)}, {"Property"}, "invalid_ontology_reference")
        \cup (IF Foreign(g, end(s, key), end(s, at)) THEN {<<"invalid_relation_property", s, key>>} ELSE {})
  IN Read({[uri |-> s, short |-> ShortOf(g, s), from |-> end(s, "domain"), to |-> end(s, "range"),
            keys |-> <<end(s, "sourceProperty"), end(s, "targetProperty")>>,
            active |-> Text(g, s, "status", "active") = Lit("active"), confirmed |-> confirmed(s) \in {"true", "1"}] :
             s \in {x \in all : Named(g, x) /\ Absent \notin {end(x, "domain"), end(x, "range")}}},
          TypeWrong(g, "Relation") \cup UNION {NameWrong(g, s)
             \cup endWrong(s, "domain", "sourceProperty") \cup endWrong(s, "range", "targetProperty")
             \cup LiteralWrong(g, s, "cardinality", "invalid_cardinality") \cup LiteralWrong(g, s, "status", "invalid_status")
             \cup TextWrong(g, s, "priority", "0", DOMAIN Priorities, "invalid_priority")
             \cup TextWrong(g, s, "confirmed", "false", Booleans \cup {"1", "0"}, "invalid_confirmed") : s \in all})

(* A source whose platform type is an empty text is left out without a word. *)
ReadSources(g) ==
  LET all == Elements(g, "DataSource")
      platform(s) == Required(g, s, "platformType")
  IN Read({[uri |-> s, short |-> ShortOf(g, s), platform |-> platform(s)] :
             s \in {x \in all : Named(g, x) /\ platform(x) \notin {Absent, Lit(EmptyText)}}},
          UNION {NameWrong(g, s) \cup LiteralWrong(g, s, "dialect", "invalid_dialect")
             \cup (IF platform(s) = Absent THEN {<<"missing_platform_type", s, "platformType">>} ELSE {}) : s \in all})

ReadMappings(g) ==
  LET all == Elements(g, "PhysicalMapping")
      ref(s, p) == Single(g, s, p)
      elementKinds == {"Concept", "Property", "Relation"}
  IN Read({[uri |-> s, short |-> ShortOf(g, s), element |-> ref(s, "semanticElement"), source |-> ref(s, "dataSource"),
            object |-> Text(g, s, "objectName", EmptyText)[3], field |-> Text(g, s, "fieldName", EmptyText)[3],
            priority |-> Priorities[Text(g, s, "priority", "0")[3]],
            enabled |-> Text(g, s, "enabled", "true") = Lit("true")] :
             s \in {x \in all : Named(g, x) /\ Absent \notin {ref(x, "semanticElement"), ref(x, "dataSource")}}},
          UNION {NameWrong(g, s)
             \cup SingleWrong(g, s, "semanticElement", "missing_semantic_element")
             \cup SingleWrong(g, s, "dataSource", "missing_data_source")
             \cup Dangling(g, s, "semanticElement", {ref(s, "semanticElement")}, elementKinds, "invalid_ontology_reference")
             \cup Dangling(g, s, "dataSource", {ref(s, "dataSource")}, {"DataSource"}, "invalid_ontology_reference")
             \cup (UNION {LiteralWrong(g, s, p, "invalid_mapping_value") : p \in {"physicalNamespace", "objectName", "fieldName"}})
             \cup TextWrong(g, s, "priority", "0", DOMAIN Priorities, "invalid_priority")
             \cup TextWrong(g, s, "enabled", "true", Booleans, "invalid_enabled") : s \in all})

PolicyWrong(g, s) ==
  LET of       == Single(g, s, "appliesTo")
      on       == Single(g, s, "partitionProperty")
      grain    == Required(g, s, "partitionGrain")[3]
      strategy == Required(g, s, "defaultStrategy")[3]
  IN NameWrong(g, s)
     \cup SingleWrong(g, s, "appliesTo", "missing_applies_to") \cup ConceptWrong(g, s, "appliesTo", {of})
     \cup SingleWrong(g, s, "partitionProperty", "missing_partition_property")
     \cup Dangling(g, s, "partitionProperty", {on}, {"Property"}, "invalid_ontology_reference")
     \cup (IF of # Absent /\ Foreign(g, on, of) THEN {<<"invalid_temporal_property", s, "partitionProperty">>} ELSE {})
     \cup (IF grain \notin DOMAIN Strategy THEN {<<"invalid_partition_grain", s, "partitionGrain">>}
           ELSE IF strategy # Strategy[grain] THEN {<<"invalid_temporal_strategy", s, "defaultStrategy">>} ELSE {})
     \cup (IF Required(g, s, "allowQueryOverride")[3] \in Booleans THEN {}
           ELSE {<<"invalid_query_override", s, "allowQueryOverride">>})
     \cup LiteralWrong(g, s, "status", "invalid_status")
     \cup TextWrong(g, s, "priority", "0", DOMAIN Priorities, "invalid_priority")

ReadPolicies(g) ==
  LET all == Elements(g, "TemporalPartitionPolicy")
      ref(s, p) == Single(g, s, p)
      said(s, p) == Required(g, s, p)[3]
      read == {x \in all : /\ Named(g, x) /\ Absent \notin {ref(x, "appliesTo"), ref(x, "partitionProperty")}
                           /\ said(x, "partitionGrain") \in DOMAIN Strategy
                           /\ \E grain \in DOMAIN Strategy : said(x, "defaultStrategy") = Strategy[grain]}
  IN Read({[uri |-> s, short |-> ShortOf(g, s), of |-> ref(s, "appliesTo"), on |-> ref(s, "partitionProperty"),
            grain |-> said(s, "partitionGrain"), strategy |-> said(s, "defaultStrategy"),
            override |-> said(s, "allowQueryOverride") = "true", active |-> Text(g, s, "status", "active") = Lit("active")] :
             s \in read},
          (UNION {PolicyWrong(g, s) : s \in all})
          \cup {<<"duplicate_temporal_policy", s, "appliesTo">> :
                  s \in {x \in read : \E y \in read : x # y /\ ref(x, "appliesTo") = ref(y, "appliesTo")}})

-------------------------------------------------------------------------------
(* Conditions of rules.  An expression is read along its arguments, in the order in
   which the store lists them; what was read once is not read again, and the limits
   hold for the whole condition. *)
Logical    == {"AllOf", "AnyOf", "Not"}
Collections == {"In", "Between"}
Operators  == Logical \cup Collections \cup {"Eq", "Gt", "IsNull"}
Structural == {"argument", "leftProperty", "value", "values", "parameter"}
Allowed(op) == IF op \in Logical THEN {"argument"} ELSE IF op = "IsNull" THEN {"leftProperty"}
               ELSE IF op \in Collections THEN {"leftProperty", "values"} ELSE {"leftProperty", "value", "parameter"}
OperatorsOf(g, n) == {op \in Operators : <<n, "type", Uri("oa", op)>> \in g}
NoExpression == [op |-> "none", on |-> Absent, values |-> <<>>, parameter |-> Absent, children |-> <<>>]

(* _collection_literals: the items of a list, or <<Absent>>. *)
Items(g, head) ==
  LET nil == Uri("rdf", "nil")
      walk[n \in 0 .. MaxItems + 1] ==
        IF n = 0 THEN [cell |-> head, seen |-> {}, items |-> <<>>]
        ELSE LET at    == walk[n - 1]
                 first == Said(g, at.cell, "first")
                 rest  == Said(g, at.cell, "rest")
             IN IF at.cell = nil THEN at
                ELSE IF \/ Len(at.items) >= MaxItems \/ at.cell[1] \notin {"uri", "blank"} \/ at.cell \in at.seen
                        \/ Cardinality(first) # 1 \/ Cardinality(rest) # 1 \/ Literals(first) = {}
                THEN [at EXCEPT !.cell = nil, !.items = <<Absent>>]
                ELSE [cell |-> Only(rest), seen |-> at.seen \cup {at.cell}, items |-> Append(at.items, Only(first))]
  IN walk[MaxItems + 1].items

Comparison(g, n, op) ==
  LET on      == Single(g, n, "leftProperty")
      heads   == Said(g, n, "values")
      values  == Said(g, n, "value")
      params  == Said(g, n, "parameter")
      leaf(v, p) == [NoExpression EXCEPT !.op = op, !.on = on, !.values = v, !.parameter = p]
      items   == IF Cardinality(heads) = 1 THEN Items(g, Only(heads)) ELSE <<Absent>>
  IN IF on \notin Elements(g, "Property") THEN NoExpression
     ELSE IF op = "IsNull" THEN leaf(<<>>, Absent)
     ELSE IF op \in Collections
          THEN IF items = <<Absent>> \/ items = <<>> \/ (op = "Between" /\ Len(items) # 2) THEN NoExpression
               ELSE leaf(items, Absent)
     ELSE IF Cardinality(values) = 1 /\ Literals(values) = values /\ params = {} THEN leaf(<<Only(values)>>, Absent)
     ELSE IF Cardinality(params) = 1 /\ Literals(params) = params /\ values = {} THEN leaf(<<>>, Only(params))
     ELSE NoExpression

(* A function that gives b for a as well. *)
Plus(f, a, b) == [x \in DOMAIN f \cup {a} |-> IF x = a THEN b ELSE f[x]]
Nothing       == [x \in {} |-> NoExpression]

(* The arguments of "all" and "any" are sorted by what they say: a bag. *)
Compound(op, read) ==
  [NoExpression EXCEPT !.op = op,
     !.children = [e \in {read[a] : a \in DOMAIN read} |-> Cardinality({a \in DOMAIN read : read[a] = e})]]

(* The calls of _parse_expression that are open, outermost first: each has its node and
   what the arguments gave that it has read. *)
NewContext == [calls |-> <<>>, done |-> Nothing, nodes |-> {}, edges |-> 0, result |-> NoExpression]
OpenNodes(c) == {c.calls[i].node : i \in DOMAIN c.calls}
Innermost(c) == c.calls[Len(c.calls)]
Outer(c)     == SubSeq(c.calls, 1, Len(c.calls) - 1)

(* A call to n gives what it read to the one that made it; an expression is kept. *)
Gives(c, n, e) ==
  IF c.calls = <<>> THEN [c EXCEPT !.result = e]
  ELSE [c EXCEPT !.calls = Append(Outer(c), [Innermost(c) EXCEPT !.read = Plus(@, n, e)])]
Keeps(c, n, e) == IF e = NoExpression THEN c ELSE [c EXCEPT !.done = Plus(@, n, e)]

(* A call until it has what it says, or its first argument to read. *)
Call(g, c, n) ==
  LET ops   == OperatorsOf(g, n)
      op    == Only(ops)
      args  == Said(g, n, "argument")
      known == [c EXCEPT !.nodes = @ \cup {n}]
      leaf  == Comparison(g, n, op)
  IN IF Len(c.calls) >= MaxDepth \/ n \in OpenNodes(c) THEN Gives(c, n, NoExpression)
     ELSE IF n \in DOMAIN c.done THEN Gives(c, n, c.done[n])
     ELSE IF n \notin c.nodes /\ Cardinality(c.nodes) >= MaxNodes THEN Gives(c, n, NoExpression)
     ELSE IF Cardinality(ops) # 1 \/ \E p \in Structural \ Allowed(op) : Said(g, n, p) # {}
     THEN Gives(known, n, NoExpression)
     ELSE IF op \notin Logical THEN Gives(Keeps(known, n, leaf), n, leaf)
     ELSE IF \/ IF op = "Not" THEN Cardinality(args) # 1 ELSE Cardinality(args) < 2
             \/ c.edges + Cardinality(args) > MaxEdges
     THEN Gives(known, n, NoExpression)
     ELSE [known EXCEPT !.edges = @ + Cardinality(args), !.calls = Append(@, [node |-> n, read |-> Nothing])]

(* Every argument is read, also after one that could not be: all of it is reported. *)
Return(g, c) ==
  LET call == Innermost(c)
      read == call.read
      e    == IF \E a \in DOMAIN read : read[a] = NoExpression THEN NoExpression
              ELSE Compound(Only(OperatorsOf(g, call.node)), read)
  IN Gives(Keeps([c EXCEPT !.calls = Outer(c)], call.node, e), call.node, e)
Earliest(rank, S) == CHOOSE a \in S : \A b \in S : rank[a] <= rank[b]
ReadOn(g, rank, c) ==
  LET call == Innermost(c)
      rest == Said(g, call.node, "argument") \ DOMAIN call.read
  IN IF c.calls = <<>> THEN c
     ELSE IF rest = {} THEN Return(g, c)
     ELSE Call(g, c, Earliest(rank, rest))

(* Every call but the first is for one of the arguments that are counted. *)
ReadExpression(g, rank, n) ==
  LET after[k \in 0 .. 2 * MaxEdges] ==
        IF k = 0 THEN Call(g, NewContext, n) ELSE ReadOn(g, rank, after[k - 1])
  IN after[2 * MaxEdges].result

ConditionOf(g, rank, s) ==
  LET nodes == Said(g, s, "condition")
  IN IF nodes = {} THEN NoExpression ELSE ReadExpression(g, rank, Only(nodes))

ReadRules(g, rank) ==
  LET all == Elements(g, "BusinessRule")
      conditions(s) == Said(g, s, "condition")
      refs(s, p) == Several(g, s, p)
  IN Read({[uri |-> s, short |-> ShortOf(g, s), of |-> Single(g, s, "appliesTo"),
            uses |-> refs(s, "usesProperty") \cup refs(s, "usesRelation"), condition |-> ConditionOf(g, rank, s),
            active |-> Text(g, s, "status", "active") = Lit("active")] :
             s \in {x \in all : Named(g, x) /\ Single(g, x, "appliesTo") # Absent}},
          UNION {NameWrong(g, s)
             \cup SingleWrong(g, s, "appliesTo", "missing_applies_to")
             \cup ConceptWrong(g, s, "appliesTo", {Single(g, s, "appliesTo")})
             \cup SeveralWrong(g, s, "usesProperty") \cup SeveralWrong(g, s, "usesRelation")
             \cup Dangling(g, s, "usesProperty", refs(s, "usesProperty"), {"Property"}, "invalid_ontology_reference")
             \cup Dangling(g, s, "usesRelation", refs(s, "usesRelation"), {"Relation"}, "invalid_ontology_reference")
             \cup (IF Cardinality(conditions(s)) > 1 \/ (conditions(s) # {} /\ ConditionOf(g, rank, s) = NoExpression)
                   THEN {<<"invalid_rule_expression", s, "condition">>} ELSE {})
             \cup LiteralWrong(g, s, "status", "invalid_status")
             \cup TextWrong(g, s, "priority", "0", DOMAIN Priorities, "invalid_priority") : s \in all})

-------------------------------------------------------------------------------
(* _scan_forbidden_credentials: everything that describes a source or a mapping,
   through blank nodes and described terms, but not into other elements unless they
   are a configuration. *)
AllMarked(g) == UNION {Marked(g, k) : k \in Kind}
Below(g, S, elements) ==
  {v \in {t[3] : t \in {u \in g : /\ u[1] \in S /\ u[2] # "type"
                                 /\ (u[2] = "configuration" \/ u[3] \notin elements)}} :
     v[1] = "blank" \/ (v[1] \in {"uri", "bad"} /\ \E t \in g : t[1] = v)}
(* Every round finds another term or was the last; the budget ends it. *)
Described(g, roots, elements) ==
  LET found[n \in 0 .. ScanTerms + 1] ==
        IF n = 0 THEN roots ELSE LET S == found[n - 1] IN S \cup Below(g, S, elements)
  IN found[ScanTerms + 1]

CredentialWrong(g) ==
  LET roots == Elements(g, "DataSource") \cup Elements(g, "PhysicalMapping")
      nodes == Described(g, roots, AllMarked(g)) \ roots
  IN IF Cardinality(nodes) > ScanTerms \/ Cardinality({t \in g : t[1] \in nodes}) > ScanEdges
     THEN {<<"credential_scan_budget_exceeded", Absent, "configuration">>}
     ELSE IF \E t \in g : t[1] \in nodes \cup roots /\ t[2] \in Credentials
     THEN {<<"forbidden_credential_predicate", Absent, "configuration">>} ELSE {}

(* Marked terms that cannot be elements, and names that two elements share. *)
SubjectWrong(g) == {<<"invalid_subject", s, "type">> : s \in {x \in AllMarked(g) : x[1] # "uri"}}
Normal(name) == IF name[1] = "lit" THEN Lit(UpperOf(name[3])) ELSE name
DuplicateWrong(g) ==
  LET all == {<<s, Normal(ShortOf(g, s))>> : s \in UNION {Elements(g, k) : k \in Kind}}
      named == {x \in all : x[2] \notin {Absent, Lit(EmptyText)}}
  IN {<<"duplicate_short_name", x[1], "shortName">> : x \in {y \in named : \E z \in named : y[1] # z[1] /\ y[2] = z[2]}}

Together(kinds, wrong) ==
  Read([k \in DOMAIN kinds |-> kinds[k].found], wrong \cup UNION {kinds[k].wrong : k \in DOMAIN kinds})
ParseElements(g) ==
  Together([concepts |-> ReadConcepts(g), properties |-> ReadProperties(g), relations |-> ReadRelations(g),
            sources |-> ReadSources(g), mappings |-> ReadMappings(g), policies |-> ReadPolicies(g)],
           CredentialWrong(g) \cup SubjectWrong(g) \cup DuplicateWrong(g))
WithRules(elements, rules) ==
  Read([k \in DOMAIN elements.found \cup {"rules"} |-> IF k = "rules" THEN rules.found ELSE elements.found[k]],
       elements.wrong \cup rules.wrong)

(* with_automatic_temporal_policies: the enabled table of a concept, by priority, says
   which field bounds it, and that replaces whatever the package says of it. *)
Enabled(c, element) == {m \in c.mappings : m.enabled /\ m.element = element}
Preferred(ms) == CHOOSE m \in ms : \A n \in ms : n.priority <= m.priority
TableOf(c, concept) ==
  LET ms == {m \in Enabled(c, concept) : m.object # EmptyText}
  IN IF ms = {} THEN Absent ELSE LET m == Preferred(ms) IN <<"table", m.source, m.object>>
FieldOf(c, property, source) ==
  LET ms == {m \in Enabled(c, property) : m.field # EmptyText /\ m.source = source}
  IN IF ms = {} THEN EmptyText ELSE Preferred(ms).field
Ruled(c) == {k.uri : k \in {x \in c.concepts : LET t == TableOf(c, x.uri) IN t # Absent /\ Suffix(t[3]) \in DOMAIN Convention}}
AutomaticFor(c, concept) ==
  LET table == TableOf(c, concept)
      rule  == Convention[Suffix(table[3])]
      found == {p.uri : p \in {x \in c.properties : x.of = concept /\ UpperOf(FieldOf(c, x.uri, table[2])) = rule.field}}
      declared == {p \in c.policies : p.of = concept /\ p.on \in found}
      new == [uri |-> Uri("automatic", concept), short |-> <<"name", "AutomaticTemporal", concept>>, of |-> concept,
              on |-> Only(found), grain |-> rule.grain, strategy |-> Strategy[rule.grain], override |-> TRUE, active |-> TRUE]
  IN IF Cardinality(found) # 1 THEN {}
     ELSE IF declared = {} THEN {new}
     ELSE {[new EXCEPT !.uri = Only(declared).uri, !.short = Only(declared).short]}
WithAutomaticPolicies(c) ==
  [c EXCEPT !.policies = {p \in @ : p.of \notin Ruled(c)} \cup UNION {AutomaticFor(c, k) : k \in Ruled(c)}]

-------------------------------------------------------------------------------
(* The shapes every package carries (resources/shapes.ttl): the one thing SHACL adds
   here is what it wants said exactly or at most once, and of which sort. *)
RefsOf == [Property |-> {"domain", "range"}, Relation |-> {"domain", "range"}, BusinessRule |-> {"appliesTo"},
           PhysicalMapping |-> {"semanticElement", "dataSource"}, TemporalPartitionPolicy |-> {"appliesTo", "partitionProperty"},
           Concept |-> {}, DataSource |-> {}]
ShapesHold(g) ==
  \A k \in Kind : \A s \in Marked(g, k) :
    /\ s[1] \in {"uri", "bad"}
    /\ Required(g, s, "shortName") # Absent /\ Said(g, s, "label") # {} /\ Literals(Said(g, s, "label")) = Said(g, s, "label")
    /\ \A p \in RefsOf[k] : Cardinality(Said(g, s, p)) = 1 /\ Only(Said(g, s, p))[1] \in {"uri", "bad"}
    /\ k \in DOMAIN Standard => Typed(s, k) \in g
    /\ k = "Property" => Said(g, s, "range") \subseteq Xsd
    /\ k = "Relation" => /\ \A p \in {"sourceProperty", "targetProperty"} :
                              Cardinality(Said(g, s, p)) <= 1 /\ \A v \in Said(g, s, p) : v[1] \in {"uri", "bad"}
                         /\ LiteralWrong(g, s, "status", "shape") = {}
                         /\ Text(g, s, "confirmed", "false")[3] \in Booleans \cup {"1", "0"}
    /\ k = "DataSource" => Required(g, s, "platformType") # Absent
    /\ k = "TemporalPartitionPolicy" =>
         /\ Required(g, s, "partitionGrain")[3] \in DOMAIN Strategy
         /\ \E grain \in DOMAIN Strategy : Required(g, s, "defaultStrategy")[3] = Strategy[grain]
         /\ Required(g, s, "allowQueryOverride")[3] \in Booleans \cup {"1", "0"}

-------------------------------------------------------------------------------
NoDraft   == [objects |-> {}]
NoCatalog == [concepts |-> {}]
NewPackage(draft, graph, stage) ==
  [stage |-> stage, draft |-> draft, graph |-> graph, catalog |-> NoCatalog, why |-> {}]
PackageInit ==
  package \in {NewPackage(d, {}, "draft") : d \in PackageDrafts} \cup {NewPackage(NoDraft, g, "written") : g \in HandGraphs}
AtStage(stage) == package.stage = stage
Reject(stage, codes) == package' = [package EXCEPT !.stage = "refused", !.why = {<<stage, c>> : c \in codes}]

(* assert_publishable *)
CheckDraft ==
  /\ AtStage("draft")
  /\ IF Diagnostics(package.draft) = {} THEN package' = [package EXCEPT !.stage = "publishable"]
     ELSE Reject("gate", Diagnostics(package.draft))
(* PackageBuilder.build *)
BuildPackage ==
  /\ AtStage("publishable")
  /\ package' = [package EXCEPT !.stage = "written",
                   !.graph = Written(package.draft)]
(* OntologyRepository.publish: SHACL, the parser, the automatic policies. *)
ValidateShapes ==
  /\ AtStage("written")
  /\ IF ShapesHold(package.graph) THEN package' = [package EXCEPT !.stage = "shaped"] ELSE Reject("shapes", {"shape"})
KeepCatalog(parsed) ==
  IF parsed.wrong # {} THEN Reject("parser", {w[1] : w \in parsed.wrong})
  ELSE package' = [package EXCEPT !.stage = "loaded", !.catalog = WithAutomaticPolicies(parsed.found)]
LoadCatalog ==
  LET elements == ParseElements(package.graph)
  IN /\ AtStage("shaped")
     /\ \E rank \in ListingOrders : KeepCatalog(WithRules(elements, ReadRules(package.graph, rank)))
PackageNext == CheckDraft \/ BuildPackage \/ ValidateShapes \/ LoadCatalog
PackageSpec == PackageInit /\ [][PackageNext]_package

-------------------------------------------------------------------------------
(* What a draft says, without a graph in between. *)
MeaningOf(d) ==
  LET concept(id)  == Uri("concept", id)
      property(id) == Uri("property", id)
      source == Uri("source", d.source.id)
      mapping(uri, short, element, object, field, active) ==
        [uri |-> uri, short |-> short, element |-> element, source |-> source, object |-> object, field |-> field,
         priority |-> 0, enabled |-> active]
  IN [concepts |-> {[uri |-> concept(o.id), short |-> Short("Concept", o.id), parents |-> {}, children |-> {},
                     labels |-> {Short("Concept", o.id), Lit(o.physical)}] : o \in d.objects},
      properties |-> UNION {{[uri |-> property(f.id), short |-> Short("Property", f.id), of |-> concept(o.id),
                              type |-> Uri("xsd", f.type),
                              labels |-> {Short("Property", f.id), Lit(f.physical)} \cup {Lit(a) : a \in f.aliases \ {EmptyText}}] :
                                f \in o.fields} : o \in d.objects},
      relations |-> {[uri |-> Uri("relation", r.id), short |-> Short("Relation", r.id), from |-> concept(r.from), to |-> concept(r.to),
                      keys |-> <<property(r.fromField), property(r.toField)>>, active |-> r.active,
                      confirmed |-> r.active \/ r.confirmed] : r \in d.relations},
      sources |-> {[uri |-> source, short |-> Short("DataSource", d.source.id), platform |-> Lit(d.source.platform)]},
      mappings |-> {mapping(Uri("objectMapping", o.id), Short("ObjectMapping", o.id), concept(o.id), o.physical, EmptyText, o.active) :
                      o \in d.objects}
                   \cup {mapping(Uri("fieldMapping", f.id), Short("FieldMapping", f.id), property(f.id), EmptyText, f.physical, f.active) :
                      f \in FieldsIn(d)},
      policies |-> {}, rules |-> {}]

(* The period a table is bounded by: the one its name implies, if it is in use, and
   what a person declared for the others. *)
BoundBy(d) ==
  UNION {IF Conventional(o)
         THEN {<<o.id, f.id, Convention[Suffix(o.physical)].grain>> :
                 f \in {x \in o.fields : o.active /\ x.active /\ UpperOf(x.physical) = Convention[Suffix(o.physical)].field}}
         ELSE {<<o.id, p.field, p.grain>> : p \in {x \in d.policies : x.object = o.id}} : o \in d.objects}

(* What a condition says: its nodes, to the depth a graph without a cycle can have. *)
Values(g) == {t[3] : t \in g}
Deeper(g, says) ==
  [m \in Values(g) |->
     LET op   == Only(OperatorsOf(g, m))
         args == Said(g, m, "argument")
     IN IF op \notin Logical THEN Comparison(g, m, op) ELSE Compound(op, [a \in args |-> says[a]])]
Says(g, n) ==
  LET says[k \in 0 .. Cardinality(Values(g))] ==
        IF k = 0 THEN [m \in Values(g) |-> NoExpression] ELSE Deeper(g, says[k - 1])
  IN says[Cardinality(Values(g))][n]

(* What the gate lets through is loaded, and the catalog says what the draft says: every
   relation in use is one that somebody confirmed, exactly what is in use is mapped, and
   each table is bounded by its own period. *)
LoadsWhatIsPublished ==
  package.draft # NoDraft =>
    /\ package.stage = "refused" => \A w \in package.why : w[1] = "gate"
    /\ package.stage = "loaded" =>
         /\ [package.catalog EXCEPT !.policies = {}] = MeaningOf(package.draft)
         /\ {<<p.of, p.on, p.grain>> : p \in package.catalog.policies} =
              {<<Uri("concept", b[1]), Uri("property", b[2]), b[3]>> : b \in BoundBy(package.draft)}

(* Every reference of a catalog meets what it refers to.  A source without a platform
   is the one thing that is left out silently. *)
UriSet(S)     == {x.uri : x \in S}
DomainOf(c, p) == {x.of : x \in {y \in c.properties : y.uri = p}}
ReferencesMeet(g, c) ==
  /\ \A p \in c.properties : p.of \in UriSet(c.concepts)
  /\ \A k \in c.concepts : k.parents \subseteq UriSet(c.concepts)
                           /\ k.children = UriSet({y \in c.concepts : k.uri \in y.parents})
  /\ \A r \in c.relations : /\ {r.from, r.to} \subseteq UriSet(c.concepts)
                            /\ \A i \in {1, 2} : r.keys[i] # Absent => DomainOf(c, r.keys[i]) = {IF i = 1 THEN r.from ELSE r.to}
  /\ \A m \in c.mappings : /\ m.element \in UriSet(c.concepts) \cup UriSet(c.properties) \cup UriSet(c.relations)
                           /\ m.source \in UriSet(c.sources) \/ Said(g, m.source, "platformType") = {Lit(EmptyText)}
  /\ \A r \in c.rules : r.of \in UriSet(c.concepts) /\ r.uses \subseteq UriSet(c.properties) \cup UriSet(c.relations)

(* A short name belongs to one element. *)
NamesDiffer(c) ==
  LET all == UNION {{<<x.uri, x.short>> : x \in c[k]} : k \in DOMAIN c}
  IN \A x, y \in all : x[2] = y[2] => x[1] = y[1]

(* A table has at most one policy, on a property of its own. *)
PoliciesFit(c) ==
  /\ \A p, q \in c.policies : p.of = q.of => p = q
  /\ \A p \in c.policies : DomainOf(c, p.on) = {p.of} /\ p.strategy = Strategy[p.grain]

(* A condition says what the graph says, in whatever order it is read. *)
RulesSay(g, c) ==
  \A r \in c.rules : LET nodes == Said(g, r.uri, "condition")
                     IN r.condition = IF nodes = {} THEN NoExpression ELSE Says(g, Only(nodes))

(* Nothing that is reached from a source or a mapping is a credential. *)
NoCredentials(g, c) ==
  LET reached == Described(g, Elements(g, "DataSource") \cup Elements(g, "PhysicalMapping"), AllMarked(g))
  IN /\ UriSet(c.sources) \cup UriSet(c.mappings) \subseteq reached
     /\ Below(g, reached, AllMarked(g)) \subseteq reached
     /\ \A t \in g : t[1] \in reached => t[2] \notin Credentials

(* A catalog, also of a package written by hand, can be planned with. *)
LoadedIsUsable ==
  package.stage = "loaded" =>
    /\ ReferencesMeet(package.graph, package.catalog)
    /\ NamesDiffer(package.catalog)
    /\ PoliciesFit(package.catalog)
    /\ RulesSay(package.graph, package.catalog)
    /\ NoCredentials(package.graph, package.catalog)

PackageMeansDraft == LoadsWhatIsPublished /\ LoadedIsUsable
===============================================================================
