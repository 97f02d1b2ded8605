------------------------------ MODULE CatalogProofs ------------------------------
(***************************************************************************)
(* What a loaded package promises, for every finite graph: whoever wrote   *)
(* it, in whatever order its triples are listed.                           *)
(***************************************************************************)
EXTENDS Catalogs, DeliveryProofs

-------------------------------------------------------------------------------
(* Finite sets *)

LEMMA ImagesAreFinite ==
  ASSUME NEW f, IsFiniteSet(DOMAIN f)
  PROVE  IsFiniteSet({f[x] : x \in DOMAIN f})
<1> DEFINE S == DOMAIN f
           T == {f[x] : x \in S}
<1>1. PICK s \in Seq(S) : \A x \in S : \E n \in 1 .. Len(s) : s[n] = x
  BY DEF IsFiniteSet
<1> DEFINE t == [n \in 1 .. Len(s) |-> f[s[n]]]
<1>2. t \in Seq(T) /\ Len(t) = Len(s)
  BY <1>1
<1>3. \A y \in T : \E n \in 1 .. Len(t) : t[n] = y
  BY <1>1, <1>2
<1> QED
  BY <1>2, <1>3 DEF IsFiniteSet

LEMMA TermsAreFinite ==
  ASSUME NEW g, IsFiniteSet(g)
  PROVE  /\ IsFiniteSet(Values(g))
         /\ \A kind : IsFiniteSet(Marked(g, kind)) /\ IsFiniteSet(Elements(g, kind))
         /\ \A s, p : IsFiniteSet(Said(g, s, p)) /\ Said(g, s, p) \subseteq Values(g)
<1> DEFINE f == [t \in g |-> t[3]]
           h == [t \in g |-> t[1]]
<1>1. IsFiniteSet(Values(g))
  <2>1. IsFiniteSet({f[t] : t \in DOMAIN f})
    BY ImagesAreFinite
  <2>2. {f[t] : t \in DOMAIN f} = Values(g)
    BY DEF Values
  <2> QED
    BY <2>1, <2>2
<1>2. IsFiniteSet({t[1] : t \in g})
  <2>1. IsFiniteSet({h[t] : t \in DOMAIN h})
    BY ImagesAreFinite
  <2>2. {h[t] : t \in DOMAIN h} = {t[1] : t \in g}
    OBVIOUS
  <2> QED
    BY <2>1, <2>2
<1>3. \A kind : Marked(g, kind) \subseteq {t[1] : t \in g} /\ Elements(g, kind) \subseteq {t[1] : t \in g}
  BY DEF Marked, Elements
<1>4. \A s, p : Said(g, s, p) \subseteq Values(g)
  BY DEF Said, Values
<1> HIDE DEF f, h
<1>5. \A kind : IsFiniteSet(Marked(g, kind)) /\ IsFiniteSet(Elements(g, kind))
  BY <1>2, <1>3, FS_Subset
<1> QED
  BY <1>1, <1>4, <1>5, FS_Subset

LEMMA OnlyOne ==
  ASSUME NEW S, IsFiniteSet(S), Cardinality(S) = 1
  PROVE  S = {Only(S)}
<1>1. PICK x : S = {x}
  BY FS_Singleton
<1> QED
  BY <1>1 DEF Only

-------------------------------------------------------------------------------
(* What is read without a complaint *)

LEMMA OneReference ==
  ASSUME NEW g, NEW s, NEW p, NEW code, IsFiniteSet(g), SingleWrong(g, s, p, code) = {}
  PROVE  /\ Single(g, s, p) # Absent /\ Single(g, s, p)[1] = "uri"
         /\ Said(g, s, p) = {Single(g, s, p)}
<1>1. IsFiniteSet(Said(g, s, p))
  BY TermsAreFinite
<1>2. Cardinality(Said(g, s, p)) = 1 /\ \A v \in Said(g, s, p) : v[1] = "uri"
  BY DEF SingleWrong
<1>3. Said(g, s, p) = {Only(Said(g, s, p))}
  BY <1>1, <1>2, OnlyOne
<1>4. Only(Said(g, s, p))[1] = "uri"
  BY <1>2, <1>3
<1>5. Single(g, s, p) = Only(Said(g, s, p))
  BY <1>2, <1>4 DEF Single
<1>6. Absent[1] = "none"
  BY DEF Absent
<1> QED
  BY <1>3, <1>4, <1>5, <1>6

LEMMA NameIsFine ==
  ASSUME NEW g, NEW s, NameWrong(g, s) = {}
  PROVE  Named(g, s)
  BY DEF NameWrong, Named

LEMMA NoDangling ==
  ASSUME NEW g, NEW s, NEW p, NEW refs, NEW kinds, NEW code,
         Dangling(g, s, p, refs, kinds, code) = {}, Absent \notin refs
  PROVE  \A r \in refs : \E k \in kinds : r \in Elements(g, k)
  BY DEF Dangling

LEMMA SeveralReferences ==
  ASSUME NEW g, NEW s, NEW p
  PROVE  Absent \notin Several(g, s, p) /\ \A v \in Several(g, s, p) : v[1] = "uri" /\ v \in Said(g, s, p)
<1>1. Absent[1] = "none"
  BY DEF Absent
<1> QED
  BY <1>1 DEF Several

-------------------------------------------------------------------------------
(* A graph without a complaint *)

Parsed(g, rank) == WithRules(ParseElements(g), ReadRules(g, rank))

LEMMA NothingWrong ==
  ASSUME NEW g, NEW rank, Parsed(g, rank).wrong = {}
  PROVE  /\ ReadConcepts(g).wrong = {} /\ ReadProperties(g).wrong = {} /\ ReadRelations(g).wrong = {}
         /\ ReadSources(g).wrong = {} /\ ReadMappings(g).wrong = {} /\ ReadPolicies(g).wrong = {}
         /\ ReadRules(g, rank).wrong = {}
         /\ CredentialWrong(g) = {} /\ DuplicateWrong(g) = {}
<1> DEFINE kinds == [concepts |-> ReadConcepts(g), properties |-> ReadProperties(g), relations |-> ReadRelations(g),
                     sources |-> ReadSources(g), mappings |-> ReadMappings(g), policies |-> ReadPolicies(g)]
           wrong == CredentialWrong(g) \cup SubjectWrong(g) \cup DuplicateWrong(g)
<1>1. ParseElements(g) = Together(kinds, wrong)
  BY DEF ParseElements
<1> HIDE DEF kinds, wrong
<1>2. ParseElements(g).wrong = wrong \cup UNION {kinds[k].wrong : k \in DOMAIN kinds}
  BY <1>1 DEF Together, Read
<1>3. Parsed(g, rank).wrong = ParseElements(g).wrong \cup ReadRules(g, rank).wrong
  BY DEF Parsed, WithRules, Read
<1>4. wrong = {} /\ ReadRules(g, rank).wrong = {} /\ \A k \in DOMAIN kinds : kinds[k].wrong = {}
  BY <1>2, <1>3
<1>5. DOMAIN kinds = {"concepts", "properties", "relations", "sources", "mappings", "policies"}
  BY DEF kinds
<1>6. /\ kinds.concepts.wrong = {} /\ kinds.properties.wrong = {} /\ kinds.relations.wrong = {}
      /\ kinds.sources.wrong = {} /\ kinds.mappings.wrong = {} /\ kinds.policies.wrong = {}
  BY <1>4, <1>5
<1> QED
  BY <1>4, <1>6 DEF kinds, wrong

LEMMA WhatIsFound ==
  ASSUME NEW g, NEW rank
  PROVE  LET c == Parsed(g, rank).found
         IN /\ DOMAIN c = {"concepts", "properties", "relations", "sources", "mappings", "policies", "rules"}
            /\ c.concepts = ReadConcepts(g).found /\ c.properties = ReadProperties(g).found
            /\ c.relations = ReadRelations(g).found /\ c.sources = ReadSources(g).found
            /\ c.mappings = ReadMappings(g).found /\ c.policies = ReadPolicies(g).found
            /\ c.rules = ReadRules(g, rank).found
<1> DEFINE kinds == [concepts |-> ReadConcepts(g), properties |-> ReadProperties(g), relations |-> ReadRelations(g),
                     sources |-> ReadSources(g), mappings |-> ReadMappings(g), policies |-> ReadPolicies(g)]
           wrong == CredentialWrong(g) \cup SubjectWrong(g) \cup DuplicateWrong(g)
           names == {"concepts", "properties", "relations", "sources", "mappings", "policies"}
<1>1. ParseElements(g) = Together(kinds, wrong)
  BY DEF ParseElements
<1>2. DOMAIN kinds = names
  OBVIOUS
<1> HIDE DEF kinds, wrong, names
<1>3. ParseElements(g).found = [k \in names |-> kinds[k].found]
  BY <1>1, <1>2 DEF Together, Read
<1>4. Parsed(g, rank).found =
        [k \in names \cup {"rules"} |-> IF k = "rules" THEN ReadRules(g, rank).found ELSE kinds[k].found]
  BY <1>3 DEF Parsed, WithRules, Read, names
<1> QED
  BY <1>4 DEF kinds, names

-------------------------------------------------------------------------------
(* References *)

LEMMA ConceptsAreFine ==
  ASSUME NEW g, ReadConcepts(g).wrong = {}
  PROVE  /\ \A s \in Elements(g, "Concept") : Named(g, s) /\ Several(g, s, "subClassOf") \subseteq Elements(g, "Concept")
         /\ UriSet(ReadConcepts(g).found) = Elements(g, "Concept")
<1>1. ASSUME NEW s \in Elements(g, "Concept")
      PROVE  Named(g, s) /\ Several(g, s, "subClassOf") \subseteq Elements(g, "Concept")
  <2>1. NameWrong(g, s) = {} /\ ConceptWrong(g, s, "subClassOf", Several(g, s, "subClassOf")) = {}
    BY DEF ReadConcepts, Read
  <2>2. Absent \notin Several(g, s, "subClassOf")
    BY SeveralReferences
  <2>3. \A r \in Several(g, s, "subClassOf") : \E k \in {"Concept"} : r \in Elements(g, k)
    BY <2>1, <2>2, NoDangling DEF ConceptWrong
  <2> QED
    BY <2>1, <2>3, NameIsFine
<1> DEFINE S == {s \in Elements(g, "Concept") : Named(g, s)}
           entry(s) == [uri |-> s, short |-> ShortOf(g, s), labels |-> LabelsOf(g, s), parents |-> Several(g, s, "subClassOf"),
                        children |-> {x \in Elements(g, "Concept") : s \in Said(g, x, "subClassOf")}]
<1>2. ReadConcepts(g).found = {entry(s) : s \in S}
  BY DEF ReadConcepts, Read
<1>3. \A s \in S : entry(s).uri = s
  OBVIOUS
<1>4. S = Elements(g, "Concept")
  BY <1>1
<1> HIDE DEF S, entry
<1> QED
  BY <1>1, <1>2, <1>3, <1>4 DEF UriSet

LEMMA PropertiesAreFine ==
  ASSUME NEW g, IsFiniteSet(g), ReadProperties(g).wrong = {}
  PROVE  /\ \A s \in Elements(g, "Property") :
              /\ Named(g, s) /\ Single(g, s, "range") # Absent /\ Single(g, s, "domain") # Absent
              /\ Single(g, s, "domain") \in Elements(g, "Concept")
         /\ UriSet(ReadProperties(g).found) = Elements(g, "Property")
         /\ \A p \in ReadProperties(g).found : p.uri \in Elements(g, "Property") /\ p.of = Single(g, p.uri, "domain")
<1>1. ASSUME NEW s \in Elements(g, "Property")
      PROVE  /\ Named(g, s) /\ Single(g, s, "range") # Absent /\ Single(g, s, "domain") # Absent
             /\ Single(g, s, "domain") \in Elements(g, "Concept")
  <2>1. /\ NameWrong(g, s) = {} /\ ConceptWrong(g, s, "domain", {Single(g, s, "domain")}) = {}
        /\ SingleWrong(g, s, "domain", "missing_domain") = {} /\ SingleWrong(g, s, "range", "missing_range") = {}
    <3> DEFINE wrong(x) == NameWrong(g, x)
                 \cup SingleWrong(g, x, "domain", "missing_domain") \cup SingleWrong(g, x, "range", "missing_range")
                 \cup ConceptWrong(g, x, "domain", {Single(g, x, "domain")})
                 \cup (IF Single(g, x, "range") \in Xsd \cup {Absent} THEN {} ELSE {<<"invalid_datatype_range", x, "range">>})
    <3>1. ReadProperties(g).wrong = TypeWrong(g, "Property") \cup UNION {wrong(x) : x \in Elements(g, "Property")}
      BY DEF ReadProperties, Read
    <3>2. wrong(s) = {}
      <4> HIDE DEF wrong
      <4> QED
        BY <3>1
    <3> QED
      BY <3>2
  <2>2. Single(g, s, "range") # Absent /\ Single(g, s, "domain") # Absent
    BY <2>1, OneReference
  <2>3. \A r \in {Single(g, s, "domain")} : \E k \in {"Concept"} : r \in Elements(g, k)
    BY <2>1, <2>2, NoDangling DEF ConceptWrong
  <2> QED
    BY <2>1, <2>2, <2>3, NameIsFine
<1> DEFINE S == {s \in Elements(g, "Property") : Named(g, s) /\ Absent \notin {Single(g, s, "domain"), Single(g, s, "range")}}
           entry(s) == [uri |-> s, short |-> ShortOf(g, s), labels |-> LabelsOf(g, s), of |-> Single(g, s, "domain"),
                        type |-> Single(g, s, "range")]
<1>2. ReadProperties(g).found = {entry(s) : s \in S}
  BY DEF ReadProperties, Read
<1>3. \A s \in S : entry(s).uri = s /\ entry(s).of = Single(g, s, "domain")
  OBVIOUS
<1>4. S = Elements(g, "Property")
  BY <1>1
<1> HIDE DEF S, entry
<1>5. UriSet(ReadProperties(g).found) = S
  BY <1>2, <1>3 DEF UriSet
<1>6. \A p \in ReadProperties(g).found : p.uri \in S /\ p.of = Single(g, p.uri, "domain")
  BY <1>2, <1>3
<1> QED
  BY <1>1, <1>4, <1>5, <1>6

(* A property that is not foreign to a concept was read, with that domain alone. *)
LEMMA OwnProperty ==
  ASSUME NEW g, IsFiniteSet(g), ReadProperties(g).wrong = {}, NEW p, NEW c, p # Absent, c # Absent, ~Foreign(g, p, c)
  PROVE  {x.of : x \in {y \in ReadProperties(g).found : y.uri = p}} = {c}
<1> DEFINE found == ReadProperties(g).found
<1>1. p \in Elements(g, "Property") /\ Single(g, p, "domain") = c
  BY DEF Foreign
<1>2. /\ UriSet(found) = Elements(g, "Property")
      /\ \A x \in found : x.of = Single(g, x.uri, "domain")
  BY PropertiesAreFine
<1>3. PICK x \in found : x.uri = p
  BY <1>1, <1>2 DEF UriSet
<1> HIDE DEF found
<1>4. \A y \in {z \in found : z.uri = p} : y.of = c
  BY <1>1, <1>2
<1> QED
  BY <1>3, <1>4 DEF found

LEMMA RelationsAreFine ==
  ASSUME NEW g, IsFiniteSet(g), ReadProperties(g).wrong = {}, ReadRelations(g).wrong = {}
  PROVE  /\ UriSet(ReadRelations(g).found) = Elements(g, "Relation")
         /\ \A r \in ReadRelations(g).found :
              /\ r.uri \in Elements(g, "Relation")
              /\ r.from \in Elements(g, "Concept") /\ r.to \in Elements(g, "Concept")
              /\ r.keys = <<r.keys[1], r.keys[2]>>
              /\ r.keys[1] # Absent => {x.of : x \in {y \in ReadProperties(g).found : y.uri = r.keys[1]}} = {r.from}
              /\ r.keys[2] # Absent => {x.of : x \in {y \in ReadProperties(g).found : y.uri = r.keys[2]}} = {r.to}
<1> DEFINE all == Elements(g, "Relation")
           from(s) == Single(g, s, "domain")
           to(s)   == Single(g, s, "range")
           left(s) == Single(g, s, "sourceProperty")
           right(s) == Single(g, s, "targetProperty")
<1>1. ASSUME NEW s \in all
      PROVE  /\ Named(g, s) /\ from(s) # Absent /\ to(s) # Absent
             /\ from(s) \in Elements(g, "Concept") /\ to(s) \in Elements(g, "Concept")
             /\ ~Foreign(g, left(s), from(s)) /\ ~Foreign(g, right(s), to(s))
  <2>1. /\ NameWrong(g, s) = {}
        /\ SingleWrong(g, s, "domain", "missing_domain") = {} /\ ConceptWrong(g, s, "domain", {from(s)}) = {}
        /\ SingleWrong(g, s, "range", "missing_range") = {} /\ ConceptWrong(g, s, "range", {to(s)}) = {}
        /\ ~Foreign(g, left(s), from(s)) /\ ~Foreign(g, right(s), to(s))
    <3> DEFINE endWrong(x, at, key) ==
                 SingleWrong(g, x, at, IF at = "domain" THEN "missing_domain" ELSE "missing_range")
                 \cup ConceptWrong(g, x, at, {Single(g, x, at)})
                 \cup OptionalWrong(g, x, key, "invalid_relation_property")
                 \cup Dangling(g, x, key, {Single(g, x, key)}, {"Property"}, "invalid_ontology_reference")
                 \cup (IF Foreign(g, Single(g, x, key), Single(g, x, at)) THEN {<<"invalid_relation_property", x, key>>} ELSE {})
               wrong(x) == NameWrong(g, x)
                 \cup endWrong(x, "domain", "sourceProperty") \cup endWrong(x, "range", "targetProperty")
                 \cup LiteralWrong(g, x, "cardinality", "invalid_cardinality") \cup LiteralWrong(g, x, "status", "invalid_status")
                 \cup TextWrong(g, x, "priority", "0", DOMAIN Priorities, "invalid_priority")
                 \cup TextWrong(g, x, "confirmed", "false", Booleans \cup {"1", "0"}, "invalid_confirmed")
    <3>1. ReadRelations(g).wrong = TypeWrong(g, "Relation") \cup UNION {wrong(x) : x \in all}
      BY DEF ReadRelations, Read
    <3>2. wrong(s) = {}
      <4> HIDE DEF wrong
      <4> QED
        BY <3>1
    <3> QED
      BY <3>2
  <2>2. from(s) # Absent /\ to(s) # Absent
    BY <2>1, OneReference
  <2>3. /\ \A r \in {from(s)} : \E k \in {"Concept"} : r \in Elements(g, k)
        /\ \A r \in {to(s)} : \E k \in {"Concept"} : r \in Elements(g, k)
    BY <2>1, <2>2, NoDangling DEF ConceptWrong
  <2> QED
    BY <2>1, <2>2, <2>3, NameIsFine
<1> DEFINE read(s) == [uri |-> s, short |-> ShortOf(g, s), from |-> from(s), to |-> to(s),
                       keys |-> <<left(s), right(s)>>,
                       active |-> Text(g, s, "status", "active") = Lit("active"),
                       confirmed |-> Text(g, s, "confirmed", "false")[3] \in {"true", "1"}]
<1>2. ReadRelations(g).found = {read(s) : s \in {x \in all : Named(g, x) /\ Absent \notin {from(x), to(x)}}}
  BY DEF ReadRelations, Read
<1>3. {x \in all : Named(g, x) /\ Absent \notin {from(x), to(x)}} = all
  BY <1>1
<1>4. ReadRelations(g).found = {read(s) : s \in all}
  BY <1>2, <1>3, Zenon
<1>5. UriSet(ReadRelations(g).found) = all
  <2>1. \A s \in all : read(s).uri = s
    OBVIOUS
  <2> HIDE DEF read, all
  <2> QED
    BY <1>4, <2>1 DEF UriSet
<1>6. ASSUME NEW r \in ReadRelations(g).found
      PROVE  /\ r.uri \in all
             /\ r.from \in Elements(g, "Concept") /\ r.to \in Elements(g, "Concept")
             /\ r.keys = <<r.keys[1], r.keys[2]>>
             /\ r.keys[1] # Absent => {x.of : x \in {y \in ReadProperties(g).found : y.uri = r.keys[1]}} = {r.from}
             /\ r.keys[2] # Absent => {x.of : x \in {y \in ReadProperties(g).found : y.uri = r.keys[2]}} = {r.to}
  <2>1. PICK s \in all : r = read(s)
    BY <1>4
  <2>2. r.uri = s /\ r.from = from(s) /\ r.to = to(s) /\ r.keys[1] = left(s) /\ r.keys[2] = right(s) /\ r.keys = <<left(s), right(s)>>
    BY <2>1
  <2> HIDE DEF read, from, to, left, right
  <2>3. left(s) # Absent => {x.of : x \in {y \in ReadProperties(g).found : y.uri = left(s)}} = {from(s)}
    BY <1>1, OwnProperty
  <2>4. right(s) # Absent => {x.of : x \in {y \in ReadProperties(g).found : y.uri = right(s)}} = {to(s)}
    BY <1>1, OwnProperty
  <2> QED
    BY <1>1, <2>2, <2>3, <2>4
<1> QED
  BY <1>5, <1>6

LEMMA SourcesAreFine ==
  ASSUME NEW g, IsFiniteSet(g), ReadSources(g).wrong = {}, NEW s \in Elements(g, "DataSource")
  PROVE  s \in UriSet(ReadSources(g).found) \/ Said(g, s, "platformType") = {Lit(EmptyText)}
<1>1. NameWrong(g, s) = {} /\ Required(g, s, "platformType") # Absent
  <2> DEFINE wrong(x) == NameWrong(g, x) \cup LiteralWrong(g, x, "dialect", "invalid_dialect")
               \cup (IF Required(g, x, "platformType") = Absent THEN {<<"missing_platform_type", x, "platformType">>} ELSE {})
  <2>1. ReadSources(g).wrong = UNION {wrong(x) : x \in Elements(g, "DataSource")}
    BY DEF ReadSources, Read
  <2>2. wrong(s) = {}
    <3> HIDE DEF wrong
    <3> QED
      BY <2>1
  <2> QED
    BY <2>2
<1>2. Cardinality(Said(g, s, "platformType")) = 1 /\ Required(g, s, "platformType") = Only(Said(g, s, "platformType"))
  BY <1>1 DEF Required
<1>3. Said(g, s, "platformType") = {Only(Said(g, s, "platformType"))}
  BY <1>2, TermsAreFinite, OnlyOne
<1>4. CASE Required(g, s, "platformType") = Lit(EmptyText)
  BY <1>2, <1>3, <1>4
<1>5. CASE Required(g, s, "platformType") # Lit(EmptyText)
  <2> DEFINE S == {x \in Elements(g, "DataSource") : Named(g, x) /\ Required(g, x, "platformType") \notin {Absent, Lit(EmptyText)}}
             entry(x) == [uri |-> x, short |-> ShortOf(g, x), platform |-> Required(g, x, "platformType")]
  <2>1. ReadSources(g).found = {entry(x) : x \in S}
    BY DEF ReadSources, Read
  <2>2. s \in S /\ entry(s).uri = s
    BY <1>1, <1>5, NameIsFine
  <2> HIDE DEF S, entry
  <2> QED
    BY <2>1, <2>2 DEF UriSet
<1> QED
  BY <1>4, <1>5

LEMMA MappingsAreFine ==
  ASSUME NEW g, IsFiniteSet(g), ReadMappings(g).wrong = {}, NEW m \in ReadMappings(g).found
  PROVE  /\ m.uri \in Elements(g, "PhysicalMapping")
         /\ m.element \in Elements(g, "Concept") \cup Elements(g, "Property") \cup Elements(g, "Relation")
         /\ m.source \in Elements(g, "DataSource")
<1> DEFINE element(s) == Single(g, s, "semanticElement")
           source(s)  == Single(g, s, "dataSource")
<1>1. PICK s \in Elements(g, "PhysicalMapping") : m.uri = s /\ m.element = element(s) /\ m.source = source(s)
  BY DEF ReadMappings, Read
<1>2. /\ SingleWrong(g, s, "semanticElement", "missing_semantic_element") = {}
      /\ SingleWrong(g, s, "dataSource", "missing_data_source") = {}
      /\ Dangling(g, s, "semanticElement", {element(s)}, {"Concept", "Property", "Relation"}, "invalid_ontology_reference") = {}
      /\ Dangling(g, s, "dataSource", {source(s)}, {"DataSource"}, "invalid_ontology_reference") = {}
  <2> DEFINE wrong(x) == NameWrong(g, x)
               \cup SingleWrong(g, x, "semanticElement", "missing_semantic_element")
               \cup SingleWrong(g, x, "dataSource", "missing_data_source")
               \cup Dangling(g, x, "semanticElement", {element(x)}, {"Concept", "Property", "Relation"}, "invalid_ontology_reference")
               \cup Dangling(g, x, "dataSource", {source(x)}, {"DataSource"}, "invalid_ontology_reference")
               \cup (UNION {LiteralWrong(g, x, p, "invalid_mapping_value") : p \in {"physicalNamespace", "objectName", "fieldName"}})
               \cup TextWrong(g, x, "priority", "0", DOMAIN Priorities, "invalid_priority")
               \cup TextWrong(g, x, "enabled", "true", Booleans, "invalid_enabled")
  <2>1. ReadMappings(g).wrong = UNION {wrong(x) : x \in Elements(g, "PhysicalMapping")}
    BY DEF ReadMappings, Read
  <2>2. wrong(s) = {}
    <3> HIDE DEF wrong
    <3> QED
      BY <2>1
  <2> QED
    BY <2>2
<1>3. element(s) # Absent /\ source(s) # Absent
  BY <1>2, OneReference
<1>4. /\ \A r \in {element(s)} : \E k \in {"Concept", "Property", "Relation"} : r \in Elements(g, k)
      /\ \A r \in {source(s)} : \E k \in {"DataSource"} : r \in Elements(g, k)
  BY <1>2, <1>3, NoDangling
<1> QED
  BY <1>1, <1>4

LEMMA RulesWereRead ==
  ASSUME NEW g, NEW rank, ReadRules(g, rank).wrong = {}, NEW s \in Elements(g, "BusinessRule")
  PROVE  /\ SingleWrong(g, s, "appliesTo", "missing_applies_to") = {}
         /\ ConceptWrong(g, s, "appliesTo", {Single(g, s, "appliesTo")}) = {}
         /\ Dangling(g, s, "usesProperty", Several(g, s, "usesProperty"), {"Property"}, "invalid_ontology_reference") = {}
         /\ Dangling(g, s, "usesRelation", Several(g, s, "usesRelation"), {"Relation"}, "invalid_ontology_reference") = {}
         /\ ~(Cardinality(Said(g, s, "condition")) > 1)
         /\ Said(g, s, "condition") # {} => ConditionOf(g, rank, s) # NoExpression
<1> DEFINE conditions(x) == Said(g, x, "condition")
           refs(x, p) == Several(g, x, p)
           wrong(x) == NameWrong(g, x)
             \cup SingleWrong(g, x, "appliesTo", "missing_applies_to")
             \cup ConceptWrong(g, x, "appliesTo", {Single(g, x, "appliesTo")})
             \cup SeveralWrong(g, x, "usesProperty") \cup SeveralWrong(g, x, "usesRelation")
             \cup Dangling(g, x, "usesProperty", refs(x, "usesProperty"), {"Property"}, "invalid_ontology_reference")
             \cup Dangling(g, x, "usesRelation", refs(x, "usesRelation"), {"Relation"}, "invalid_ontology_reference")
             \cup (IF Cardinality(conditions(x)) > 1 \/ (conditions(x) # {} /\ ConditionOf(g, rank, x) = NoExpression)
                   THEN {<<"invalid_rule_expression", x, "condition">>} ELSE {})
             \cup LiteralWrong(g, x, "status", "invalid_status")
             \cup TextWrong(g, x, "priority", "0", DOMAIN Priorities, "invalid_priority")
<1>1. ReadRules(g, rank).wrong = UNION {wrong(x) : x \in Elements(g, "BusinessRule")}
  BY DEF ReadRules, Read
<1>2. wrong(s) = {}
  <2> HIDE DEF wrong
  <2> QED
    BY <1>1
<1>3. ~(Cardinality(conditions(s)) > 1 \/ (conditions(s) # {} /\ ConditionOf(g, rank, s) = NoExpression))
  BY <1>2
<1> QED
  BY <1>2, <1>3

LEMMA RulesAreFine ==
  ASSUME NEW g, IsFiniteSet(g), NEW rank, ReadRules(g, rank).wrong = {}, NEW r \in ReadRules(g, rank).found
  PROVE  /\ r.uri \in Elements(g, "BusinessRule")
         /\ r.of \in Elements(g, "Concept")
         /\ r.uses \subseteq Elements(g, "Property") \cup Elements(g, "Relation")
<1> DEFINE of(s) == Single(g, s, "appliesTo")
           refs(s, p) == Several(g, s, p)
<1>1. PICK s \in Elements(g, "BusinessRule") :
         r.uri = s /\ r.of = of(s) /\ r.uses = refs(s, "usesProperty") \cup refs(s, "usesRelation")
  BY DEF ReadRules, Read
<1>2. /\ SingleWrong(g, s, "appliesTo", "missing_applies_to") = {}
      /\ ConceptWrong(g, s, "appliesTo", {of(s)}) = {}
      /\ Dangling(g, s, "usesProperty", refs(s, "usesProperty"), {"Property"}, "invalid_ontology_reference") = {}
      /\ Dangling(g, s, "usesRelation", refs(s, "usesRelation"), {"Relation"}, "invalid_ontology_reference") = {}
  BY RulesWereRead
<1>3. of(s) # Absent /\ Absent \notin refs(s, "usesProperty") /\ Absent \notin refs(s, "usesRelation")
  BY <1>2, OneReference, SeveralReferences
<1>4. /\ \A x \in {of(s)} : \E k \in {"Concept"} : x \in Elements(g, k)
      /\ \A x \in refs(s, "usesProperty") : \E k \in {"Property"} : x \in Elements(g, k)
      /\ \A x \in refs(s, "usesRelation") : \E k \in {"Relation"} : x \in Elements(g, k)
  BY <1>2, <1>3, NoDangling DEF ConceptWrong
<1> QED
  BY <1>1, <1>4

(* The automatic policies leave everything else as it was read. *)
LEMMA AutomaticKeepsTheRest ==
  ASSUME NEW g, NEW rank
  PROVE  LET c == WithAutomaticPolicies(Parsed(g, rank).found)
         IN /\ DOMAIN c = {"concepts", "properties", "relations", "sources", "mappings", "policies", "rules"}
            /\ c.concepts = ReadConcepts(g).found /\ c.properties = ReadProperties(g).found
            /\ c.relations = ReadRelations(g).found /\ c.sources = ReadSources(g).found
            /\ c.mappings = ReadMappings(g).found /\ c.rules = ReadRules(g, rank).found
<1> DEFINE b == Parsed(g, rank).found
           ps == {p \in b.policies : p.of \notin Ruled(b)} \cup UNION {AutomaticFor(b, k) : k \in Ruled(b)}
<1>1. WithAutomaticPolicies(b) = [b EXCEPT !.policies = ps]
  BY DEF WithAutomaticPolicies
<1>2. /\ DOMAIN b = {"concepts", "properties", "relations", "sources", "mappings", "policies", "rules"}
      /\ b.concepts = ReadConcepts(g).found /\ b.properties = ReadProperties(g).found
      /\ b.relations = ReadRelations(g).found /\ b.sources = ReadSources(g).found
      /\ b.mappings = ReadMappings(g).found /\ b.rules = ReadRules(g, rank).found
  BY WhatIsFound
<1> HIDE DEF b, ps
<1>3. b = [k \in DOMAIN b |-> b[k]]
  BY DEF b, Parsed, WithRules, Read
<1> QED
  BY <1>1, <1>2, <1>3 DEF b

LEMMA LoadedReferencesMeet ==
  ASSUME NEW g, IsFiniteSet(g), NEW rank, Parsed(g, rank).wrong = {}
  PROVE  ReferencesMeet(g, WithAutomaticPolicies(Parsed(g, rank).found))
<1> DEFINE c == WithAutomaticPolicies(Parsed(g, rank).found)
<1>1. /\ c.concepts = ReadConcepts(g).found /\ c.properties = ReadProperties(g).found
      /\ c.relations = ReadRelations(g).found /\ c.sources = ReadSources(g).found
      /\ c.mappings = ReadMappings(g).found /\ c.rules = ReadRules(g, rank).found
  BY AutomaticKeepsTheRest
<1>2. /\ ReadConcepts(g).wrong = {} /\ ReadProperties(g).wrong = {} /\ ReadRelations(g).wrong = {}
      /\ ReadSources(g).wrong = {} /\ ReadMappings(g).wrong = {} /\ ReadRules(g, rank).wrong = {}
  BY NothingWrong
<1> HIDE DEF c
<1>3. /\ UriSet(c.concepts) = Elements(g, "Concept")
      /\ UriSet(c.properties) = Elements(g, "Property")
      /\ UriSet(c.relations) = Elements(g, "Relation")
  BY <1>1, <1>2, ConceptsAreFine, PropertiesAreFine, RelationsAreFine
<1>4. \A p \in c.properties : p.of \in UriSet(c.concepts)
  BY <1>1, <1>2, <1>3, PropertiesAreFine
<1>5. ASSUME NEW k \in c.concepts
      PROVE  k.parents \subseteq UriSet(c.concepts) /\ k.children = UriSet({y \in c.concepts : k.uri \in y.parents})
  <2>1. PICK s \in Elements(g, "Concept") :
          /\ k.uri = s /\ k.parents = Several(g, s, "subClassOf")
          /\ k.children = {x \in Elements(g, "Concept") : s \in Said(g, x, "subClassOf")}
    BY <1>1 DEF ReadConcepts, Read
  <2>2. k.parents \subseteq UriSet(c.concepts)
    BY <1>2, <1>3, <2>1, ConceptsAreFine
  <2>3. s[1] = "uri"
    BY DEF Elements
  <2>4. k.children = {x \in Elements(g, "Concept") : s \in Several(g, x, "subClassOf")}
    BY <2>1, <2>3 DEF Several
  <2>5. \A y \in c.concepts : y.uri \in Elements(g, "Concept") /\ y.parents = Several(g, y.uri, "subClassOf")
    BY <1>1 DEF ReadConcepts, Read
  <2>6. \A x \in Elements(g, "Concept") : \E y \in c.concepts : y.uri = x
    BY <1>3 DEF UriSet
  <2>7. k.children = {y.uri : y \in {z \in c.concepts : s \in z.parents}}
    BY <2>4, <2>5, <2>6
  <2> QED
    BY <2>1, <2>2, <2>7 DEF UriSet
<1>6. ASSUME NEW r \in c.relations
      PROVE  /\ {r.from, r.to} \subseteq UriSet(c.concepts)
             /\ \A i \in {1, 2} : r.keys[i] # Absent => DomainOf(c, r.keys[i]) = {IF i = 1 THEN r.from ELSE r.to}
  <2>1. /\ r.from \in UriSet(c.concepts) /\ r.to \in UriSet(c.concepts)
        /\ r.keys[1] # Absent => DomainOf(c, r.keys[1]) = {r.from}
        /\ r.keys[2] # Absent => DomainOf(c, r.keys[2]) = {r.to}
    BY <1>1, <1>2, <1>3, RelationsAreFine DEF DomainOf
  <2> QED
    BY <2>1
<1>7. ASSUME NEW m \in c.mappings
      PROVE  /\ m.element \in UriSet(c.concepts) \cup UriSet(c.properties) \cup UriSet(c.relations)
             /\ m.source \in UriSet(c.sources) \/ Said(g, m.source, "platformType") = {Lit(EmptyText)}
  <2>1. m.source \in Elements(g, "DataSource")
    BY <1>1, <1>2, MappingsAreFine
  <2> QED
    BY <1>1, <1>2, <1>3, <2>1, MappingsAreFine, SourcesAreFine
<1>8. \A r \in c.rules : r.of \in UriSet(c.concepts) /\ r.uses \subseteq UriSet(c.properties) \cup UriSet(c.relations)
  BY <1>1, <1>2, <1>3, RulesAreFine
<1> QED
  BY <1>4, <1>5, <1>6, <1>7, <1>8 DEF ReferencesMeet, c

-------------------------------------------------------------------------------
(* Names *)

(* Every entry of the catalog is an element, with its short name. *)
LEMMA EntriesAreElements ==
  ASSUME NEW g, NEW rank, NEW k \in DOMAIN Parsed(g, rank).found, NEW x \in Parsed(g, rank).found[k]
  PROVE  /\ \E kind \in Kind : x.uri \in Elements(g, kind)
         /\ x.short = ShortOf(g, x.uri) /\ Named(g, x.uri)
<1> DEFINE Entry(kind) == x.uri \in Elements(g, kind) /\ x.short = ShortOf(g, x.uri) /\ Named(g, x.uri)
<1>1. /\ k \in {"concepts", "properties", "relations", "sources", "mappings", "policies", "rules"}
      /\ k = "concepts" => x \in ReadConcepts(g).found
      /\ k = "properties" => x \in ReadProperties(g).found
      /\ k = "relations" => x \in ReadRelations(g).found
      /\ k = "sources" => x \in ReadSources(g).found
      /\ k = "mappings" => x \in ReadMappings(g).found
      /\ k = "policies" => x \in ReadPolicies(g).found
      /\ k = "rules" => x \in ReadRules(g, rank).found
  BY WhatIsFound
<1>2. x \in ReadConcepts(g).found => Entry("Concept")
  BY DEF ReadConcepts, Read
<1>3. x \in ReadProperties(g).found => Entry("Property")
  BY DEF ReadProperties, Read
<1>4. x \in ReadRelations(g).found => Entry("Relation")
  BY DEF ReadRelations, Read
<1>5. x \in ReadSources(g).found => Entry("DataSource")
  BY DEF ReadSources, Read
<1>6. x \in ReadMappings(g).found => Entry("PhysicalMapping")
  BY DEF ReadMappings, Read
<1>7. x \in ReadPolicies(g).found => Entry("TemporalPartitionPolicy")
  BY DEF ReadPolicies, Read
<1>8. x \in ReadRules(g, rank).found => Entry("BusinessRule")
  BY DEF ReadRules, Read
<1>9. \E kind \in Kind : Entry(kind)
  BY <1>1, <1>2, <1>3, <1>4, <1>5, <1>6, <1>7, <1>8 DEF Kind
<1> QED
  BY <1>9

LEMMA NamesOfElements ==
  ASSUME NEW g, WellWritten(g), NEW s, Named(g, s)
  PROVE  /\ ShortOf(g, s) \in Values(g) /\ ShortOf(g, s)[1] \in {"lit", "name"}
         /\ Normal(ShortOf(g, s)) \notin {Absent, Lit(EmptyText)}
<1> DEFINE said == Said(g, s, "shortName")
           name == ShortOf(g, s)
<1>1. name \notin {Absent, Lit(EmptyText)}
  BY DEF Named
<1>2. Cardinality(said) = 1 /\ Literals(said) = said /\ name = Only(said)
  BY <1>1 DEF ShortOf, Required
<1>3. said = {name}
  BY <1>2, TermsAreFinite, OnlyOne DEF WellWritten
<1>4. name \in Values(g) /\ name[1] \in {"lit", "name"}
  BY <1>2, <1>3, TermsAreFinite DEF Literals, WellWritten
<1> HIDE DEF name, said
<1>5. CASE name[1] = "lit"
  <2>1. name = Lit(name[3])
    BY <1>4, <1>5 DEF Values, WellWritten
  <2>2. name[3] # EmptyText
    BY <1>1, <2>1
  <2>3. UpperOf(name[3]) # EmptyText
    BY <2>2, PackageAssumption DEF UpperOf
  <2>4. Normal(name) = Lit(UpperOf(name[3]))
    BY <1>5 DEF Normal
  <2>5. Normal(name)[1] = "lit" /\ Normal(name)[3] # EmptyText /\ Absent[1] = "none" /\ Lit(EmptyText)[3] = EmptyText
    BY <2>3, <2>4 DEF Lit, Absent
  <2> QED
    BY <1>4, <2>5 DEF name
<1>6. CASE name[1] = "name"
  BY <1>1, <1>4, <1>6 DEF Normal, name
<1> QED
  BY <1>4, <1>5, <1>6

(* What a table name implies. *)
LEMMA AutomaticFits ==
  ASSUME NEW c, NEW k, NEW p \in AutomaticFor(c, k), IsFiniteSet(UriSet(c.properties))
  PROVE  /\ AutomaticFor(c, k) = {p}
         /\ p.of = k /\ p.strategy = Strategy[p.grain]
         /\ \E x \in c.properties : x.uri = p.on /\ x.of = k
         /\ \/ p.uri = Uri("automatic", k) /\ p.short = <<"name", "AutomaticTemporal", k>>
            \/ \E q \in c.policies : p.uri = q.uri /\ p.short = q.short
<1> DEFINE table == TableOf(c, k)
           rule  == Convention[Suffix(table[3])]
           of(x) == x.of = k /\ UpperOf(FieldOf(c, x.uri, table[2])) = rule.field
           found == {x.uri : x \in {y \in c.properties : of(y)}}
           declared == {q \in c.policies : q.of = k /\ q.on \in found}
           new == [uri |-> Uri("automatic", k), short |-> <<"name", "AutomaticTemporal", k>>, of |-> k,
                   on |-> Only(found), grain |-> rule.grain, strategy |-> Strategy[rule.grain], override |-> TRUE, active |-> TRUE]
           old == [new EXCEPT !.uri = Only(declared).uri, !.short = Only(declared).short]
<1>1. AutomaticFor(c, k) = IF Cardinality(found) # 1 THEN {} ELSE IF declared = {} THEN {new} ELSE {old}
  BY DEF AutomaticFor
<1>2. /\ new.of = k /\ new.on = Only(found) /\ new.grain = rule.grain /\ new.strategy = Strategy[rule.grain]
      /\ new.uri = Uri("automatic", k) /\ new.short = <<"name", "AutomaticTemporal", k>>
      /\ old.of = k /\ old.on = Only(found) /\ old.grain = rule.grain /\ old.strategy = Strategy[rule.grain]
      /\ old.uri = Only(declared).uri /\ old.short = Only(declared).short
  OBVIOUS
<1>3. found \subseteq UriSet(c.properties)
  BY DEF UriSet
<1>4. \A u \in found : \E x \in c.properties : x.uri = u /\ x.of = k
  OBVIOUS
<1>5. declared # {} => Only(declared) \in c.policies
  BY DEF Only
<1> HIDE DEF found, declared, new, old, table, rule
<1>6. Cardinality(found) = 1 /\ AutomaticFor(c, k) = {p} /\ (p = new \/ (declared # {} /\ p = old))
  BY <1>1
<1>7. Only(found) \in found
  BY <1>3, <1>6, FS_Subset, OnlyOne
<1> QED
  BY <1>2, <1>4, <1>5, <1>6, <1>7

LEMMA NamesBelongToOne ==
  ASSUME NEW g, WellWritten(g), DuplicateWrong(g) = {},
         NEW s \in UNION {Elements(g, k) : k \in Kind}, NEW t \in UNION {Elements(g, k) : k \in Kind},
         Named(g, s), Named(g, t), ShortOf(g, s) = ShortOf(g, t)
  PROVE  s = t
<1> DEFINE all == {<<x, Normal(ShortOf(g, x))>> : x \in UNION {Elements(g, k) : k \in Kind}}
           named == {x \in all : x[2] \notin {Absent, Lit(EmptyText)}}
<1>1. \A x \in named : ~ \E y \in named : x[1] # y[1] /\ x[2] = y[2]
  <2> DEFINE wrong == {<<"duplicate_short_name", z[1], "shortName">> :
                         z \in {x \in named : \E y \in named : x[1] # y[1] /\ x[2] = y[2]}}
  <2>1. wrong = {}
    BY DEF DuplicateWrong
  <2> HIDE DEF named
  <2> QED
    BY <2>1
<1> DEFINE x == <<s, Normal(ShortOf(g, s))>>
           y == <<t, Normal(ShortOf(g, t))>>
<1>2. x \in named /\ y \in named
  BY NamesOfElements
<1>3. x[1] = s /\ y[1] = t /\ x[2] = y[2]
  OBVIOUS
<1> HIDE DEF x, y, named
<1> QED
  BY <1>1, <1>2, <1>3

LEMMA LoadedPolicies ==
  ASSUME NEW g, NEW rank
  PROVE  LET b == Parsed(g, rank).found
         IN WithAutomaticPolicies(b).policies =
              {p \in ReadPolicies(g).found : p.of \notin Ruled(b)} \cup UNION {AutomaticFor(b, k) : k \in Ruled(b)}
<1> DEFINE b == Parsed(g, rank).found
           ps == {p \in b.policies : p.of \notin Ruled(b)} \cup UNION {AutomaticFor(b, k) : k \in Ruled(b)}
<1>1. WithAutomaticPolicies(b) = [b EXCEPT !.policies = ps]
  BY DEF WithAutomaticPolicies
<1>2. "policies" \in DOMAIN b /\ b.policies = ReadPolicies(g).found
  BY WhatIsFound
<1> HIDE DEF b
<1>3. [b EXCEPT !.policies = ps].policies = ps
  BY <1>2
<1> QED
  BY <1>1, <1>2, <1>3 DEF b

LEMMA LoadedNamesDiffer ==
  ASSUME NEW g, WellWritten(g), NEW rank, Parsed(g, rank).wrong = {}
  PROVE  NamesDiffer(WithAutomaticPolicies(Parsed(g, rank).found))
<1> DEFINE b == Parsed(g, rank).found
           c == WithAutomaticPolicies(b)
           elements == UNION {Elements(g, k) : k \in Kind}
           Element1(x) == x.uri \in elements /\ x.short = ShortOf(g, x.uri) /\ Named(g, x.uri)
           Implied(x) == \E k : x.uri = Uri("automatic", k) /\ x.short = <<"name", "AutomaticTemporal", k>>
<1>1. DuplicateWrong(g) = {} /\ ReadProperties(g).wrong = {}
  BY NothingWrong
<1>2. \A k \in DOMAIN b : \A x \in b[k] : Element1(x)
  BY EntriesAreElements
<1>3. b.policies = ReadPolicies(g).found /\ b.properties = ReadProperties(g).found /\ "policies" \in DOMAIN b
  BY WhatIsFound
<1>4. IsFiniteSet(UriSet(b.properties))
  BY <1>1, <1>3, PropertiesAreFine, TermsAreFinite DEF WellWritten
<1>5. \A k \in DOMAIN c \ {"policies"} : k \in DOMAIN b /\ c[k] = b[k]
  BY DEF WithAutomaticPolicies
<1>6. ASSUME NEW x \in c.policies
      PROVE  Element1(x) \/ Implied(x)
  <2>1. c.policies = {p \in b.policies : p.of \notin Ruled(b)} \cup UNION {AutomaticFor(b, k) : k \in Ruled(b)}
    BY <1>3, LoadedPolicies
  <2>2. CASE x \in b.policies
    BY <1>2, <1>3, <2>2
  <2>3. CASE \E k \in Ruled(b) : x \in AutomaticFor(b, k)
    <3>1. PICK k \in Ruled(b) : x \in AutomaticFor(b, k)
      BY <2>3
    <3>2. CASE x.uri = Uri("automatic", k) /\ x.short = <<"name", "AutomaticTemporal", k>>
      BY <3>2
    <3>3. CASE \E q \in b.policies : x.uri = q.uri /\ x.short = q.short
      BY <1>2, <1>3, <3>3
    <3> HIDE DEF b
    <3> QED
      BY <1>4, <3>1, <3>2, <3>3, AutomaticFits
  <2> QED
    BY <2>1, <2>2, <2>3
<1>7. ASSUME NEW k \in DOMAIN c, NEW x \in c[k]
      PROVE  Element1(x) \/ Implied(x)
  BY <1>2, <1>5, <1>6
<1>8. ASSUME NEW x, NEW y, Element1(x) \/ Implied(x), Element1(y) \/ Implied(y), x.short = y.short
      PROVE  x.uri = y.uri
  <2>1. CASE Element1(x) /\ Element1(y)
    BY <1>1, <1>8, <2>1, NamesBelongToOne
  <2>2. \A z : Element1(z) /\ z.short[1] = "name" => z.short[2] # "AutomaticTemporal"
    BY NamesOfElements DEF Values, WellWritten
  <2>3. \A z : Implied(z) => z.short[1] = "name" /\ z.short[2] = "AutomaticTemporal" /\ z.uri = Uri("automatic", z.short[3])
    OBVIOUS
  <2> HIDE DEF Element1, Implied
  <2> QED
    BY <1>8, <2>1, <2>2, <2>3
<1> HIDE DEF Element1, Implied, c, b
<1> DEFINE pairs(k) == {<<x.uri, x.short>> : x \in c[k]}
<1>9. ASSUME NEW i \in DOMAIN c, NEW j \in DOMAIN c, NEW u \in pairs(i), NEW v \in pairs(j), u[2] = v[2]
      PROVE  u[1] = v[1]
  <2>1. PICK x \in c[i] : u = <<x.uri, x.short>>
    OBVIOUS
  <2>2. PICK y \in c[j] : v = <<y.uri, y.short>>
    OBVIOUS
  <2>3. u[1] = x.uri /\ u[2] = x.short /\ v[1] = y.uri /\ v[2] = y.short
    BY <2>1, <2>2
  <2>4. x.short = y.short
    BY <1>9, <2>3
  <2> QED
    BY <1>7, <1>8, <2>3, <2>4
<1>10. NamesDiffer(c)
  <2> HIDE DEF pairs
  <2>1. \A u, v \in UNION {pairs(k) : k \in DOMAIN c} : u[2] = v[2] => u[1] = v[1]
    BY <1>9
  <2> QED
    BY <2>1 DEF NamesDiffer, pairs
<1> QED
  BY <1>10 DEF b, c

LEMMA PoliciesAreFine ==
  ASSUME NEW g, IsFiniteSet(g), ReadProperties(g).wrong = {}, ReadPolicies(g).wrong = {}
  PROVE  /\ \A p \in ReadPolicies(g).found :
              /\ p.strategy = Strategy[p.grain]
              /\ {x.of : x \in {y \in ReadProperties(g).found : y.uri = p.on}} = {p.of}
         /\ \A p, q \in ReadPolicies(g).found : p.of = q.of => p = q
<1> DEFINE all == Elements(g, "TemporalPartitionPolicy")
           ref(s, p) == Single(g, s, p)
           said(s, p) == Required(g, s, p)[3]
           read == {x \in all : /\ Named(g, x) /\ Absent \notin {ref(x, "appliesTo"), ref(x, "partitionProperty")}
                                /\ said(x, "partitionGrain") \in DOMAIN Strategy
                                /\ \E grain \in DOMAIN Strategy : said(x, "defaultStrategy") = Strategy[grain]}
           entry(s) == [uri |-> s, short |-> ShortOf(g, s), of |-> ref(s, "appliesTo"), on |-> ref(s, "partitionProperty"),
                        grain |-> said(s, "partitionGrain"), strategy |-> said(s, "defaultStrategy"),
                        override |-> said(s, "allowQueryOverride") = "true", active |-> Text(g, s, "status", "active") = Lit("active")]
           wrong == UNION {PolicyWrong(g, s) : s \in all}
           twice == {x \in read : \E y \in read : x # y /\ ref(x, "appliesTo") = ref(y, "appliesTo")}
           both == {<<"duplicate_temporal_policy", s, "appliesTo">> : s \in twice}
<1>1. ReadPolicies(g).found = {entry(s) : s \in read}
  BY DEF ReadPolicies, Read
<1>2. ReadPolicies(g).wrong = wrong \cup both
  <2>1. ReadPolicies(g).wrong = (UNION {PolicyWrong(g, s) : s \in all}) \cup {<<"duplicate_temporal_policy", s, "appliesTo">> : s \in twice}
    BY DEF ReadPolicies, Read
  <2> QED
    BY <2>1
<1>3. \A s \in read : /\ s \in all
                      /\ entry(s).of = ref(s, "appliesTo") /\ entry(s).on = ref(s, "partitionProperty")
                      /\ entry(s).grain = said(s, "partitionGrain") /\ entry(s).strategy = said(s, "defaultStrategy")
  OBVIOUS
<1>4. \A s, t \in read : ref(s, "appliesTo") = ref(t, "appliesTo") => s = t
  <2>1. twice = {}
    <3>1. both = {}
      <4> HIDE DEF wrong, both
      <4> QED
        BY <1>2
    <3> HIDE DEF twice
    <3> QED
      BY <3>1
  <2> HIDE DEF ref, entry
  <2> QED
    BY <2>1
<1>0. \A s \in all : PolicyWrong(g, s) = {}
  <2>1. wrong = {}
    <3> HIDE DEF wrong, both
    <3> QED
      BY <1>2
  <2> QED
    BY <2>1
<1> HIDE DEF read, entry, twice, all
<1>5. ASSUME NEW s \in read
      PROVE  /\ said(s, "defaultStrategy") = Strategy[said(s, "partitionGrain")]
             /\ {x.of : x \in {y \in ReadProperties(g).found : y.uri = ref(s, "partitionProperty")}} = {ref(s, "appliesTo")}
  <2>1. PolicyWrong(g, s) = {}
    BY <1>3, <1>0
  <2>2. /\ SingleWrong(g, s, "appliesTo", "missing_applies_to") = {}
        /\ SingleWrong(g, s, "partitionProperty", "missing_partition_property") = {}
        /\ ~(ref(s, "appliesTo") # Absent /\ Foreign(g, ref(s, "partitionProperty"), ref(s, "appliesTo")))
        /\ said(s, "defaultStrategy") = Strategy[said(s, "partitionGrain")]
    BY <2>1 DEF PolicyWrong
  <2>3. ref(s, "appliesTo") # Absent /\ ref(s, "partitionProperty") # Absent
    BY <2>2, OneReference
  <2> HIDE DEF ref, said
  <2> QED
    BY <2>2, <2>3, OwnProperty
<1>6. \A p \in ReadPolicies(g).found : \E s \in read : p = entry(s)
  BY <1>1
<1> QED
  BY <1>3, <1>4, <1>5, <1>6

LEMMA LoadedPoliciesFit ==
  ASSUME NEW g, IsFiniteSet(g), NEW rank, Parsed(g, rank).wrong = {}
  PROVE  PoliciesFit(WithAutomaticPolicies(Parsed(g, rank).found))
<1> DEFINE b == Parsed(g, rank).found
           c == WithAutomaticPolicies(b)
<1>1. ReadProperties(g).wrong = {} /\ ReadPolicies(g).wrong = {}
  BY NothingWrong
<1>2. b.policies = ReadPolicies(g).found /\ b.properties = ReadProperties(g).found /\ c.properties = ReadProperties(g).found
  BY WhatIsFound, AutomaticKeepsTheRest
<1>3. IsFiniteSet(UriSet(b.properties))
  BY <1>1, <1>2, PropertiesAreFine, TermsAreFinite
<1>4. c.policies = {p \in ReadPolicies(g).found : p.of \notin Ruled(b)} \cup UNION {AutomaticFor(b, k) : k \in Ruled(b)}
  BY LoadedPolicies
<1> HIDE DEF b, c
<1>5. ASSUME NEW p \in c.policies
      PROVE  \/ p \in ReadPolicies(g).found /\ p.of \notin Ruled(b)
             \/ p.of \in Ruled(b) /\ AutomaticFor(b, p.of) = {p}
  BY <1>3, <1>4, AutomaticFits
<1>6. ASSUME NEW p \in c.policies, NEW q \in c.policies, p.of = q.of
      PROVE  p = q
  BY <1>1, <1>5, <1>6, PoliciesAreFine
<1>7. ASSUME NEW p \in c.policies
      PROVE  DomainOf(c, p.on) = {p.of} /\ p.strategy = Strategy[p.grain]
  <2>1. CASE p \in ReadPolicies(g).found
    BY <1>1, <1>2, <2>1, PoliciesAreFine DEF DomainOf
  <2>2. CASE p.of \in Ruled(b) /\ p \in AutomaticFor(b, p.of)
    <3>1. p.strategy = Strategy[p.grain] /\ \E x \in b.properties : x.uri = p.on /\ x.of = p.of
      BY <1>3, <2>2, AutomaticFits
    <3>2. PICK x \in c.properties : x.uri = p.on /\ x.of = p.of
      BY <1>2, <3>1
    <3>3. \A y \in c.properties : y.uri = p.on => y.of = p.of
      <4>1. \A y \in ReadProperties(g).found : y.of = Single(g, y.uri, "domain")
        BY <1>1, PropertiesAreFine
      <4> QED
        BY <1>2, <3>2, <4>1
    <3> QED
      BY <3>1, <3>2, <3>3 DEF DomainOf
  <2> QED
    BY <1>5, <2>1, <2>2
<1> QED
  BY <1>6, <1>7 DEF PoliciesFit, b, c

-------------------------------------------------------------------------------
(* Sequences, for whatever they hold. *)
IsSequence(s) == \E T : s \in Seq(T)

LEMMA Pushed ==
  ASSUME NEW s, IsSequence(s), NEW e
  PROVE  /\ IsSequence(Append(s, e)) /\ Len(s) \in Nat /\ Len(Append(s, e)) = Len(s) + 1
         /\ Append(s, e)[Len(s) + 1] = e
         /\ \A i \in 1 .. Len(s) : Append(s, e)[i] = s[i]
<1>1. PICK T : s \in Seq(T)
  BY DEF IsSequence
<1>2. s \in Seq(T \cup {e}) /\ e \in T \cup {e}
  BY <1>1
<1>3. Append(s, e) \in Seq(T \cup {e}) /\ Len(Append(s, e)) = Len(s) + 1
  BY <1>2
<1> QED
  BY <1>2, <1>3 DEF IsSequence

LEMMA Popped ==
  ASSUME NEW s, IsSequence(s), s # <<>>
  PROVE  /\ Len(s) \in Nat \ {0} /\ IsSequence(SubSeq(s, 1, Len(s) - 1))
         /\ Len(SubSeq(s, 1, Len(s) - 1)) = Len(s) - 1
         /\ \A i \in 1 .. Len(s) - 1 : SubSeq(s, 1, Len(s) - 1)[i] = s[i]
<1>1. PICK T : s \in Seq(T)
  BY DEF IsSequence
<1>2. Len(s) \in Nat \ {0}
  BY <1>1
<1>3. SubSeq(s, 1, Len(s) - 1) \in Seq(T) /\ Len(SubSeq(s, 1, Len(s) - 1)) = Len(s) - 1
  BY <1>1, <1>2
<1>4. \A i \in 1 .. Len(s) - 1 : SubSeq(s, 1, Len(s) - 1)[i] = s[i]
  BY <1>1, <1>2
<1> QED
  BY <1>2, <1>3, <1>4 DEF IsSequence

LEMMA Exchanged ==
  ASSUME NEW s, IsSequence(s), s # <<>>, NEW e
  PROVE  LET q == Append(SubSeq(s, 1, Len(s) - 1), e)
         IN /\ IsSequence(q) /\ Len(q) = Len(s) /\ Len(s) \in Nat \ {0}
            /\ q[Len(s)] = e
            /\ \A i \in 1 .. Len(s) - 1 : q[i] = s[i]
<1> DEFINE o == SubSeq(s, 1, Len(s) - 1)
<1>1. /\ Len(s) \in Nat \ {0} /\ IsSequence(o) /\ Len(o) = Len(s) - 1
      /\ \A i \in 1 .. Len(s) - 1 : o[i] = s[i]
  BY Popped
<1> HIDE DEF o
<1>2. /\ IsSequence(Append(o, e)) /\ Len(Append(o, e)) = Len(o) + 1
      /\ Append(o, e)[Len(o) + 1] = e /\ \A i \in 1 .. Len(o) : Append(o, e)[i] = o[i]
  BY <1>1, Pushed
<1>3. (Len(s) - 1) + 1 = Len(s)
  BY <1>1
<1> QED
  BY <1>1, <1>2, <1>3 DEF o

-------------------------------------------------------------------------------
(* Reading a condition.  What was read is kept, and is what the graph says; the open
   calls are a path from the condition, of expressions that are still to be read. *)

IsSaying(g, says) ==
  says = [k \in 0 .. Cardinality(Values(g)) |->
            IF k = 0 THEN [m \in Values(g) |-> NoExpression] ELSE Deeper(g, says[k - 1])]

WellKept(g, says, c) ==
  /\ DOMAIN c.done \subseteq Values(g)
  /\ \A m \in DOMAIN c.done : \A k \in Cardinality(DOMAIN c.done) .. Cardinality(Values(g)) : says[k][m] = c.done[m]

WellRead(g, done, call) ==
  /\ call = [node |-> call.node, read |-> call.read]
  /\ call.node \in Values(g) \ DOMAIN done
  /\ Only(OperatorsOf(g, call.node)) \in Logical
  /\ call.read = [a \in DOMAIN call.read |-> call.read[a]]
  /\ DOMAIN call.read \subseteq Said(g, call.node, "argument")
  /\ \A a \in DOMAIN call.read : call.read[a] # NoExpression => a \in DOMAIN done /\ call.read[a] = done[a]

WellCalled(g, root, c) ==
  /\ IsSequence(c.calls)
  /\ \A i \in 1 .. Len(c.calls) :
       /\ WellRead(g, c.done, c.calls[i])
       /\ i = 1 => c.calls[i].node = root
       /\ i > 1 => c.calls[i].node \in Said(g, c.calls[i - 1].node, "argument")
       /\ \A j \in 1 .. Len(c.calls) : c.calls[i].node = c.calls[j].node => i = j

Answered(root, c) == c.result # NoExpression => root \in DOMAIN c.done /\ c.result = c.done[root]

IsContext(c) == c = [calls |-> c.calls, done |-> c.done, nodes |-> c.nodes, edges |-> c.edges, result |-> c.result]

Reading(g, says, root, c) ==
  IsContext(c) /\ WellKept(g, says, c) /\ WellCalled(g, root, c) /\ Answered(root, c)

(* A node that may be asked for: the condition, or an argument of the innermost call. *)
MayAsk(g, root, c, n) ==
  IF c.calls = <<>> THEN n = root ELSE n \in Said(g, Innermost(c).node, "argument")

LEMMA GivesReads ==
  ASSUME NEW g, NEW says, NEW root, NEW c, Reading(g, says, root, c), NEW n, MayAsk(g, root, c, n),
         NEW e, e # NoExpression => n \in DOMAIN c.done /\ e = c.done[n]
  PROVE  Reading(g, says, root, Gives(c, n, e))
<1>1. CASE c.calls = <<>>
  <2> DEFINE d == [c EXCEPT !.result = e]
  <2>1. Gives(c, n, e) = d
    BY <1>1 DEF Gives
  <2>2. d.calls = c.calls /\ d.done = c.done /\ d.result = e /\ IsContext(d)
    BY DEF Reading, IsContext
  <2>3. n = root
    BY <1>1 DEF MayAsk
  <2> HIDE DEF d
  <2> QED
    BY <2>1, <2>2, <2>3 DEF Reading, WellKept, WellCalled, Answered
<1>2. CASE c.calls # <<>>
  <2> DEFINE call == Innermost(c)
             new == [call EXCEPT !.read = Plus(@, n, e)]
             calls == Append(Outer(c), new)
             d == [c EXCEPT !.calls = calls]
             L == Len(c.calls)
  <2>1. Gives(c, n, e) = d
    BY <1>2 DEF Gives
  <2>2. d.calls = calls /\ d.done = c.done /\ d.result = c.result /\ IsContext(d)
    <3>1. IsContext(c)
      BY DEF Reading
    <3> HIDE DEF calls
    <3> QED
      BY <3>1 DEF IsContext
  <2>3. /\ IsSequence(calls) /\ Len(calls) = L /\ L \in Nat \ {0} /\ calls[L] = new
        /\ \A i \in 1 .. L - 1 : calls[i] = c.calls[i]
    BY <1>2, Exchanged DEF Outer, Reading, WellCalled
  <2>4. call = c.calls[L] /\ WellRead(g, c.done, call) /\ n \in Said(g, call.node, "argument")
    <3>1. L \in 1 .. L /\ call = c.calls[L]
      BY <2>3 DEF Innermost
    <3> HIDE DEF new, calls, d
    <3> QED
      BY <1>2, <3>1 DEF Reading, WellCalled, MayAsk
  <2>5. /\ new = [node |-> call.node, read |-> Plus(call.read, n, e)]
        /\ new.node = call.node /\ new.read = Plus(call.read, n, e)
    BY <2>4 DEF WellRead
  <2> HIDE DEF new, call, calls, d
  <2>6. /\ DOMAIN new.read = DOMAIN call.read \cup {n}
        /\ new.read[n] = e
        /\ \A a \in DOMAIN call.read \ {n} : new.read[a] = call.read[a]
        /\ new.read = [a \in DOMAIN new.read |-> new.read[a]]
    BY <2>5 DEF Plus
  <2>7. WellRead(g, c.done, new)
    BY <2>4, <2>5, <2>6 DEF WellRead
  <2>8. \A i \in 1 .. L : calls[i].node = c.calls[i].node
    BY <2>3, <2>4, <2>5
  <2>9. \A i \in 1 .. L : WellRead(g, c.done, calls[i])
    BY <2>3, <2>7 DEF Reading, WellCalled
  <2>10. \A i \in 1 .. L : i > 1 => i - 1 \in 1 .. L
    BY <2>3
  <2>11. WellCalled(g, root, d)
    BY <2>2, <2>3, <2>8, <2>9, <2>10 DEF Reading, WellCalled
  <2> QED
    BY <2>1, <2>2, <2>11 DEF Reading, WellKept, Answered
<1> QED
  BY <1>1, <1>2

LEMMA KeepsReads ==
  ASSUME NEW g, IsFiniteSet(g), NEW says, NEW root, NEW c, Reading(g, says, root, c),
         NEW n \in Values(g), n \notin DOMAIN c.done, \A i \in 1 .. Len(c.calls) : c.calls[i].node # n,
         NEW e, e # NoExpression => \A k \in Cardinality(DOMAIN c.done) + 1 .. Cardinality(Values(g)) : says[k][n] = e
  PROVE  /\ Reading(g, says, root, Keeps(c, n, e))
         /\ e # NoExpression => n \in DOMAIN Keeps(c, n, e).done /\ e = Keeps(c, n, e).done[n]
         /\ Keeps(c, n, e).calls = c.calls
<1>1. CASE e = NoExpression
  BY <1>1 DEF Keeps
<1>2. CASE e # NoExpression
  <2> DEFINE done == Plus(c.done, n, e)
             d == [c EXCEPT !.done = done]
  <2>1. Keeps(c, n, e) = d
    BY <1>2 DEF Keeps
  <2>2. d.calls = c.calls /\ d.done = done /\ d.result = c.result /\ IsContext(d)
    BY DEF Reading, IsContext
  <2>3. DOMAIN done = DOMAIN c.done \cup {n} /\ done[n] = e /\ \A m \in DOMAIN c.done : done[m] = c.done[m]
    BY DEF Plus
  <2> HIDE DEF done, d
  <2>4. /\ Cardinality(DOMAIN done) = Cardinality(DOMAIN c.done) + 1
        /\ Cardinality(DOMAIN c.done) \in Nat /\ Cardinality(Values(g)) \in Nat
    <3>1. IsFiniteSet(Values(g)) /\ DOMAIN c.done \subseteq Values(g)
      BY TermsAreFinite DEF Reading, WellKept
    <3>2. IsFiniteSet(DOMAIN c.done)
      BY <3>1, FS_Subset
    <3> QED
      BY <2>3, <3>1, <3>2, FS_AddElement, FS_CardinalityType
  <2>5. WellKept(g, says, d)
    <3>1. DOMAIN done \subseteq Values(g)
      BY <2>3 DEF Reading, WellKept
    <3>2. ASSUME NEW m \in DOMAIN done, NEW k \in Cardinality(DOMAIN done) .. Cardinality(Values(g))
          PROVE  says[k][m] = done[m]
      <4>1. /\ k \in Cardinality(DOMAIN c.done) + 1 .. Cardinality(Values(g))
            /\ k \in Cardinality(DOMAIN c.done) .. Cardinality(Values(g))
        BY <2>4
      <4> QED
        BY <1>2, <2>3, <4>1 DEF Reading, WellKept
    <3> QED
      BY <2>2, <3>1, <3>2 DEF WellKept
  <2>6. \A i \in 1 .. Len(c.calls) : WellRead(g, done, c.calls[i])
    BY <2>3 DEF Reading, WellCalled, WellRead
  <2>7. WellCalled(g, root, d)
    BY <2>2, <2>6 DEF Reading, WellCalled
  <2>8. Answered(root, d)
    BY <2>2, <2>3 DEF Reading, Answered
  <2> QED
    BY <2>1, <2>2, <2>3, <2>5, <2>7, <2>8 DEF Reading
<1> QED
  BY <1>1, <1>2

LEMMA CallReads ==
  ASSUME NEW g, IsFiniteSet(g), NEW says, IsSaying(g, says), NEW root, NEW c, Reading(g, says, root, c),
         NEW n \in Values(g), MayAsk(g, root, c, n)
  PROVE  Reading(g, says, root, Call(g, c, n))
<1> DEFINE ops   == OperatorsOf(g, n)
           op    == Only(ops)
           args  == Said(g, n, "argument")
           known == [c EXCEPT !.nodes = @ \cup {n}]
           leaf  == Comparison(g, n, op)
           push  == [known EXCEPT !.edges = @ + Cardinality(args), !.calls = Append(@, [node |-> n, read |-> Nothing])]
<1>1. Reading(g, says, root, Gives(c, n, NoExpression))
  BY GivesReads
<1>2. n \in DOMAIN c.done => Reading(g, says, root, Gives(c, n, c.done[n]))
  BY GivesReads
<1>3. /\ known.calls = c.calls /\ known.done = c.done /\ known.result = c.result /\ IsContext(known)
      /\ known.nodes = c.nodes \cup {n} /\ known.edges = c.edges
  BY DEF Reading, IsContext
<1> HIDE DEF known
<1>4. Reading(g, says, root, known) /\ MayAsk(g, root, known, n)
  BY <1>3 DEF Reading, WellKept, WellCalled, Answered, MayAsk, Innermost
<1>5. Reading(g, says, root, Gives(known, n, NoExpression))
  BY <1>4, GivesReads
<1>6. ASSUME n \notin OpenNodes(c)
      PROVE  \A i \in 1 .. Len(c.calls) : c.calls[i].node # n
  <2>1. DOMAIN c.calls = 1 .. Len(c.calls)
    BY DEF Reading, WellCalled, IsSequence
  <2> QED
    BY <1>6, <2>1 DEF OpenNodes
<1>7. ASSUME n \notin OpenNodes(c), n \notin DOMAIN c.done, op \notin Logical
      PROVE  Reading(g, says, root, Gives(Keeps(known, n, leaf), n, leaf))
  <2>1. \A k \in 1 .. Cardinality(Values(g)) : says[k][n] = leaf
    <3>1. Cardinality(Values(g)) \in Nat
      BY TermsAreFinite, FS_CardinalityType
    <3>2. ASSUME NEW k \in 1 .. Cardinality(Values(g))
          PROVE  says[k] = Deeper(g, says[k - 1])
      <4>1. k \in 0 .. Cardinality(Values(g)) /\ k # 0
        BY <3>1
      <4> QED
        BY <4>1 DEF IsSaying
    <3> QED
      BY <1>7, <3>2 DEF Deeper
  <2>2. \A k \in Cardinality(DOMAIN c.done) + 1 .. Cardinality(Values(g)) : k \in 1 .. Cardinality(Values(g))
    <3>1. Cardinality(DOMAIN c.done) \in Nat /\ Cardinality(Values(g)) \in Nat
      BY TermsAreFinite, FS_CardinalityType, FS_Subset DEF Reading, WellKept
    <3> QED
      BY <3>1
  <2> DEFINE kept == Keeps(known, n, leaf)
  <2> HIDE DEF leaf
  <2>3. /\ Reading(g, says, root, kept)
        /\ leaf # NoExpression => n \in DOMAIN kept.done /\ leaf = kept.done[n]
        /\ kept.calls = known.calls
    BY <1>3, <1>4, <1>6, <1>7, <2>1, <2>2, KeepsReads
  <2>4. MayAsk(g, root, kept, n)
    BY <1>4, <2>3 DEF MayAsk, Innermost
  <2> HIDE DEF kept
  <2>5. Reading(g, says, root, Gives(kept, n, leaf))
    BY <2>3, <2>4, GivesReads
  <2> QED
    BY <2>5 DEF kept
<1>8. ASSUME n \notin OpenNodes(c), n \notin DOMAIN c.done, op \in Logical
      PROVE  Reading(g, says, root, push)
  <2> DEFINE new == [node |-> n, read |-> Nothing]
             calls == Append(c.calls, new)
             L == Len(c.calls)
  <2>1. push.calls = calls /\ push.done = c.done /\ push.result = c.result /\ IsContext(push)
    <3> DEFINE nodes == c.nodes \cup {n}
               edges == c.edges + Cardinality(args)
    <3>1. known = [calls |-> c.calls, done |-> c.done, nodes |-> nodes, edges |-> c.edges, result |-> c.result]
      BY <1>3 DEF IsContext
    <3>2. push = [[known EXCEPT !.edges = edges] EXCEPT !.calls = Append(c.calls, new)]
      BY <1>3 DEF new
    <3> HIDE DEF push, edges, nodes, new
    <3>3. push = [calls |-> Append(c.calls, new), done |-> c.done, nodes |-> nodes, edges |-> edges, result |-> c.result]
      BY <3>1, <3>2
    <3> QED
      BY <3>3 DEF IsContext
  <2> HIDE DEF push
  <2>2. /\ IsSequence(calls) /\ L \in Nat /\ Len(calls) = L + 1 /\ calls[L + 1] = new
        /\ \A i \in 1 .. L : calls[i] = c.calls[i]
    BY Pushed DEF Reading, WellCalled
  <2>3. WellRead(g, c.done, new)
    BY <1>8 DEF WellRead, Nothing
  <2>4. new.node = n
    OBVIOUS
  <2>5. L = 0 => n = root
    <3>1. L = 0 => c.calls = <<>>
      BY DEF Reading, WellCalled, IsSequence
    <3> QED
      BY <3>1 DEF MayAsk
  <2>6. L > 0 => n \in Said(g, c.calls[L].node, "argument")
    BY <2>2 DEF MayAsk, Innermost
  <2> HIDE DEF new, calls, ops, op
  <2>7. ASSUME NEW i \in 1 .. L + 1
        PROVE  /\ WellRead(g, c.done, calls[i])
               /\ i = 1 => calls[i].node = root
               /\ i > 1 => calls[i].node \in Said(g, calls[i - 1].node, "argument")
               /\ \A j \in 1 .. L + 1 : calls[i].node = calls[j].node => i = j
    <3>1. CASE i = L + 1
      <4>1. \A j \in 1 .. L + 1 : j \in 1 .. L \/ j = L + 1
        BY <2>2
      <4>2. L > 0 => L \in 1 .. L
        BY <2>2
      <4>3. calls[i] = new
        BY <2>2, <3>1
      <4>4. i = 1 => L = 0
        BY <2>2, <3>1
      <4>5. i > 1 => L > 0 /\ calls[i - 1] = c.calls[L]
        BY <2>2, <3>1, <4>2
      <4>6. ASSUME NEW j \in 1 .. L + 1, calls[i].node = calls[j].node
            PROVE  i = j
        <5>1. CASE j \in 1 .. L
          BY <1>6, <1>8, <2>2, <2>4, <4>3, <4>6, <5>1
        <5> QED
          BY <3>1, <4>1, <5>1
      <4>7. i = 1 => calls[i].node = root
        BY <2>4, <2>5, <4>3, <4>4
      <4>8. i > 1 => calls[i].node \in Said(g, calls[i - 1].node, "argument")
        BY <2>4, <2>6, <4>3, <4>5
      <4> QED
        BY <2>3, <4>3, <4>6, <4>7, <4>8
    <3>2. CASE i \in 1 .. L
      <4>1. \A j \in 1 .. L + 1 : j \in 1 .. L \/ j = L + 1
        BY <2>2
      <4>2. i > 1 => i - 1 \in 1 .. L
        BY <2>2, <3>2
      <4>3. /\ WellRead(g, c.done, c.calls[i])
            /\ i = 1 => c.calls[i].node = root
            /\ i > 1 => c.calls[i].node \in Said(g, c.calls[i - 1].node, "argument")
            /\ \A j \in 1 .. L : c.calls[i].node = c.calls[j].node => i = j
        BY <3>2 DEF Reading, WellCalled
      <4> QED
        BY <1>6, <1>8, <2>2, <2>4, <3>2, <4>1, <4>2, <4>3
    <3> QED
      BY <2>2, <3>1, <3>2
  <2>8. WellCalled(g, root, push)
    BY <2>1, <2>2, <2>7 DEF WellCalled
  <2> QED
    BY <2>1, <2>8 DEF Reading, WellKept, Answered
<1> HIDE DEF ops, op, args, leaf, push
<1> QED
  BY <1>1, <1>2, <1>5, <1>7, <1>8 DEF Call, ops, op, args, known, leaf, push

LEMMA ReturnReads ==
  ASSUME NEW g, IsFiniteSet(g), NEW says, IsSaying(g, says), NEW root, NEW c, Reading(g, says, root, c),
         c.calls # <<>>, Said(g, Innermost(c).node, "argument") \subseteq DOMAIN Innermost(c).read
  PROVE  Reading(g, says, root, Return(g, c))
<1> DEFINE L == Len(c.calls)
           call == Innermost(c)
           n == call.node
           read == call.read
           outer == [c EXCEPT !.calls = Outer(c)]
           e == IF \E a \in DOMAIN read : read[a] = NoExpression THEN NoExpression
                ELSE Compound(Only(OperatorsOf(g, n)), read)
           kept == Keeps(outer, n, e)
<1>1. Return(g, c) = Gives(kept, n, e)
  BY DEF Return
<1>2. /\ L \in Nat \ {0} /\ IsSequence(Outer(c)) /\ Len(Outer(c)) = L - 1
      /\ \A i \in 1 .. L - 1 : Outer(c)[i] = c.calls[i]
  BY Popped DEF Outer, Reading, WellCalled
<1>3. /\ outer.calls = Outer(c) /\ outer.done = c.done /\ outer.result = c.result /\ IsContext(outer)
  BY DEF Reading, IsContext
<1>4. /\ call = c.calls[L] /\ WellRead(g, c.done, call)
      /\ L = 1 => n = root
      /\ L > 1 => n \in Said(g, c.calls[L - 1].node, "argument")
      /\ \A i \in 1 .. L : c.calls[i].node = n => i = L
  <2>1. L \in 1 .. L /\ call = c.calls[L]
    BY <1>2 DEF Innermost
  <2> QED
    BY <2>1 DEF Reading, WellCalled
<1> HIDE DEF outer, call, e, kept
<1>5. Reading(g, says, root, outer)
  <2>1. \A i \in 1 .. L - 1 : i \in 1 .. L /\ (i > 1 => i - 1 \in 1 .. L - 1)
    BY <1>2
  <2>2. \A i \in 1 .. L - 1 : /\ WellRead(g, c.done, c.calls[i])
                              /\ i = 1 => c.calls[i].node = root
                              /\ i > 1 => c.calls[i].node \in Said(g, c.calls[i - 1].node, "argument")
                              /\ \A j \in 1 .. L - 1 : c.calls[i].node = c.calls[j].node => i = j
    BY <2>1 DEF Reading, WellCalled
  <2>3. WellCalled(g, root, outer)
    <3> HIDE DEF L
    <3>1. Len(outer.calls) = L - 1 /\ IsSequence(outer.calls) /\ \A i \in 1 .. L - 1 : outer.calls[i] = c.calls[i]
      BY <1>2, <1>3
    <3> QED
      BY <1>3, <2>1, <2>2, <3>1 DEF WellCalled
  <2> QED
    BY <1>3, <2>3 DEF Reading, WellKept, Answered
<1>6. MayAsk(g, root, outer, n)
  <2>1. CASE L = 1
    <3>1. Outer(c) = <<>>
      BY <1>2, <2>1 DEF IsSequence
    <3> QED
      BY <1>3, <1>4, <2>1, <3>1 DEF MayAsk
  <2>2. CASE L > 1
    <3>1. Outer(c) # <<>> /\ L - 1 \in 1 .. L - 1
      BY <1>2, <2>2
    <3>2. Innermost(outer) = c.calls[L - 1]
      BY <1>2, <1>3, <3>1 DEF Innermost
    <3> QED
      BY <1>3, <1>4, <2>2, <3>1, <3>2 DEF MayAsk
  <2>3. L = 1 \/ L > 1
    <3> HIDE DEF L
    <3> QED
      BY <1>2
  <2> QED
    BY <2>1, <2>2, <2>3
<1>7. n \in Values(g) /\ n \notin DOMAIN outer.done /\ \A i \in 1 .. Len(outer.calls) : outer.calls[i].node # n
  <2>1. \A i \in 1 .. L - 1 : i \in 1 .. L /\ i # L
    BY <1>2
  <2> QED
    <3> HIDE DEF L
    <3> QED
      BY <1>2, <1>3, <1>4, <2>1 DEF WellRead
<1>8. e # NoExpression => \A k \in Cardinality(DOMAIN outer.done) + 1 .. Cardinality(Values(g)) : says[k][n] = e
  <2> SUFFICES ASSUME e # NoExpression, NEW k \in Cardinality(DOMAIN c.done) + 1 .. Cardinality(Values(g))
               PROVE  says[k][n] = e
    BY <1>3
  <2>1. /\ \A a \in DOMAIN read : read[a] # NoExpression
        /\ e = Compound(Only(OperatorsOf(g, n)), read)
    BY DEF e
  <2>2. Cardinality(DOMAIN c.done) \in Nat /\ Cardinality(Values(g)) \in Nat
    BY TermsAreFinite, FS_CardinalityType, FS_Subset DEF Reading, WellKept
  <2>3. /\ k \in 0 .. Cardinality(Values(g)) /\ k # 0
        /\ k - 1 \in Cardinality(DOMAIN c.done) .. Cardinality(Values(g))
    BY <2>2
  <2>4. says[k] = Deeper(g, says[k - 1])
    BY <2>3 DEF IsSaying
  <2>5. DOMAIN read = Said(g, n, "argument") /\ read = [a \in DOMAIN read |-> read[a]]
    BY <1>4 DEF WellRead, call
  <2>6. \A a \in DOMAIN read : says[k - 1][a] = read[a]
    BY <1>4, <2>1, <2>3 DEF WellRead, Reading, WellKept
  <2>7. [a \in Said(g, n, "argument") |-> says[k - 1][a]] = read
    BY <2>5, <2>6
  <2>8. says[k][n] = Compound(Only(OperatorsOf(g, n)), read)
    BY <1>4, <1>7, <2>4, <2>7 DEF Deeper, WellRead
  <2> QED
    BY <2>1, <2>8
<1>9. /\ Reading(g, says, root, kept)
      /\ e # NoExpression => n \in DOMAIN kept.done /\ e = kept.done[n]
      /\ kept.calls = outer.calls
  BY <1>5, <1>7, <1>8, KeepsReads DEF kept
<1>10. MayAsk(g, root, kept, n)
  BY <1>6, <1>9 DEF MayAsk, Innermost
<1> QED
  BY <1>1, <1>9, <1>10, GivesReads

LEMMA ReadOnReads ==
  ASSUME NEW g, WellWritten(g), NEW rank \in ListingOrders, NEW says, IsSaying(g, says),
         NEW root, NEW c, Reading(g, says, root, c)
  PROVE  Reading(g, says, root, ReadOn(g, rank, c))
<1> DEFINE call == Innermost(c)
           args == Said(g, call.node, "argument")
           rest == args \ DOMAIN call.read
<1>1. CASE c.calls = <<>>
  BY <1>1 DEF ReadOn
<1>2. CASE c.calls # <<>> /\ rest = {}
  BY <1>2, ReturnReads DEF ReadOn, WellWritten
<1>3. CASE c.calls # <<>> /\ rest # {}
  <2> DEFINE first == Earliest(rank, rest)
  <2>1. \A a \in rest : rank[a] \in Nat /\ a \in Values(g)
    BY DEF Said, Values, WellWritten
  <2> HIDE DEF rest
  <2>2. first \in rest
    <3> DEFINE ranks == {rank[a] : a \in rest}
    <3>1. ranks \subseteq Nat /\ ranks # {}
      BY <1>3, <2>1
    <3>2. \E x \in ranks : \A y \in ranks : x <= y
      <4> HIDE DEF ranks
      <4> QED
        BY <3>1, LeastNumber
    <3>3. \E a \in rest : \A b \in rest : rank[a] <= rank[b]
      BY <3>2
    <3> QED
      BY <3>3 DEF Earliest
  <2>3. MayAsk(g, root, c, first) /\ first \in Values(g)
    BY <1>3, <2>1, <2>2 DEF MayAsk, rest
  <2>4. Reading(g, says, root, Call(g, c, first))
    <3> HIDE DEF first
    <3> QED
      BY <2>3, CallReads DEF WellWritten
  <2> QED
    BY <1>3, <2>4 DEF ReadOn, rest
<1> QED
  BY <1>1, <1>2, <1>3

(* The functions that the model defines step by step exist: were there a least number
   without one, the one before it would give it. *)
LEMMA SayingExists ==
  ASSUME NEW g
  PROVE  \A n \in Nat : \E f : f = [k \in 0 .. n |-> IF k = 0 THEN [m \in Values(g) |-> NoExpression] ELSE Deeper(g, f[k - 1])]
<1> DEFINE zero == [m \in Values(g) |-> NoExpression]
           Upto(f, n) == f = [k \in 0 .. n |-> IF k = 0 THEN zero ELSE Deeper(g, f[k - 1])]
           bad == {n \in Nat : ~ \E f : Upto(f, n)}
<1>1. bad = {}
  <2> SUFFICES ASSUME bad # {} PROVE FALSE
    OBVIOUS
  <2>1. PICK n \in bad : \A m \in bad : n <= m
    <3> HIDE DEF Upto
    <3>1. bad \subseteq Nat
      OBVIOUS
    <3> HIDE DEF bad
    <3> QED
      BY <3>1, LeastNumber
  <2>2. CASE n = 0
    <3> DEFINE f == [k \in 0 .. 0 |-> zero]
    <3>1. \A k \in 0 .. 0 : k = 0
      OBVIOUS
    <3>2. Upto(f, 0)
      <4> HIDE DEF zero
      <4> QED
        BY <3>1
    <3> QED
      BY <2>2, <3>2
  <2>3. CASE n # 0
    <3>1. n \in Nat /\ n - 1 \in Nat /\ n - 1 \notin bad
      <4> HIDE DEF Upto
      <4>1. n \in Nat
        OBVIOUS
      <4> HIDE DEF bad
      <4> QED
        BY <2>1, <2>3, <4>1
    <3>2. PICK f : Upto(f, n - 1)
      BY <3>1
    <3> DEFINE h == [k \in 0 .. n |-> IF k = 0 THEN zero ELSE Deeper(g, f[k - 1])]
    <3> HIDE DEF zero
    <3>3. \A k \in 0 .. n - 1 : h[k] = f[k]
      <4>1. \A k \in 0 .. n - 1 : k \in 0 .. n
        BY <3>1
      <4> QED
        BY <3>2, <4>1
    <3>4. \A k \in 0 .. n : k # 0 => k - 1 \in 0 .. n - 1
      BY <3>1
    <3>5. Upto(h, n)
      BY <3>3, <3>4
    <3> QED
      BY <3>5
  <2> QED
    BY <2>2, <2>3
<1> QED
  BY <1>1

IsReading(g, rank, node, n, f) ==
  f = [k \in 0 .. n |-> IF k = 0 THEN Call(g, NewContext, node) ELSE ReadOn(g, rank, f[k - 1])]

LEMMA ReadingExists ==
  ASSUME NEW g, NEW rank, NEW node
  PROVE  \A n \in Nat : \E f : IsReading(g, rank, node, n, f)
<1> DEFINE zero == Call(g, NewContext, node)
           Upto(f, n) == f = [k \in 0 .. n |-> IF k = 0 THEN zero ELSE ReadOn(g, rank, f[k - 1])]
           bad == {n \in Nat : ~ \E f : Upto(f, n)}
<1>1. bad = {}
  <2> SUFFICES ASSUME bad # {} PROVE FALSE
    OBVIOUS
  <2>1. PICK n \in bad : \A m \in bad : n <= m
    <3> HIDE DEF Upto
    <3>1. bad \subseteq Nat
      OBVIOUS
    <3> HIDE DEF bad
    <3> QED
      BY <3>1, LeastNumber
  <2>2. CASE n = 0
    <3> DEFINE f == [k \in 0 .. 0 |-> zero]
    <3>1. \A k \in 0 .. 0 : k = 0
      OBVIOUS
    <3>2. Upto(f, 0)
      <4> HIDE DEF zero
      <4> QED
        BY <3>1
    <3> QED
      BY <2>2, <3>2
  <2>3. CASE n # 0
    <3>1. n \in Nat /\ n - 1 \in Nat /\ n - 1 \notin bad
      <4> HIDE DEF Upto
      <4>1. n \in Nat
        OBVIOUS
      <4> HIDE DEF bad
      <4> QED
        BY <2>1, <2>3, <4>1
    <3>2. PICK f : Upto(f, n - 1)
      BY <3>1
    <3> DEFINE h == [k \in 0 .. n |-> IF k = 0 THEN zero ELSE ReadOn(g, rank, f[k - 1])]
    <3> HIDE DEF zero
    <3>3. \A k \in 0 .. n - 1 : h[k] = f[k]
      <4>1. \A k \in 0 .. n - 1 : k \in 0 .. n
        BY <3>1
      <4> QED
        BY <3>2, <4>1
    <3>4. \A k \in 0 .. n : k # 0 => k - 1 \in 0 .. n - 1
      BY <3>1
    <3>5. Upto(h, n)
      BY <3>3, <3>4
    <3> QED
      BY <3>5
  <2> QED
    BY <2>2, <2>3
<1> QED
  BY <1>1 DEF IsReading

(* A condition that is read is what the graph says of it, in whatever order its
   arguments come. *)
LEMMA ReadsWhatIsSaid ==
  ASSUME NEW g, WellWritten(g), NEW rank \in ListingOrders, NEW node \in Values(g),
         ReadExpression(g, rank, node) # NoExpression
  PROVE  ReadExpression(g, rank, node) = Says(g, node)
<1> DEFINE N == Cardinality(Values(g))
           M == 2 * MaxEdges
           says == CHOOSE f : IsSaying(g, f)
           Steps(f) == IsReading(g, rank, node, M, f)
           after == CHOOSE f : Steps(f)
<1>1. IsFiniteSet(g) /\ N \in Nat /\ M \in Nat
  BY TermsAreFinite, FS_CardinalityType, CatalogAssumption DEF WellWritten
<1>2. IsSaying(g, says) /\ Says(g, node) = says[N][node]
  <2>1. \E f : IsSaying(g, f)
    BY <1>1, SayingExists DEF IsSaying
  <2>2. Says(g, node) = says[N][node]
    BY DEF Says, IsSaying
  <2> QED
    BY <2>1, <2>2
<1>3. Steps(after) /\ ReadExpression(g, rank, node) = after[M].result
  <2>1. \E f : Steps(f)
    <3> HIDE DEF M
    <3> QED
      BY <1>1, ReadingExists
  <2>2. ReadExpression(g, rank, node) = after[M].result
    BY DEF ReadExpression, IsReading
  <2> HIDE DEF Steps
  <2> QED
    BY <2>1, <2>2
<1> HIDE DEF says, after
<1>4. Reading(g, says, node, NewContext)
  <2>1. /\ NewContext.calls = <<>> /\ NewContext.done = Nothing /\ NewContext.result = NoExpression /\ IsContext(NewContext)
    BY DEF NewContext, IsContext
  <2>2. DOMAIN Nothing = {}
    BY DEF Nothing
  <2>3. IsSequence(<<>>) /\ Len(<<>>) = 0
    BY DEF IsSequence
  <2>4. 1 .. 0 = {}
    OBVIOUS
  <2> QED
    BY <2>1, <2>2, <2>3, <2>4 DEF Reading, WellKept, WellCalled, Answered
<1>5. Reading(g, says, node, Call(g, NewContext, node))
  <2>1. MayAsk(g, node, NewContext, node)
    BY DEF MayAsk, NewContext
  <2> QED
    BY <1>1, <1>2, <1>4, <2>1, CallReads
<1> DEFINE bad == {k \in 0 .. M : ~ Reading(g, says, node, after[k])}
<1>6. bad = {}
  <2> SUFFICES ASSUME bad # {} PROVE FALSE
    OBVIOUS
  <2>1. PICK k \in bad : \A j \in bad : k <= j
    <3>1. bad \subseteq Nat
      OBVIOUS
    <3> HIDE DEF bad
    <3> QED
      BY <3>1, LeastNumber
  <2>2. k \in 0 .. M /\ ~ Reading(g, says, node, after[k])
    OBVIOUS
  <2>3. k # 0
    BY <1>1, <1>3, <1>5, <2>2 DEF IsReading
  <2>4. k - 1 \in 0 .. M /\ k - 1 \notin bad
    <3>1. k - 1 \in 0 .. M
      BY <1>1, <2>2, <2>3
    <3> HIDE DEF bad, M
    <3> QED
      BY <1>1, <2>1, <2>2, <3>1
  <2>5. after[k] = ReadOn(g, rank, after[k - 1])
    BY <1>3, <2>2, <2>3 DEF IsReading
  <2>6. Reading(g, says, node, after[k - 1])
    BY <2>4
  <2> QED
    BY <1>2, <2>2, <2>5, <2>6, ReadOnReads
<1>7. Reading(g, says, node, after[M])
  <2>1. M \in 0 .. M
    BY <1>1
  <2> QED
    BY <1>6, <2>1
<1>8. /\ node \in DOMAIN after[M].done /\ after[M].result = after[M].done[node]
      /\ \A k \in Cardinality(DOMAIN after[M].done) .. N : says[k][node] = after[M].done[node]
  BY <1>3, <1>7 DEF Reading, WellKept, Answered
<1>9. N \in Cardinality(DOMAIN after[M].done) .. N
  <2>1. DOMAIN after[M].done \subseteq Values(g) /\ IsFiniteSet(Values(g))
    BY <1>1, <1>7, TermsAreFinite DEF Reading, WellKept
  <2>2. Cardinality(DOMAIN after[M].done) \in Nat /\ Cardinality(DOMAIN after[M].done) <= N
    BY <2>1, FS_Subset, FS_CardinalityType
  <2> QED
    BY <1>1, <2>2
<1> QED
  BY <1>2, <1>3, <1>8, <1>9

LEMMA LoadedRulesSay ==
  ASSUME NEW g, WellWritten(g), NEW rank \in ListingOrders, Parsed(g, rank).wrong = {}
  PROVE  RulesSay(g, WithAutomaticPolicies(Parsed(g, rank).found))
<1> DEFINE c == WithAutomaticPolicies(Parsed(g, rank).found)
           nodes(s) == Said(g, s, "condition")
<1>1. c.rules = ReadRules(g, rank).found /\ ReadRules(g, rank).wrong = {}
  BY AutomaticKeepsTheRest, NothingWrong
<1> HIDE DEF c
<1>2. ASSUME NEW r \in c.rules
      PROVE  r.condition = IF nodes(r.uri) = {} THEN NoExpression ELSE Says(g, Only(nodes(r.uri)))
  <2>1. r.uri \in Elements(g, "BusinessRule") /\ r.condition = ConditionOf(g, rank, r.uri)
    BY <1>1 DEF ReadRules, Read
  <2>2. CASE nodes(r.uri) = {}
    BY <2>1, <2>2 DEF ConditionOf
  <2>3. CASE nodes(r.uri) # {}
    <3>1. ConditionOf(g, rank, r.uri) # NoExpression
      <4>1. \A s \in Elements(g, "BusinessRule") : Said(g, s, "condition") # {} => ConditionOf(g, rank, s) # NoExpression
        BY <1>1, RulesWereRead
      <4> QED
        BY <2>1, <2>3, <4>1
    <3>2. ConditionOf(g, rank, r.uri) = ReadExpression(g, rank, Only(nodes(r.uri)))
      BY <2>3 DEF ConditionOf
    <3>3. Only(nodes(r.uri)) \in Values(g)
      BY <2>3 DEF Only, Said, Values
    <3> QED
      BY <2>1, <2>3, <3>1, <3>2, <3>3, ReadsWhatIsSaid
  <2> QED
    BY <2>2, <2>3
<1> QED
  BY <1>2 DEF RulesSay, c

-------------------------------------------------------------------------------
(* Credentials *)

IsFinding(g, roots, elements, n, f) ==
  f = [k \in 0 .. n |-> IF k = 0 THEN roots ELSE LET S == f[k - 1] IN S \cup Below(g, S, elements)]

LEMMA FindingExists ==
  ASSUME NEW g, NEW roots, NEW elements
  PROVE  \A n \in Nat : \E f : IsFinding(g, roots, elements, n, f)
<1> DEFINE next(S) == S \cup Below(g, S, elements)
           Upto(f, n) == f = [k \in 0 .. n |-> IF k = 0 THEN roots ELSE next(f[k - 1])]
           bad == {n \in Nat : ~ \E f : Upto(f, n)}
<1>1. bad = {}
  <2> SUFFICES ASSUME bad # {} PROVE FALSE
    OBVIOUS
  <2>1. PICK n \in bad : \A m \in bad : n <= m
    <3> HIDE DEF Upto
    <3>1. bad \subseteq Nat
      OBVIOUS
    <3> HIDE DEF bad
    <3> QED
      BY <3>1, LeastNumber
  <2>2. CASE n = 0
    <3> DEFINE f == [k \in 0 .. 0 |-> roots]
    <3>1. \A k \in 0 .. 0 : k = 0
      OBVIOUS
    <3>2. Upto(f, 0)
      BY <3>1
    <3> QED
      BY <2>2, <3>2
  <2>3. CASE n # 0
    <3>1. n \in Nat /\ n - 1 \in Nat /\ n - 1 \notin bad
      <4> HIDE DEF Upto
      <4>1. n \in Nat
        OBVIOUS
      <4> HIDE DEF bad
      <4> QED
        BY <2>1, <2>3, <4>1
    <3>2. PICK f : Upto(f, n - 1)
      BY <3>1
    <3> DEFINE h == [k \in 0 .. n |-> IF k = 0 THEN roots ELSE next(f[k - 1])]
    <3> HIDE DEF next
    <3>3. \A k \in 0 .. n - 1 : h[k] = f[k]
      <4>1. \A k \in 0 .. n - 1 : k \in 0 .. n
        BY <3>1
      <4> QED
        BY <3>2, <4>1
    <3>4. \A k \in 0 .. n : k # 0 => k - 1 \in 0 .. n - 1
      BY <3>1
    <3>5. Upto(h, n)
      BY <3>3, <3>4
    <3> QED
      BY <3>5
  <2> QED
    BY <2>2, <2>3
<1> QED
  BY <1>1 DEF IsFinding

(* The scan ends in a set that nothing leaves, or it has found more than its budget. *)
LEMMA ScanIsComplete ==
  ASSUME NEW g, IsFiniteSet(g), NEW roots, IsFiniteSet(roots), NEW elements
  PROVE  LET reached == Described(g, roots, elements)
         IN /\ roots \subseteq reached
            /\ Below(g, reached, elements) \subseteq reached \/ Cardinality(reached \ roots) > ScanTerms
<1> DEFINE T == ScanTerms + 1
           all == roots \cup Values(g)
           found == CHOOSE f : IsFinding(g, roots, elements, T, f)
           closed(S) == Below(g, S, elements) \subseteq S
           Grown(S, k) == /\ roots \subseteq S /\ S \subseteq all
                          /\ closed(S) \/ Cardinality(S \ roots) >= k
           bad == {k \in 0 .. T : ~ Grown(found[k], k)}
<1>1. ScanTerms \in Nat /\ T \in Nat
  BY CatalogAssumption
<1>2. IsFinding(g, roots, elements, T, found) /\ Described(g, roots, elements) = found[T]
  <2>1. \E f : IsFinding(g, roots, elements, T, f)
    BY <1>1, FindingExists
  <2>2. Described(g, roots, elements) = found[T]
    BY DEF Described, IsFinding
  <2> QED
    BY <2>1, <2>2
<1>3. IsFiniteSet(all)
  BY TermsAreFinite, FS_Union
<1>4. \A S : Below(g, S, elements) \subseteq Values(g)
  BY DEF Below, Values
<1>5. \A k \in 0 .. T : found[k] = IF k = 0 THEN roots ELSE found[k - 1] \cup Below(g, found[k - 1], elements)
  BY <1>2 DEF IsFinding
<1> HIDE DEF found, T
<1>6. bad = {}
  <2> SUFFICES ASSUME bad # {} PROVE FALSE
    OBVIOUS
  <2>1. PICK k \in bad : \A j \in bad : k <= j
    <3> HIDE DEF Grown
    <3>1. bad \subseteq Nat
      OBVIOUS
    <3> HIDE DEF bad
    <3> QED
      BY <3>1, LeastNumber
  <2>2. k \in 0 .. T /\ ~ Grown(found[k], k)
    <3> HIDE DEF Grown
    <3> QED
      OBVIOUS
  <2>3. k # 0
    <3>1. ASSUME k = 0
          PROVE  FALSE
      <4>1. found[k] = roots
        BY <1>5, <2>2, <3>1
      <4>2. roots \ roots = {} /\ Cardinality(roots \ roots) = 0
        BY FS_EmptySet
      <4>3. Cardinality(found[k] \ roots) >= k
        BY <3>1, <4>1, <4>2
      <4>4. Grown(found[k], k)
        BY <4>1, <4>3
      <4> QED
        BY <2>2, <4>4
    <3> QED
      BY <3>1
  <2> DEFINE S == found[k - 1]
  <2>4. k - 1 \in 0 .. T /\ Grown(S, k - 1)
    <3> HIDE DEF Grown
    <3>1. k - 1 \in 0 .. T
      BY <1>1, <2>2, <2>3
    <3>2. k - 1 \notin bad
      <4> HIDE DEF bad
      <4> QED
        BY <1>1, <2>1, <2>2, <3>1
    <3> QED
      BY <3>1, <3>2
  <2>5. found[k] = S \cup Below(g, S, elements)
    BY <1>5, <2>2, <2>3
  <2> HIDE DEF S, bad
  <2>6. roots \subseteq found[k] /\ found[k] \subseteq all
    BY <1>4, <2>4, <2>5
  <2>7. CASE closed(S)
    <3>1. found[k] = S
      BY <2>5, <2>7
    <3> QED
      BY <2>2, <2>6, <2>7, <3>1
  <2>8. CASE ~ closed(S)
    <3>1. PICK v \in Below(g, S, elements) : v \notin S
      BY <2>8
    <3>2. v \in found[k] \ roots /\ v \notin S \ roots /\ S \ roots \subseteq found[k] \ roots
      BY <2>4, <2>5, <3>1
    <3>3. IsFiniteSet(S \ roots) /\ IsFiniteSet(found[k] \ roots)
      BY <1>3, <2>4, <2>6, FS_Subset
    <3>4. Cardinality((S \ roots) \cup {v}) = Cardinality(S \ roots) + 1 /\ IsFiniteSet((S \ roots) \cup {v})
      BY <3>2, <3>3, FS_AddElement
    <3>5. Cardinality((S \ roots) \cup {v}) <= Cardinality(found[k] \ roots)
      <4>1. (S \ roots) \cup {v} \subseteq found[k] \ roots
        BY <3>2
      <4> QED
        BY <3>3, <4>1, FS_Subset
    <3>6. Cardinality(S \ roots) >= k - 1
      BY <2>4, <2>8
    <3>7. Cardinality(S \ roots) \in Nat /\ Cardinality(found[k] \ roots) \in Nat
      BY <3>3, FS_CardinalityType
    <3>8. Cardinality(found[k] \ roots) >= k
      BY <1>1, <2>2, <3>4, <3>5, <3>6, <3>7
    <3> QED
      BY <2>2, <2>6, <3>8
  <2> QED
    BY <2>7, <2>8
<1>7. Grown(found[T], T)
  <2>1. T \in 0 .. T
    BY <1>1
  <2> QED
    BY <1>6, <2>1
<1>8. Cardinality(found[T] \ roots) >= T => Cardinality(found[T] \ roots) > ScanTerms
  <2>1. IsFiniteSet(found[T] \ roots)
    BY <1>3, <1>7, FS_Subset
  <2>2. Cardinality(found[T] \ roots) \in Nat
    BY <2>1, FS_CardinalityType
  <2> QED
    BY <1>1, <2>2 DEF T
<1> QED
  BY <1>2, <1>7, <1>8

LEMMA LoadedHasNoCredentials ==
  ASSUME NEW g, IsFiniteSet(g), NEW rank, Parsed(g, rank).wrong = {}
  PROVE  NoCredentials(g, WithAutomaticPolicies(Parsed(g, rank).found))
<1> DEFINE c == WithAutomaticPolicies(Parsed(g, rank).found)
           roots == Elements(g, "DataSource") \cup Elements(g, "PhysicalMapping")
           reached == Described(g, roots, AllMarked(g))
           nodes == reached \ roots
<1>1. /\ c.sources = ReadSources(g).found /\ c.mappings = ReadMappings(g).found
      /\ ReadMappings(g).wrong = {} /\ CredentialWrong(g) = {}
  BY AutomaticKeepsTheRest, NothingWrong
<1>2. /\ ~ (Cardinality(nodes) > ScanTerms)
      /\ ~ \E t \in g : t[1] \in nodes \cup roots /\ t[2] \in Credentials
  BY <1>1 DEF CredentialWrong
<1>3. IsFiniteSet(roots)
  BY TermsAreFinite, FS_Union
<1> HIDE DEF c, roots
<1>4. roots \subseteq reached /\ Below(g, reached, AllMarked(g)) \subseteq reached
  BY <1>2, <1>3, ScanIsComplete
<1>5. nodes \cup roots = reached
  BY <1>4
<1>6. UriSet(c.sources) \cup UriSet(c.mappings) \subseteq roots
  <2>1. \A s \in ReadSources(g).found : s.uri \in Elements(g, "DataSource")
    BY DEF ReadSources, Read
  <2>2. \A m \in ReadMappings(g).found : m.uri \in Elements(g, "PhysicalMapping")
    BY <1>1, MappingsAreFine
  <2> QED
    BY <1>1, <2>1, <2>2 DEF UriSet, roots
<1>7. \A t \in g : t[1] \in reached => t[2] \notin Credentials
  BY <1>2, <1>5
<1> HIDE DEF reached
<1>8. UriSet(c.sources) \cup UriSet(c.mappings) \subseteq reached
  BY <1>4, <1>6
<1> QED
  BY <1>4, <1>7, <1>8 DEF NoCredentials, c, reached, roots

-------------------------------------------------------------------------------
(* What a package is built of: each element of the draft says a few things under a
   name of its own. *)
Part(uri, kind, short, labels, more) == [uri |-> uri, kind |-> kind, short |-> short, labels |-> labels, more |-> more]
ConceptPart(o) == Part(Uri("concept", o.id), "Concept", Short("Concept", o.id), {o.physical}, [p \in {} |-> Absent])
FieldPart(o, f) ==
  Part(Uri("property", f.id), "Property", Short("Property", f.id), {f.physical} \cup f.aliases,
       [domain |-> Uri("concept", o.id), range |-> Uri("xsd", f.type)])
RelationPart(r) ==
  Part(Uri("relation", r.id), "Relation", Short("Relation", r.id), {},
       [domain |-> Uri("concept", r.from), range |-> Uri("concept", r.to),
        sourceProperty |-> Uri("property", r.fromField), targetProperty |-> Uri("property", r.toField),
        status |-> Lit(IF r.active THEN "active" ELSE "inactive"), confirmed |-> Bool(Effective(r))])
SourcePart(d) ==
  Part(Uri("source", d.source.id), "DataSource", Short("DataSource", d.source.id), {},
       [platformType |-> Lit(d.source.platform)])
ObjectMappingPart(d, o) ==
  Part(Uri("objectMapping", o.id), "PhysicalMapping", Short("ObjectMapping", o.id), {},
       [semanticElement |-> Uri("concept", o.id), dataSource |-> Uri("source", d.source.id),
        objectName |-> Lit(o.physical), enabled |-> Bool(o.active)])
FieldMappingPart(d, f) ==
  Part(Uri("fieldMapping", f.id), "PhysicalMapping", Short("FieldMapping", f.id), {},
       [semanticElement |-> Uri("property", f.id), dataSource |-> Uri("source", d.source.id),
        fieldName |-> Lit(f.physical), enabled |-> Bool(f.active)])
PolicyPart(p) ==
  Part(Uri("policy", <<p.object, p.field>>), "TemporalPartitionPolicy", PolicyShort(p), {},
       [appliesTo |-> Uri("concept", p.object), partitionProperty |-> Uri("property", p.field),
        partitionGrain |-> Lit(p.grain), defaultStrategy |-> Lit(p.strategy), allowQueryOverride |-> Bool(p.override),
        status |-> Lit(IF p.active THEN "active" ELSE "inactive")])
Parts(d) ==
  {ConceptPart(o) : o \in d.objects} \cup (UNION {{FieldPart(o, f) : f \in o.fields} : o \in d.objects})
  \cup {RelationPart(r) : r \in d.relations} \cup {SourcePart(d)} \cup {ObjectMappingPart(d, o) : o \in d.objects}
  \cup {FieldMappingPart(d, f) : f \in FieldsIn(d)} \cup {PolicyPart(p) : p \in EffectivePolicies(d)}

Triples(e) ==
  Element(e.uri, e.kind, e.short, e.labels)
  \cup (IF e.kind \in DOMAIN Standard THEN {Typed(e.uri, e.kind)} ELSE {})
  \cup {<<e.uri, p, e.more[p]>> : p \in DOMAIN e.more}

LEMMA PartsOfConcepts ==
  ASSUME NEW o
  PROVE  Triples(ConceptPart(o)) =
           Element(Uri("concept", o.id), "Concept", Short("Concept", o.id), {o.physical})
           \cup {Typed(Uri("concept", o.id), "Concept")}
  BY DEF Triples, ConceptPart, Part, Standard

LEMMA PartsOfFields ==
  ASSUME NEW o, NEW f
  PROVE  Triples(FieldPart(o, f)) = FieldTriples(o, f)
<1> DEFINE more == [domain |-> Uri("concept", o.id), range |-> Uri("xsd", f.type)]
           p == Uri("property", f.id)
<1>1. {<<p, x, more[x]>> : x \in DOMAIN more} = {<<p, "domain", Uri("concept", o.id)>>, <<p, "range", Uri("xsd", f.type)>>}
  OBVIOUS
<1> HIDE DEF more
<1>2. "Property" \in DOMAIN Standard
  BY DEF Standard
<1> QED
  BY <1>1, <1>2 DEF Triples, FieldPart, Part, FieldTriples, more
LEMMA PartsOfRelations ==
  ASSUME NEW r
  PROVE  Triples(RelationPart(r)) = RelationTriples(r, Effective(r))
<1> DEFINE more == RelationPart(r).more
           u == Uri("relation", r.id)
<1>1. {<<u, x, more[x]>> : x \in DOMAIN more} =
        {<<u, "domain", Uri("concept", r.from)>>, <<u, "range", Uri("concept", r.to)>>,
           <<u, "sourceProperty", Uri("property", r.fromField)>>, <<u, "targetProperty", Uri("property", r.toField)>>,
           <<u, "status", Lit(IF r.active THEN "active" ELSE "inactive")>>, <<u, "confirmed", Bool(Effective(r))>>}
  BY DEF RelationPart, Part
<1> HIDE DEF more
<1>2. "Relation" \in DOMAIN Standard
  BY DEF Standard
<1>3. RelationPart(r) = Part(u, "Relation", Short("Relation", r.id), {}, more)
  BY DEF RelationPart, Part, more
<1> QED
  BY <1>1, <1>2, <1>3 DEF Triples, Part, RelationTriples
LEMMA PartsOfSources ==
  ASSUME NEW d
  PROVE  Triples(SourcePart(d)) =
           Element(Uri("source", d.source.id), "DataSource", Short("DataSource", d.source.id), {})
           \cup {<<Uri("source", d.source.id), "platformType", Lit(d.source.platform)>>}
<1>1. "DataSource" \notin DOMAIN Standard
  BY DEF Standard
<1> QED
  BY <1>1 DEF Triples, SourcePart, Part
LEMMA PartsOfMappings ==
  ASSUME NEW d, NEW o
  PROVE  /\ Triples(ObjectMappingPart(d, o)) =
              MappingOf(Uri("objectMapping", o.id), Short("ObjectMapping", o.id), Uri("concept", o.id),
                        Uri("source", d.source.id), "objectName", o.physical, o.active)
         /\ Triples(FieldMappingPart(d, o)) =
              MappingOf(Uri("fieldMapping", o.id), Short("FieldMapping", o.id), Uri("property", o.id),
                        Uri("source", d.source.id), "fieldName", o.physical, o.active)
<1>1. "PhysicalMapping" \notin DOMAIN Standard
  BY DEF Standard
<1>2. ASSUME NEW u, NEW element, NEW source, NEW name, NEW active
      PROVE  LET more == [semanticElement |-> element, dataSource |-> source, objectName |-> name, enabled |-> active]
             IN {<<u, x, more[x]>> : x \in DOMAIN more} =
                  {<<u, "semanticElement", element>>, <<u, "dataSource", source>>, <<u, "objectName", name>>, <<u, "enabled", active>>}
  OBVIOUS
<1>3. ASSUME NEW u, NEW element, NEW source, NEW name, NEW active
      PROVE  LET more == [semanticElement |-> element, dataSource |-> source, fieldName |-> name, enabled |-> active]
             IN {<<u, x, more[x]>> : x \in DOMAIN more} =
                  {<<u, "semanticElement", element>>, <<u, "dataSource", source>>, <<u, "fieldName", name>>, <<u, "enabled", active>>}
  OBVIOUS
<1> QED
  BY <1>1, <1>2, <1>3 DEF Triples, ObjectMappingPart, FieldMappingPart, Part, MappingOf
LEMMA PartsOfPolicies ==
  ASSUME NEW p
  PROVE  Triples(PolicyPart(p)) =
         LET u == Uri("policy", <<p.object, p.field>>)
         IN Element(u, "TemporalPartitionPolicy", PolicyShort(p), {})
            \cup {<<u, "appliesTo", Uri("concept", p.object)>>, <<u, "partitionProperty", Uri("property", p.field)>>,
                  <<u, "partitionGrain", Lit(p.grain)>>, <<u, "defaultStrategy", Lit(p.strategy)>>,
                  <<u, "allowQueryOverride", Bool(p.override)>>,
                  <<u, "status", Lit(IF p.active THEN "active" ELSE "inactive")>>}
<1> DEFINE more == PolicyPart(p).more
           u == Uri("policy", <<p.object, p.field>>)
<1>1. {<<u, x, more[x]>> : x \in DOMAIN more} =
        {<<u, "appliesTo", Uri("concept", p.object)>>, <<u, "partitionProperty", Uri("property", p.field)>>,
                  <<u, "partitionGrain", Lit(p.grain)>>, <<u, "defaultStrategy", Lit(p.strategy)>>,
                  <<u, "allowQueryOverride", Bool(p.override)>>,
                  <<u, "status", Lit(IF p.active THEN "active" ELSE "inactive")>>}
  BY DEF PolicyPart, Part
<1> HIDE DEF more
<1>2. "TemporalPartitionPolicy" \notin DOMAIN Standard
  BY DEF Standard
<1>3. PolicyPart(p) = Part(u, "TemporalPartitionPolicy", PolicyShort(p), {}, more)
  BY DEF PolicyPart, Part, more
<1> QED
  BY <1>1, <1>2, <1>3 DEF Triples, Part

LEMMA PackageOfParts ==
  ASSUME NEW d
  PROVE  Written(d) = UNION {Triples(e) : e \in Parts(d)}
<1> DEFINE concept(o) == Element(Uri("concept", o.id), "Concept", Short("Concept", o.id), {o.physical})
                         \cup {Typed(Uri("concept", o.id), "Concept")}
           table(o)   == MappingOf(Uri("objectMapping", o.id), Short("ObjectMapping", o.id), Uri("concept", o.id),
                           Uri("source", d.source.id), "objectName", o.physical, o.active)
           column(f)  == MappingOf(Uri("fieldMapping", f.id), Short("FieldMapping", f.id), Uri("property", f.id),
                           Uri("source", d.source.id), "fieldName", f.physical, f.active)
           policy(p)  == LET u == Uri("policy", <<p.object, p.field>>)
             IN Element(u, "TemporalPartitionPolicy", PolicyShort(p), {})
                \cup {<<u, "appliesTo", Uri("concept", p.object)>>, <<u, "partitionProperty", Uri("property", p.field)>>,
                      <<u, "partitionGrain", Lit(p.grain)>>, <<u, "defaultStrategy", Lit(p.strategy)>>,
                      <<u, "allowQueryOverride", Bool(p.override)>>,
                      <<u, "status", Lit(IF p.active THEN "active" ELSE "inactive")>>}
           relation(r) == RelationTriples(r, Effective(r))
<1>1. DomainTriples(d) = (UNION {concept(o) : o \in d.objects})
         \cup (UNION {UNION {FieldTriples(o, f) : f \in o.fields} : o \in d.objects})
         \cup UNION {relation(r) : r \in d.relations}
  BY DEF DomainTriples
<1>2. MappingTriples(d) = Triples(SourcePart(d)) \cup (UNION {table(o) : o \in d.objects}) \cup UNION {column(f) : f \in FieldsIn(d)}
  BY PartsOfSources DEF MappingTriples
<1>3. PolicyTriples(d) = UNION {policy(p) : p \in EffectivePolicies(d)}
  BY DEF PolicyTriples
<1>4. /\ \A o : concept(o) = Triples(ConceptPart(o)) /\ table(o) = Triples(ObjectMappingPart(d, o))
      /\ \A f : column(f) = Triples(FieldMappingPart(d, f))
  BY PartsOfConcepts, PartsOfMappings
<1>5. /\ \A r : relation(r) = Triples(RelationPart(r))
      /\ \A p : policy(p) = Triples(PolicyPart(p))
      /\ \A o, f : FieldTriples(o, f) = Triples(FieldPart(o, f))
  BY PartsOfRelations, PartsOfPolicies, PartsOfFields
<1> HIDE DEF concept, table, column, policy, relation
<1>6. UNION {concept(o) : o \in d.objects} = UNION {Triples(e) : e \in {ConceptPart(o) : o \in d.objects}}
  BY <1>4
<1>7. UNION {UNION {FieldTriples(o, f) : f \in o.fields} : o \in d.objects} =
        UNION {Triples(e) : e \in UNION {{FieldPart(o, f) : f \in o.fields} : o \in d.objects}}
  BY <1>5
<1>8. UNION {relation(r) : r \in d.relations} = UNION {Triples(e) : e \in {RelationPart(r) : r \in d.relations}}
  BY <1>5
<1>9. UNION {table(o) : o \in d.objects} = UNION {Triples(e) : e \in {ObjectMappingPart(d, o) : o \in d.objects}}
  BY <1>4
<1>10. UNION {column(f) : f \in FieldsIn(d)} = UNION {Triples(e) : e \in {FieldMappingPart(d, f) : f \in FieldsIn(d)}}
  BY <1>4
<1>11. UNION {policy(p) : p \in EffectivePolicies(d)} = UNION {Triples(e) : e \in {PolicyPart(p) : p \in EffectivePolicies(d)}}
  BY <1>5
<1> DEFINE A == {ConceptPart(o) : o \in d.objects}
           B == UNION {{FieldPart(o, f) : f \in o.fields} : o \in d.objects}
           C == {RelationPart(r) : r \in d.relations}
           D == {ObjectMappingPart(d, o) : o \in d.objects}
           E == {FieldMappingPart(d, f) : f \in FieldsIn(d)}
           F == {PolicyPart(p) : p \in EffectivePolicies(d)}
           said(S) == UNION {Triples(e) : e \in S}
<1>12. Parts(d) = A \cup B \cup C \cup {SourcePart(d)} \cup D \cup E \cup F
  BY DEF Parts
<1>13. Written(d) = said(A) \cup said(B) \cup said(C) \cup Triples(SourcePart(d)) \cup said(D) \cup said(E) \cup said(F)
  BY <1>1, <1>2, <1>3, <1>6, <1>7, <1>8, <1>9, <1>10, <1>11 DEF Written
<1> HIDE DEF A, B, C, D, E, F
<1> QED
  BY <1>12, <1>13

-------------------------------------------------------------------------------
(* What the gate lets through *)

Accepted(d) ==
  /\ \A o, q \in d.objects : o.id = q.id => o = q
  /\ \A o, q \in d.objects : \A f \in o.fields : \A h \in q.fields : f.id = h.id => o = q /\ f = h
  /\ \A r, s \in d.relations : r.id = s.id => r = s
  /\ \A p, q \in d.policies : p.object = q.object => p = q
  /\ \A x, y \in ManagedNames(d) : x[1] = y[1] => x[2] = y[2]
  /\ \A o \in d.objects : \A f \in o.fields : Uri("xsd", f.type) \in Xsd
  /\ \A r \in d.relations : /\ Owned(d, r.from, r.fromField) /\ Owned(d, r.to, r.toField)
                            /\ r.active => r.confirmed \/ r.disposed
  /\ \A o \in d.objects : Conventional(o) /\ o.active => Cardinality(PartitionFields(o)) = 1
  /\ \A p \in d.policies : Owned(d, p.object, p.field) /\ p.strategy = Strategy[p.grain]

LEMMA NothingShared ==
  ASSUME NEW pairs, ~Shared(pairs), NEW a, NEW b, NEW x, NEW y, <<a, x>> \in pairs, <<b, y>> \in pairs, a = b
  PROVE  x = y
  BY DEF Shared

LEMMA GateAccepts ==
  ASSUME NEW d, Diagnostics(d) = {}
  PROVE  Accepted(d)
<1> DEFINE owned(r) == Owned(d, r.from, r.fromField) /\ Owned(d, r.to, r.toField)
           actives  == {r \in d.relations : r.active /\ owned(r)}
           typeOf(f) == {x.type : x \in {y \in FieldsIn(d) : y.id = f}}
           holds == [
        duplicate_object_id   |-> Shared({<<o.id, o>> : o \in d.objects}),
        duplicate_field_id    |-> Shared(UNION {{<<f.id, <<o.id, f>>>> : f \in o.fields} : o \in d.objects}),
        duplicate_relation_id |-> Shared({<<r.id, r>> : r \in d.relations}),
        invalid_object_identifier |-> \E o \in d.objects : o.physical \in BadNames,
        invalid_field_identifier  |-> \E f \in FieldsIn(d) : f.physical \in BadNames,
        invalid_field_type        |-> \E f \in FieldsIn(d) : Uri("xsd", f.type) \notin Xsd,
        duplicate_managed_short_name |-> Shared(ManagedNames(d)),
        relation_endpoint_not_owned |-> \E r \in d.relations : ~owned(r),
        relation_confirmation_required |-> \E r \in actives : ~r.confirmed /\ ~r.disposed,
        relation_incompatible_field_types |-> \E r \in actives : typeOf(r.fromField) # typeOf(r.toField),
        automatic_partition_field_missing |->
          \E o \in d.objects : Conventional(o) /\ o.active /\ Cardinality(PartitionFields(o)) # 1,
        multiple_temporal_policies_for_object |-> Shared({<<p.object, p>> : p \in d.policies}),
        temporal_partition_field_not_owned |-> \E p \in d.policies : ~Owned(d, p.object, p.field),
        temporal_strategy_grain_mismatch |-> \E p \in d.policies : p.strategy # Strategy[p.grain]]
<1>1. Diagnostics(d) = {code \in DOMAIN holds : holds[code]}
  BY DEF Diagnostics
<1>2. /\ {"duplicate_object_id", "duplicate_field_id", "duplicate_relation_id", "invalid_field_type", "duplicate_managed_short_name",
          "relation_endpoint_not_owned", "relation_confirmation_required", "automatic_partition_field_missing",
          "multiple_temporal_policies_for_object", "temporal_partition_field_not_owned", "temporal_strategy_grain_mismatch"}
         \subseteq DOMAIN holds
  OBVIOUS
<1>3. /\ holds.duplicate_object_id = Shared({<<o.id, o>> : o \in d.objects})
      /\ holds.duplicate_field_id = Shared(UNION {{<<f.id, <<o.id, f>>>> : f \in o.fields} : o \in d.objects})
      /\ holds.duplicate_relation_id = Shared({<<r.id, r>> : r \in d.relations})
      /\ holds.duplicate_managed_short_name = Shared(ManagedNames(d))
      /\ holds.multiple_temporal_policies_for_object = Shared({<<p.object, p>> : p \in d.policies})
  OBVIOUS
<1>4. /\ holds.invalid_field_type = (\E f \in FieldsIn(d) : Uri("xsd", f.type) \notin Xsd)
      /\ holds.relation_endpoint_not_owned = (\E r \in d.relations : ~owned(r))
      /\ holds.relation_confirmation_required = (\E r \in actives : ~r.confirmed /\ ~r.disposed)
      /\ holds.automatic_partition_field_missing =
           (\E o \in d.objects : Conventional(o) /\ o.active /\ Cardinality(PartitionFields(o)) # 1)
      /\ holds.temporal_partition_field_not_owned = (\E p \in d.policies : ~Owned(d, p.object, p.field))
      /\ holds.temporal_strategy_grain_mismatch = (\E p \in d.policies : p.strategy # Strategy[p.grain])
  OBVIOUS
<1> HIDE DEF holds
<1>5. /\ ~holds.duplicate_object_id /\ ~holds.duplicate_field_id /\ ~holds.duplicate_relation_id
      /\ ~holds.duplicate_managed_short_name /\ ~holds.multiple_temporal_policies_for_object
      /\ ~holds.invalid_field_type /\ ~holds.relation_endpoint_not_owned /\ ~holds.relation_confirmation_required
      /\ ~holds.automatic_partition_field_missing /\ ~holds.temporal_partition_field_not_owned
      /\ ~holds.temporal_strategy_grain_mismatch
  BY <1>1, <1>2
<1>6. \A o, q \in d.objects : o.id = q.id => o = q
  <2> DEFINE all == {<<o.id, o>> : o \in d.objects}
  <2>1. ~Shared(all)
    BY <1>3, <1>5
  <2> SUFFICES ASSUME NEW o \in d.objects, NEW q \in d.objects, o.id = q.id PROVE o = q
    OBVIOUS
  <2>2. <<o.id, o>> \in all /\ <<q.id, q>> \in all
    OBVIOUS
  <2> HIDE DEF all
  <2> QED
    BY <2>1, <2>2, NothingShared
<1>7. \A o, q \in d.objects : \A f \in o.fields : \A h \in q.fields : f.id = h.id => o = q /\ f = h
  <2> DEFINE all == UNION {{<<f.id, <<o.id, f>>>> : f \in o.fields} : o \in d.objects}
  <2>1. ~Shared(all)
    BY <1>3, <1>5
  <2> SUFFICES ASSUME NEW o \in d.objects, NEW q \in d.objects, NEW f \in o.fields, NEW h \in q.fields, f.id = h.id
               PROVE  o = q /\ f = h
    OBVIOUS
  <2>2. <<f.id, <<o.id, f>>>> \in all /\ <<h.id, <<q.id, h>>>> \in all
    OBVIOUS
  <2> HIDE DEF all
  <2>3. <<o.id, f>> = <<q.id, h>>
    BY <2>1, <2>2, NothingShared
  <2> QED
    BY <1>6, <2>3
<1>8. \A r, s \in d.relations : r.id = s.id => r = s
  <2> DEFINE all == {<<r.id, r>> : r \in d.relations}
  <2>1. ~Shared(all)
    BY <1>3, <1>5
  <2> SUFFICES ASSUME NEW o \in d.relations, NEW q \in d.relations, o.id = q.id PROVE o = q
    OBVIOUS
  <2>2. <<o.id, o>> \in all /\ <<q.id, q>> \in all
    OBVIOUS
  <2> HIDE DEF all
  <2> QED
    BY <2>1, <2>2, NothingShared
<1>9. \A p, q \in d.policies : p.object = q.object => p = q
  <2> DEFINE all == {<<p.object, p>> : p \in d.policies}
  <2>1. ~Shared(all)
    BY <1>3, <1>5
  <2> SUFFICES ASSUME NEW o \in d.policies, NEW q \in d.policies, o.object = q.object PROVE o = q
    OBVIOUS
  <2>2. <<o.object, o>> \in all /\ <<q.object, q>> \in all
    OBVIOUS
  <2> HIDE DEF all
  <2> QED
    BY <2>1, <2>2, NothingShared
<1>10. \A x, y \in ManagedNames(d) : x[1] = y[1] => x[2] = y[2]
  BY <1>3, <1>5 DEF Shared
<1>11. \A o \in d.objects : \A f \in o.fields : Uri("xsd", f.type) \in Xsd
  BY <1>4, <1>5 DEF FieldsIn
<1>12. \A r \in d.relations : owned(r) /\ (r.active => r.confirmed \/ r.disposed)
  BY <1>4, <1>5
<1>13. \A o \in d.objects : Conventional(o) /\ o.active => Cardinality(PartitionFields(o)) = 1
  BY <1>4, <1>5
<1>14. \A p \in d.policies : Owned(d, p.object, p.field) /\ p.strategy = Strategy[p.grain]
  BY <1>4, <1>5
<1> QED
  BY <1>6, <1>7, <1>8, <1>9, <1>10, <1>11, <1>12, <1>13, <1>14 DEF Accepted

LEMMA OwnersAre ==
  ASSUME NEW d, NEW o, NEW f, Owned(d, o, f)
  PROVE  \E x \in d.objects : x.id = o /\ \E h \in x.fields : h.id = f
<1>1. o \in {x.id : x \in {y \in d.objects : \E z \in y.fields : z.id = f}}
  BY DEF Owned
<1> QED
  BY <1>1

(* Every policy in force is of one table, on a field of its own, with the strategy of its
   grain; no table has two. *)
LEMMA PoliciesInForce ==
  ASSUME NEW d, WellDrafted(d), Accepted(d)
  PROVE  /\ \A p \in EffectivePolicies(d) :
              /\ \E o \in d.objects : /\ o.id = p.object
                                      /\ \E f \in o.fields : f.id = p.field
                                      /\ Conventional(o) => p.grain = Convention[Suffix(o.physical)].grain
              /\ p.grain \in {"day", "month"} /\ p.strategy = Strategy[p.grain]
              /\ p.active \in BOOLEAN /\ p.override \in BOOLEAN
         /\ \A p, q \in EffectivePolicies(d) : p.object = q.object => p = q
<1> DEFINE conventional == {o \in d.objects : Conventional(o)}
           named == {x \in conventional : x.active /\ Cardinality(PartitionFields(x)) = 1}
           implied(o, f) == [object |-> o.id, field |-> f.id, grain |-> Convention[Suffix(o.physical)].grain,
                             strategy |-> Strategy[Convention[Suffix(o.physical)].grain], active |-> TRUE, override |-> TRUE]
           declared == {p \in d.policies : p.object \notin {o.id : o \in conventional}}
<1>1. EffectivePolicies(d) = declared \cup UNION {{implied(o, f) : f \in PartitionFields(o)} : o \in named}
  BY DEF EffectivePolicies
<1>2. ASSUME NEW o \in named
      PROVE  \A f, h \in PartitionFields(o) : f = h
  <2>1. IsFiniteSet(PartitionFields(o)) /\ Cardinality(PartitionFields(o)) = 1
    BY FS_Subset DEF WellDrafted, PartitionFields
  <2> QED
    BY <2>1, FS_Singleton
<1>3. ASSUME NEW p \in declared
      PROVE  /\ \E o \in d.objects : /\ o.id = p.object /\ ~Conventional(o)
                                     /\ \E f \in o.fields : f.id = p.field
             /\ p.grain \in {"day", "month"} /\ p.strategy = Strategy[p.grain]
             /\ p.active \in BOOLEAN /\ p.override \in BOOLEAN
  <2>1. PICK o \in d.objects : o.id = p.object /\ \E f \in o.fields : f.id = p.field
    BY OwnersAre DEF Accepted
  <2>2. ~Conventional(o)
    BY <2>1
  <2>3. p.grain \in DOMAIN Strategy /\ p.active \in BOOLEAN /\ p.override \in BOOLEAN /\ p.strategy = Strategy[p.grain]
    BY DEF WellDrafted, Accepted
  <2> QED
    BY <2>1, <2>2, <2>3 DEF Strategy
<1>4. ASSUME NEW o \in named, NEW f \in PartitionFields(o)
      PROVE  /\ f \in o.fields /\ Convention[Suffix(o.physical)].grain \in {"day", "month"}
             /\ o \in d.objects /\ Conventional(o)
  BY DEF PartitionFields, Conventional, Convention
<1> HIDE DEF named, declared
<1>5. ASSUME NEW p \in EffectivePolicies(d)
      PROVE  /\ \E o \in d.objects : /\ o.id = p.object
                                     /\ \E f \in o.fields : f.id = p.field
                                     /\ Conventional(o) => p.grain = Convention[Suffix(o.physical)].grain
             /\ p.grain \in {"day", "month"} /\ p.strategy = Strategy[p.grain]
             /\ p.active \in BOOLEAN /\ p.override \in BOOLEAN
  <2>1. CASE p \in declared
    BY <1>3, <2>1
  <2>2. ASSUME NEW o \in named, NEW f \in PartitionFields(o), p = implied(o, f)
        PROVE  /\ o.id = p.object /\ f.id = p.field /\ p.grain = Convention[Suffix(o.physical)].grain
               /\ p.strategy = Strategy[p.grain] /\ p.active \in BOOLEAN /\ p.override \in BOOLEAN
    BY <2>2
  <2> HIDE DEF implied
  <2>3. CASE \E o \in named : \E f \in PartitionFields(o) : p = implied(o, f)
    <3>1. PICK o \in named : \E f \in PartitionFields(o) : p = implied(o, f)
      BY <2>3
    <3>2. PICK f \in PartitionFields(o) : p = implied(o, f)
      BY <3>1
    <3>3. /\ o.id = p.object /\ f.id = p.field /\ p.grain = Convention[Suffix(o.physical)].grain
          /\ p.strategy = Strategy[p.grain] /\ p.active \in BOOLEAN /\ p.override \in BOOLEAN
      BY <2>2, <3>2
    <3>4. f \in o.fields /\ Convention[Suffix(o.physical)].grain \in {"day", "month"} /\ o \in d.objects
      BY <1>4
    <3> QED
      BY <3>3, <3>4
  <2> QED
    BY <1>1, <2>1, <2>3
<1>6. ASSUME NEW p \in EffectivePolicies(d), NEW q \in EffectivePolicies(d), p.object = q.object
      PROVE  p = q
  <2>1. \A o \in named : \A f \in PartitionFields(o) : implied(o, f).object = o.id
    OBVIOUS
  <2>2. \A o \in named : o \in d.objects /\ Conventional(o)
    BY DEF named
  <2>3. \A x \in declared : x \in d.policies /\ \A o \in d.objects : Conventional(o) => o.id # x.object
    BY DEF declared
  <2>4. (p \in declared /\ q \in declared) \/ \E o \in named, x \in named : \E f \in PartitionFields(o), h \in PartitionFields(x) :
           p = implied(o, f) /\ q = implied(x, h)
    BY <1>1, <1>6, <2>1, <2>2, <2>3
  <2>5. CASE p \in declared /\ q \in declared
    BY <1>6, <2>3, <2>5 DEF Accepted
  <2>6. ASSUME NEW o \in named, NEW x \in named, NEW f \in PartitionFields(o), NEW h \in PartitionFields(x),
               p = implied(o, f), q = implied(x, h)
        PROVE  p = q
    <3>1. o = x
      BY <1>6, <2>1, <2>2, <2>6 DEF Accepted
    <3> QED
      BY <1>2, <2>6, <3>1
  <2> QED
    BY <2>4, <2>5, <2>6
<1> QED
  BY <1>5, <1>6

-------------------------------------------------------------------------------
(* Nothing else is said of an element than what its part says, and no two parts are of
   one element or under one name. *)

LEMMA PartsByScope ==
  ASSUME NEW d, NEW e \in Parts(d)
  PROVE  /\ e.uri[2] \in {"concept", "property", "relation", "source", "objectMapping", "fieldMapping", "policy"}
         /\ e.uri[2] = "concept" => \E o \in d.objects : e = ConceptPart(o)
         /\ e.uri[2] = "property" => \E o \in d.objects : \E f \in o.fields : e = FieldPart(o, f)
         /\ e.uri[2] = "relation" => \E r \in d.relations : e = RelationPart(r)
         /\ e.uri[2] = "source" => e = SourcePart(d)
         /\ e.uri[2] = "objectMapping" => \E o \in d.objects : e = ObjectMappingPart(d, o)
         /\ e.uri[2] = "fieldMapping" => \E f \in FieldsIn(d) : e = FieldMappingPart(d, f)
         /\ e.uri[2] = "policy" => \E p \in EffectivePolicies(d) : e = PolicyPart(p)
<1>1. /\ \A o : ConceptPart(o).uri[2] = "concept" /\ ObjectMappingPart(d, o).uri[2] = "objectMapping"
      /\ \A o, f : FieldPart(o, f).uri[2] = "property"
      /\ \A r : RelationPart(r).uri[2] = "relation"
  BY DEF ConceptPart, ObjectMappingPart, FieldPart, RelationPart, Part, Uri
<1>2. /\ SourcePart(d).uri[2] = "source"
      /\ \A f : FieldMappingPart(d, f).uri[2] = "fieldMapping"
      /\ \A p : PolicyPart(p).uri[2] = "policy"
  BY DEF SourcePart, FieldMappingPart, PolicyPart, Part, Uri
<1>3. \/ \E o \in d.objects : e = ConceptPart(o)
      \/ \E o \in d.objects : \E f \in o.fields : e = FieldPart(o, f)
      \/ \E r \in d.relations : e = RelationPart(r)
      \/ e = SourcePart(d)
      \/ \E o \in d.objects : e = ObjectMappingPart(d, o)
      \/ \E f \in FieldsIn(d) : e = FieldMappingPart(d, f)
      \/ \E p \in EffectivePolicies(d) : e = PolicyPart(p)
  BY DEF Parts
<1> DEFINE said == e.uri[2]
<1>4. CASE (\E o \in d.objects : e = ConceptPart(o)) \/ e = SourcePart(d) \/ \E r \in d.relations : e = RelationPart(r)
  BY <1>1, <1>2, <1>4
<1>5. CASE \E o \in d.objects : \E f \in o.fields : e = FieldPart(o, f)
  BY <1>1, <1>5
<1>6. CASE (\E o \in d.objects : e = ObjectMappingPart(d, o)) \/ \E f \in FieldsIn(d) : e = FieldMappingPart(d, f)
  BY <1>1, <1>2, <1>6
<1>7. CASE \E p \in EffectivePolicies(d) : e = PolicyPart(p)
  BY <1>2, <1>7
<1> QED
  BY <1>3, <1>4, <1>5, <1>6, <1>7

(* The kind an element has, and the sort of name. *)
KindOf == [concept |-> "Concept", property |-> "Property", relation |-> "Relation", source |-> "DataSource",
           objectMapping |-> "PhysicalMapping", fieldMapping |-> "PhysicalMapping", policy |-> "TemporalPartitionPolicy"]
NameOf == [concept |-> "Concept", property |-> "Property", relation |-> "Relation", source |-> "DataSource",
           objectMapping |-> "ObjectMapping", fieldMapping |-> "FieldMapping", policy |-> "TemporalPolicy"]

LEMMA PartsAreWhole ==
  ASSUME NEW d, NEW e \in Parts(d)
  PROVE  /\ e = Part(e.uri, e.kind, e.short, e.labels, e.more)
         /\ e.uri = <<"uri", e.uri[2], e.uri[3]>>
         /\ e.kind = KindOf[e.uri[2]]
         /\ e.short = <<"name", NameOf[e.uri[2]], e.short[3]>>
         /\ DOMAIN e.more \subseteq Vocabulary \ {"type", "shortName", "label"}
<1>1. CASE e.uri[2] = "concept"
  BY <1>1, PartsByScope DEF ConceptPart, Part, Uri, Short, KindOf, NameOf, Vocabulary
<1>2. CASE e.uri[2] = "property"
  BY <1>2, PartsByScope DEF FieldPart, Part, Uri, Short, KindOf, NameOf, Vocabulary
<1>3. CASE e.uri[2] = "relation"
  BY <1>3, PartsByScope DEF RelationPart, Part, Uri, Short, KindOf, NameOf, Vocabulary
<1>4. CASE e.uri[2] = "source"
  BY <1>4, PartsByScope DEF SourcePart, Part, Uri, Short, KindOf, NameOf, Vocabulary
<1>5. CASE e.uri[2] = "objectMapping"
  BY <1>5, PartsByScope DEF ObjectMappingPart, Part, Uri, Short, KindOf, NameOf, Vocabulary
<1>6. CASE e.uri[2] = "fieldMapping"
  BY <1>6, PartsByScope DEF FieldMappingPart, Part, Uri, Short, KindOf, NameOf, Vocabulary
<1>7. CASE e.uri[2] = "policy"
  BY <1>7, PartsByScope DEF PolicyPart, Part, Uri, PolicyShort, KindOf, NameOf, Vocabulary
<1> QED
  BY <1>1, <1>2, <1>3, <1>4, <1>5, <1>6, <1>7, PartsByScope

LEMMA PartsDiffer ==
  ASSUME NEW d, WellDrafted(d), Accepted(d), NEW e \in Parts(d), NEW h \in Parts(d)
  PROVE  e.uri = h.uri \/ e.short = h.short => e = h
<1> SUFFICES ASSUME e.uri = h.uri \/ e.short = h.short
             PROVE  e = h
  OBVIOUS
<1>1. e.uri[2] = h.uri[2]
  <2>1. CASE e.uri = h.uri
    BY <2>1
  <2>2. CASE e.short = h.short
    <3>1. NameOf[e.uri[2]] = NameOf[h.uri[2]]
      BY <2>2, PartsAreWhole
    <3> QED
      BY <3>1, PartsByScope DEF NameOf
  <2> QED
    BY <2>1, <2>2
<1>2. CASE e.uri[2] = "concept"
  <2>1. PICK o \in d.objects : e = ConceptPart(o)
    BY <1>2, PartsByScope
  <2>2. PICK q \in d.objects : h = ConceptPart(q)
    BY <1>1, <1>2, PartsByScope
  <2>3. <<Short("Concept", o.id), o.id>> \in ManagedNames(d) /\ <<Short("Concept", q.id), q.id>> \in ManagedNames(d)
    BY DEF ManagedNames
  <2>4. o.id = q.id
    BY <2>1, <2>2, <2>3 DEF ConceptPart, Part, Uri, Accepted
  <2> QED
    BY <2>1, <2>2, <2>4 DEF Accepted
<1>3. CASE e.uri[2] = "property"
  <2>1. PICK o \in d.objects : \E f \in o.fields : e = FieldPart(o, f)
    BY <1>3, PartsByScope
  <2>2. PICK q \in d.objects : \E f \in q.fields : h = FieldPart(q, f)
    <3>1. h.uri[2] = "property"
      BY <1>1, <1>3
    <3> QED
      BY <3>1, PartsByScope
  <2>3. PICK f \in o.fields : e = FieldPart(o, f)
    BY <2>1
  <2>4. PICK k \in q.fields : h = FieldPart(q, k)
    BY <2>2
  <2>5. <<Short("Property", f.id), f.id>> \in ManagedNames(d) /\ <<Short("Property", k.id), k.id>> \in ManagedNames(d)
    BY DEF ManagedNames, FieldsIn
  <2>6. f.id = k.id
    BY <2>3, <2>4, <2>5 DEF FieldPart, Part, Uri, Accepted
  <2> QED
    BY <2>3, <2>4, <2>6 DEF Accepted
<1>4. CASE e.uri[2] = "relation"
  <2>1. PICK o \in d.relations : e = RelationPart(o)
    BY <1>4, PartsByScope
  <2>2. PICK q \in d.relations : h = RelationPart(q)
    BY <1>1, <1>4, PartsByScope
  <2>3. <<Short("Relation", o.id), o.id>> \in ManagedNames(d) /\ <<Short("Relation", q.id), q.id>> \in ManagedNames(d)
    BY DEF ManagedNames
  <2>4. o.id = q.id
    BY <2>1, <2>2, <2>3 DEF RelationPart, Part, Uri, Accepted
  <2> QED
    BY <2>1, <2>2, <2>4 DEF Accepted
<1>5. CASE e.uri[2] = "source"
  <2>1. e = SourcePart(d)
    BY <1>5, PartsByScope
  <2>2. h.uri[2] = "source"
    BY <1>1, <1>5
  <2>3. h = SourcePart(d)
    BY <2>2, PartsByScope
  <2> QED
    BY <2>1, <2>3
<1>6. CASE e.uri[2] = "objectMapping"
  <2>1. PICK o \in d.objects : e = ObjectMappingPart(d, o)
    BY <1>6, PartsByScope
  <2>2. PICK q \in d.objects : h = ObjectMappingPart(d, q)
    BY <1>1, <1>6, PartsByScope
  <2>3. <<Short("ObjectMapping", o.id), o.id>> \in ManagedNames(d) /\ <<Short("ObjectMapping", q.id), q.id>> \in ManagedNames(d)
    BY DEF ManagedNames
  <2>4. o.id = q.id
    BY <2>1, <2>2, <2>3 DEF ObjectMappingPart, Part, Uri, Accepted
  <2> QED
    BY <2>1, <2>2, <2>4 DEF Accepted
<1>7. CASE e.uri[2] = "fieldMapping"
  <2>1. PICK f \in FieldsIn(d) : e = FieldMappingPart(d, f)
    BY <1>7, PartsByScope
  <2>2. PICK k \in FieldsIn(d) : h = FieldMappingPart(d, k)
    BY <1>1, <1>7, PartsByScope
  <2>3. <<Short("FieldMapping", f.id), f.id>> \in ManagedNames(d) /\ <<Short("FieldMapping", k.id), k.id>> \in ManagedNames(d)
    BY DEF ManagedNames
  <2>4. f.id = k.id
    BY <2>1, <2>2, <2>3 DEF FieldMappingPart, Part, Uri, Accepted
  <2> QED
    BY <2>1, <2>2, <2>4 DEF Accepted, FieldsIn
<1>8. CASE e.uri[2] = "policy"
  <2>1. PICK p \in EffectivePolicies(d) : e = PolicyPart(p)
    BY <1>8, PartsByScope
  <2>2. PICK q \in EffectivePolicies(d) : h = PolicyPart(q)
    <3>1. h.uri[2] = "policy"
      BY <1>1, <1>8
    <3> QED
      BY <3>1, PartsByScope
  <2>3. PICK o \in d.objects : o.id = p.object
    BY PoliciesInForce
  <2>4. PICK x \in d.objects : x.id = q.object
    BY PoliciesInForce
  <2>5. <<Short("Concept", o.id), o.id>> \in ManagedNames(d) /\ <<Short("Concept", x.id), x.id>> \in ManagedNames(d)
    BY DEF ManagedNames
  <2>6. p.object = q.object
    <3>1. CASE e.uri = h.uri
      BY <2>1, <2>2, <3>1 DEF PolicyPart, Part, Uri
    <3>2. CASE e.short = h.short
      <4>1. Clean[p.object] = Clean[q.object]
        BY <2>1, <2>2, <3>2 DEF PolicyPart, Part, PolicyShort
      <4> QED
        BY <2>3, <2>4, <2>5, <4>1 DEF Short, Accepted
    <3> QED
      BY <3>1, <3>2
  <2> QED
    BY <2>1, <2>2, <2>6, PoliciesInForce
<1> QED
  BY <1>2, <1>3, <1>4, <1>5, <1>6, <1>7, <1>8, PartsByScope

LEMMA TriplesSay ==
  ASSUME NEW d, NEW e \in Parts(d)
  PROVE  /\ \A t \in Triples(e) : t = <<e.uri, t[2], t[3]>> /\ t[2] \in Vocabulary
         /\ \A v : <<e.uri, "type", v>> \in Triples(e) <=>
                     v = Uri("oa", e.kind) \/ (e.kind \in DOMAIN Standard /\ v = Uri("owl", Standard[e.kind]))
         /\ \A v : <<e.uri, "shortName", v>> \in Triples(e) <=> v = e.short
         /\ \A v : <<e.uri, "label", v>> \in Triples(e) <=> v = e.short \/ v \in {Lit(l) : l \in e.labels}
         /\ \A p, v : p \notin {"type", "shortName", "label"} =>
              (<<e.uri, p, v>> \in Triples(e) <=> p \in DOMAIN e.more /\ v = e.more[p])
<1>1. DOMAIN e.more \subseteq Vocabulary \ {"type", "shortName", "label"}
  BY PartsAreWhole
<1>2. \A t : t \in Triples(e) <=>
        \/ t \in {<<e.uri, "type", Uri("oa", e.kind)>>, <<e.uri, "shortName", e.short>>, <<e.uri, "label", e.short>>}
        \/ \E l \in e.labels : t = <<e.uri, "label", Lit(l)>>
        \/ e.kind \in DOMAIN Standard /\ t = <<e.uri, "type", Uri("owl", Standard[e.kind])>>
        \/ \E p \in DOMAIN e.more : t = <<e.uri, p, e.more[p]>>
  BY DEF Triples, Element, Typed
<1>3. {"type", "shortName", "label"} \subseteq Vocabulary
  BY DEF Vocabulary
<1>4. ASSUME NEW t \in Triples(e)
      PROVE  t = <<e.uri, t[2], t[3]>> /\ t[2] \in Vocabulary
  <2>1. CASE t \in {<<e.uri, "type", Uri("oa", e.kind)>>, <<e.uri, "shortName", e.short>>, <<e.uri, "label", e.short>>}
    BY <1>3, <2>1
  <2>2. CASE \E l \in e.labels : t = <<e.uri, "label", Lit(l)>>
    BY <1>3, <2>2
  <2>3. CASE t = <<e.uri, "type", Uri("owl", Standard[e.kind])>>
    BY <1>3, <2>3
  <2>4. CASE \E p \in DOMAIN e.more : t = <<e.uri, p, e.more[p]>>
    BY <1>1, <2>4
  <2> QED
    BY <1>2, <2>1, <2>2, <2>3, <2>4
<1>5. \A v : <<e.uri, "type", v>> \in Triples(e) <=>
                     v = Uri("oa", e.kind) \/ (e.kind \in DOMAIN Standard /\ v = Uri("owl", Standard[e.kind]))
  BY <1>1, <1>2
<1>6. \A v : <<e.uri, "shortName", v>> \in Triples(e) <=> v = e.short
  BY <1>1, <1>2
<1>7. \A v : <<e.uri, "label", v>> \in Triples(e) <=> v = e.short \/ v \in {Lit(l) : l \in e.labels}
  BY <1>1, <1>2
<1>8. \A p, v : p \notin {"type", "shortName", "label"} =>
              (<<e.uri, p, v>> \in Triples(e) <=> p \in DOMAIN e.more /\ v = e.more[p])
  BY <1>1, <1>2
<1> QED
  BY <1>4, <1>5, <1>6, <1>7, <1>8

LEMMA TriplesOfElements ==
  ASSUME NEW d, WellDrafted(d), Accepted(d)
  PROVE  /\ \A t \in Written(d) : \E e \in Parts(d) : t \in Triples(e) /\ t = <<e.uri, t[2], t[3]>> /\ t[2] \in Vocabulary
         /\ \A e \in Parts(d) : \A p, v : <<e.uri, p, v>> \in Written(d) <=> <<e.uri, p, v>> \in Triples(e)
<1>1. \A t \in Written(d) : \E e \in Parts(d) : t \in Triples(e)
  BY PackageOfParts
<1>2. \A e \in Parts(d) : \A t \in Triples(e) : t \in Written(d) /\ t = <<e.uri, t[2], t[3]>> /\ t[2] \in Vocabulary
  BY PackageOfParts, TriplesSay
<1>3. \A e, h \in Parts(d) : e.uri = h.uri => e = h
  BY PartsDiffer
<1>4. ASSUME NEW e \in Parts(d), NEW p, NEW v, <<e.uri, p, v>> \in Written(d)
      PROVE  <<e.uri, p, v>> \in Triples(e)
  <2>1. PICK h \in Parts(d) : <<e.uri, p, v>> \in Triples(h)
    BY <1>1, <1>4
  <2>2. <<e.uri, p, v>> = <<h.uri, <<e.uri, p, v>>[2], <<e.uri, p, v>>[3]>>
    BY <1>2, <2>1
  <2>3. e.uri = h.uri
    BY <2>2
  <2> QED
    BY <1>3, <2>1, <2>3
<1> QED
  BY <1>1, <1>2, <1>4

LEMMA SaidIs ==
  ASSUME NEW g, NEW s, NEW p, NEW S,
         \A t \in g : t = <<t[1], t[2], t[3]>>,
         \A v : <<s, p, v>> \in g <=> v \in S
  PROVE  Said(g, s, p) = S
<1>1. ASSUME NEW v \in Said(g, s, p)
      PROVE  v \in S
  <2>1. PICK t \in g : t[1] = s /\ t[2] = p /\ t[3] = v
    BY <1>1 DEF Said
  <2> QED
    BY <2>1
<1>2. ASSUME NEW v \in S
      PROVE  v \in Said(g, s, p)
  <2>1. <<s, p, v>> \in g
    OBVIOUS
  <2> QED
    BY <2>1 DEF Said
<1> QED
  BY <1>1, <1>2

LEMMA WhatIsSaid ==
  ASSUME NEW d, WellDrafted(d), Accepted(d), NEW e \in Parts(d)
  PROVE  /\ Said(Written(d), e.uri, "shortName") = {e.short}
         /\ Said(Written(d), e.uri, "label") = {e.short} \cup {Lit(l) : l \in e.labels}
         /\ \A p : p \notin {"type", "shortName", "label"} =>
              Said(Written(d), e.uri, p) = IF p \in DOMAIN e.more THEN {e.more[p]} ELSE {}
<1> DEFINE g == Written(d)
<1>1. \A t \in g : t = <<t[1], t[2], t[3]>>
  <2> SUFFICES ASSUME NEW t \in g PROVE t = <<t[1], t[2], t[3]>>
    OBVIOUS
  <2>1. PICK e2 \in Parts(d) : t = <<e2.uri, t[2], t[3]>>
    BY TriplesOfElements
  <2> QED
    BY <2>1
<1>2. \A p, v : <<e.uri, p, v>> \in g <=> <<e.uri, p, v>> \in Triples(e)
  BY TriplesOfElements
<1> HIDE DEF g
<1>3. Said(g, e.uri, "shortName") = {e.short}
  <2>1. \A v : <<e.uri, "shortName", v>> \in g <=> v \in {e.short}
    BY <1>2, TriplesSay
  <2> QED
    BY <1>1, <2>1, SaidIs
<1>4. Said(g, e.uri, "label") = {e.short} \cup {Lit(l) : l \in e.labels}
  <2> DEFINE labels == {e.short} \cup {Lit(l) : l \in e.labels}
  <2>1. \A v : <<e.uri, "label", v>> \in g <=> v \in labels
    BY <1>2, TriplesSay
  <2> HIDE DEF labels
  <2>2. Said(g, e.uri, "label") = labels
    BY <1>1, <2>1, SaidIs
  <2> QED
    BY <2>2 DEF labels
<1>5. ASSUME NEW p, p \notin {"type", "shortName", "label"}
      PROVE  Said(g, e.uri, p) = IF p \in DOMAIN e.more THEN {e.more[p]} ELSE {}
  <2> DEFINE said == IF p \in DOMAIN e.more THEN {e.more[p]} ELSE {}
  <2>1. \A v : <<e.uri, p, v>> \in g <=> v \in said
    BY <1>2, <1>5, TriplesSay
  <2> HIDE DEF said
  <2>2. Said(g, e.uri, p) = said
    BY <1>1, <2>1, SaidIs
  <2> QED
    BY <2>2 DEF said
<1> QED
  BY <1>3, <1>4, <1>5 DEF g

LEMMA WhatIsMarked ==
  ASSUME NEW d, WellDrafted(d), Accepted(d)
  PROVE  /\ \A kind : Marked(Written(d), kind) = {e.uri : e \in {x \in Parts(d) : x.kind = kind}}
         /\ \A kind : Elements(Written(d), kind) = Marked(Written(d), kind)
         /\ \A e \in Parts(d) : e.kind \in DOMAIN Standard => Typed(e.uri, e.kind) \in Written(d)
<1>1. \A e \in Parts(d) : \A v : <<e.uri, "type", v>> \in Written(d) <=>
            v = Uri("oa", e.kind) \/ (e.kind \in DOMAIN Standard /\ v = Uri("owl", Standard[e.kind]))
  BY TriplesOfElements, TriplesSay
<1>2. \A a, b : Uri("oa", a) # Uri("owl", b) /\ (Uri("oa", a) = Uri("oa", b) => a = b)
  BY DEF Uri
<1>3. ASSUME NEW kind
      PROVE  Marked(Written(d), kind) = {e.uri : e \in {x \in Parts(d) : x.kind = kind}}
  <2>1. ASSUME NEW s \in Marked(Written(d), kind)
        PROVE  \E e \in Parts(d) : e.kind = kind /\ s = e.uri
    <3>1. PICK t \in Written(d) : t[1] = s /\ t[2] = "type" /\ t[3] = Uri("oa", kind)
      BY DEF Marked
    <3>2. PICK e \in Parts(d) : t = <<e.uri, t[2], t[3]>>
      BY TriplesOfElements
    <3>3. s = e.uri /\ <<e.uri, "type", Uri("oa", kind)>> \in Written(d)
      BY <3>1, <3>2
    <3> QED
      BY <1>1, <1>2, <3>3
  <2>2. ASSUME NEW e \in Parts(d), e.kind = kind
        PROVE  e.uri \in Marked(Written(d), kind)
    <3>1. <<e.uri, "type", Uri("oa", kind)>> \in Written(d)
      BY <1>1, <2>2
    <3> QED
      BY <3>1 DEF Marked
  <2> QED
    BY <2>1, <2>2
<1>4. \A e \in Parts(d) : e.uri[1] = "uri"
  BY PartsAreWhole
<1>5. ASSUME NEW kind
      PROVE  Elements(Written(d), kind) = Marked(Written(d), kind)
  BY <1>3, <1>4 DEF Elements
<1>6. \A e \in Parts(d) : e.kind \in DOMAIN Standard => Typed(e.uri, e.kind) \in Written(d)
  BY <1>1 DEF Typed
<1> QED
  BY <1>3, <1>5, <1>6

-------------------------------------------------------------------------------
(* How one value is read *)

LEMMA TermsDiffer ==
  /\ \A a, b : Uri(a, b)[1] = "uri" /\ Uri(a, b)[2] = a /\ Uri(a, b)[3] = b /\ Uri(a, b) # Absent
  /\ \A x : Lit(x)[1] = "lit" /\ Lit(x)[3] = x /\ Lit(x) # Absent
  /\ \A x, y : Lit(x) = Lit(y) => x = y
  /\ \A x, y, z : <<"name", x, y>> # Lit(z) /\ <<"name", x, y>> # Absent
  /\ \A a, b, c, e : Uri(a, b) = Uri(c, e) => a = c /\ b = e
  /\ Absent[1] = "none"
<1>1. \A a, b : Uri(a, b)[1] = "uri" /\ Uri(a, b)[2] = a /\ Uri(a, b)[3] = b
  BY DEF Uri
<1>2. \A x : Lit(x)[1] = "lit" /\ Lit(x)[3] = x
  BY DEF Lit
<1>3. Absent[1] = "none"
  BY DEF Absent
<1>4. \A x, y : <<"name", x, y>>[1] = "name"
  OBVIOUS
<1> QED
  BY <1>1, <1>2, <1>3, <1>4

LEMMA ReferenceIs ==
  ASSUME NEW g, NEW s, NEW p, NEW v, Said(g, s, p) = {v}, v[1] = "uri"
  PROVE  /\ Single(g, s, p) = v
         /\ \A code : SingleWrong(g, s, p, code) = {} /\ OptionalWrong(g, s, p, code) = {}
<1>1. Cardinality({v}) = 1
  BY FS_Singleton
<1>2. Only({v}) = v
  BY DEF Only
<1>3. Single(g, s, p) = v
  BY <1>1, <1>2 DEF Single
<1>4. \A code : SingleWrong(g, s, p, code) = {}
  BY <1>1 DEF SingleWrong
<1> QED
  BY <1>3, <1>4 DEF OptionalWrong

LEMMA NoReference ==
  ASSUME NEW g, NEW s, NEW p, Said(g, s, p) = {}
  PROVE  /\ Single(g, s, p) = Absent /\ Several(g, s, p) = {} /\ SeveralWrong(g, s, p) = {}
         /\ \A code : OptionalWrong(g, s, p, code) = {}
<1>1. Cardinality({}) = 0
  BY FS_EmptySet
<1> QED
  BY <1>1 DEF Single, Several, SeveralWrong, OptionalWrong

LEMMA TextIs ==
  ASSUME NEW g, NEW s, NEW p, NEW x, Said(g, s, p) = {Lit(x)}, x # EmptyText
  PROVE  /\ Required(g, s, p) = Lit(x)
         /\ \A default : Text(g, s, p, default) = Lit(x)
         /\ \A code : LiteralWrong(g, s, p, code) = {}
<1>1. Cardinality({Lit(x)}) = 1
  BY FS_Singleton
<1>2. Only({Lit(x)}) = Lit(x)
  BY DEF Only
<1>3. Literals({Lit(x)}) = {Lit(x)} /\ ~({Lit(x)} \subseteq {Lit(EmptyText)})
  BY TermsDiffer DEF Literals
<1>4. Required(g, s, p) = Lit(x)
  BY <1>1, <1>2, <1>3 DEF Required
<1>5. \A default : Text(g, s, p, default) = Lit(x)
  BY <1>1, <1>2, <1>3 DEF Text
<1>6. \A code : LiteralWrong(g, s, p, code) = {}
  BY <1>1, <1>3 DEF LiteralWrong
<1> QED
  BY <1>4, <1>5, <1>6

LEMMA NothingIsSaid ==
  ASSUME NEW g, NEW s, NEW p, Said(g, s, p) = {}
  PROVE  /\ \A default : Text(g, s, p, default) = Lit(default)
         /\ \A code : LiteralWrong(g, s, p, code) = {}
<1>1. Cardinality({}) = 0 /\ Literals({}) = {}
  BY FS_EmptySet DEF Literals
<1> QED
  BY <1>1 DEF Text, LiteralWrong

LEMMA TextsAreTexts ==
  /\ "true" # EmptyText /\ "false" # EmptyText /\ "active" # EmptyText /\ "inactive" # EmptyText
  /\ "day" # EmptyText /\ "month" # EmptyText /\ "t_minus_2" # EmptyText /\ "previous_complete_month" # EmptyText
  /\ "P_DAY" # EmptyText /\ "P_MON" # EmptyText
  BY DEF EmptyText

LEMMA NamesAreGiven ==
  ASSUME NEW d, WellDrafted(d), Accepted(d), NEW e \in Parts(d)
  PROVE  /\ ShortOf(Written(d), e.uri) = e.short
         /\ LabelsOf(Written(d), e.uri) = {e.short} \cup {Lit(l) : l \in e.labels \ {EmptyText}}
         /\ Named(Written(d), e.uri) /\ NameWrong(Written(d), e.uri) = {}
<1> DEFINE g == Written(d)
<1>1. e.short = <<"name", NameOf[e.uri[2]], e.short[3]>>
  BY PartsAreWhole
<1>2. e.short[1] = "name" /\ e.short # Absent /\ \A x : e.short # Lit(x)
  BY <1>1, TermsDiffer
<1>3. ShortOf(g, e.uri) = e.short
  <2>1. Said(g, e.uri, "shortName") = {e.short}
    BY WhatIsSaid
  <2>2. Cardinality({e.short}) = 1 /\ Only({e.short}) = e.short
    BY FS_Singleton DEF Only
  <2>3. Literals({e.short}) = {e.short}
    BY <1>2 DEF Literals
  <2> QED
    BY <2>1, <2>2, <2>3 DEF ShortOf, Required
<1>4. LabelsOf(g, e.uri) = {e.short} \cup {Lit(l) : l \in e.labels \ {EmptyText}}
  <2>1. Said(g, e.uri, "label") = {e.short} \cup {Lit(l) : l \in e.labels}
    BY WhatIsSaid
  <2>2. Literals({e.short} \cup {Lit(l) : l \in e.labels}) = {e.short} \cup {Lit(l) : l \in e.labels}
    BY <1>2, TermsDiffer DEF Literals
  <2>3. ({e.short} \cup {Lit(l) : l \in e.labels}) \ {Lit(EmptyText)} = {e.short} \cup {Lit(l) : l \in e.labels \ {EmptyText}}
    BY <1>2, TermsDiffer
  <2> QED
    BY <2>1, <2>2, <2>3 DEF LabelsOf
<1> QED
  BY <1>2, <1>3, <1>4 DEF Named, NameWrong

LEMMA PartsByKind ==
  ASSUME NEW d, NEW e \in Parts(d)
  PROVE  /\ e.kind = "Concept" => \E o \in d.objects : e = ConceptPart(o)
         /\ e.kind = "Property" => \E o \in d.objects : \E f \in o.fields : e = FieldPart(o, f)
         /\ e.kind = "Relation" => \E r \in d.relations : e = RelationPart(r)
         /\ e.kind = "DataSource" => e = SourcePart(d)
         /\ e.kind = "PhysicalMapping" => \/ \E o \in d.objects : e = ObjectMappingPart(d, o)
                                         \/ \E f \in FieldsIn(d) : e = FieldMappingPart(d, f)
         /\ e.kind = "TemporalPartitionPolicy" => \E p \in EffectivePolicies(d) : e = PolicyPart(p)
         /\ e.kind # "BusinessRule"
<1>1. /\ e.kind = KindOf[e.uri[2]]
      /\ e.uri[2] \in {"concept", "property", "relation", "source", "objectMapping", "fieldMapping", "policy"}
  BY PartsAreWhole, PartsByScope
<1>2. /\ e.kind = "Concept" => e.uri[2] = "concept"
      /\ e.kind = "Property" => e.uri[2] = "property"
      /\ e.kind = "Relation" => e.uri[2] = "relation"
      /\ e.kind = "DataSource" => e.uri[2] = "source"
      /\ e.kind = "PhysicalMapping" => e.uri[2] \in {"objectMapping", "fieldMapping"}
      /\ e.kind = "TemporalPartitionPolicy" => e.uri[2] = "policy"
      /\ e.kind # "BusinessRule"
  BY <1>1 DEF KindOf
<1> QED
  BY <1>2, PartsByScope

LEMMA PartsOfDraft ==
  ASSUME NEW d
  PROVE  /\ \A o \in d.objects : ConceptPart(o) \in Parts(d) /\ ObjectMappingPart(d, o) \in Parts(d)
         /\ \A o \in d.objects : \A f \in o.fields : FieldPart(o, f) \in Parts(d)
         /\ \A f \in FieldsIn(d) : FieldMappingPart(d, f) \in Parts(d)
         /\ \A r \in d.relations : RelationPart(r) \in Parts(d)
         /\ SourcePart(d) \in Parts(d)
         /\ \A p \in EffectivePolicies(d) : PolicyPart(p) \in Parts(d)
  BY DEF Parts

(* Which elements there are, kind by kind. *)
LEMMA ConceptsOfDraft ==
  ASSUME NEW d, WellDrafted(d), Accepted(d)
  PROVE  Elements(Written(d), "Concept") = {Uri("concept", o.id) : o \in d.objects}
<1>1. \A o : ConceptPart(o).uri = Uri("concept", o.id) /\ ConceptPart(o).kind = "Concept"
  BY DEF ConceptPart, Part
<1>2. ASSUME NEW s \in Elements(Written(d), "Concept")
      PROVE  \E o \in d.objects : s = Uri("concept", o.id)
  <2>1. PICK e \in Parts(d) : e.kind = "Concept" /\ e.uri = s
    BY <1>2, WhatIsMarked
  <2>2. PICK o \in d.objects : e = ConceptPart(o)
    BY <2>1, PartsByKind
  <2>3. e.uri = ConceptPart(o).uri
    BY <2>2
  <2> QED
    BY <1>1, <2>1, <2>3
<1>3. ASSUME NEW o \in d.objects
      PROVE  Uri("concept", o.id) \in Elements(Written(d), "Concept")
  <2>1. ConceptPart(o) \in Parts(d)
    BY <1>3, PartsOfDraft
  <2> QED
    BY <1>1, <2>1, WhatIsMarked
<1> QED
  BY <1>2, <1>3

LEMMA RelationsOfDraft ==
  ASSUME NEW d, WellDrafted(d), Accepted(d)
  PROVE  Elements(Written(d), "Relation") = {Uri("relation", r.id) : r \in d.relations}
<1>1. \A r : RelationPart(r).uri = Uri("relation", r.id) /\ RelationPart(r).kind = "Relation"
  BY DEF RelationPart, Part
<1>2. ASSUME NEW s \in Elements(Written(d), "Relation")
      PROVE  \E r \in d.relations : s = Uri("relation", r.id)
  <2>1. PICK e \in Parts(d) : e.kind = "Relation" /\ e.uri = s
    BY <1>2, WhatIsMarked
  <2>2. PICK r \in d.relations : e = RelationPart(r)
    BY <2>1, PartsByKind
  <2>3. e.uri = RelationPart(r).uri
    BY <2>2
  <2> QED
    BY <1>1, <2>1, <2>3
<1>3. ASSUME NEW r \in d.relations
      PROVE  Uri("relation", r.id) \in Elements(Written(d), "Relation")
  <2>1. RelationPart(r) \in Parts(d)
    BY <1>3, PartsOfDraft
  <2> QED
    BY <1>1, <2>1, WhatIsMarked
<1> QED
  BY <1>2, <1>3

LEMMA PoliciesOfDraft ==
  ASSUME NEW d, WellDrafted(d), Accepted(d)
  PROVE  Elements(Written(d), "TemporalPartitionPolicy") = {Uri("policy", <<p.object, p.field>>) : p \in EffectivePolicies(d)}
<1>1. \A p : PolicyPart(p).uri = Uri("policy", <<p.object, p.field>>) /\ PolicyPart(p).kind = "TemporalPartitionPolicy"
  BY DEF PolicyPart, Part
<1>2. ASSUME NEW s \in Elements(Written(d), "TemporalPartitionPolicy")
      PROVE  \E p \in EffectivePolicies(d) : s = Uri("policy", <<p.object, p.field>>)
  <2>1. PICK e \in Parts(d) : e.kind = "TemporalPartitionPolicy" /\ e.uri = s
    BY <1>2, WhatIsMarked
  <2>2. PICK p \in EffectivePolicies(d) : e = PolicyPart(p)
    BY <2>1, PartsByKind
  <2>3. e.uri = PolicyPart(p).uri
    BY <2>2
  <2> QED
    BY <1>1, <2>1, <2>3
<1>3. ASSUME NEW p \in EffectivePolicies(d)
      PROVE  Uri("policy", <<p.object, p.field>>) \in Elements(Written(d), "TemporalPartitionPolicy")
  <2>1. PolicyPart(p) \in Parts(d)
    BY <1>3, PartsOfDraft
  <2> QED
    BY <1>1, <2>1, WhatIsMarked
<1> QED
  BY <1>2, <1>3

LEMMA PropertiesOfDraft ==
  ASSUME NEW d, WellDrafted(d), Accepted(d)
  PROVE  Elements(Written(d), "Property") = {Uri("property", f.id) : f \in FieldsIn(d)}
<1>1. \A o, f : FieldPart(o, f).uri = Uri("property", f.id) /\ FieldPart(o, f).kind = "Property"
  BY DEF FieldPart, Part
<1>2. ASSUME NEW s \in Elements(Written(d), "Property")
      PROVE  \E f \in FieldsIn(d) : s = Uri("property", f.id)
  <2>1. PICK e \in Parts(d) : e.kind = "Property" /\ e.uri = s
    BY <1>2, WhatIsMarked
  <2>2. PICK o \in d.objects : \E f \in o.fields : e = FieldPart(o, f)
    BY <2>1, PartsByKind
  <2>3. PICK f \in o.fields : e = FieldPart(o, f)
    BY <2>2
  <2>4. e.uri = FieldPart(o, f).uri /\ f \in FieldsIn(d)
    BY <2>3 DEF FieldsIn
  <2> QED
    BY <1>1, <2>1, <2>4
<1>3. ASSUME NEW f \in FieldsIn(d)
      PROVE  Uri("property", f.id) \in Elements(Written(d), "Property")
  <2>1. PICK o \in d.objects : f \in o.fields
    BY <1>3 DEF FieldsIn
  <2>2. FieldPart(o, f) \in Parts(d)
    BY <2>1, PartsOfDraft
  <2> QED
    BY <1>1, <2>2, WhatIsMarked
<1> QED
  BY <1>2, <1>3

LEMMA SourceOfDraft ==
  ASSUME NEW d, WellDrafted(d), Accepted(d)
  PROVE  Elements(Written(d), "DataSource") = {Uri("source", d.source.id)}
<1>1. SourcePart(d).uri = Uri("source", d.source.id) /\ SourcePart(d).kind = "DataSource"
  BY DEF SourcePart, Part
<1>2. SourcePart(d) \in Parts(d)
  BY PartsOfDraft
<1>3. \A e \in Parts(d) : e.kind = "DataSource" => e = SourcePart(d)
  BY PartsByKind
<1> QED
  BY <1>1, <1>2, <1>3, WhatIsMarked

LEMMA MappingsOfDraft ==
  ASSUME NEW d, WellDrafted(d), Accepted(d)
  PROVE  Elements(Written(d), "PhysicalMapping") =
           {Uri("objectMapping", o.id) : o \in d.objects} \cup {Uri("fieldMapping", f.id) : f \in FieldsIn(d)}
<1>1. \A o : ObjectMappingPart(d, o).uri = Uri("objectMapping", o.id) /\ ObjectMappingPart(d, o).kind = "PhysicalMapping"
  BY DEF ObjectMappingPart, Part
<1>2. \A f : FieldMappingPart(d, f).uri = Uri("fieldMapping", f.id) /\ FieldMappingPart(d, f).kind = "PhysicalMapping"
  BY DEF FieldMappingPart, Part
<1>3. ASSUME NEW s \in Elements(Written(d), "PhysicalMapping")
      PROVE  (\E o \in d.objects : s = Uri("objectMapping", o.id)) \/ (\E f \in FieldsIn(d) : s = Uri("fieldMapping", f.id))
  <2>1. PICK e \in Parts(d) : e.kind = "PhysicalMapping" /\ e.uri = s
    BY <1>3, WhatIsMarked
  <2>2. CASE \E o \in d.objects : e = ObjectMappingPart(d, o)
    <3>1. PICK o \in d.objects : e = ObjectMappingPart(d, o)
      BY <2>2
    <3>2. e.uri = ObjectMappingPart(d, o).uri
      BY <3>1
    <3> QED
      BY <1>1, <2>1, <3>2
  <2>3. CASE \E f \in FieldsIn(d) : e = FieldMappingPart(d, f)
    <3>1. PICK f \in FieldsIn(d) : e = FieldMappingPart(d, f)
      BY <2>3
    <3>2. e.uri = FieldMappingPart(d, f).uri
      BY <3>1
    <3> QED
      BY <1>2, <2>1, <3>2
  <2> QED
    BY <2>1, <2>2, <2>3, PartsByKind
<1>4. ASSUME NEW o \in d.objects
      PROVE  Uri("objectMapping", o.id) \in Elements(Written(d), "PhysicalMapping")
  <2>1. ObjectMappingPart(d, o) \in Parts(d)
    BY <1>4, PartsOfDraft
  <2> QED
    BY <1>1, <2>1, WhatIsMarked
<1>5. ASSUME NEW f \in FieldsIn(d)
      PROVE  Uri("fieldMapping", f.id) \in Elements(Written(d), "PhysicalMapping")
  <2>1. FieldMappingPart(d, f) \in Parts(d)
    BY <1>5, PartsOfDraft
  <2> QED
    BY <1>2, <2>1, WhatIsMarked
<1> QED
  BY <1>3, <1>4, <1>5

LEMMA NoRulesInDraft ==
  ASSUME NEW d, WellDrafted(d), Accepted(d)
  PROVE  Elements(Written(d), "BusinessRule") = {}
  BY WhatIsMarked, PartsByKind

-------------------------------------------------------------------------------
(* What a package says, element by element *)

LEMMA PartsAreOfTerms ==
  ASSUME NEW d, NEW e \in Parts(d), NEW p \in DOMAIN e.more
  PROVE  e.more[p][1] = "uri" \/ \E x : e.more[p] = Lit(x)
<1>1. CASE e.uri[2] = "concept"
  <2>1. PICK o \in d.objects : e = ConceptPart(o)
    BY <1>1, PartsByScope
  <2>2. e.more = [x \in {} |-> Absent]
    BY <2>1 DEF ConceptPart, Part
  <2> QED
    BY <2>2
<1>2. CASE e.uri[2] = "property"
  <2>1. PICK o \in d.objects : \E f \in o.fields : e = FieldPart(o, f)
    BY <1>2, PartsByScope
  <2>2. PICK f \in o.fields : e = FieldPart(o, f)
    BY <2>1
  <2>3. e.more = [domain |-> Uri("concept", o.id), range |-> Uri("xsd", f.type)]
    BY <2>2 DEF FieldPart, Part
  <2> QED
    BY <2>3, TermsDiffer
<1>3. CASE e.uri[2] = "relation"
  <2>1. PICK r \in d.relations : e = RelationPart(r)
    BY <1>3, PartsByScope
  <2>2. e.more = [domain |-> Uri("concept", r.from), range |-> Uri("concept", r.to),
        sourceProperty |-> Uri("property", r.fromField), targetProperty |-> Uri("property", r.toField),
        status |-> Lit(IF r.active THEN "active" ELSE "inactive"), confirmed |-> Bool(Effective(r))]
    BY <2>1 DEF RelationPart, Part
  <2>3. \E x : Bool(Effective(r)) = Lit(x)
    BY DEF Bool
  <2> QED
    BY <2>2, <2>3, TermsDiffer
<1>4. CASE e.uri[2] = "source"
  <2>1. e.more = [platformType |-> Lit(d.source.platform)]
    BY <1>4, PartsByScope DEF SourcePart, Part
  <2> QED
    BY <2>1, TermsDiffer
<1>5. CASE e.uri[2] = "objectMapping"
  <2>1. PICK o \in d.objects : e = ObjectMappingPart(d, o)
    BY <1>5, PartsByScope
  <2>2. e.more = [semanticElement |-> Uri("concept", o.id), dataSource |-> Uri("source", d.source.id),
        objectName |-> Lit(o.physical), enabled |-> Bool(o.active)]
    BY <2>1 DEF ObjectMappingPart, Part
  <2>3. \E x : Bool(o.active) = Lit(x)
    BY DEF Bool
  <2> QED
    BY <2>2, <2>3, TermsDiffer
<1>6. CASE e.uri[2] = "fieldMapping"
  <2>1. PICK f \in FieldsIn(d) : e = FieldMappingPart(d, f)
    BY <1>6, PartsByScope
  <2>2. e.more = [semanticElement |-> Uri("property", f.id), dataSource |-> Uri("source", d.source.id),
        fieldName |-> Lit(f.physical), enabled |-> Bool(f.active)]
    BY <2>1 DEF FieldMappingPart, Part
  <2>3. \E x : Bool(f.active) = Lit(x)
    BY DEF Bool
  <2> QED
    BY <2>2, <2>3, TermsDiffer
<1>7. CASE e.uri[2] = "policy"
  <2>1. PICK q \in EffectivePolicies(d) : e = PolicyPart(q)
    BY <1>7, PartsByScope
  <2>2. e.more = [appliesTo |-> Uri("concept", q.object), partitionProperty |-> Uri("property", q.field),
        partitionGrain |-> Lit(q.grain), defaultStrategy |-> Lit(q.strategy), allowQueryOverride |-> Bool(q.override),
        status |-> Lit(IF q.active THEN "active" ELSE "inactive")]
    BY <2>1 DEF PolicyPart, Part
  <2>3. \E x : Bool(q.override) = Lit(x)
    BY DEF Bool
  <2> QED
    BY <2>2, <2>3, TermsDiffer
<1> QED
  BY <1>1, <1>2, <1>3, <1>4, <1>5, <1>6, <1>7, PartsByScope

(* What is read of one predicate of an element. *)
LEMMA PartRefers ==
  ASSUME NEW d, WellDrafted(d), Accepted(d), NEW e \in Parts(d), NEW p \in DOMAIN e.more, e.more[p][1] = "uri"
  PROVE  /\ Said(Written(d), e.uri, p) = {e.more[p]}
         /\ Single(Written(d), e.uri, p) = e.more[p]
         /\ \A code : SingleWrong(Written(d), e.uri, p, code) = {} /\ OptionalWrong(Written(d), e.uri, p, code) = {}
<1>1. p \notin {"type", "shortName", "label"}
  BY PartsAreWhole
<1>2. Said(Written(d), e.uri, p) = {e.more[p]}
  BY <1>1, WhatIsSaid
<1> QED
  BY <1>2, ReferenceIs

LEMMA PartSays ==
  ASSUME NEW d, WellDrafted(d), Accepted(d), NEW e \in Parts(d), NEW p \in DOMAIN e.more,
         NEW x, e.more[p] = Lit(x), x # EmptyText
  PROVE  /\ Said(Written(d), e.uri, p) = {Lit(x)}
         /\ Required(Written(d), e.uri, p) = Lit(x)
         /\ \A default : Text(Written(d), e.uri, p, default) = Lit(x)
         /\ \A code : LiteralWrong(Written(d), e.uri, p, code) = {}
<1>1. p \notin {"type", "shortName", "label"}
  BY PartsAreWhole
<1>2. Said(Written(d), e.uri, p) = {Lit(x)}
  BY <1>1, WhatIsSaid
<1> QED
  BY <1>2, TextIs

LEMMA PartIsSilent ==
  ASSUME NEW d, WellDrafted(d), Accepted(d), NEW e \in Parts(d), NEW p, p \notin DOMAIN e.more,
         p \notin {"type", "shortName", "label"}
  PROVE  /\ Said(Written(d), e.uri, p) = {}
         /\ Single(Written(d), e.uri, p) = Absent /\ Several(Written(d), e.uri, p) = {}
         /\ SeveralWrong(Written(d), e.uri, p) = {}
         /\ \A default : Text(Written(d), e.uri, p, default) = Lit(default)
         /\ \A code : LiteralWrong(Written(d), e.uri, p, code) = {}
<1>1. Said(Written(d), e.uri, p) = {}
  BY WhatIsSaid
<1> QED
  BY <1>1, NoReference, NothingIsSaid

-------------------------------------------------------------------------------
(* A package that is built is well written *)

LEMMA PartsAreFinite ==
  ASSUME NEW d, WellDrafted(d), Accepted(d)
  PROVE  IsFiniteSet(Parts(d)) /\ \A e \in Parts(d) : IsFiniteSet(e.labels)
<1>1. IsFiniteSet(FieldsIn(d))
  <2> DEFINE f == [o \in d.objects |-> o.fields]
             S == {f[o] : o \in DOMAIN f}
  <2>1. IsFiniteSet(S)
    BY ImagesAreFinite DEF WellDrafted
  <2>2. \A T \in S : IsFiniteSet(T)
    BY DEF WellDrafted
  <2>3. FieldsIn(d) = UNION S
    BY DEF FieldsIn
  <2> HIDE DEF S
  <2> QED
    BY <2>1, <2>2, <2>3, FS_UNION
<1>2. IsFiniteSet(EffectivePolicies(d))
  <2> DEFINE ids == {o.id : o \in d.objects}
             h == [i \in ids |-> CHOOSE p \in EffectivePolicies(d) : p.object = i]
  <2>1. IsFiniteSet(ids)
    <3> DEFINE k == [o \in d.objects |-> o.id]
    <3>1. IsFiniteSet({k[o] : o \in DOMAIN k})
      BY ImagesAreFinite DEF WellDrafted
    <3>2. {k[o] : o \in DOMAIN k} = ids
      OBVIOUS
    <3> QED
      BY <3>1, <3>2
  <2>2. ASSUME NEW p \in EffectivePolicies(d)
        PROVE  p.object \in ids /\ p = h[p.object]
    <3>1. p.object \in ids
      BY PoliciesInForce
    <3>2. \A q \in EffectivePolicies(d) : q.object = p.object => q = p
      BY PoliciesInForce
    <3> QED
      BY <3>1, <3>2
  <2>3. IsFiniteSet({h[i] : i \in DOMAIN h})
    BY <2>1, ImagesAreFinite
  <2>4. EffectivePolicies(d) \subseteq {h[i] : i \in DOMAIN h}
    <3>1. DOMAIN h = ids
      OBVIOUS
    <3> HIDE DEF h, ids
    <3> QED
      BY <2>2, <3>1
  <2> HIDE DEF h
  <2> QED
    BY <2>3, <2>4, FS_Subset
<1>3. IsFiniteSet({ConceptPart(o) : o \in d.objects}) /\ IsFiniteSet({ObjectMappingPart(d, o) : o \in d.objects})
  <2> DEFINE f == [o \in d.objects |-> ConceptPart(o)]
             h == [o \in d.objects |-> ObjectMappingPart(d, o)]
  <2>1. IsFiniteSet({f[o] : o \in DOMAIN f}) /\ IsFiniteSet({h[o] : o \in DOMAIN h})
    BY ImagesAreFinite DEF WellDrafted
  <2>2. {f[o] : o \in DOMAIN f} = {ConceptPart(o) : o \in d.objects}
    OBVIOUS
  <2>3. {h[o] : o \in DOMAIN h} = {ObjectMappingPart(d, o) : o \in d.objects}
    OBVIOUS
  <2> HIDE DEF f, h
  <2> QED
    BY <2>1, <2>2, <2>3
<1>4. IsFiniteSet({FieldMappingPart(d, f) : f \in FieldsIn(d)})
  <2> DEFINE h == [f \in FieldsIn(d) |-> FieldMappingPart(d, f)]
  <2>1. IsFiniteSet({h[f] : f \in DOMAIN h})
    BY <1>1, ImagesAreFinite
  <2>2. {h[f] : f \in DOMAIN h} = {FieldMappingPart(d, f) : f \in FieldsIn(d)}
    OBVIOUS
  <2> HIDE DEF h
  <2> QED
    BY <2>1, <2>2
<1>5. IsFiniteSet({RelationPart(r) : r \in d.relations})
  <2> DEFINE h == [r \in d.relations |-> RelationPart(r)]
  <2>1. IsFiniteSet({h[f] : f \in DOMAIN h})
    BY ImagesAreFinite DEF WellDrafted
  <2>2. {h[f] : f \in DOMAIN h} = {RelationPart(f) : f \in d.relations}
    OBVIOUS
  <2> HIDE DEF h
  <2> QED
    BY <2>1, <2>2
<1>6. IsFiniteSet({PolicyPart(p) : p \in EffectivePolicies(d)})
  <2> DEFINE h == [p \in EffectivePolicies(d) |-> PolicyPart(p)]
  <2>1. IsFiniteSet({h[f] : f \in DOMAIN h})
    BY <1>2, ImagesAreFinite
  <2>2. {h[f] : f \in DOMAIN h} = {PolicyPart(f) : f \in EffectivePolicies(d)}
    OBVIOUS
  <2> HIDE DEF h
  <2> QED
    BY <2>1, <2>2
<1>7. IsFiniteSet(UNION {{FieldPart(o, f) : f \in o.fields} : o \in d.objects})
  <2> DEFINE h == [o \in d.objects |-> {FieldPart(o, f) : f \in o.fields}]
             S == {h[o] : o \in DOMAIN h}
  <2>1. IsFiniteSet(S)
    BY ImagesAreFinite DEF WellDrafted
  <2>2. ASSUME NEW o \in d.objects
        PROVE  IsFiniteSet({FieldPart(o, f) : f \in o.fields})
    <3> DEFINE k == [f \in o.fields |-> FieldPart(o, f)]
    <3>1. IsFiniteSet({k[f] : f \in DOMAIN k})
      BY ImagesAreFinite DEF WellDrafted
    <3>2. {k[f] : f \in DOMAIN k} = {FieldPart(o, f) : f \in o.fields}
      OBVIOUS
    <3> HIDE DEF k
    <3> QED
      BY <3>1, <3>2
  <2>3. UNION {{FieldPart(o, f) : f \in o.fields} : o \in d.objects} = UNION S
    <3>1. \A o \in d.objects : h[o] = {FieldPart(o, f) : f \in o.fields}
      OBVIOUS
    <3>2. DOMAIN h = d.objects
      OBVIOUS
    <3> DEFINE parts(o) == {FieldPart(o, f) : f \in o.fields}
    <3>3. \A o \in d.objects : h[o] = parts(o)
      BY <3>1
    <3> HIDE DEF h, parts
    <3>4. {h[o] : o \in d.objects} = {parts(o) : o \in d.objects}
      BY <3>3
    <3> QED
      BY <3>2, <3>4 DEF parts
  <2>4. \A T \in S : IsFiniteSet(T)
    BY <2>2
  <2> HIDE DEF S
  <2> QED
    BY <2>1, <2>3, <2>4, FS_UNION
<1>8. IsFiniteSet(Parts(d))
  <2>1. IsFiniteSet({SourcePart(d)})
    BY FS_Singleton
  <2> QED
    BY <1>3, <1>4, <1>5, <1>6, <1>7, <2>1, FS_Union DEF Parts
<1>9. ASSUME NEW e \in Parts(d)
      PROVE  IsFiniteSet(e.labels)
  <2>1. \A x : IsFiniteSet({x}) /\ IsFiniteSet({})
    BY FS_Singleton, FS_EmptySet
  <2>2. CASE e.uri[2] = "concept"
    <3>1. PICK o \in d.objects : e = ConceptPart(o)
      BY <2>2, PartsByScope
    <3>2. e.labels = {o.physical}
      BY <3>1 DEF ConceptPart, Part
    <3> QED
      BY <2>1, <3>2
  <2>3. CASE e.uri[2] = "property"
    <3>1. PICK o \in d.objects : \E f \in o.fields : e = FieldPart(o, f)
      BY <2>3, PartsByScope
    <3>2. PICK f \in o.fields : e = FieldPart(o, f)
      BY <3>1
    <3>3. e.labels = {f.physical} \cup f.aliases
      BY <3>2 DEF FieldPart, Part
    <3>4. IsFiniteSet(f.aliases)
      BY <3>1, <3>2 DEF FieldsIn, WellDrafted
    <3> QED
      BY <2>1, <3>3, <3>4, FS_Union
  <2>4. CASE e.uri[2] = "relation"
    <3>1. PICK r \in d.relations : e = RelationPart(r)
      BY <2>4, PartsByScope
    <3>2. e.labels = {}
      BY <3>1 DEF RelationPart, Part
    <3> QED
      BY <2>1, <3>2
  <2>5. CASE e.uri[2] = "source"
    <3>1. e.labels = {}
      BY <2>5, PartsByScope DEF SourcePart, Part
    <3> QED
      BY <2>1, <3>1
  <2>6. CASE e.uri[2] = "objectMapping"
    <3>1. PICK r \in d.objects : e = ObjectMappingPart(d, r)
      BY <2>6, PartsByScope
    <3>2. e.labels = {}
      BY <3>1 DEF ObjectMappingPart, Part
    <3> QED
      BY <2>1, <3>2
  <2>7. CASE e.uri[2] = "fieldMapping"
    <3>1. PICK r \in FieldsIn(d) : e = FieldMappingPart(d, r)
      BY <2>7, PartsByScope
    <3>2. e.labels = {}
      BY <3>1 DEF FieldMappingPart, Part
    <3> QED
      BY <2>1, <3>2
  <2>8. CASE e.uri[2] = "policy"
    <3>1. PICK r \in EffectivePolicies(d) : e = PolicyPart(r)
      BY <2>8, PartsByScope
    <3>2. e.labels = {}
      BY <3>1 DEF PolicyPart, Part
    <3> QED
      BY <2>1, <3>2
  <2> QED
    BY <2>2, <2>3, <2>4, <2>5, <2>6, <2>7, <2>8, PartsByScope
<1> QED
  BY <1>8, <1>9

LEMMA WrittenIsWell ==
  ASSUME NEW d, WellDrafted(d), Accepted(d)
  PROVE  WellWritten(Written(d))
<1>1. ASSUME NEW e \in Parts(d)
      PROVE  IsFiniteSet(Triples(e))
  <2>1. IsFiniteSet(e.labels)
    BY PartsAreFinite
  <2>2. IsFiniteSet({<<e.uri, "label", Lit(l)>> : l \in e.labels})
    <3> DEFINE h == [l \in e.labels |-> <<e.uri, "label", Lit(l)>>]
    <3>1. IsFiniteSet({h[l] : l \in DOMAIN h})
      BY <2>1, ImagesAreFinite
    <3>2. {h[l] : l \in DOMAIN h} = {<<e.uri, "label", Lit(l)>> : l \in e.labels}
      OBVIOUS
    <3> HIDE DEF h
    <3> QED
      BY <3>1, <3>2
  <2>3. IsFiniteSet(Vocabulary)
    <3>1. \A x : IsFiniteSet({x})
      BY FS_Singleton
    <3>2. Vocabulary = {"type", "shortName", "label", "domain"} \cup {"range", "sourceProperty", "targetProperty"}
            \cup {"status", "confirmed", "semanticElement"} \cup {"dataSource", "objectName", "fieldName"}
            \cup {"enabled", "platformType", "appliesTo"}
            \cup {"partitionProperty", "partitionGrain", "defaultStrategy"} \cup {"allowQueryOverride"}
      BY DEF Vocabulary
    <3>3. \A a, b, c, x : IsFiniteSet({a, b, c, x}) /\ IsFiniteSet({a, b, c})
      <4> TAKE a, b, c, x
      <4>1. IsFiniteSet({a} \cup {b})
        BY <3>1, FS_Union
      <4>2. IsFiniteSet(({a} \cup {b}) \cup {c})
        BY <3>1, <4>1, FS_Union
      <4>3. IsFiniteSet((({a} \cup {b}) \cup {c}) \cup {x})
        BY <3>1, <4>2, FS_Union
      <4>4. {a, b, c, x} = (({a} \cup {b}) \cup {c}) \cup {x} /\ {a, b, c} = ({a} \cup {b}) \cup {c}
        OBVIOUS
      <4> QED
        BY <4>2, <4>3, <4>4
    <3> QED
      BY <3>1, <3>2, <3>3, FS_Union
  <2>4. IsFiniteSet(DOMAIN e.more)
    BY <2>3, PartsAreWhole, FS_Subset
  <2>5. IsFiniteSet({<<e.uri, p, e.more[p]>> : p \in DOMAIN e.more})
    <3> DEFINE h == [p \in DOMAIN e.more |-> <<e.uri, p, e.more[p]>>]
    <3>1. IsFiniteSet({h[l] : l \in DOMAIN h})
      BY <2>4, ImagesAreFinite
    <3>2. {h[l] : l \in DOMAIN h} = {<<e.uri, l, e.more[l]>> : l \in DOMAIN e.more}
      OBVIOUS
    <3> HIDE DEF h
    <3> QED
      BY <3>1, <3>2
  <2>6. \A x : IsFiniteSet({x}) /\ IsFiniteSet({})
    BY FS_Singleton, FS_EmptySet
  <2>7. \A x, y, z : IsFiniteSet({x, y, z})
    <3> TAKE x, y, z
    <3>1. IsFiniteSet({x} \cup {y})
      BY <2>6, FS_Union
    <3>2. IsFiniteSet(({x} \cup {y}) \cup {z})
      BY <2>6, <3>1, FS_Union
    <3>3. {x, y, z} = ({x} \cup {y}) \cup {z}
      OBVIOUS
    <3> QED
      BY <3>2, <3>3
  <2>8. IsFiniteSet(Element(e.uri, e.kind, e.short, e.labels))
    BY <2>2, <2>7, FS_Union DEF Element
  <2> QED
    BY <2>5, <2>6, <2>8, FS_Union DEF Triples
<1>2. IsFiniteSet(Written(d))
  <2> DEFINE h == [e \in Parts(d) |-> Triples(e)]
             S == {h[e] : e \in DOMAIN h}
  <2>1. IsFiniteSet(S)
    BY PartsAreFinite, ImagesAreFinite
  <2>2. \A T \in S : IsFiniteSet(T)
    BY <1>1
  <2>3. Written(d) = UNION S
    BY PackageOfParts
  <2> HIDE DEF S
  <2> QED
    BY <2>1, <2>2, <2>3, FS_UNION
<1>3. ASSUME NEW t \in Written(d)
      PROVE  /\ t[3][1] = "lit" => t[3] = Lit(t[3][3])
             /\ t[3][1] = "name" => t[3][2] # "AutomaticTemporal"
             /\ t[2] # "argument"
  <2>1. PICK e \in Parts(d) : t \in Triples(e) /\ t = <<e.uri, t[2], t[3]>> /\ t[2] \in Vocabulary
    BY TriplesOfElements
  <2>2. t[2] # "argument"
    BY <2>1 DEF Vocabulary
  <2>3. CASE t[2] = "type"
    <3>1. t[3][1] = "uri"
      BY <2>1, <2>3, TriplesSay, TermsDiffer
    <3> QED
      BY <2>2, <3>1
  <2>4. t[3] = e.short => t[3][1] = "name" /\ t[3][2] # "AutomaticTemporal"
    <3>1. e.short = <<"name", NameOf[e.uri[2]], e.short[3]>> /\ e.uri[2] \in DOMAIN NameOf
      BY PartsAreWhole, PartsByScope DEF NameOf
    <3>2. \A x \in DOMAIN NameOf : NameOf[x] # "AutomaticTemporal"
      BY DEF NameOf
    <3>3. e.short[1] = "name" /\ e.short[2] = NameOf[e.uri[2]]
      BY <3>1
    <3> QED
      BY <3>1, <3>2, <3>3
  <2>5. CASE t[2] = "shortName"
    <3>1. t[3] = e.short
      BY <2>1, <2>5, TriplesSay
    <3> QED
      BY <2>2, <2>4, <3>1
  <2>6. \A x : Lit(x)[1] = "lit" /\ Lit(x) = Lit(Lit(x)[3])
    BY TermsDiffer
  <2>7. CASE t[2] = "label"
    <3>1. t[3] = e.short \/ \E l \in e.labels : t[3] = Lit(l)
      BY <2>1, <2>7, TriplesSay
    <3> QED
      BY <2>2, <2>4, <2>6, <3>1
  <2>8. CASE t[2] \notin {"type", "shortName", "label"}
    <3>1. t[2] \in DOMAIN e.more /\ t[3] = e.more[t[2]]
      BY <2>1, <2>8, TriplesSay
    <3>2. t[3][1] = "uri" \/ \E x : t[3] = Lit(x)
      BY <3>1, PartsAreOfTerms
    <3> QED
      BY <2>2, <2>6, <3>2
  <2> QED
    BY <2>3, <2>5, <2>7, <2>8
<1> QED
  BY <1>2, <1>3 DEF WellWritten

-------------------------------------------------------------------------------
(* What is read of each element of a package *)

LEMMA ConceptIs ==
  ASSUME NEW d, WellDrafted(d), Accepted(d), NEW o \in d.objects
  PROVE  LET g == Written(d)
             s == Uri("concept", o.id)
         IN /\ Named(g, s) /\ NameWrong(g, s) = {}
            /\ ShortOf(g, s) = Short("Concept", o.id) /\ LabelsOf(g, s) = {Short("Concept", o.id), Lit(o.physical)}
            /\ Said(g, s, "subClassOf") = {} /\ Several(g, s, "subClassOf") = {} /\ SeveralWrong(g, s, "subClassOf") = {}
            /\ Typed(s, "Concept") \in g
<1> DEFINE e == ConceptPart(o)
<1>1. e.uri = Uri("concept", o.id) /\ e.kind = "Concept" /\ e.short = Short("Concept", o.id) /\ e.labels = {o.physical}
      /\ DOMAIN e.more = {}
  BY DEF ConceptPart, Part
<1>2. e \in Parts(d)
  BY PartsOfDraft
<1> HIDE DEF e
<1>3. o.physical # EmptyText
  BY DEF WellDrafted
<1>4. {e.short} \cup {Lit(l) : l \in e.labels \ {EmptyText}} = {Short("Concept", o.id), Lit(o.physical)}
  BY <1>1, <1>3
<1>5. Typed(e.uri, e.kind) \in Written(d)
  BY <1>1, <1>2, WhatIsMarked DEF Standard
<1>6. "subClassOf" \notin DOMAIN e.more /\ "subClassOf" \notin {"type", "shortName", "label"}
  BY <1>1
<1>7. Said(Written(d), e.uri, "subClassOf") = {} /\ Several(Written(d), e.uri, "subClassOf") = {}
      /\ SeveralWrong(Written(d), e.uri, "subClassOf") = {}
  BY <1>2, <1>6, PartIsSilent
<1>8. /\ ShortOf(Written(d), e.uri) = e.short
      /\ LabelsOf(Written(d), e.uri) = {e.short} \cup {Lit(l) : l \in e.labels \ {EmptyText}}
      /\ Named(Written(d), e.uri) /\ NameWrong(Written(d), e.uri) = {}
  BY <1>2, NamesAreGiven
<1> QED
  BY <1>1, <1>4, <1>5, <1>7, <1>8

LEMMA FieldIs ==
  ASSUME NEW d, WellDrafted(d), Accepted(d), NEW o \in d.objects, NEW f \in o.fields
  PROVE  LET g == Written(d)
             s == Uri("property", f.id)
         IN /\ Named(g, s) /\ NameWrong(g, s) = {}
            /\ ShortOf(g, s) = Short("Property", f.id)
            /\ LabelsOf(g, s) = {Short("Property", f.id), Lit(f.physical)} \cup {Lit(a) : a \in f.aliases \ {EmptyText}}
            /\ Single(g, s, "domain") = Uri("concept", o.id) /\ Single(g, s, "range") = Uri("xsd", f.type)
            /\ Said(g, s, "range") = {Uri("xsd", f.type)} /\ Said(g, s, "domain") = {Uri("concept", o.id)}
            /\ \A code : SingleWrong(g, s, "domain", code) = {} /\ SingleWrong(g, s, "range", code) = {}
            /\ Typed(s, "Property") \in g
<1> DEFINE e == FieldPart(o, f)
<1>1. e.uri = Uri("property", f.id) /\ e.kind = "Property" /\ e.short = Short("Property", f.id)
      /\ e.labels = {f.physical} \cup f.aliases
  BY DEF FieldPart, Part
<1>2. DOMAIN e.more = {"domain", "range"} /\ e.more["domain"] = Uri("concept", o.id) /\ e.more["range"] = Uri("xsd", f.type)
  BY DEF FieldPart, Part
<1>3. e \in Parts(d)
  BY PartsOfDraft
<1> HIDE DEF e
<1>4. f.physical # EmptyText
  BY DEF WellDrafted, FieldsIn
<1>5. {e.short} \cup {Lit(l) : l \in e.labels \ {EmptyText}}
        = {Short("Property", f.id), Lit(f.physical)} \cup {Lit(a) : a \in f.aliases \ {EmptyText}}
  BY <1>1, <1>4
<1>6. Typed(e.uri, e.kind) \in Written(d)
  BY <1>1, <1>3, WhatIsMarked DEF Standard
<1>7. ASSUME NEW p \in {"domain", "range"}
      PROVE  /\ Said(Written(d), e.uri, p) = {e.more[p]}
             /\ Single(Written(d), e.uri, p) = e.more[p]
             /\ \A code : SingleWrong(Written(d), e.uri, p, code) = {}
  <2>1. p \in DOMAIN e.more /\ e.more[p][1] = "uri"
    BY <1>2, TermsDiffer
  <2>2. Said(Written(d), e.uri, p) = {e.more[p]}
    BY <1>3, <2>1, PartRefers
  <2>3. Single(Written(d), e.uri, p) = e.more[p]
    BY <1>3, <2>1, PartRefers
  <2>4. \A code : SingleWrong(Written(d), e.uri, p, code) = {}
    BY <1>3, <2>1, PartRefers
  <2> QED
    BY <2>2, <2>3, <2>4
<1>8. /\ Said(Written(d), e.uri, "domain") = {e.more["domain"]}
      /\ Single(Written(d), e.uri, "domain") = e.more["domain"]
      /\ \A code : SingleWrong(Written(d), e.uri, "domain", code) = {}
      /\ Said(Written(d), e.uri, "range") = {e.more["range"]}
      /\ Single(Written(d), e.uri, "range") = e.more["range"]
      /\ \A code : SingleWrong(Written(d), e.uri, "range", code) = {}
  BY <1>7
<1>9. /\ ShortOf(Written(d), e.uri) = e.short
      /\ LabelsOf(Written(d), e.uri) = {e.short} \cup {Lit(l) : l \in e.labels \ {EmptyText}}
      /\ Named(Written(d), e.uri) /\ NameWrong(Written(d), e.uri) = {}
  BY <1>3, NamesAreGiven
<1> QED
  BY <1>1, <1>2, <1>5, <1>6, <1>8, <1>9

LEMMA RelationIs ==
  ASSUME NEW d, WellDrafted(d), Accepted(d), NEW r \in d.relations
  PROVE  LET g == Written(d)
             s == Uri("relation", r.id)
         IN /\ Named(g, s) /\ NameWrong(g, s) = {}
            /\ ShortOf(g, s) = Short("Relation", r.id)
            /\ Single(g, s, "domain") = Uri("concept", r.from) /\ Single(g, s, "range") = Uri("concept", r.to)
            /\ Single(g, s, "sourceProperty") = Uri("property", r.fromField)
            /\ Single(g, s, "targetProperty") = Uri("property", r.toField)
            /\ Text(g, s, "status", "active") = Lit(IF r.active THEN "active" ELSE "inactive")
            /\ Text(g, s, "confirmed", "false") = Bool(Effective(r))
            /\ Text(g, s, "priority", "0") = Lit("0")
            /\ \A code : /\ SingleWrong(g, s, "domain", code) = {} /\ SingleWrong(g, s, "range", code) = {}
                         /\ OptionalWrong(g, s, "sourceProperty", code) = {} /\ OptionalWrong(g, s, "targetProperty", code) = {}
                         /\ LiteralWrong(g, s, "status", code) = {} /\ LiteralWrong(g, s, "cardinality", code) = {}
            /\ Typed(s, "Relation") \in g
<1> DEFINE e == RelationPart(r)
           g == Written(d)
<1>1. e.uri = Uri("relation", r.id) /\ e.kind = "Relation" /\ e.short = Short("Relation", r.id)
  BY DEF RelationPart, Part
<1>2. /\ DOMAIN e.more = {"domain", "range", "sourceProperty", "targetProperty", "status", "confirmed"}
      /\ e.more["domain"] = Uri("concept", r.from) /\ e.more["range"] = Uri("concept", r.to)
      /\ e.more["sourceProperty"] = Uri("property", r.fromField) /\ e.more["targetProperty"] = Uri("property", r.toField)
      /\ e.more["status"] = Lit(IF r.active THEN "active" ELSE "inactive") /\ e.more["confirmed"] = Bool(Effective(r))
  BY DEF RelationPart, Part
<1>3. e \in Parts(d)
  BY PartsOfDraft
<1> HIDE DEF e
<1>4. Typed(e.uri, e.kind) \in g
  BY <1>1, <1>3, WhatIsMarked DEF Standard
<1>5. /\ Single(g, e.uri, "domain") = e.more["domain"] /\ Single(g, e.uri, "range") = e.more["range"]
      /\ \A code : SingleWrong(g, e.uri, "domain", code) = {} /\ SingleWrong(g, e.uri, "range", code) = {}
  <2>1. "domain" \in DOMAIN e.more /\ e.more["domain"][1] = "uri"
    BY <1>2, TermsDiffer
  <2>2. "range" \in DOMAIN e.more /\ e.more["range"][1] = "uri"
    BY <1>2, TermsDiffer
  <2>3. Single(g, e.uri, "domain") = e.more["domain"] /\ \A code : SingleWrong(g, e.uri, "domain", code) = {} /\ OptionalWrong(g, e.uri, "domain", code) = {}
    BY <1>3, <2>1, PartRefers
  <2>4. Single(g, e.uri, "range") = e.more["range"] /\ \A code : SingleWrong(g, e.uri, "range", code) = {} /\ OptionalWrong(g, e.uri, "range", code) = {}
    BY <1>3, <2>2, PartRefers
  <2> QED
    BY <2>3, <2>4
<1>6. /\ Single(g, e.uri, "sourceProperty") = e.more["sourceProperty"] /\ Single(g, e.uri, "targetProperty") = e.more["targetProperty"]
      /\ \A code : OptionalWrong(g, e.uri, "sourceProperty", code) = {} /\ OptionalWrong(g, e.uri, "targetProperty", code) = {}
  <2>1. "sourceProperty" \in DOMAIN e.more /\ e.more["sourceProperty"][1] = "uri"
    BY <1>2, TermsDiffer
  <2>2. "targetProperty" \in DOMAIN e.more /\ e.more["targetProperty"][1] = "uri"
    BY <1>2, TermsDiffer
  <2>3. Single(g, e.uri, "sourceProperty") = e.more["sourceProperty"] /\ \A code : SingleWrong(g, e.uri, "sourceProperty", code) = {} /\ OptionalWrong(g, e.uri, "sourceProperty", code) = {}
    BY <1>3, <2>1, PartRefers
  <2>4. Single(g, e.uri, "targetProperty") = e.more["targetProperty"] /\ \A code : SingleWrong(g, e.uri, "targetProperty", code) = {} /\ OptionalWrong(g, e.uri, "targetProperty", code) = {}
    BY <1>3, <2>2, PartRefers
  <2> QED
    BY <2>3, <2>4
<1>7. /\ Text(g, e.uri, "status", "active") = e.more["status"] /\ \A code : LiteralWrong(g, e.uri, "status", code) = {}
  <2> DEFINE x == IF r.active THEN "active" ELSE "inactive"
  <2>1. e.more["status"] = Lit(x) /\ x # EmptyText /\ "status" \in DOMAIN e.more
    BY <1>2, TextsAreTexts
  <2> HIDE DEF x
  <2> QED
    BY <1>3, <2>1, PartSays
<1>8. Text(g, e.uri, "confirmed", "false") = e.more["confirmed"]
  <2> DEFINE x == IF Effective(r) THEN "true" ELSE "false"
  <2>1. e.more["confirmed"] = Lit(x) /\ x # EmptyText /\ "confirmed" \in DOMAIN e.more
    BY <1>2, TextsAreTexts DEF Bool
  <2> HIDE DEF x
  <2> QED
    BY <1>3, <2>1, PartSays
<1>9. Text(g, e.uri, "priority", "0") = Lit("0") /\ \A code : LiteralWrong(g, e.uri, "cardinality", code) = {}
  <2>1. {"priority", "cardinality"} \cap (DOMAIN e.more \cup {"type", "shortName", "label"}) = {}
    BY <1>2
  <2> QED
    BY <1>3, <2>1, PartIsSilent
<1>10. ShortOf(g, e.uri) = e.short /\ Named(g, e.uri) /\ NameWrong(g, e.uri) = {}
  BY <1>3, NamesAreGiven
<1> QED
  BY <1>1, <1>2, <1>4, <1>5, <1>6, <1>7, <1>8, <1>9, <1>10

LEMMA SourceIs ==
  ASSUME NEW d, WellDrafted(d), Accepted(d)
  PROVE  LET g == Written(d)
             s == Uri("source", d.source.id)
         IN /\ Named(g, s) /\ NameWrong(g, s) = {}
            /\ ShortOf(g, s) = Short("DataSource", d.source.id)
            /\ Required(g, s, "platformType") = Lit(d.source.platform)
            /\ \A code : LiteralWrong(g, s, "dialect", code) = {}
<1> DEFINE e == SourcePart(d)
           g == Written(d)
<1>1. e.uri = Uri("source", d.source.id) /\ e.short = Short("DataSource", d.source.id)
      /\ DOMAIN e.more = {"platformType"} /\ e.more["platformType"] = Lit(d.source.platform)
  BY DEF SourcePart, Part
<1>2. e \in Parts(d)
  BY PartsOfDraft
<1> HIDE DEF e
<1>3. Required(g, e.uri, "platformType") = Lit(d.source.platform)
  <2> DEFINE x == d.source.platform
  <2>1. x # EmptyText
    BY DEF WellDrafted
  <2> QED
    BY <1>1, <1>2, <2>1, PartSays
<1>4. \A code : LiteralWrong(g, e.uri, "dialect", code) = {}
  BY <1>1, <1>2, PartIsSilent
<1>5. ShortOf(g, e.uri) = e.short /\ Named(g, e.uri) /\ NameWrong(g, e.uri) = {}
  BY <1>2, NamesAreGiven
<1> QED
  BY <1>1, <1>3, <1>4, <1>5

LEMMA ObjectMappingIs ==
  ASSUME NEW d, WellDrafted(d), Accepted(d), NEW o \in d.objects
  PROVE  LET g == Written(d)
             s == Uri("objectMapping", o.id)
         IN /\ Named(g, s) /\ NameWrong(g, s) = {}
            /\ ShortOf(g, s) = Short("ObjectMapping", o.id)
            /\ Single(g, s, "semanticElement") = Uri("concept", o.id)
            /\ Single(g, s, "dataSource") = Uri("source", d.source.id)
            /\ Text(g, s, "objectName", EmptyText) = Lit(o.physical) /\ Text(g, s, "fieldName", EmptyText) = Lit(EmptyText)
            /\ Text(g, s, "priority", "0") = Lit("0") /\ Text(g, s, "enabled", "true") = Bool(o.active)
            /\ \A code : /\ SingleWrong(g, s, "semanticElement", code) = {} /\ SingleWrong(g, s, "dataSource", code) = {}
                         /\ \A p \in {"physicalNamespace", "objectName", "fieldName"} : LiteralWrong(g, s, p, code) = {}
<1> DEFINE e == ObjectMappingPart(d, o)
           g == Written(d)
<1>1. e.uri = Uri("objectMapping", o.id) /\ e.short = Short("ObjectMapping", o.id)
  BY DEF ObjectMappingPart, Part
<1>2. /\ DOMAIN e.more = {"semanticElement", "dataSource", "objectName", "enabled"}
      /\ e.more["semanticElement"] = Uri("concept", o.id) /\ e.more["dataSource"] = Uri("source", d.source.id)
      /\ e.more["objectName"] = Lit(o.physical) /\ e.more["enabled"] = Bool(o.active)
  BY DEF ObjectMappingPart, Part
<1>3. e \in Parts(d)
  BY PartsOfDraft
<1> HIDE DEF e
<1>4. /\ Single(g, e.uri, "semanticElement") = e.more["semanticElement"] /\ Single(g, e.uri, "dataSource") = e.more["dataSource"]
      /\ \A code : SingleWrong(g, e.uri, "semanticElement", code) = {} /\ SingleWrong(g, e.uri, "dataSource", code) = {}
  <2>1. "semanticElement" \in DOMAIN e.more /\ e.more["semanticElement"][1] = "uri"
    BY <1>2, TermsDiffer
  <2>2. "dataSource" \in DOMAIN e.more /\ e.more["dataSource"][1] = "uri"
    BY <1>2, TermsDiffer
  <2>3. Single(g, e.uri, "semanticElement") = e.more["semanticElement"]
        /\ \A code : SingleWrong(g, e.uri, "semanticElement", code) = {}
    <3> DEFINE x == "semanticElement"
    <3>1. x \in DOMAIN e.more /\ e.more[x][1] = "uri"
      BY <2>1
    <3> HIDE DEF x
    <3>2. Single(g, e.uri, x) = e.more[x] /\ \A code : SingleWrong(g, e.uri, x, code) = {}
      BY <1>3, <3>1, PartRefers
    <3> QED
      BY <3>2 DEF x
  <2>4. Single(g, e.uri, "dataSource") = e.more["dataSource"] /\ \A code : SingleWrong(g, e.uri, "dataSource", code) = {}
    BY <1>3, <2>2, PartRefers
  <2> QED
    BY <2>3, <2>4
<1>5. Text(g, e.uri, "objectName", EmptyText) = Lit(o.physical) /\ \A code : LiteralWrong(g, e.uri, "objectName", code) = {}
  <2>1. o.physical # EmptyText
    BY DEF WellDrafted
  <2>2. "objectName" \in DOMAIN e.more
    BY <1>2
  <2> QED
    BY <1>2, <1>3, <2>1, <2>2, PartSays
<1>6. Text(g, e.uri, "enabled", "true") = e.more["enabled"]
  <2> DEFINE x == IF o.active THEN "true" ELSE "false"
  <2>1. e.more["enabled"] = Lit(x) /\ x # EmptyText /\ "enabled" \in DOMAIN e.more
    BY <1>2, TextsAreTexts DEF Bool
  <2> HIDE DEF x
  <2> QED
    BY <1>3, <2>1, PartSays
<1>7. Text(g, e.uri, "priority", "0") = Lit("0") /\ Text(g, e.uri, "fieldName", EmptyText) = Lit(EmptyText)
      /\ \A code : LiteralWrong(g, e.uri, "fieldName", code) = {} /\ LiteralWrong(g, e.uri, "physicalNamespace", code) = {}
  <2>1. {"priority", "fieldName", "physicalNamespace"} \cap (DOMAIN e.more \cup {"type", "shortName", "label"}) = {}
    BY <1>2
  <2> QED
    BY <1>3, <2>1, PartIsSilent
<1>8. ShortOf(g, e.uri) = e.short /\ Named(g, e.uri) /\ NameWrong(g, e.uri) = {}
  BY <1>3, NamesAreGiven
<1> QED
  BY <1>1, <1>2, <1>4, <1>5, <1>6, <1>7, <1>8

LEMMA FieldMappingIs ==
  ASSUME NEW d, WellDrafted(d), Accepted(d), NEW f \in FieldsIn(d)
  PROVE  LET g == Written(d)
             s == Uri("fieldMapping", f.id)
         IN /\ Named(g, s) /\ NameWrong(g, s) = {}
            /\ ShortOf(g, s) = Short("FieldMapping", f.id)
            /\ Single(g, s, "semanticElement") = Uri("property", f.id)
            /\ Single(g, s, "dataSource") = Uri("source", d.source.id)
            /\ Text(g, s, "fieldName", EmptyText) = Lit(f.physical) /\ Text(g, s, "objectName", EmptyText) = Lit(EmptyText)
            /\ Text(g, s, "priority", "0") = Lit("0") /\ Text(g, s, "enabled", "true") = Bool(f.active)
            /\ \A code : /\ SingleWrong(g, s, "semanticElement", code) = {} /\ SingleWrong(g, s, "dataSource", code) = {}
                         /\ \A p \in {"physicalNamespace", "objectName", "fieldName"} : LiteralWrong(g, s, p, code) = {}
<1> DEFINE e == FieldMappingPart(d, f)
           g == Written(d)
<1>1. e.uri = Uri("fieldMapping", f.id) /\ e.short = Short("FieldMapping", f.id)
  BY DEF FieldMappingPart, Part
<1>2. /\ DOMAIN e.more = {"semanticElement", "dataSource", "fieldName", "enabled"}
      /\ e.more["semanticElement"] = Uri("property", f.id) /\ e.more["dataSource"] = Uri("source", d.source.id)
      /\ e.more["fieldName"] = Lit(f.physical) /\ e.more["enabled"] = Bool(f.active)
  BY DEF FieldMappingPart, Part
<1>3. e \in Parts(d)
  BY PartsOfDraft
<1> HIDE DEF e
<1>4. /\ Single(g, e.uri, "semanticElement") = e.more["semanticElement"] /\ Single(g, e.uri, "dataSource") = e.more["dataSource"]
      /\ \A code : SingleWrong(g, e.uri, "semanticElement", code) = {} /\ SingleWrong(g, e.uri, "dataSource", code) = {}
  <2>1. "semanticElement" \in DOMAIN e.more /\ e.more["semanticElement"][1] = "uri"
    BY <1>2, TermsDiffer
  <2>2. "dataSource" \in DOMAIN e.more /\ e.more["dataSource"][1] = "uri"
    BY <1>2, TermsDiffer
  <2>3. Single(g, e.uri, "semanticElement") = e.more["semanticElement"]
        /\ \A code : SingleWrong(g, e.uri, "semanticElement", code) = {}
    <3> DEFINE x == "semanticElement"
    <3>1. x \in DOMAIN e.more /\ e.more[x][1] = "uri"
      BY <2>1
    <3> HIDE DEF x
    <3>2. Single(g, e.uri, x) = e.more[x] /\ \A code : SingleWrong(g, e.uri, x, code) = {}
      BY <1>3, <3>1, PartRefers
    <3> QED
      BY <3>2 DEF x
  <2>4. Single(g, e.uri, "dataSource") = e.more["dataSource"] /\ \A code : SingleWrong(g, e.uri, "dataSource", code) = {}
    BY <1>3, <2>2, PartRefers
  <2> QED
    BY <2>3, <2>4
<1>5. Text(g, e.uri, "fieldName", EmptyText) = Lit(f.physical) /\ \A code : LiteralWrong(g, e.uri, "fieldName", code) = {}
  <2>1. f.physical # EmptyText
    BY DEF WellDrafted
  <2>2. "fieldName" \in DOMAIN e.more /\ e.more["fieldName"] = Lit(f.physical)
    BY <1>2
  <2>3. \A default : Text(g, e.uri, "fieldName", default) = Lit(f.physical)
    BY <1>3, <2>1, <2>2, PartSays
  <2>4. \A code : LiteralWrong(g, e.uri, "fieldName", code) = {}
    BY <1>3, <2>1, <2>2, PartSays
  <2> QED
    BY <2>3, <2>4
<1>6. Text(g, e.uri, "enabled", "true") = e.more["enabled"]
  <2> DEFINE x == IF f.active THEN "true" ELSE "false"
  <2>1. e.more["enabled"] = Lit(x) /\ x # EmptyText /\ "enabled" \in DOMAIN e.more
    BY <1>2, TextsAreTexts DEF Bool
  <2> HIDE DEF x
  <2> QED
    BY <1>3, <2>1, PartSays
<1>7. Text(g, e.uri, "priority", "0") = Lit("0") /\ Text(g, e.uri, "objectName", EmptyText) = Lit(EmptyText)
      /\ \A code : LiteralWrong(g, e.uri, "objectName", code) = {} /\ LiteralWrong(g, e.uri, "physicalNamespace", code) = {}
  <2>1. {"priority", "objectName", "physicalNamespace"} \cap (DOMAIN e.more \cup {"type", "shortName", "label"}) = {}
    BY <1>2
  <2> QED
    BY <1>3, <2>1, PartIsSilent
<1>8. ShortOf(g, e.uri) = e.short /\ Named(g, e.uri) /\ NameWrong(g, e.uri) = {}
  BY <1>3, NamesAreGiven
<1> QED
  BY <1>1, <1>2, <1>4, <1>5, <1>6, <1>7, <1>8

LEMMA PolicyIs ==
  ASSUME NEW d, WellDrafted(d), Accepted(d), NEW p \in EffectivePolicies(d)
  PROVE  LET g == Written(d)
             s == Uri("policy", <<p.object, p.field>>)
         IN /\ Named(g, s) /\ NameWrong(g, s) = {} /\ ShortOf(g, s) = PolicyShort(p)
            /\ Single(g, s, "appliesTo") = Uri("concept", p.object)
            /\ Single(g, s, "partitionProperty") = Uri("property", p.field)
            /\ Required(g, s, "partitionGrain") = Lit(p.grain) /\ Required(g, s, "defaultStrategy") = Lit(p.strategy)
            /\ Required(g, s, "allowQueryOverride") = Bool(p.override)
            /\ Text(g, s, "status", "active") = Lit(IF p.active THEN "active" ELSE "inactive")
            /\ Text(g, s, "priority", "0") = Lit("0")
            /\ \A code : /\ SingleWrong(g, s, "appliesTo", code) = {} /\ SingleWrong(g, s, "partitionProperty", code) = {}
                         /\ LiteralWrong(g, s, "status", code) = {}
<1> DEFINE e == PolicyPart(p)
           g == Written(d)
<1>1. e.uri = Uri("policy", <<p.object, p.field>>) /\ e.short = PolicyShort(p)
  BY DEF PolicyPart, Part
<1>2. /\ DOMAIN e.more = {"appliesTo", "partitionProperty", "partitionGrain", "defaultStrategy", "allowQueryOverride", "status"}
      /\ e.more["appliesTo"] = Uri("concept", p.object) /\ e.more["partitionProperty"] = Uri("property", p.field)
      /\ e.more["partitionGrain"] = Lit(p.grain) /\ e.more["defaultStrategy"] = Lit(p.strategy)
      /\ e.more["allowQueryOverride"] = Bool(p.override)
      /\ e.more["status"] = Lit(IF p.active THEN "active" ELSE "inactive")
  BY DEF PolicyPart, Part
<1>3. e \in Parts(d)
  BY PartsOfDraft
<1> HIDE DEF e
<1>4. /\ Single(g, e.uri, "appliesTo") = e.more["appliesTo"] /\ Single(g, e.uri, "partitionProperty") = e.more["partitionProperty"]
      /\ \A code : SingleWrong(g, e.uri, "appliesTo", code) = {} /\ SingleWrong(g, e.uri, "partitionProperty", code) = {}
  <2>1. "appliesTo" \in DOMAIN e.more /\ e.more["appliesTo"][1] = "uri"
    BY <1>2, TermsDiffer
  <2>2. "partitionProperty" \in DOMAIN e.more /\ e.more["partitionProperty"][1] = "uri"
    BY <1>2, TermsDiffer
  <2>3. ASSUME NEW q \in DOMAIN e.more, e.more[q][1] = "uri"
        PROVE  Single(g, e.uri, q) = e.more[q] /\ \A code : SingleWrong(g, e.uri, q, code) = {}
    <3>1. Single(g, e.uri, q) = e.more[q]
      BY <1>3, <2>3, PartRefers
    <3>2. \A code : SingleWrong(g, e.uri, q, code) = {}
      BY <1>3, <2>3, PartRefers
    <3> QED
      BY <3>1, <3>2
  <2> QED
    BY <2>1, <2>2, <2>3
<1>5. Required(g, e.uri, "partitionGrain") = Lit(p.grain) /\ Required(g, e.uri, "defaultStrategy") = Lit(p.strategy)
  <2>1. p.grain # EmptyText /\ p.strategy # EmptyText
    <3>1. p.grain \in {"day", "month"} /\ p.strategy = Strategy[p.grain]
      BY PoliciesInForce
    <3>2. p.strategy \in {"t_minus_2", "previous_complete_month"}
      BY <3>1 DEF Strategy
    <3> QED
      BY <3>1, <3>2, TextsAreTexts
  <2>2. "partitionGrain" \in DOMAIN e.more /\ "defaultStrategy" \in DOMAIN e.more
    BY <1>2
  <2>3. Required(g, e.uri, "partitionGrain") = Lit(p.grain)
    BY <1>2, <1>3, <2>1, <2>2, PartSays
  <2>4. Required(g, e.uri, "defaultStrategy") = Lit(p.strategy)
    BY <1>2, <1>3, <2>1, <2>2, PartSays
  <2> QED
    BY <2>3, <2>4
<1>6. Required(g, e.uri, "allowQueryOverride") = e.more["allowQueryOverride"]
  <2> DEFINE x == IF p.override THEN "true" ELSE "false"
  <2>1. e.more["allowQueryOverride"] = Lit(x) /\ x # EmptyText /\ "allowQueryOverride" \in DOMAIN e.more
    BY <1>2, TextsAreTexts DEF Bool
  <2> HIDE DEF x
  <2> QED
    BY <1>3, <2>1, PartSays
<1>7. Text(g, e.uri, "status", "active") = e.more["status"] /\ \A code : LiteralWrong(g, e.uri, "status", code) = {}
  <2> DEFINE x == IF p.active THEN "active" ELSE "inactive"
  <2>1. e.more["status"] = Lit(x) /\ x # EmptyText /\ "status" \in DOMAIN e.more
    BY <1>2, TextsAreTexts
  <2> HIDE DEF x
  <2> QED
    BY <1>3, <2>1, PartSays
<1>8. Text(g, e.uri, "priority", "0") = Lit("0")
  <2>1. "priority" \notin DOMAIN e.more /\ "priority" \notin {"type", "shortName", "label"}
    BY <1>2
  <2> QED
    BY <1>3, <2>1, PartIsSilent
<1>9. ShortOf(g, e.uri) = e.short /\ Named(g, e.uri) /\ NameWrong(g, e.uri) = {}
  BY <1>3, NamesAreGiven
<1> QED
  BY <1>1, <1>2, <1>4, <1>5, <1>6, <1>7, <1>8, <1>9

-------------------------------------------------------------------------------
(* A package is read as what its draft means, kind by kind *)

LEMMA NotDangling ==
  ASSUME NEW g, NEW s, NEW p, NEW refs, NEW kinds, NEW code, \A r \in refs : \E k \in kinds : r \in Elements(g, k)
  PROVE  Dangling(g, s, p, refs, kinds, code) = {}
  BY DEF Dangling

LEMMA ConceptsRead ==
  ASSUME NEW d, WellDrafted(d), Accepted(d)
  PROVE  /\ ReadConcepts(Written(d)).wrong = {}
         /\ ReadConcepts(Written(d)).found = MeaningOf(d).concepts
<1> DEFINE g == Written(d)
           all == Elements(g, "Concept")
           entry(s) == [uri |-> s, short |-> ShortOf(g, s), labels |-> LabelsOf(g, s), parents |-> Several(g, s, "subClassOf"),
                        children |-> {c \in all : s \in Said(g, c, "subClassOf")}]
           meaning(o) == [uri |-> Uri("concept", o.id), short |-> Short("Concept", o.id), parents |-> {}, children |-> {},
                          labels |-> {Short("Concept", o.id), Lit(o.physical)}]
           wrong(s) == NameWrong(g, s) \cup SeveralWrong(g, s, "subClassOf")
                       \cup ConceptWrong(g, s, "subClassOf", Several(g, s, "subClassOf"))
<1>1. all = {Uri("concept", o.id) : o \in d.objects}
  BY ConceptsOfDraft
<1>2. /\ ReadConcepts(g).found = {entry(s) : s \in {x \in all : Named(g, x)}}
      /\ ReadConcepts(g).wrong = TypeWrong(g, "Concept") \cup UNION {wrong(s) : s \in all}
  BY DEF ReadConcepts, Read
<1>3. MeaningOf(d).concepts = {meaning(o) : o \in d.objects}
  BY DEF MeaningOf
<1>4. ASSUME NEW o \in d.objects
      PROVE  LET s == Uri("concept", o.id)
             IN Named(g, s) /\ entry(s) = meaning(o) /\ wrong(s) = {} /\ Typed(s, "Concept") \in g
  <2> DEFINE s == Uri("concept", o.id)
  <2>1. /\ Named(g, s) /\ NameWrong(g, s) = {}
        /\ ShortOf(g, s) = Short("Concept", o.id) /\ LabelsOf(g, s) = {Short("Concept", o.id), Lit(o.physical)}
        /\ Several(g, s, "subClassOf") = {} /\ SeveralWrong(g, s, "subClassOf") = {}
        /\ Typed(s, "Concept") \in g
    BY ConceptIs
  <2>2. \A q \in d.objects : Said(g, Uri("concept", q.id), "subClassOf") = {}
    BY ConceptIs
  <2>3. {c \in all : s \in Said(g, c, "subClassOf")} = {}
    BY <1>1, <2>2
  <2>4. ConceptWrong(g, s, "subClassOf", {}) = {}
    BY NotDangling DEF ConceptWrong
  <2> QED
    BY <2>1, <2>3, <2>4
<1> HIDE DEF g, all, entry, meaning, wrong
<1>5. TypeWrong(g, "Concept") = {}
  BY <1>1, <1>4 DEF TypeWrong, all
<1> QED
  BY <1>1, <1>2, <1>3, <1>4, <1>5 DEF g

LEMMA PropertiesRead ==
  ASSUME NEW d, WellDrafted(d), Accepted(d)
  PROVE  /\ ReadProperties(Written(d)).wrong = {}
         /\ ReadProperties(Written(d)).found = MeaningOf(d).properties
<1> DEFINE g == Written(d)
           all == Elements(g, "Property")
           read(x) == Named(g, x) /\ Absent \notin {Single(g, x, "domain"), Single(g, x, "range")}
           entry(s) == [uri |-> s, short |-> ShortOf(g, s), labels |-> LabelsOf(g, s), of |-> Single(g, s, "domain"),
                        type |-> Single(g, s, "range")]
           meaning(o, f) == [uri |-> Uri("property", f.id), short |-> Short("Property", f.id), of |-> Uri("concept", o.id),
                             type |-> Uri("xsd", f.type),
                             labels |-> {Short("Property", f.id), Lit(f.physical)} \cup {Lit(a) : a \in f.aliases \ {EmptyText}}]
           wrong(s) == NameWrong(g, s)
             \cup SingleWrong(g, s, "domain", "missing_domain") \cup SingleWrong(g, s, "range", "missing_range")
             \cup ConceptWrong(g, s, "domain", {Single(g, s, "domain")})
             \cup (IF Single(g, s, "range") \in Xsd \cup {Absent} THEN {} ELSE {<<"invalid_datatype_range", s, "range">>})
<1>1. all = {Uri("property", f.id) : f \in FieldsIn(d)}
  BY PropertiesOfDraft
<1>2. /\ ReadProperties(g).found = {entry(s) : s \in {x \in all : read(x)}}
      /\ ReadProperties(g).wrong = TypeWrong(g, "Property") \cup UNION {wrong(s) : s \in all}
  BY DEF ReadProperties, Read
<1>3. MeaningOf(d).properties = UNION {{meaning(o, f) : f \in o.fields} : o \in d.objects}
  BY DEF MeaningOf
<1>4. ASSUME NEW o \in d.objects, NEW f \in o.fields
      PROVE  LET s == Uri("property", f.id)
             IN read(s) /\ entry(s) = meaning(o, f) /\ wrong(s) = {} /\ Typed(s, "Property") \in g
  <2> DEFINE s == Uri("property", f.id)
  <2>1. /\ Named(g, s) /\ NameWrong(g, s) = {}
        /\ ShortOf(g, s) = Short("Property", f.id)
        /\ LabelsOf(g, s) = {Short("Property", f.id), Lit(f.physical)} \cup {Lit(a) : a \in f.aliases \ {EmptyText}}
        /\ Single(g, s, "domain") = Uri("concept", o.id) /\ Single(g, s, "range") = Uri("xsd", f.type)
        /\ \A code : SingleWrong(g, s, "domain", code) = {} /\ SingleWrong(g, s, "range", code) = {}
        /\ Typed(s, "Property") \in g
    BY FieldIs
  <2>2. Uri("concept", o.id) \in Elements(g, "Concept")
    BY ConceptsOfDraft
  <2>3. ConceptWrong(g, s, "domain", {Uri("concept", o.id)}) = {}
    BY <2>2, NotDangling DEF ConceptWrong
  <2>4. Uri("xsd", f.type) \in Xsd
    BY DEF Accepted
  <2>5. Absent \notin {Single(g, s, "domain"), Single(g, s, "range")}
    BY <2>1, TermsDiffer
  <2> HIDE DEF g, s
  <2>6. wrong(s) = {}
    BY <2>1, <2>3, <2>4
  <2>7. read(s)
    BY <2>1, <2>5
  <2> QED
    BY <2>1, <2>6, <2>7 DEF s
<1> HIDE DEF g, all, entry, meaning, wrong, read
<1>5. \A f : f \in FieldsIn(d) <=> \E o \in d.objects : f \in o.fields
  BY DEF FieldsIn
<1>6. ASSUME NEW s \in all
      PROVE  /\ read(s) /\ wrong(s) = {} /\ Typed(s, "Property") \in g
             /\ \E o \in d.objects : \E f \in o.fields : entry(s) = meaning(o, f)
  <2>1. PICK f \in FieldsIn(d) : s = Uri("property", f.id)
    BY <1>1, <1>6
  <2>2. PICK o \in d.objects : f \in o.fields
    BY <1>5
  <2> QED
    BY <1>4, <2>1, <2>2
<1>7. ASSUME NEW o \in d.objects, NEW f \in o.fields
      PROVE  \E s \in all : meaning(o, f) = entry(s)
  <2>1. f \in FieldsIn(d) /\ Uri("property", f.id) \in all
    BY <1>1, <1>5
  <2> QED
    BY <1>4, <2>1
<1>8. TypeWrong(g, "Property") = {}
  BY <1>6 DEF TypeWrong, all
<1>9. UNION {{meaning(o, f) : f \in o.fields} : o \in d.objects} = {entry(s) : s \in all}
  <2>1. \A x : x \in {entry(s) : s \in all} => x \in UNION {{meaning(o, f) : f \in o.fields} : o \in d.objects}
    BY <1>6
  <2>2. \A x : x \in UNION {{meaning(o, f) : f \in o.fields} : o \in d.objects} => x \in {entry(s) : s \in all}
    BY <1>7
  <2> QED
    BY <2>1, <2>2
<1> QED
  BY <1>2, <1>3, <1>6, <1>8, <1>9 DEF g

LEMMA NotForeign ==
  ASSUME NEW d, WellDrafted(d), Accepted(d), NEW o, NEW f, Owned(d, o, f)
  PROVE  ~Foreign(Written(d), Uri("property", f), Uri("concept", o))
<1>1. PICK x \in d.objects : x.id = o /\ \E h \in x.fields : h.id = f
  BY OwnersAre
<1>2. PICK h \in x.fields : h.id = f
  BY <1>1
<1>3. h \in FieldsIn(d)
  BY DEF FieldsIn
<1>4. Uri("property", f) \in Elements(Written(d), "Property")
  BY <1>2, <1>3, PropertiesOfDraft
<1> DEFINE s == Uri("property", f)
<1>5. /\ Named(Written(d), s) /\ Single(Written(d), s, "domain") = Uri("concept", o)
      /\ Single(Written(d), s, "range") = Uri("xsd", h.type)
  BY <1>1, <1>2, FieldIs
<1>6. Single(Written(d), s, "range") # Absent
  BY <1>5, TermsDiffer
<1> QED
  BY <1>4, <1>5, <1>6 DEF Foreign

LEMMA BoolsSay ==
  ASSUME NEW b \in BOOLEAN
  PROVE  /\ Bool(b)[3] \in Booleans
         /\ (Bool(b)[3] = "true") = b /\ (Bool(b)[3] \in {"true", "1"}) = b /\ (Bool(b) = Lit("true")) = b
         /\ (Lit(IF b THEN "active" ELSE "inactive") = Lit("active")) = b
<1>1. CASE b
  <2>1. Bool(b) = Lit("true") /\ Bool(b)[3] = "true"
    BY <1>1, TermsDiffer DEF Bool
  <2> QED
    BY <1>1, <2>1 DEF Booleans
<1>2. CASE ~b
  <2>1. Bool(b) = Lit("false") /\ Bool(b)[3] = "false"
    BY <1>2, TermsDiffer DEF Bool
  <2>2. Lit("false") # Lit("true") /\ Lit("inactive") # Lit("active")
    BY TermsDiffer
  <2> QED
    BY <1>2, <2>1, <2>2 DEF Booleans
<1> QED
  BY <1>1, <1>2

LEMMA RelationsRead ==
  ASSUME NEW d, WellDrafted(d), Accepted(d)
  PROVE  /\ ReadRelations(Written(d)).wrong = {}
         /\ ReadRelations(Written(d)).found = MeaningOf(d).relations
<1> DEFINE g == Written(d)
           all == Elements(g, "Relation")
           read(x) == Named(g, x) /\ Absent \notin {Single(g, x, "domain"), Single(g, x, "range")}
           entry(s) == [uri |-> s, short |-> ShortOf(g, s), from |-> Single(g, s, "domain"), to |-> Single(g, s, "range"),
                        keys |-> <<Single(g, s, "sourceProperty"), Single(g, s, "targetProperty")>>,
                        active |-> Text(g, s, "status", "active") = Lit("active"),
                        confirmed |-> Text(g, s, "confirmed", "false")[3] \in {"true", "1"}]
           meaning(r) == [uri |-> Uri("relation", r.id), short |-> Short("Relation", r.id),
                          from |-> Uri("concept", r.from), to |-> Uri("concept", r.to),
                          keys |-> <<Uri("property", r.fromField), Uri("property", r.toField)>>, active |-> r.active,
                          confirmed |-> r.active \/ r.confirmed]
           endWrong(s, at, key) ==
             SingleWrong(g, s, at, IF at = "domain" THEN "missing_domain" ELSE "missing_range")
             \cup ConceptWrong(g, s, at, {Single(g, s, at)})
             \cup OptionalWrong(g, s, key, "invalid_relation_property")
             \cup Dangling(g, s, key, {Single(g, s, key)}, {"Property"}, "invalid_ontology_reference")
             \cup (IF Foreign(g, Single(g, s, key), Single(g, s, at)) THEN {<<"invalid_relation_property", s, key>>} ELSE {})
           textWrong(s) ==
             LiteralWrong(g, s, "cardinality", "invalid_cardinality") \cup LiteralWrong(g, s, "status", "invalid_status")
             \cup TextWrong(g, s, "priority", "0", DOMAIN Priorities, "invalid_priority")
             \cup TextWrong(g, s, "confirmed", "false", Booleans \cup {"1", "0"}, "invalid_confirmed")
<1>1. all = {Uri("relation", r.id) : r \in d.relations}
  BY RelationsOfDraft
<1>2. ReadRelations(g).found = {entry(s) : s \in {x \in all : read(x)}}
  BY DEF ReadRelations, Read
<1>3. ReadRelations(g).wrong = TypeWrong(g, "Relation") \cup UNION {NameWrong(g, s)
             \cup endWrong(s, "domain", "sourceProperty") \cup endWrong(s, "range", "targetProperty")
             \cup LiteralWrong(g, s, "cardinality", "invalid_cardinality") \cup LiteralWrong(g, s, "status", "invalid_status")
             \cup TextWrong(g, s, "priority", "0", DOMAIN Priorities, "invalid_priority")
             \cup TextWrong(g, s, "confirmed", "false", Booleans \cup {"1", "0"}, "invalid_confirmed") : s \in all}
  BY DEF ReadRelations, Read
<1>4. MeaningOf(d).relations = {meaning(r) : r \in d.relations}
  BY DEF MeaningOf
<1>5. ASSUME NEW r \in d.relations
      PROVE  LET s == Uri("relation", r.id)
             IN /\ read(s) /\ entry(s) = meaning(r) /\ NameWrong(g, s) = {} /\ textWrong(s) = {}
                /\ endWrong(s, "domain", "sourceProperty") = {} /\ endWrong(s, "range", "targetProperty") = {}
                /\ Typed(s, "Relation") \in g
  <2> DEFINE s == Uri("relation", r.id)
  <2>1. /\ Named(g, s) /\ NameWrong(g, s) = {}
        /\ ShortOf(g, s) = Short("Relation", r.id)
        /\ Single(g, s, "domain") = Uri("concept", r.from) /\ Single(g, s, "range") = Uri("concept", r.to)
        /\ Single(g, s, "sourceProperty") = Uri("property", r.fromField)
        /\ Single(g, s, "targetProperty") = Uri("property", r.toField)
        /\ Typed(s, "Relation") \in g
    BY RelationIs
  <2>2. /\ Text(g, s, "status", "active") = Lit(IF r.active THEN "active" ELSE "inactive")
        /\ Text(g, s, "confirmed", "false") = Bool(Effective(r))
        /\ Text(g, s, "priority", "0") = Lit("0")
    BY RelationIs
  <2>3. \A code : /\ SingleWrong(g, s, "domain", code) = {} /\ SingleWrong(g, s, "range", code) = {}
                  /\ OptionalWrong(g, s, "sourceProperty", code) = {} /\ OptionalWrong(g, s, "targetProperty", code) = {}
                  /\ LiteralWrong(g, s, "status", code) = {} /\ LiteralWrong(g, s, "cardinality", code) = {}
    BY RelationIs
  <2>4. Owned(d, r.from, r.fromField) /\ Owned(d, r.to, r.toField)
    BY DEF Accepted
  <2>5. r.active \in BOOLEAN /\ r.confirmed \in BOOLEAN /\ r.disposed \in BOOLEAN
    BY DEF WellDrafted
  <2>6. Effective(r) = (r.active \/ r.confirmed)
    <3>1. r.active => r.confirmed \/ r.disposed
      BY DEF Accepted
    <3> QED
      BY <2>5, <3>1 DEF Effective
  <2>7. /\ (Text(g, s, "status", "active") = Lit("active")) = r.active
        /\ (Text(g, s, "confirmed", "false")[3] \in {"true", "1"}) = (r.active \/ r.confirmed)
        /\ Text(g, s, "confirmed", "false")[3] \in Booleans
    <3>1. Effective(r) \in BOOLEAN
      BY <2>5, <2>6
    <3>2. (Bool(Effective(r))[3] \in {"true", "1"}) = Effective(r) /\ Bool(Effective(r))[3] \in Booleans
      BY <3>1, BoolsSay
    <3>3. (Lit(IF r.active THEN "active" ELSE "inactive") = Lit("active")) = r.active
      BY <2>5, BoolsSay
    <3> QED
      BY <2>2, <2>6, <3>2, <3>3
  <2>8. textWrong(s) = {}
    <3>1. "0" \in DOMAIN Priorities
      BY DEF Priorities
    <3>2. Text(g, s, "priority", "0")[3] = "0"
      BY <2>2, TermsDiffer
    <3> QED
      BY <2>3, <2>7, <3>1, <3>2 DEF TextWrong
  <2>9. ASSUME NEW o, NEW f, Owned(d, o, f), NEW at, NEW key
        PROVE  /\ ConceptWrong(g, s, at, {Uri("concept", o)}) = {}
               /\ \A code : Dangling(g, s, key, {Uri("property", f)}, {"Property"}, code) = {}
    <3>1. PICK x \in d.objects : x.id = o /\ \E h \in x.fields : h.id = f
      BY <2>9, OwnersAre
    <3>2. PICK h \in x.fields : h.id = f
      BY <3>1
    <3>3. h \in FieldsIn(d)
      BY DEF FieldsIn
    <3>4. Uri("concept", o) \in Elements(g, "Concept")
      BY <3>1, ConceptsOfDraft
    <3>5. Uri("property", f) \in Elements(g, "Property")
      BY <3>2, <3>3, PropertiesOfDraft
    <3>6. ConceptWrong(g, s, at, {Uri("concept", o)}) = {}
      BY <3>4, NotDangling DEF ConceptWrong
    <3>7. \A code : Dangling(g, s, key, {Uri("property", f)}, {"Property"}, code) = {}
      BY <3>5, NotDangling
    <3> QED
      BY <3>6, <3>7
  <2>10. /\ ~Foreign(g, Uri("property", r.fromField), Uri("concept", r.from))
         /\ ~Foreign(g, Uri("property", r.toField), Uri("concept", r.to))
    BY <2>4, NotForeign
  <2>11. Absent \notin {Single(g, s, "domain"), Single(g, s, "range")}
    BY <2>1, TermsDiffer
  <2> HIDE DEF g, s
  <2>12. endWrong(s, "domain", "sourceProperty") = {}
    BY <2>1, <2>3, <2>4, <2>9, <2>10
  <2>13. endWrong(s, "range", "targetProperty") = {}
    BY <2>1, <2>3, <2>4, <2>9, <2>10
  <2>14. entry(s) = meaning(r)
    BY <2>1, <2>7 DEF s
  <2>15. read(s)
    BY <2>1, <2>11
  <2> HIDE DEF entry, meaning, endWrong, textWrong, read
  <2> QED
    BY <2>1, <2>8, <2>12, <2>13, <2>14, <2>15 DEF s
<1> HIDE DEF g, all, entry, meaning, read, endWrong
<1>6. ASSUME NEW s \in all
      PROVE  /\ read(s) /\ NameWrong(g, s) = {} /\ textWrong(s) = {}
             /\ endWrong(s, "domain", "sourceProperty") = {} /\ endWrong(s, "range", "targetProperty") = {}
             /\ Typed(s, "Relation") \in g
             /\ \E r \in d.relations : entry(s) = meaning(r)
  <2>1. PICK r \in d.relations : s = Uri("relation", r.id)
    BY <1>1, <1>6
  <2> HIDE DEF textWrong
  <2> QED
    BY <1>5, <2>1
<1>7. TypeWrong(g, "Relation") = {}
  BY <1>6 DEF TypeWrong, all
<1>8. ReadRelations(g).wrong = {}
  <2>1. ASSUME NEW s \in all
        PROVE  NameWrong(g, s)
             \cup endWrong(s, "domain", "sourceProperty") \cup endWrong(s, "range", "targetProperty")
             \cup LiteralWrong(g, s, "cardinality", "invalid_cardinality") \cup LiteralWrong(g, s, "status", "invalid_status")
             \cup TextWrong(g, s, "priority", "0", DOMAIN Priorities, "invalid_priority")
             \cup TextWrong(g, s, "confirmed", "false", Booleans \cup {"1", "0"}, "invalid_confirmed") = {}
    BY <1>6
  <2> QED
    BY <1>3, <1>7, <2>1
<1>9. ReadRelations(g).found = MeaningOf(d).relations
  <2> HIDE DEF textWrong
  <2>1. \A r \in d.relations : Uri("relation", r.id) \in all /\ meaning(r) = entry(Uri("relation", r.id))
    BY <1>1, <1>5
  <2>2. {s \in all : read(s)} = all
    BY <1>6
  <2>3. \A s \in all : \E r \in d.relations : entry(s) = meaning(r)
    BY <1>6
  <2>4. {entry(s) : s \in all} = {meaning(r) : r \in d.relations}
    BY <2>1, <2>3
  <2> QED
    BY <1>2, <1>4, <2>2, <2>4
<1> QED
  BY <1>8, <1>9 DEF g

LEMMA SourcesRead ==
  ASSUME NEW d, WellDrafted(d), Accepted(d)
  PROVE  /\ ReadSources(Written(d)).wrong = {}
         /\ ReadSources(Written(d)).found = MeaningOf(d).sources
<1> DEFINE g == Written(d)
           s == Uri("source", d.source.id)
           entry(x) == [uri |-> x, short |-> ShortOf(g, x), platform |-> Required(g, x, "platformType")]
           wrong(x) == NameWrong(g, x) \cup LiteralWrong(g, x, "dialect", "invalid_dialect")
             \cup (IF Required(g, x, "platformType") = Absent THEN {<<"missing_platform_type", x, "platformType">>} ELSE {})
<1>1. Elements(g, "DataSource") = {s}
  BY SourceOfDraft
<1>2. /\ ReadSources(g).found = {entry(x) : x \in {y \in Elements(g, "DataSource") :
             Named(g, y) /\ Required(g, y, "platformType") \notin {Absent, Lit(EmptyText)}}}
      /\ ReadSources(g).wrong = UNION {wrong(x) : x \in Elements(g, "DataSource")}
  BY DEF ReadSources, Read
<1>3. MeaningOf(d).sources = {[uri |-> s, short |-> Short("DataSource", d.source.id), platform |-> Lit(d.source.platform)]}
  BY DEF MeaningOf
<1>4. /\ Named(g, s) /\ NameWrong(g, s) = {}
      /\ ShortOf(g, s) = Short("DataSource", d.source.id)
      /\ Required(g, s, "platformType") = Lit(d.source.platform)
      /\ \A code : LiteralWrong(g, s, "dialect", code) = {}
  BY SourceIs
<1>5. Lit(d.source.platform) \notin {Absent, Lit(EmptyText)}
  BY TermsDiffer DEF WellDrafted
<1> HIDE DEF g, s
<1> QED
  BY <1>1, <1>2, <1>3, <1>4, <1>5 DEF g

LEMMA MappingsRead ==
  ASSUME NEW d, WellDrafted(d), Accepted(d)
  PROVE  /\ ReadMappings(Written(d)).wrong = {}
         /\ ReadMappings(Written(d)).found = MeaningOf(d).mappings
<1> DEFINE g == Written(d)
           source == Uri("source", d.source.id)
           all == Elements(g, "PhysicalMapping")
           kinds == {"Concept", "Property", "Relation"}
           read(x) == Named(g, x) /\ Absent \notin {Single(g, x, "semanticElement"), Single(g, x, "dataSource")}
           entry(x) == [uri |-> x, short |-> ShortOf(g, x), element |-> Single(g, x, "semanticElement"),
                        source |-> Single(g, x, "dataSource"),
                        object |-> Text(g, x, "objectName", EmptyText)[3], field |-> Text(g, x, "fieldName", EmptyText)[3],
                        priority |-> Priorities[Text(g, x, "priority", "0")[3]],
                        enabled |-> Text(g, x, "enabled", "true") = Lit("true")]
           mapping(uri, short, element, object, field, active) ==
             [uri |-> uri, short |-> short, element |-> element, source |-> source, object |-> object, field |-> field,
              priority |-> 0, enabled |-> active]
           ofObject(o) == mapping(Uri("objectMapping", o.id), Short("ObjectMapping", o.id), Uri("concept", o.id),
                                  o.physical, EmptyText, o.active)
           ofField(f) == mapping(Uri("fieldMapping", f.id), Short("FieldMapping", f.id), Uri("property", f.id),
                                 EmptyText, f.physical, f.active)
           texts(x) == UNION {LiteralWrong(g, x, p, "invalid_mapping_value") : p \in {"physicalNamespace", "objectName", "fieldName"}}
           wrong(x) == NameWrong(g, x)
             \cup SingleWrong(g, x, "semanticElement", "missing_semantic_element")
             \cup SingleWrong(g, x, "dataSource", "missing_data_source")
             \cup Dangling(g, x, "semanticElement", {Single(g, x, "semanticElement")}, kinds, "invalid_ontology_reference")
             \cup Dangling(g, x, "dataSource", {Single(g, x, "dataSource")}, {"DataSource"}, "invalid_ontology_reference")
             \cup texts(x)
             \cup TextWrong(g, x, "priority", "0", DOMAIN Priorities, "invalid_priority")
             \cup TextWrong(g, x, "enabled", "true", Booleans, "invalid_enabled")
<1>1. all = {Uri("objectMapping", o.id) : o \in d.objects} \cup {Uri("fieldMapping", f.id) : f \in FieldsIn(d)}
  BY MappingsOfDraft
<1>2. ReadMappings(g).found = {entry(x) : x \in {y \in all : read(y)}}
  BY DEF ReadMappings, Read
<1>3. ReadMappings(g).wrong = UNION {wrong(x) : x \in all}
  BY DEF ReadMappings, Read
<1>4. MeaningOf(d).mappings = {ofObject(o) : o \in d.objects} \cup {ofField(f) : f \in FieldsIn(d)}
  BY DEF MeaningOf
<1>5. Elements(g, "DataSource") = {source}
  BY SourceOfDraft
<1>6. ASSUME NEW x, Named(g, x), NameWrong(g, x) = {}, NEW element, Single(g, x, "semanticElement") = element,
             Single(g, x, "dataSource") = source, \E k \in kinds : element \in Elements(g, k), element # Absent,
             Text(g, x, "priority", "0") = Lit("0"), NEW b \in BOOLEAN, Text(g, x, "enabled", "true") = Bool(b),
             \A code : /\ SingleWrong(g, x, "semanticElement", code) = {} /\ SingleWrong(g, x, "dataSource", code) = {}
                       /\ \A p \in {"physicalNamespace", "objectName", "fieldName"} : LiteralWrong(g, x, p, code) = {},
             NEW object, NEW field, Text(g, x, "objectName", EmptyText) = Lit(object), Text(g, x, "fieldName", EmptyText) = Lit(field)
      PROVE  read(x) /\ wrong(x) = {} /\ entry(x) = mapping(x, ShortOf(g, x), element, object, field, b)
  <2>1. source # Absent
    BY TermsDiffer
  <2>2. read(x)
    BY <1>6, <2>1
  <2>3. texts(x) = {}
    BY <1>6
  <2>4. /\ Dangling(g, x, "semanticElement", {element}, kinds, "invalid_ontology_reference") = {}
        /\ Dangling(g, x, "dataSource", {source}, {"DataSource"}, "invalid_ontology_reference") = {}
    <3> HIDE DEF kinds, g, source
    <3> QED
      BY <1>5, <1>6, NotDangling
  <2>5. TextWrong(g, x, "priority", "0", DOMAIN Priorities, "invalid_priority") = {} /\ Priorities[Text(g, x, "priority", "0")[3]] = 0
    <3>1. "0" \in DOMAIN Priorities /\ Priorities["0"] = 0
      BY DEF Priorities
    <3>2. Text(g, x, "priority", "0")[3] = "0"
      BY <1>6, TermsDiffer
    <3> QED
      BY <3>1, <3>2 DEF TextWrong
  <2>6. TextWrong(g, x, "enabled", "true", Booleans, "invalid_enabled") = {} /\ (Text(g, x, "enabled", "true") = Lit("true")) = b
    <3>1. Bool(b)[3] \in Booleans /\ (Bool(b) = Lit("true")) = b
      BY BoolsSay
    <3> QED
      BY <1>6, <3>1 DEF TextWrong
  <2>7. Text(g, x, "objectName", EmptyText)[3] = object /\ Text(g, x, "fieldName", EmptyText)[3] = field
    BY <1>6, TermsDiffer
  <2> HIDE DEF g, texts, source
  <2>8. wrong(x) = {}
    BY <1>6, <2>3, <2>4, <2>5, <2>6
  <2>9. entry(x) = mapping(x, ShortOf(g, x), element, object, field, b)
    BY <1>6, <2>5, <2>6, <2>7
  <2> HIDE DEF wrong, entry, mapping, read
  <2> QED
    BY <2>2, <2>8, <2>9
<1>7. ASSUME NEW o \in d.objects
      PROVE  LET x == Uri("objectMapping", o.id) IN read(x) /\ wrong(x) = {} /\ entry(x) = ofObject(o)
  <2> DEFINE x == Uri("objectMapping", o.id)
             element == Uri("concept", o.id)
  <2>1. /\ Named(g, x) /\ NameWrong(g, x) = {}
        /\ ShortOf(g, x) = Short("ObjectMapping", o.id)
        /\ Single(g, x, "semanticElement") = element /\ Single(g, x, "dataSource") = source
        /\ Text(g, x, "objectName", EmptyText) = Lit(o.physical) /\ Text(g, x, "fieldName", EmptyText) = Lit(EmptyText)
        /\ Text(g, x, "priority", "0") = Lit("0") /\ Text(g, x, "enabled", "true") = Bool(o.active)
    BY ObjectMappingIs
  <2>2. \A code : /\ SingleWrong(g, x, "semanticElement", code) = {} /\ SingleWrong(g, x, "dataSource", code) = {}
                  /\ \A p \in {"physicalNamespace", "objectName", "fieldName"} : LiteralWrong(g, x, p, code) = {}
    BY ObjectMappingIs
  <2>3. element \in Elements(g, "Concept") /\ element # Absent
    BY ConceptsOfDraft, TermsDiffer
  <2>4. o.active \in BOOLEAN
    BY DEF WellDrafted
  <2> HIDE DEF g, x, element, source, wrong, entry, mapping, read
  <2>5. \E k \in kinds : element \in Elements(g, k)
    BY <2>3
  <2> HIDE DEF kinds
  <2>6. read(x) /\ wrong(x) = {} /\ entry(x) = mapping(x, ShortOf(g, x), element, o.physical, EmptyText, o.active)
    BY <1>6, <2>1, <2>2, <2>3, <2>4, <2>5
  <2> QED
    BY <2>1, <2>6 DEF x, element
<1>8. ASSUME NEW f \in FieldsIn(d)
      PROVE  LET x == Uri("fieldMapping", f.id) IN read(x) /\ wrong(x) = {} /\ entry(x) = ofField(f)
  <2> DEFINE x == Uri("fieldMapping", f.id)
             element == Uri("property", f.id)
  <2>1. /\ Named(g, x) /\ NameWrong(g, x) = {}
        /\ ShortOf(g, x) = Short("FieldMapping", f.id)
        /\ Single(g, x, "semanticElement") = element /\ Single(g, x, "dataSource") = source
        /\ Text(g, x, "fieldName", EmptyText) = Lit(f.physical) /\ Text(g, x, "objectName", EmptyText) = Lit(EmptyText)
        /\ Text(g, x, "priority", "0") = Lit("0") /\ Text(g, x, "enabled", "true") = Bool(f.active)
    BY FieldMappingIs
  <2>2. \A code : /\ SingleWrong(g, x, "semanticElement", code) = {} /\ SingleWrong(g, x, "dataSource", code) = {}
                  /\ \A p \in {"physicalNamespace", "objectName", "fieldName"} : LiteralWrong(g, x, p, code) = {}
    BY FieldMappingIs
  <2>3. element \in Elements(g, "Property") /\ element # Absent
    BY PropertiesOfDraft, TermsDiffer
  <2>4. f.active \in BOOLEAN
    BY DEF WellDrafted
  <2> HIDE DEF g, x, element, source, wrong, entry, mapping, read
  <2>5. \E k \in kinds : element \in Elements(g, k)
    BY <2>3
  <2> HIDE DEF kinds
  <2>6. read(x) /\ wrong(x) = {} /\ entry(x) = mapping(x, ShortOf(g, x), element, EmptyText, f.physical, f.active)
    BY <1>6, <2>1, <2>2, <2>3, <2>4, <2>5
  <2> QED
    BY <2>1, <2>6 DEF x, element
<1> HIDE DEF g, all, entry, ofObject, ofField, read, wrong
<1>9. ASSUME NEW x \in all
      PROVE  /\ read(x) /\ wrong(x) = {}
             /\ (\E o \in d.objects : entry(x) = ofObject(o)) \/ (\E f \in FieldsIn(d) : entry(x) = ofField(f))
  <2>1. CASE \E o \in d.objects : x = Uri("objectMapping", o.id)
    BY <1>7, <2>1
  <2>2. CASE \E f \in FieldsIn(d) : x = Uri("fieldMapping", f.id)
    BY <1>8, <2>2
  <2> QED
    BY <1>1, <2>1, <2>2
<1>10. {entry(x) : x \in all} = {ofObject(o) : o \in d.objects} \cup {ofField(f) : f \in FieldsIn(d)}
  <2>1. \A o \in d.objects : \E x \in all : ofObject(o) = entry(x)
    BY <1>1, <1>7
  <2>2. \A f \in FieldsIn(d) : \E x \in all : ofField(f) = entry(x)
    BY <1>1, <1>8
  <2> QED
    BY <1>9, <2>1, <2>2
<1> QED
  BY <1>2, <1>3, <1>4, <1>9, <1>10 DEF g

LEMMA RulesRead ==
  ASSUME NEW d, WellDrafted(d), Accepted(d), NEW rank
  PROVE  ReadRules(Written(d), rank).wrong = {} /\ ReadRules(Written(d), rank).found = MeaningOf(d).rules
<1>1. Elements(Written(d), "BusinessRule") = {}
  BY NoRulesInDraft
<1>2. MeaningOf(d).rules = {}
  BY DEF MeaningOf
<1> QED
  BY <1>1, <1>2 DEF ReadRules, Read

PolicyRead(p) ==
  [uri |-> Uri("policy", <<p.object, p.field>>), short |-> PolicyShort(p), of |-> Uri("concept", p.object),
   on |-> Uri("property", p.field), grain |-> p.grain, strategy |-> p.strategy, override |-> p.override,
   active |-> p.active]

LEMMA PoliciesRead ==
  ASSUME NEW d, WellDrafted(d), Accepted(d)
  PROVE  /\ ReadPolicies(Written(d)).wrong = {}
         /\ ReadPolicies(Written(d)).found = {PolicyRead(p) : p \in EffectivePolicies(d)}
<1> DEFINE g == Written(d)
           all == Elements(g, "TemporalPartitionPolicy")
           fine(x) == /\ Named(g, x) /\ Absent \notin {Single(g, x, "appliesTo"), Single(g, x, "partitionProperty")}
                      /\ Required(g, x, "partitionGrain")[3] \in DOMAIN Strategy
                      /\ \E grain \in DOMAIN Strategy : Required(g, x, "defaultStrategy")[3] = Strategy[grain]
           read == {x \in all : fine(x)}
           entry(s) == [uri |-> s, short |-> ShortOf(g, s), of |-> Single(g, s, "appliesTo"), on |-> Single(g, s, "partitionProperty"),
                        grain |-> Required(g, s, "partitionGrain")[3], strategy |-> Required(g, s, "defaultStrategy")[3],
                        override |-> Required(g, s, "allowQueryOverride")[3] = "true",
                        active |-> Text(g, s, "status", "active") = Lit("active")]
           twice == {<<"duplicate_temporal_policy", s, "appliesTo">> :
                       s \in {x \in read : \E y \in read : x # y /\ Single(g, x, "appliesTo") = Single(g, y, "appliesTo")}}
<1>1. all = {Uri("policy", <<p.object, p.field>>) : p \in EffectivePolicies(d)}
  BY PoliciesOfDraft
<1>2. ReadPolicies(g).found = {entry(s) : s \in read}
  BY DEF ReadPolicies, Read
<1>3. ReadPolicies(g).wrong = (UNION {PolicyWrong(g, s) : s \in all}) \cup twice
  BY DEF ReadPolicies, Read
<1>4. ASSUME NEW p \in EffectivePolicies(d)
      PROVE  LET s == Uri("policy", <<p.object, p.field>>)
             IN fine(s) /\ entry(s) = PolicyRead(p) /\ PolicyWrong(g, s) = {}
  <2> DEFINE s == Uri("policy", <<p.object, p.field>>)
             of == Uri("concept", p.object)
             on == Uri("property", p.field)
  <2>1. /\ Named(g, s) /\ NameWrong(g, s) = {} /\ ShortOf(g, s) = PolicyShort(p)
        /\ Single(g, s, "appliesTo") = of /\ Single(g, s, "partitionProperty") = on
    BY PolicyIs
  <2>2. /\ Required(g, s, "partitionGrain") = Lit(p.grain) /\ Required(g, s, "defaultStrategy") = Lit(p.strategy)
        /\ Required(g, s, "allowQueryOverride") = Bool(p.override)
        /\ Text(g, s, "status", "active") = Lit(IF p.active THEN "active" ELSE "inactive")
        /\ Text(g, s, "priority", "0") = Lit("0")
    BY PolicyIs
  <2>3. \A code : /\ SingleWrong(g, s, "appliesTo", code) = {} /\ SingleWrong(g, s, "partitionProperty", code) = {}
                  /\ LiteralWrong(g, s, "status", code) = {}
    BY PolicyIs
  <2>4. PICK o \in d.objects : o.id = p.object /\ \E f \in o.fields : f.id = p.field
    BY PoliciesInForce
  <2>5. PICK f \in o.fields : f.id = p.field
    BY <2>4
  <2>6. of \in Elements(g, "Concept")
    BY <2>4, ConceptsOfDraft
  <2>7. on \in Elements(g, "Property")
    <3>1. f \in FieldsIn(d)
      BY DEF FieldsIn
    <3> QED
      BY <2>5, <3>1, PropertiesOfDraft
  <2>8. ConceptWrong(g, s, "appliesTo", {of}) = {}
        /\ Dangling(g, s, "partitionProperty", {on}, {"Property"}, "invalid_ontology_reference") = {}
    <3> HIDE DEF g, of, on, s
    <3> QED
      BY <2>6, <2>7, NotDangling DEF ConceptWrong
  <2>9. ~Foreign(g, on, of)
    <3>1. /\ Named(g, on) /\ Single(g, on, "domain") = of /\ Single(g, on, "range") = Uri("xsd", f.type)
      BY <2>4, <2>5, FieldIs
    <3>2. Uri("xsd", f.type) # Absent
      BY TermsDiffer
    <3> HIDE DEF g, of, on
    <3> QED
      BY <2>7, <3>1, <3>2 DEF Foreign
  <2>10. p.grain \in DOMAIN Strategy /\ p.strategy = Strategy[p.grain] /\ p.active \in BOOLEAN /\ p.override \in BOOLEAN
    BY PoliciesInForce DEF Strategy
  <2>11. Required(g, s, "partitionGrain")[3] = p.grain /\ Required(g, s, "defaultStrategy")[3] = p.strategy
    BY <2>2, TermsDiffer
  <2>12. Required(g, s, "allowQueryOverride")[3] \in Booleans /\ (Required(g, s, "allowQueryOverride")[3] = "true") = p.override
    BY <2>2, <2>10, BoolsSay
  <2>13. (Text(g, s, "status", "active") = Lit("active")) = p.active
    BY <2>2, <2>10, BoolsSay
  <2>14. TextWrong(g, s, "priority", "0", DOMAIN Priorities, "invalid_priority") = {}
    <3>1. "0" \in DOMAIN Priorities
      BY DEF Priorities
    <3>2. Text(g, s, "priority", "0")[3] = "0"
      BY <2>2, TermsDiffer
    <3> QED
      BY <3>1, <3>2 DEF TextWrong
  <2>15. of # Absent /\ on # Absent
    BY TermsDiffer
  <2> HIDE DEF g, s
  <2>16. PolicyWrong(g, s) = {}
    <3> HIDE DEF of, on
    <3> QED
      BY <2>1, <2>3, <2>8, <2>9, <2>10, <2>11, <2>12, <2>14 DEF PolicyWrong
  <2>17. fine(s)
    BY <2>1, <2>10, <2>11, <2>15
  <2>18. entry(s) = PolicyRead(p)
    BY <2>1, <2>11, <2>12, <2>13 DEF PolicyRead, s
  <2> HIDE DEF fine, entry
  <2> QED
    BY <2>16, <2>17, <2>18 DEF s
<1> HIDE DEF g, all, entry, fine, twice
<1>5. ASSUME NEW x \in all
      PROVE  fine(x) /\ PolicyWrong(g, x) = {}
             /\ \E p \in EffectivePolicies(d) : x = Uri("policy", <<p.object, p.field>>) /\ entry(x) = PolicyRead(p)
  <2>1. PICK p \in EffectivePolicies(d) : x = Uri("policy", <<p.object, p.field>>)
    BY <1>1
  <2> QED
    BY <1>4, <2>1
<1>6. read = all
  BY <1>5
<1>7. {entry(x) : x \in all} = {PolicyRead(p) : p \in EffectivePolicies(d)}
  BY <1>1, <1>4, <1>5
<1>8. twice = {}
  <2>1. ASSUME NEW x \in all, NEW y \in all, Single(g, x, "appliesTo") = Single(g, y, "appliesTo")
        PROVE  x = y
    <3>1. PICK p \in EffectivePolicies(d) : x = Uri("policy", <<p.object, p.field>>)
      BY <1>5
    <3>2. PICK q \in EffectivePolicies(d) : y = Uri("policy", <<q.object, q.field>>)
      BY <1>5
    <3>3. Single(g, x, "appliesTo") = Uri("concept", p.object)
      BY <3>1, PolicyIs DEF g
    <3>4. Single(g, y, "appliesTo") = Uri("concept", q.object)
      BY <3>2, PolicyIs DEF g
    <3>5. p.object = q.object
      BY <2>1, <3>3, <3>4, TermsDiffer
    <3>6. p = q
      BY <3>5, PoliciesInForce
    <3> QED
      BY <3>1, <3>2, <3>6
  <2> QED
    BY <1>6, <2>1 DEF twice
<1>9. UNION {PolicyWrong(g, s) : s \in all} = {}
  BY <1>5
<1> QED
  BY <1>2, <1>3, <1>6, <1>7, <1>8, <1>9 DEF g

-------------------------------------------------------------------------------
(* Nothing else is wrong with a package that is built *)

LEMMA KindsOfParts ==
  ASSUME NEW d, WellDrafted(d), Accepted(d)
  PROVE  /\ \A e \in Parts(d) : e.kind \in Kind
         /\ AllMarked(Written(d)) = {e.uri : e \in Parts(d)}
         /\ UNION {Elements(Written(d), k) : k \in Kind} = {e.uri : e \in Parts(d)}
<1>1. \A e \in Parts(d) : e.kind \in Kind
  <2> TAKE e \in Parts(d)
  <2>1. e.kind = KindOf[e.uri[2]] /\ e.uri[2] \in DOMAIN KindOf
    BY PartsAreWhole, PartsByScope DEF KindOf
  <2>2. \A x \in DOMAIN KindOf : KindOf[x] \in Kind
    BY DEF KindOf, Kind
  <2> QED
    BY <2>1, <2>2
<1>2. \A k : Marked(Written(d), k) = {e.uri : e \in {x \in Parts(d) : x.kind = k}} /\ Elements(Written(d), k) = Marked(Written(d), k)
  BY WhatIsMarked
<1>3. UNION {Marked(Written(d), k) : k \in Kind} = {e.uri : e \in Parts(d)}
  <2>1. ASSUME NEW k \in Kind, NEW s \in Marked(Written(d), k)
        PROVE  s \in {e.uri : e \in Parts(d)}
    BY <1>2
  <2>2. ASSUME NEW e \in Parts(d)
        PROVE  \E k \in Kind : e.uri \in Marked(Written(d), k)
    BY <1>1, <1>2
  <2> QED
    BY <2>1, <2>2
<1>4. UNION {Elements(Written(d), k) : k \in Kind} = UNION {Marked(Written(d), k) : k \in Kind}
  BY <1>2
<1> QED
  BY <1>1, <1>3, <1>4 DEF AllMarked

LEMMA SubjectsAreFine ==
  ASSUME NEW d, WellDrafted(d), Accepted(d)
  PROVE  SubjectWrong(Written(d)) = {}
<1>1. \A e \in Parts(d) : e.uri[1] = "uri"
  BY PartsAreWhole
<1> QED
  BY <1>1, KindsOfParts DEF SubjectWrong

LEMMA NamesAreOwn ==
  ASSUME NEW d, WellDrafted(d), Accepted(d)
  PROVE  DuplicateWrong(Written(d)) = {}
<1> DEFINE g == Written(d)
           all == {<<s, Normal(ShortOf(g, s))>> : s \in UNION {Elements(g, k) : k \in Kind}}
<1>1. ASSUME NEW e \in Parts(d)
      PROVE  Normal(ShortOf(g, e.uri)) = e.short
  <2>1. ShortOf(g, e.uri) = e.short
    BY NamesAreGiven
  <2>2. e.short[1] # "lit"
    <3>1. e.short = <<"name", NameOf[e.uri[2]], e.short[3]>>
      BY PartsAreWhole
    <3>2. e.short[1] = "name"
      BY <3>1
    <3> QED
      BY <3>2
  <2> QED
    BY <2>1, <2>2 DEF Normal
<1>2. UNION {Elements(g, k) : k \in Kind} = {e.uri : e \in Parts(d)}
  BY KindsOfParts
<1>3. \A x \in all : \E e \in Parts(d) : x[1] = e.uri /\ x[2] = e.short
  BY <1>1, <1>2
<1>4. \A x, y \in all : x[2] = y[2] => x[1] = y[1]
  <2> TAKE x, y \in all
  <2> HIDE DEF all
  <2>1. PICK e \in Parts(d) : x[1] = e.uri /\ x[2] = e.short
    BY <1>3
  <2>2. PICK h \in Parts(d) : y[1] = h.uri /\ y[2] = h.short
    BY <1>3
  <2>3. e.short = h.short => e = h
    BY PartsDiffer
  <2> QED
    BY <2>1, <2>2, <2>3
<1> QED
  BY <1>4 DEF DuplicateWrong

LEMMA NothingBelow ==
  ASSUME NEW d, WellDrafted(d), Accepted(d), NEW S
  PROVE  Below(Written(d), S, AllMarked(Written(d))) = {}
<1> DEFINE g == Written(d)
<1> SUFFICES ASSUME NEW v \in Below(g, S, AllMarked(g)) PROVE FALSE
  OBVIOUS
<1>1. PICK t \in g : t[3] = v /\ t[2] # "type" /\ (t[2] = "configuration" \/ v \notin AllMarked(g))
  BY DEF Below
<1>2. v[1] = "blank" \/ (v[1] \in {"uri", "bad"} /\ \E u \in g : u[1] = v)
  BY DEF Below
<1>3. PICK e \in Parts(d) : t \in Triples(e) /\ t = <<e.uri, t[2], t[3]>> /\ t[2] \in Vocabulary
  BY TriplesOfElements
<1>4. t[2] # "configuration"
  BY <1>3 DEF Vocabulary
<1>5. ASSUME NEW u \in g, u[1] = v
      PROVE  v \in AllMarked(g)
  <2>1. PICK h \in Parts(d) : u = <<h.uri, u[2], u[3]>>
    BY TriplesOfElements
  <2>2. v = h.uri
    BY <1>5, <2>1
  <2> QED
    BY <2>2, KindsOfParts
<1>6. v[1] # "blank"
  <2>1. CASE t[2] = "shortName"
    <3>1. v = e.short
      BY <1>1, <1>3, <2>1, TriplesSay
    <3>2. e.short = <<"name", NameOf[e.uri[2]], e.short[3]>>
      BY PartsAreWhole
    <3>3. e.short[1] = "name"
      BY <3>2
    <3> QED
      BY <3>1, <3>3
  <2>2. CASE t[2] = "label"
    <3>1. v = e.short \/ \E l \in e.labels : v = Lit(l)
      BY <1>1, <1>3, <2>2, TriplesSay
    <3>2. e.short = <<"name", NameOf[e.uri[2]], e.short[3]>>
      BY PartsAreWhole
    <3>3. e.short[1] = "name"
      BY <3>2
    <3> QED
      BY <3>1, <3>3, TermsDiffer
  <2>3. CASE t[2] \notin {"type", "shortName", "label"}
    <3>1. t[2] \in DOMAIN e.more /\ v = e.more[t[2]]
      BY <1>1, <1>3, <2>3, TriplesSay
    <3>2. v[1] = "uri" \/ \E x : v = Lit(x)
      BY <3>1, PartsAreOfTerms
    <3> QED
      BY <3>2, TermsDiffer
  <2> QED
    BY <1>1, <2>1, <2>2, <2>3
<1> QED
  BY <1>1, <1>2, <1>4, <1>5, <1>6

LEMMA NothingToScan ==
  ASSUME NEW g, NEW roots, NEW elements, \A S : Below(g, S, elements) = {}
  PROVE  Described(g, roots, elements) = roots
<1> DEFINE T == ScanTerms + 1
           found == CHOOSE f : IsFinding(g, roots, elements, T, f)
           bad == {k \in 0 .. T : found[k] # roots}
<1>1. ScanTerms \in Nat /\ T \in Nat
  BY CatalogAssumption
<1>2. IsFinding(g, roots, elements, T, found) /\ Described(g, roots, elements) = found[T]
  <2>1. \E f : IsFinding(g, roots, elements, T, f)
    BY <1>1, FindingExists
  <2>2. Described(g, roots, elements) = found[T]
    BY DEF Described, IsFinding
  <2> QED
    BY <2>1, <2>2
<1>3. \A k \in 0 .. T : found[k] = IF k = 0 THEN roots ELSE found[k - 1] \cup Below(g, found[k - 1], elements)
  BY <1>2 DEF IsFinding
<1> HIDE DEF found, T
<1>4. bad = {}
  <2> SUFFICES ASSUME bad # {} PROVE FALSE
    OBVIOUS
  <2>1. PICK k \in bad : \A j \in bad : k <= j
    <3>1. bad \subseteq Nat
      OBVIOUS
    <3> HIDE DEF bad
    <3> QED
      BY <3>1, LeastNumber
  <2>2. k \in 0 .. T /\ found[k] # roots
    OBVIOUS
  <2>3. k # 0
    BY <1>3, <2>2
  <2>4. k - 1 \in 0 .. T
    BY <1>1, <2>2, <2>3
  <2>5. k - 1 \notin bad
    <3> HIDE DEF bad
    <3> QED
      BY <1>1, <2>1, <2>2, <2>4
  <2>6. found[k - 1] = roots
    BY <2>4, <2>5
  <2>7. found[k] = found[k - 1] \cup Below(g, found[k - 1], elements)
    BY <1>3, <2>2, <2>3
  <2>8. found[k] = roots
    BY <2>6, <2>7
  <2> QED
    BY <2>2, <2>8
<1>5. T \in 0 .. T
  BY <1>1
<1> QED
  BY <1>2, <1>4, <1>5

LEMMA NoCredentialsWritten ==
  ASSUME NEW d, WellDrafted(d), Accepted(d)
  PROVE  CredentialWrong(Written(d)) = {}
<1> DEFINE g == Written(d)
           roots == Elements(g, "DataSource") \cup Elements(g, "PhysicalMapping")
           nodes == Described(g, roots, AllMarked(g)) \ roots
<1>1. Described(g, roots, AllMarked(g)) = roots
  <2>1. \A S : Below(g, S, AllMarked(g)) = {}
    BY NothingBelow
  <2> HIDE DEF g, roots
  <2> QED
    BY <2>1, NothingToScan
<1>2. nodes = {}
  BY <1>1
<1>3. Cardinality({}) = 0
  BY FS_EmptySet
<1>4. {t \in g : t[1] \in nodes} = {}
  BY <1>2
<1>5. ScanTerms \in Nat /\ ScanEdges \in Nat
  BY CatalogAssumption
<1>6. ~(Cardinality(nodes) > ScanTerms) /\ ~(Cardinality({t \in g : t[1] \in nodes}) > ScanEdges)
  <2>1. Cardinality(nodes) = 0
    BY <1>2, <1>3
  <2>2. Cardinality({t \in g : t[1] \in nodes}) = 0
    BY <1>3, <1>4
  <2> HIDE DEF g, nodes
  <2> QED
    BY <1>5, <2>1, <2>2
<1>7. \A t \in g : t[2] \notin Credentials
  <2> TAKE t \in g
  <2>1. t[2] \in Vocabulary
    BY TriplesOfElements
  <2> QED
    BY <2>1, PackageAssumption
<1> QED
  BY <1>6, <1>7 DEF CredentialWrong

LEMMA NothingIsWrong ==
  ASSUME NEW d, WellDrafted(d), Accepted(d), NEW rank
  PROVE  Parsed(Written(d), rank).wrong = {}
<1> DEFINE g == Written(d)
           elements == [concepts |-> ReadConcepts(g), properties |-> ReadProperties(g), relations |-> ReadRelations(g),
                        sources |-> ReadSources(g), mappings |-> ReadMappings(g), policies |-> ReadPolicies(g)]
<1>1. Parsed(g, rank).wrong = ParseElements(g).wrong \cup ReadRules(g, rank).wrong
  BY DEF Parsed, WithRules, Read
<1>2. ParseElements(g).wrong = (CredentialWrong(g) \cup SubjectWrong(g) \cup DuplicateWrong(g))
        \cup UNION {elements[k].wrong : k \in DOMAIN elements}
  BY DEF ParseElements, Together, Read
<1>3. \A k \in DOMAIN elements : elements[k].wrong = {}
  BY ConceptsRead, PropertiesRead, RelationsRead, SourcesRead, MappingsRead, PoliciesRead
<1>4. CredentialWrong(g) = {} /\ SubjectWrong(g) = {} /\ DuplicateWrong(g) = {}
  BY NoCredentialsWritten, SubjectsAreFine, NamesAreOwn
<1>5. ReadRules(g, rank).wrong = {}
  BY RulesRead
<1> HIDE DEF elements, g
<1> QED
  BY <1>1, <1>2, <1>3, <1>4, <1>5 DEF g

-------------------------------------------------------------------------------
(* A package that is built has the shapes *)

LEMMA PartsAreShaped ==
  ASSUME NEW d, WellDrafted(d), Accepted(d), NEW e \in Parts(d)
  PROVE  LET g == Written(d)
             s == e.uri
         IN /\ s[1] = "uri" /\ Required(g, s, "shortName") # Absent
            /\ Said(g, s, "label") # {} /\ Literals(Said(g, s, "label")) = Said(g, s, "label")
            /\ e.kind \in DOMAIN Standard => Typed(s, e.kind) \in g
<1> DEFINE g == Written(d)
           s == e.uri
<1>1. e.short = <<"name", NameOf[e.uri[2]], e.short[3]>> /\ e.uri = <<"uri", e.uri[2], e.uri[3]>>
  BY PartsAreWhole
<1>2. s[1] = "uri" /\ e.short[1] = "name" /\ e.short # Absent
  BY <1>1, TermsDiffer
<1>3. Required(g, s, "shortName") # Absent
  BY <1>2, NamesAreGiven DEF ShortOf
<1>4. Said(g, s, "label") = {e.short} \cup {Lit(l) : l \in e.labels}
  BY WhatIsSaid
<1>5. Literals({e.short} \cup {Lit(l) : l \in e.labels}) = {e.short} \cup {Lit(l) : l \in e.labels}
  BY <1>2, TermsDiffer DEF Literals
<1>6. e.kind \in DOMAIN Standard => Typed(s, e.kind) \in g
  BY WhatIsMarked
<1> QED
  BY <1>2, <1>3, <1>4, <1>5, <1>6

(* What a shape wants of a reference. *)
LEMMA ReferencesAreShaped ==
  ASSUME NEW d, WellDrafted(d), Accepted(d), NEW e \in Parts(d), NEW p \in DOMAIN e.more, e.more[p][1] = "uri"
  PROVE  /\ Cardinality(Said(Written(d), e.uri, p)) = 1 /\ Only(Said(Written(d), e.uri, p))[1] \in {"uri", "bad"}
         /\ Cardinality(Said(Written(d), e.uri, p)) <= 1 /\ \A v \in Said(Written(d), e.uri, p) : v[1] \in {"uri", "bad"}
<1>1. Said(Written(d), e.uri, p) = {e.more[p]}
  BY PartRefers
<1>2. Cardinality({e.more[p]}) = 1 /\ Only({e.more[p]}) = e.more[p]
  BY FS_Singleton DEF Only
<1> QED
  BY <1>1, <1>2

LEMMA FieldIsShaped ==
  ASSUME NEW d, WellDrafted(d), Accepted(d), NEW o \in d.objects, NEW f \in o.fields
  PROVE  LET s == FieldPart(o, f).uri
         IN /\ \A p \in {"domain", "range"} : Cardinality(Said(Written(d), s, p)) = 1 /\ Only(Said(Written(d), s, p))[1] \in {"uri", "bad"}
            /\ Said(Written(d), s, "range") \subseteq Xsd
<1> DEFINE e == FieldPart(o, f)
<1>1. e.uri = Uri("property", f.id) /\ DOMAIN e.more = {"domain", "range"}
      /\ e.more["domain"] = Uri("concept", o.id) /\ e.more["range"] = Uri("xsd", f.type)
  BY DEF FieldPart, Part
<1>2. e \in Parts(d)
  BY PartsOfDraft
<1> HIDE DEF e
<1>3. \A p \in DOMAIN e.more : e.more[p][1] = "uri"
  BY <1>1, TermsDiffer
<1>4. \A p \in DOMAIN e.more : Cardinality(Said(Written(d), e.uri, p)) = 1 /\ Only(Said(Written(d), e.uri, p))[1] \in {"uri", "bad"}
  BY <1>2, <1>3, ReferencesAreShaped
<1>5. Said(Written(d), Uri("property", f.id), "range") = {Uri("xsd", f.type)} /\ Uri("xsd", f.type) \in Xsd
  <2>1. Said(Written(d), Uri("property", f.id), "range") = {Uri("xsd", f.type)}
    BY FieldIs
  <2>2. Uri("xsd", f.type) \in Xsd
    BY DEF Accepted
  <2> QED
    BY <2>1, <2>2
<1> QED
  BY <1>1, <1>4, <1>5 DEF e

LEMMA RelationIsShaped ==
  ASSUME NEW d, WellDrafted(d), Accepted(d), NEW r \in d.relations
  PROVE  LET s == RelationPart(r).uri
             g == Written(d)
         IN /\ \A p \in {"domain", "range"} : Cardinality(Said(g, s, p)) = 1 /\ Only(Said(g, s, p))[1] \in {"uri", "bad"}
            /\ \A p \in {"sourceProperty", "targetProperty"} :
                 Cardinality(Said(g, s, p)) <= 1 /\ \A v \in Said(g, s, p) : v[1] \in {"uri", "bad"}
            /\ LiteralWrong(g, s, "status", "shape") = {}
            /\ Text(g, s, "confirmed", "false")[3] \in Booleans \cup {"1", "0"}
<1> DEFINE e == RelationPart(r)
           g == Written(d)
<1>1. /\ e.uri = Uri("relation", r.id) /\ {"domain", "range", "sourceProperty", "targetProperty"} \subseteq DOMAIN e.more
      /\ e.more["domain"] = Uri("concept", r.from) /\ e.more["range"] = Uri("concept", r.to)
      /\ e.more["sourceProperty"] = Uri("property", r.fromField) /\ e.more["targetProperty"] = Uri("property", r.toField)
  BY DEF RelationPart, Part
<1>2. e \in Parts(d)
  BY PartsOfDraft
<1>3. LiteralWrong(g, Uri("relation", r.id), "status", "shape") = {}
      /\ Text(g, Uri("relation", r.id), "confirmed", "false") = Bool(Effective(r))
  BY RelationIs
<1>4. Bool(Effective(r))[3] \in Booleans
  BY TermsDiffer DEF Bool, Booleans
<1> HIDE DEF e, g
<1>5. \A p \in {"domain", "range", "sourceProperty", "targetProperty"} : p \in DOMAIN e.more /\ e.more[p][1] = "uri"
  BY <1>1, TermsDiffer
<1>6. \A p \in {"domain", "range", "sourceProperty", "targetProperty"} :
         /\ Cardinality(Said(g, e.uri, p)) = 1 /\ Only(Said(g, e.uri, p))[1] \in {"uri", "bad"}
         /\ Cardinality(Said(g, e.uri, p)) <= 1 /\ \A v \in Said(g, e.uri, p) : v[1] \in {"uri", "bad"}
  BY <1>2, <1>5, ReferencesAreShaped DEF g
<1> QED
  BY <1>1, <1>3, <1>4, <1>6 DEF g, e

LEMMA MappingIsShaped ==
  ASSUME NEW d, WellDrafted(d), Accepted(d), NEW e \in Parts(d), e.kind = "PhysicalMapping"
  PROVE  \A p \in {"semanticElement", "dataSource"} :
           Cardinality(Said(Written(d), e.uri, p)) = 1 /\ Only(Said(Written(d), e.uri, p))[1] \in {"uri", "bad"}
<1>1. CASE \E o \in d.objects : e = ObjectMappingPart(d, o)
  <2>1. PICK o \in d.objects : e = ObjectMappingPart(d, o)
    BY <1>1
  <2>2. /\ {"semanticElement", "dataSource"} \subseteq DOMAIN e.more
        /\ e.more["semanticElement"] = Uri("concept", o.id) /\ e.more["dataSource"] = Uri("source", d.source.id)
    BY <2>1 DEF ObjectMappingPart, Part
  <2>3. \A p \in {"semanticElement", "dataSource"} : p \in DOMAIN e.more /\ e.more[p][1] = "uri"
    BY <2>2, TermsDiffer
  <2> QED
    BY <2>3, ReferencesAreShaped
<1>2. CASE \E o \in FieldsIn(d) : e = FieldMappingPart(d, o)
  <2>1. PICK o \in FieldsIn(d) : e = FieldMappingPart(d, o)
    BY <1>2
  <2>2. /\ {"semanticElement", "dataSource"} \subseteq DOMAIN e.more
        /\ e.more["semanticElement"] = Uri("property", o.id) /\ e.more["dataSource"] = Uri("source", d.source.id)
    BY <2>1 DEF FieldMappingPart, Part
  <2>3. \A p \in {"semanticElement", "dataSource"} : p \in DOMAIN e.more /\ e.more[p][1] = "uri"
    BY <2>2, TermsDiffer
  <2> QED
    BY <2>3, ReferencesAreShaped
<1> QED
  BY <1>1, <1>2, PartsByKind

LEMMA PolicyIsShaped ==
  ASSUME NEW d, WellDrafted(d), Accepted(d), NEW q \in EffectivePolicies(d)
  PROVE  LET s == PolicyPart(q).uri
             g == Written(d)
         IN /\ \A p \in {"appliesTo", "partitionProperty"} : Cardinality(Said(g, s, p)) = 1 /\ Only(Said(g, s, p))[1] \in {"uri", "bad"}
            /\ Required(g, s, "partitionGrain")[3] \in DOMAIN Strategy
            /\ \E grain \in DOMAIN Strategy : Required(g, s, "defaultStrategy")[3] = Strategy[grain]
            /\ Required(g, s, "allowQueryOverride")[3] \in Booleans \cup {"1", "0"}
<1> DEFINE e == PolicyPart(q)
           g == Written(d)
<1>1. /\ e.uri = Uri("policy", <<q.object, q.field>>) /\ {"appliesTo", "partitionProperty"} \subseteq DOMAIN e.more
      /\ e.more["appliesTo"] = Uri("concept", q.object) /\ e.more["partitionProperty"] = Uri("property", q.field)
  BY DEF PolicyPart, Part
<1>2. e \in Parts(d)
  BY PartsOfDraft
<1> DEFINE s == Uri("policy", <<q.object, q.field>>)
<1>3. /\ Required(g, s, "partitionGrain") = Lit(q.grain) /\ Required(g, s, "defaultStrategy") = Lit(q.strategy)
      /\ Required(g, s, "allowQueryOverride") = Bool(q.override)
  BY PolicyIs
<1>4. q.grain \in DOMAIN Strategy /\ q.strategy = Strategy[q.grain]
  BY PoliciesInForce DEF Strategy
<1>5. Bool(q.override)[3] \in Booleans
  BY TermsDiffer DEF Bool, Booleans
<1> HIDE DEF e, g
<1>6. \A p \in {"appliesTo", "partitionProperty"} : p \in DOMAIN e.more /\ e.more[p][1] = "uri"
  BY <1>1, TermsDiffer
<1>7. \A p \in {"appliesTo", "partitionProperty"} : Cardinality(Said(g, e.uri, p)) = 1 /\ Only(Said(g, e.uri, p))[1] \in {"uri", "bad"}
  BY <1>2, <1>6, ReferencesAreShaped DEF g
<1>8. /\ Required(g, s, "partitionGrain")[3] \in DOMAIN Strategy
      /\ Required(g, s, "defaultStrategy")[3] = Strategy[q.grain]
      /\ Required(g, s, "allowQueryOverride")[3] \in Booleans
  BY <1>3, <1>4, <1>5, TermsDiffer
<1> HIDE DEF s
<1>9. e.uri = s
  BY <1>1 DEF s
<1> QED
  BY <1>4, <1>7, <1>8, <1>9 DEF g, e

LEMMA ShapesAreKept ==
  ASSUME NEW d, WellDrafted(d), Accepted(d)
  PROVE  ShapesHold(Written(d))
<1> DEFINE g == Written(d)
<1> SUFFICES ASSUME NEW k \in Kind, NEW s \in Marked(g, k)
             PROVE  /\ s[1] \in {"uri", "bad"}
                    /\ Required(g, s, "shortName") # Absent
                    /\ Said(g, s, "label") # {} /\ Literals(Said(g, s, "label")) = Said(g, s, "label")
                    /\ \A p \in RefsOf[k] : Cardinality(Said(g, s, p)) = 1 /\ Only(Said(g, s, p))[1] \in {"uri", "bad"}
                    /\ k \in DOMAIN Standard => Typed(s, k) \in g
                    /\ k = "Property" => Said(g, s, "range") \subseteq Xsd
                    /\ k = "Relation" => /\ \A p \in {"sourceProperty", "targetProperty"} :
                                              Cardinality(Said(g, s, p)) <= 1 /\ \A v \in Said(g, s, p) : v[1] \in {"uri", "bad"}
                                         /\ LiteralWrong(g, s, "status", "shape") = {}
                                         /\ Text(g, s, "confirmed", "false")[3] \in Booleans \cup {"1", "0"}
                    /\ k = "DataSource" => Required(g, s, "platformType") # Absent
                    /\ k = "TemporalPartitionPolicy" =>
                         /\ Required(g, s, "partitionGrain")[3] \in DOMAIN Strategy
                         /\ \E grain \in DOMAIN Strategy : Required(g, s, "defaultStrategy")[3] = Strategy[grain]
                         /\ Required(g, s, "allowQueryOverride")[3] \in Booleans \cup {"1", "0"}
  BY DEF ShapesHold
<1>1. PICK e \in Parts(d) : e.kind = k /\ e.uri = s
  BY WhatIsMarked
<1>2. /\ s[1] \in {"uri", "bad"} /\ Required(g, s, "shortName") # Absent
      /\ Said(g, s, "label") # {} /\ Literals(Said(g, s, "label")) = Said(g, s, "label")
      /\ k \in DOMAIN Standard => Typed(s, k) \in g
  BY <1>1, PartsAreShaped
<1> HIDE DEF g
<1>3. CASE k = "Concept"
  <2>1. RefsOf[k] = {}
    BY <1>3 DEF RefsOf
  <2> QED
    BY <1>2, <1>3, <2>1
<1>4. CASE k = "Property"
  <2>1. PICK o \in d.objects : \E f \in o.fields : e = FieldPart(o, f)
    BY <1>1, <1>4, PartsByKind
  <2>2. PICK f \in o.fields : e = FieldPart(o, f)
    BY <2>1
  <2>3. RefsOf[k] = {"domain", "range"}
    BY <1>4 DEF RefsOf
  <2>4. /\ \A p \in {"domain", "range"} : Cardinality(Said(g, s, p)) = 1 /\ Only(Said(g, s, p))[1] \in {"uri", "bad"}
        /\ Said(g, s, "range") \subseteq Xsd
    BY <1>1, <2>2, FieldIsShaped DEF g
  <2> QED
    BY <1>2, <1>4, <2>3, <2>4
<1>5. CASE k = "Relation"
  <2>1. PICK r \in d.relations : e = RelationPart(r)
    BY <1>1, <1>5, PartsByKind
  <2>2. RefsOf[k] = {"domain", "range"}
    BY <1>5 DEF RefsOf
  <2>3. /\ \A p \in {"domain", "range"} : Cardinality(Said(g, s, p)) = 1 /\ Only(Said(g, s, p))[1] \in {"uri", "bad"}
        /\ \A p \in {"sourceProperty", "targetProperty"} :
             Cardinality(Said(g, s, p)) <= 1 /\ \A v \in Said(g, s, p) : v[1] \in {"uri", "bad"}
        /\ LiteralWrong(g, s, "status", "shape") = {}
        /\ Text(g, s, "confirmed", "false")[3] \in Booleans \cup {"1", "0"}
    BY <1>1, <2>1, RelationIsShaped DEF g
  <2> QED
    BY <1>2, <1>5, <2>2, <2>3
<1>6. CASE k = "DataSource"
  <2>1. s = Uri("source", d.source.id)
    BY <1>1, <1>6, PartsByKind DEF SourcePart, Part
  <2>2. Required(g, s, "platformType") = Lit(d.source.platform)
    BY <2>1, SourceIs DEF g
  <2>3. Required(g, s, "platformType") # Absent
    BY <2>2, TermsDiffer
  <2>4. RefsOf[k] = {}
    BY <1>6 DEF RefsOf
  <2> QED
    BY <1>2, <1>6, <2>3, <2>4
<1>7. CASE k = "PhysicalMapping"
  <2>1. RefsOf[k] = {"semanticElement", "dataSource"}
    BY <1>7 DEF RefsOf
  <2>2. \A p \in {"semanticElement", "dataSource"} : Cardinality(Said(g, s, p)) = 1 /\ Only(Said(g, s, p))[1] \in {"uri", "bad"}
    BY <1>1, <1>7, MappingIsShaped DEF g
  <2> QED
    BY <1>2, <1>7, <2>1, <2>2
<1>8. CASE k = "TemporalPartitionPolicy"
  <2>1. PICK q \in EffectivePolicies(d) : e = PolicyPart(q)
    BY <1>1, <1>8, PartsByKind
  <2>2. RefsOf[k] = {"appliesTo", "partitionProperty"}
    BY <1>8 DEF RefsOf
  <2>3. /\ \A p \in {"appliesTo", "partitionProperty"} : Cardinality(Said(g, s, p)) = 1 /\ Only(Said(g, s, p))[1] \in {"uri", "bad"}
        /\ Required(g, s, "partitionGrain")[3] \in DOMAIN Strategy
        /\ \E grain \in DOMAIN Strategy : Required(g, s, "defaultStrategy")[3] = Strategy[grain]
        /\ Required(g, s, "allowQueryOverride")[3] \in Booleans \cup {"1", "0"}
    BY <1>1, <2>1, PolicyIsShaped DEF g
  <2> QED
    BY <1>2, <1>8, <2>2, <2>3
<1>9. k # "BusinessRule"
  BY <1>1, PartsByKind
<1> QED
  BY <1>3, <1>4, <1>5, <1>6, <1>7, <1>8, <1>9 DEF Kind

-------------------------------------------------------------------------------
(* The policies that table names imply are those of the draft *)

ObjectRead(d, o) ==
  [uri |-> Uri("objectMapping", o.id), short |-> Short("ObjectMapping", o.id), element |-> Uri("concept", o.id),
   source |-> Uri("source", d.source.id), object |-> o.physical, field |-> EmptyText, priority |-> 0, enabled |-> o.active]
FieldRead(d, f) ==
  [uri |-> Uri("fieldMapping", f.id), short |-> Short("FieldMapping", f.id), element |-> Uri("property", f.id),
   source |-> Uri("source", d.source.id), object |-> EmptyText, field |-> f.physical, priority |-> 0, enabled |-> f.active]

LEMMA PreferredIs ==
  ASSUME NEW m
  PROVE  Preferred({m}) = m
  BY DEF Preferred

LEMMA TableIs ==
  ASSUME NEW d, WellDrafted(d), Accepted(d), NEW c,
         c.mappings = {ObjectRead(d, o) : o \in d.objects} \cup {FieldRead(d, f) : f \in FieldsIn(d)}, NEW o \in d.objects
  PROVE  TableOf(c, Uri("concept", o.id)) =
           IF o.active THEN <<"table", Uri("source", d.source.id), o.physical>> ELSE Absent
<1> DEFINE concept == Uri("concept", o.id)
           ms == {m \in Enabled(c, concept) : m.object # EmptyText}
<1>1. \A q : ObjectRead(d, q).element = Uri("concept", q.id) /\ ObjectRead(d, q).enabled = q.active
             /\ ObjectRead(d, q).object = q.physical /\ ObjectRead(d, q).source = Uri("source", d.source.id)
  BY DEF ObjectRead
<1>2. \A f : FieldRead(d, f).element = Uri("property", f.id)
  BY DEF FieldRead
<1>3. \A q \in d.objects : Uri("concept", q.id) = concept => q = o
  BY TermsDiffer DEF Accepted
<1>4. \A f : Uri("property", f.id) # concept
  BY TermsDiffer
<1>5. o.physical # EmptyText /\ o.active \in BOOLEAN
  BY DEF WellDrafted
<1>6. CASE o.active
  <2>1. ObjectRead(d, o) \in ms
    BY <1>1, <1>5, <1>6 DEF Enabled
  <2>2. ASSUME NEW m \in ms
        PROVE  m = ObjectRead(d, o)
    <3>1. m \in c.mappings /\ m.element = concept
      BY DEF Enabled
    <3>2. CASE \E q \in d.objects : m = ObjectRead(d, q)
      <4>1. PICK q \in d.objects : m = ObjectRead(d, q)
        BY <3>2
      <4> QED
        BY <1>1, <1>3, <3>1, <4>1
    <3>3. CASE \E f \in FieldsIn(d) : m = FieldRead(d, f)
      BY <1>2, <1>4, <3>1, <3>3
    <3> QED
      BY <3>1, <3>2, <3>3
  <2>3. ms = {ObjectRead(d, o)}
    BY <2>1, <2>2
  <2>4. Preferred(ms) = ObjectRead(d, o) /\ ms # {}
    BY <2>3, PreferredIs
  <2>5. TableOf(c, concept) = <<"table", Preferred(ms).source, Preferred(ms).object>>
    BY <2>4 DEF TableOf
  <2> HIDE DEF ms
  <2> QED
    BY <1>1, <1>6, <2>4, <2>5
<1>7. CASE ~o.active
  <2>1. ASSUME NEW m \in ms
        PROVE  FALSE
    <3>1. m \in c.mappings /\ m.element = concept /\ m.enabled
      BY DEF Enabled
    <3>2. CASE \E q \in d.objects : m = ObjectRead(d, q)
      <4>1. PICK q \in d.objects : m = ObjectRead(d, q)
        BY <3>2
      <4> QED
        BY <1>1, <1>3, <1>7, <3>1, <4>1
    <3>3. CASE \E f \in FieldsIn(d) : m = FieldRead(d, f)
      BY <1>2, <1>4, <3>1, <3>3
    <3> QED
      BY <3>1, <3>2, <3>3
  <2>2. ms = {}
    BY <2>1
  <2> QED
    BY <1>7, <2>2 DEF TableOf
<1> QED
  BY <1>5, <1>6, <1>7

LEMMA FieldIsMapped ==
  ASSUME NEW d, WellDrafted(d), Accepted(d), NEW c,
         c.mappings = {ObjectRead(d, o) : o \in d.objects} \cup {FieldRead(d, f) : f \in FieldsIn(d)}, NEW f \in FieldsIn(d)
  PROVE  FieldOf(c, Uri("property", f.id), Uri("source", d.source.id)) = IF f.active THEN f.physical ELSE EmptyText
<1> DEFINE property == Uri("property", f.id)
           source == Uri("source", d.source.id)
           ms == {m \in Enabled(c, property) : m.field # EmptyText /\ m.source = source}
<1>1. \A h : FieldRead(d, h).element = Uri("property", h.id) /\ FieldRead(d, h).enabled = h.active
             /\ FieldRead(d, h).field = h.physical /\ FieldRead(d, h).source = source
  BY DEF FieldRead
<1>2. \A o : ObjectRead(d, o).element = Uri("concept", o.id)
  BY DEF ObjectRead
<1>3. \A h \in FieldsIn(d) : Uri("property", h.id) = property => h = f
  BY TermsDiffer DEF Accepted, FieldsIn
<1>4. \A o : Uri("concept", o.id) # property
  BY TermsDiffer
<1>5. f.physical # EmptyText /\ f.active \in BOOLEAN
  BY DEF WellDrafted
<1>6. CASE f.active
  <2>1. FieldRead(d, f) \in ms
    BY <1>1, <1>5, <1>6 DEF Enabled
  <2>2. ASSUME NEW m \in ms
        PROVE  m = FieldRead(d, f)
    <3>1. m \in c.mappings /\ m.element = property
      BY DEF Enabled
    <3>2. CASE \E h \in FieldsIn(d) : m = FieldRead(d, h)
      <4>1. PICK h \in FieldsIn(d) : m = FieldRead(d, h)
        BY <3>2
      <4> QED
        BY <1>1, <1>3, <3>1, <4>1
    <3>3. CASE \E o \in d.objects : m = ObjectRead(d, o)
      BY <1>2, <1>4, <3>1, <3>3
    <3> QED
      BY <3>1, <3>2, <3>3
  <2>3. ms = {FieldRead(d, f)}
    BY <2>1, <2>2
  <2>4. Preferred(ms) = FieldRead(d, f) /\ ms # {}
    BY <2>3, PreferredIs
  <2>5. FieldOf(c, property, source) = Preferred(ms).field
    BY <2>4 DEF FieldOf
  <2> HIDE DEF ms
  <2> QED
    BY <1>1, <1>6, <2>4, <2>5
<1>7. CASE ~f.active
  <2>1. ASSUME NEW m \in ms
        PROVE  FALSE
    <3>1. m \in c.mappings /\ m.element = property /\ m.enabled
      BY DEF Enabled
    <3>2. CASE \E h \in FieldsIn(d) : m = FieldRead(d, h)
      <4>1. PICK h \in FieldsIn(d) : m = FieldRead(d, h)
        BY <3>2
      <4> QED
        BY <1>1, <1>3, <1>7, <3>1, <4>1
    <3>3. CASE \E o \in d.objects : m = ObjectRead(d, o)
      BY <1>2, <1>4, <3>1, <3>3
    <3> QED
      BY <3>1, <3>2, <3>3
  <2>2. ms = {}
    BY <2>1
  <2> QED
    BY <1>7, <2>2 DEF FieldOf
<1> QED
  BY <1>5, <1>6, <1>7

(* A catalog in which the elements of a draft were read, before policies are added. *)
ReadOf(d, c) ==
  /\ c.concepts = MeaningOf(d).concepts /\ c.properties = MeaningOf(d).properties
  /\ c.mappings = {ObjectRead(d, o) : o \in d.objects} \cup {FieldRead(d, f) : f \in FieldsIn(d)}
  /\ c.policies = {PolicyRead(p) : p \in EffectivePolicies(d)}

LEMMA ConceptsMeant ==
  ASSUME NEW d
  PROVE  {x.uri : x \in MeaningOf(d).concepts} = {Uri("concept", o.id) : o \in d.objects}
<1> DEFINE meaning(o) == [uri |-> Uri("concept", o.id), short |-> Short("Concept", o.id), parents |-> {}, children |-> {},
                          labels |-> {Short("Concept", o.id), Lit(o.physical)}]
<1>1. MeaningOf(d).concepts = {meaning(o) : o \in d.objects}
  BY DEF MeaningOf
<1>2. \A o : meaning(o).uri = Uri("concept", o.id)
  OBVIOUS
<1> HIDE DEF meaning
<1> QED
  BY <1>1, <1>2

LEMMA PropertiesMeant ==
  ASSUME NEW d
  PROVE  /\ \A x \in MeaningOf(d).properties :
              \E o \in d.objects : \E f \in o.fields : x.uri = Uri("property", f.id) /\ x.of = Uri("concept", o.id)
         /\ \A o \in d.objects : \A f \in o.fields :
              \E x \in MeaningOf(d).properties : x.uri = Uri("property", f.id) /\ x.of = Uri("concept", o.id)
<1> DEFINE meaning(o, f) == [uri |-> Uri("property", f.id), short |-> Short("Property", f.id), of |-> Uri("concept", o.id),
                             type |-> Uri("xsd", f.type),
                             labels |-> {Short("Property", f.id), Lit(f.physical)} \cup {Lit(a) : a \in f.aliases \ {EmptyText}}]
<1>1. MeaningOf(d).properties = UNION {{meaning(o, f) : f \in o.fields} : o \in d.objects}
  BY DEF MeaningOf
<1>2. \A o, f : meaning(o, f).uri = Uri("property", f.id) /\ meaning(o, f).of = Uri("concept", o.id)
  OBVIOUS
<1> HIDE DEF meaning
<1>3. ASSUME NEW x \in MeaningOf(d).properties
      PROVE  \E o \in d.objects : \E f \in o.fields : x.uri = Uri("property", f.id) /\ x.of = Uri("concept", o.id)
  <2>1. PICK o \in d.objects : x \in {meaning(o, f) : f \in o.fields}
    BY <1>1
  <2>2. PICK f \in o.fields : x = meaning(o, f)
    BY <2>1
  <2> QED
    BY <1>2, <2>2
<1>4. ASSUME NEW o \in d.objects, NEW f \in o.fields
      PROVE  \E x \in MeaningOf(d).properties : x.uri = Uri("property", f.id) /\ x.of = Uri("concept", o.id)
  <2>1. meaning(o, f) \in MeaningOf(d).properties
    BY <1>1
  <2> QED
    BY <1>2, <2>1
<1> QED
  BY <1>3, <1>4

LEMMA RuledAre ==
  ASSUME NEW d, WellDrafted(d), Accepted(d), NEW c, ReadOf(d, c)
  PROVE  Ruled(c) = {Uri("concept", o.id) : o \in {x \in d.objects : x.active /\ Conventional(x)}}
<1> DEFINE ruled(t) == t # Absent /\ Suffix(t[3]) \in DOMAIN Convention
<1>1. Ruled(c) = {u \in {x.uri : x \in c.concepts} : ruled(TableOf(c, u))}
  BY DEF Ruled
<1>2. {x.uri : x \in c.concepts} = {Uri("concept", o.id) : o \in d.objects}
  BY ConceptsMeant DEF ReadOf
<1>3. ASSUME NEW o \in d.objects
      PROVE  ruled(TableOf(c, Uri("concept", o.id))) <=> o.active /\ Conventional(o)
  <2>1. TableOf(c, Uri("concept", o.id)) = IF o.active THEN <<"table", Uri("source", d.source.id), o.physical>> ELSE Absent
    BY TableIs DEF ReadOf
  <2>2. \A a, b : <<"table", a, b>> # Absent /\ <<"table", a, b>>[3] = b
    BY DEF Absent
  <2> QED
    BY <2>1, <2>2 DEF Conventional
<1> HIDE DEF ruled
<1> QED
  BY <1>1, <1>2, <1>3

LEMMA AutomaticIs ==
  ASSUME NEW d, WellDrafted(d), Accepted(d), NEW c, ReadOf(d, c), NEW o \in d.objects, o.active, Conventional(o)
  PROVE  \E f \in PartitionFields(o) :
           /\ PartitionFields(o) = {f}
           /\ \E x : /\ AutomaticFor(c, Uri("concept", o.id)) = {x} /\ x.of = Uri("concept", o.id) /\ x.on = Uri("property", f.id)
                     /\ x.grain = Convention[Suffix(o.physical)].grain
<1> DEFINE concept == Uri("concept", o.id)
           source == Uri("source", d.source.id)
           rule  == Convention[Suffix(o.physical)]
           found == {p.uri : p \in {x \in c.properties : x.of = concept /\ UpperOf(FieldOf(c, x.uri, source)) = rule.field}}
<1>1. PICK f : PartitionFields(o) = {f}
  <2>1. IsFiniteSet(PartitionFields(o))
    BY FS_Subset DEF WellDrafted, PartitionFields
  <2>2. Cardinality(PartitionFields(o)) = 1
    BY DEF Accepted
  <2> QED
    BY <2>1, <2>2, FS_Singleton
<1>2. rule.field # EmptyText
  <2>1. rule.field \in {"P_DAY", "P_MON"}
    BY DEF Conventional, Convention
  <2> QED
    BY <2>1, TextsAreTexts
<1>3. UpperOf(EmptyText) = EmptyText
  BY PackageAssumption DEF UpperOf
<1>4. \A h \in o.fields : UpperOf(FieldOf(c, Uri("property", h.id), source)) = rule.field <=> h = f
  <2> TAKE h \in o.fields
  <2>1. h \in FieldsIn(d)
    BY DEF FieldsIn
  <2>2. FieldOf(c, Uri("property", h.id), source) = IF h.active THEN h.physical ELSE EmptyText
    BY <2>1, FieldIsMapped DEF ReadOf
  <2>3. h \in PartitionFields(o) <=> UpperOf(h.physical) = rule.field /\ h.active
    BY DEF PartitionFields
  <2> HIDE DEF rule
  <2> QED
    BY <1>1, <1>2, <1>3, <2>2, <2>3
<1>5. f \in o.fields
  BY <1>1 DEF PartitionFields
<1>6. found = {Uri("property", f.id)}
  <2>1. ASSUME NEW x \in c.properties, x.of = concept, UpperOf(FieldOf(c, x.uri, source)) = rule.field
        PROVE  x.uri = Uri("property", f.id)
    <3>1. PICK q \in d.objects : \E h \in q.fields : x.uri = Uri("property", h.id) /\ x.of = Uri("concept", q.id)
      BY PropertiesMeant DEF ReadOf
    <3>2. PICK h \in q.fields : x.uri = Uri("property", h.id) /\ x.of = Uri("concept", q.id)
      BY <3>1
    <3>3. q = o
      BY <2>1, <3>2, TermsDiffer DEF Accepted
    <3>4. h \in o.fields /\ UpperOf(FieldOf(c, Uri("property", h.id), source)) = rule.field
      BY <2>1, <3>2, <3>3
    <3>5. h = f
      BY <1>4, <3>4
    <3> QED
      BY <3>2, <3>5
  <2>2. PICK x \in c.properties : x.uri = Uri("property", f.id) /\ x.of = concept
    BY <1>5, PropertiesMeant DEF ReadOf
  <2>3. UpperOf(FieldOf(c, x.uri, source)) = rule.field
    BY <1>4, <1>5, <2>2
  <2> HIDE DEF concept, rule, source
  <2> QED
    BY <2>1, <2>2, <2>3
<1>7. TableOf(c, concept) = <<"table", source, o.physical>>
  BY TableIs DEF ReadOf
<1>8. Cardinality(found) = 1 /\ Only(found) = Uri("property", f.id)
  BY <1>6, FS_Singleton DEF Only
<1> DEFINE declared == {p \in c.policies : p.of = concept /\ p.on \in found}
           new == [uri |-> Uri("automatic", concept), short |-> <<"name", "AutomaticTemporal", concept>>, of |-> concept,
                   on |-> Only(found), grain |-> rule.grain, strategy |-> Strategy[rule.grain], override |-> TRUE, active |-> TRUE]
<1>9. AutomaticFor(c, concept) =
        IF Cardinality(found) # 1 THEN {}
        ELSE IF declared = {} THEN {new}
        ELSE {[new EXCEPT !.uri = Only(declared).uri, !.short = Only(declared).short]}
  <2> DEFINE table == TableOf(c, concept)
             its == Convention[Suffix(table[3])]
             fields == {p.uri : p \in {x \in c.properties : x.of = concept /\ UpperOf(FieldOf(c, x.uri, table[2])) = its.field}}
             said == {p \in c.policies : p.of = concept /\ p.on \in fields}
             policy == [uri |-> Uri("automatic", concept), short |-> <<"name", "AutomaticTemporal", concept>>, of |-> concept,
                        on |-> Only(fields), grain |-> its.grain, strategy |-> Strategy[its.grain], override |-> TRUE, active |-> TRUE]
  <2>1. AutomaticFor(c, concept) =
          IF Cardinality(fields) # 1 THEN {}
          ELSE IF said = {} THEN {policy}
          ELSE {[policy EXCEPT !.uri = Only(said).uri, !.short = Only(said).short]}
    BY DEF AutomaticFor
  <2>2. table[2] = source /\ table[3] = o.physical
    BY <1>7
  <2>3. its = rule
    BY <2>2
  <2> HIDE DEF table, its, rule, concept, source
  <2>4. fields = found
    BY <2>2, <2>3
  <2> HIDE DEF fields, found
  <2>5. said = declared
    BY <2>4
  <2>6. policy = new
    BY <2>3, <2>4
  <2> HIDE DEF said, declared, policy, new
  <2> QED
    BY <2>1, <2>4, <2>5, <2>6
<1> HIDE DEF found, declared
<1>10. \A u, s : /\ [new EXCEPT !.uri = u, !.short = s].of = concept
                 /\ [new EXCEPT !.uri = u, !.short = s].on = Only(found)
                 /\ [new EXCEPT !.uri = u, !.short = s].grain = rule.grain
  OBVIOUS
<1>11. new.of = concept /\ new.on = Only(found) /\ new.grain = rule.grain
  OBVIOUS
<1> HIDE DEF new, concept, rule
<1>12. \E x : AutomaticFor(c, concept) = {x} /\ x.of = concept /\ x.on = Only(found) /\ x.grain = rule.grain
  <2>1. CASE declared = {}
    BY <1>8, <1>9, <1>11, <2>1
  <2>2. CASE declared # {}
    <3> DEFINE x == [new EXCEPT !.uri = Only(declared).uri, !.short = Only(declared).short]
    <3>1. x.of = concept /\ x.on = Only(found) /\ x.grain = rule.grain
      BY <1>10
    <3>2. AutomaticFor(c, concept) = {x}
      BY <1>8, <1>9, <2>2
    <3> HIDE DEF x
    <3> QED
      BY <3>1, <3>2
  <2> QED
    BY <2>1, <2>2
<1> QED
  BY <1>1, <1>8, <1>12 DEF concept, rule

LEMMA BoundsAreKept ==
  ASSUME NEW d, WellDrafted(d), Accepted(d), NEW c, ReadOf(d, c)
  PROVE  {<<p.of, p.on, p.grain>> : p \in {x \in c.policies : x.of \notin Ruled(c)} \cup UNION {AutomaticFor(c, k) : k \in Ruled(c)}}
         = {<<Uri("concept", b[1]), Uri("property", b[2]), b[3]>> : b \in BoundBy(d)}
<1> DEFINE policies == {x \in c.policies : x.of \notin Ruled(c)} \cup UNION {AutomaticFor(c, k) : k \in Ruled(c)}
           bound(b) == <<Uri("concept", b[1]), Uri("property", b[2]), b[3]>>
           conventional == {o.id : o \in {x \in d.objects : Conventional(x)}}
           implied(o, f) == [object |-> o.id, field |-> f.id, grain |-> Convention[Suffix(o.physical)].grain,
                             strategy |-> Strategy[Convention[Suffix(o.physical)].grain], active |-> TRUE, override |-> TRUE]
           grainOf(o) == Convention[Suffix(o.physical)].grain
<1>1. \A p : p \in EffectivePolicies(d) <=>
        \/ p \in d.policies /\ p.object \notin conventional
        \/ \E o \in d.objects : /\ Conventional(o) /\ o.active /\ Cardinality(PartitionFields(o)) = 1
                                /\ \E f \in PartitionFields(o) : p = implied(o, f)
  <2> DEFINE named == {x \in {o \in d.objects : Conventional(o)} : x.active /\ Cardinality(PartitionFields(x)) = 1}
  <2>1. EffectivePolicies(d) = {p \in d.policies : p.object \notin conventional}
          \cup UNION {{implied(o, f) : f \in PartitionFields(o)} : o \in named}
    BY DEF EffectivePolicies
  <2> HIDE DEF implied, conventional
  <2>2. \A p : p \in UNION {{implied(o, f) : f \in PartitionFields(o)} : o \in named}
               <=> \E o \in named : \E f \in PartitionFields(o) : p = implied(o, f)
    OBVIOUS
  <2> QED
    BY <2>1, <2>2
<1>2. \A b : b \in BoundBy(d) <=> \E o \in d.objects :
        \/ /\ Conventional(o) /\ o.active
           /\ \E f \in PartitionFields(o) : b = <<o.id, f.id, grainOf(o)>>
        \/ ~Conventional(o) /\ \E p \in d.policies : p.object = o.id /\ b = <<o.id, p.field, p.grain>>
  <2> DEFINE of(o) == IF Conventional(o)
                      THEN {<<o.id, f.id, grainOf(o)>> :
                             f \in {x \in o.fields : o.active /\ x.active /\ UpperOf(x.physical) = Convention[Suffix(o.physical)].field}}
                      ELSE {<<o.id, p.field, p.grain>> : p \in {x \in d.policies : x.object = o.id}}
  <2>1. BoundBy(d) = UNION {of(o) : o \in d.objects}
    BY DEF BoundBy
  <2>2. ASSUME NEW o \in d.objects, NEW b
        PROVE  b \in of(o) <=>
                 \/ /\ Conventional(o) /\ o.active
                    /\ \E f \in PartitionFields(o) : b = <<o.id, f.id, grainOf(o)>>
                 \/ ~Conventional(o) /\ \E p \in d.policies : p.object = o.id /\ b = <<o.id, p.field, p.grain>>
    <3>1. CASE Conventional(o)
      <4> HIDE DEF grainOf
      <4> QED
        BY <3>1 DEF PartitionFields
    <3>2. CASE ~Conventional(o)
      BY <3>2
    <3> QED
      BY <3>1, <3>2
  <2> HIDE DEF of, grainOf
  <2> QED
    BY <2>1, <2>2
<1>3. \A o, q \in d.objects : o.id = q.id => o = q
  BY DEF Accepted
<1>4. \A k : k \in Ruled(c) <=> \E o \in d.objects : o.active /\ Conventional(o) /\ k = Uri("concept", o.id)
  BY RuledAre
<1>5. \A p : PolicyRead(p).of = Uri("concept", p.object) /\ PolicyRead(p).on = Uri("property", p.field) /\ PolicyRead(p).grain = p.grain
  BY DEF PolicyRead
<1>6. \A a, e, h : bound(<<a, e, h>>) = <<Uri("concept", a), Uri("property", e), h>>
  OBVIOUS
<1> HIDE DEF bound, grainOf
<1>7. ASSUME NEW o \in d.objects, o.active, Conventional(o)
      PROVE  \E f : /\ PartitionFields(o) = {f}
                    /\ \E x : /\ AutomaticFor(c, Uri("concept", o.id)) = {x}
                              /\ <<x.of, x.on, x.grain>> = bound(<<o.id, f.id, grainOf(o)>>)
  <2>1. PICK f \in PartitionFields(o) :
           /\ PartitionFields(o) = {f}
           /\ \E x : /\ AutomaticFor(c, Uri("concept", o.id)) = {x} /\ x.of = Uri("concept", o.id) /\ x.on = Uri("property", f.id)
                     /\ x.grain = Convention[Suffix(o.physical)].grain
    BY <1>7, AutomaticIs
  <2>2. PICK x : /\ AutomaticFor(c, Uri("concept", o.id)) = {x} /\ x.of = Uri("concept", o.id) /\ x.on = Uri("property", f.id)
                 /\ x.grain = Convention[Suffix(o.physical)].grain
    BY <2>1
  <2>3. <<x.of, x.on, x.grain>> = bound(<<o.id, f.id, grainOf(o)>>)
    BY <1>6, <2>2 DEF grainOf
  <2> QED
    BY <2>1, <2>2, <2>3
<1>8. ASSUME NEW p \in policies
      PROVE  \E b \in BoundBy(d) : <<p.of, p.on, p.grain>> = bound(b)
  <2>1. CASE p \in c.policies /\ p.of \notin Ruled(c)
    <3>1. PICK q \in EffectivePolicies(d) : p = PolicyRead(q)
      BY <2>1 DEF ReadOf
    <3>2. p.of = Uri("concept", q.object) /\ <<p.of, p.on, p.grain>> = bound(<<q.object, q.field, q.grain>>)
      BY <1>5, <1>6, <3>1
    <3>3. ~\E o \in d.objects : o.active /\ Conventional(o) /\ o.id = q.object
      BY <1>4, <2>1, <3>2
    <3>4. \A o, f : implied(o, f).object = o.id
      OBVIOUS
    <3>5. q \in d.policies /\ q.object \notin conventional
      <4> HIDE DEF implied, conventional
      <4> QED
        BY <1>1, <3>3, <3>4
    <3>6. PICK o \in d.objects : o.id = q.object
      BY PoliciesInForce
    <3>7. ~Conventional(o)
      BY <3>5, <3>6
    <3>8. <<q.object, q.field, q.grain>> \in BoundBy(d)
      BY <1>2, <3>5, <3>6, <3>7
    <3> QED
      BY <3>2, <3>8
  <2>2. CASE \E k \in Ruled(c) : p \in AutomaticFor(c, k)
    <3>1. PICK k \in Ruled(c) : p \in AutomaticFor(c, k)
      BY <2>2
    <3>2. PICK o \in d.objects : o.active /\ Conventional(o) /\ k = Uri("concept", o.id)
      BY <1>4
    <3>3. PICK f : /\ PartitionFields(o) = {f}
                   /\ \E x : /\ AutomaticFor(c, Uri("concept", o.id)) = {x}
                             /\ <<x.of, x.on, x.grain>> = bound(<<o.id, f.id, grainOf(o)>>)
      BY <1>7, <3>2
    <3>4. <<p.of, p.on, p.grain>> = bound(<<o.id, f.id, grainOf(o)>>)
      BY <3>1, <3>2, <3>3
    <3>5. <<o.id, f.id, grainOf(o)>> \in BoundBy(d)
      <4>1. f \in PartitionFields(o)
        BY <3>3
      <4> QED
        BY <1>2, <3>2, <4>1
    <3> QED
      BY <3>4, <3>5
  <2> QED
    BY <2>1, <2>2
<1>9. ASSUME NEW b \in BoundBy(d)
      PROVE  \E p \in policies : bound(b) = <<p.of, p.on, p.grain>>
  <2>1. PICK o \in d.objects :
        \/ /\ Conventional(o) /\ o.active
           /\ \E f \in PartitionFields(o) : b = <<o.id, f.id, grainOf(o)>>
        \/ ~Conventional(o) /\ \E p \in d.policies : p.object = o.id /\ b = <<o.id, p.field, p.grain>>
    BY <1>2
  <2>2. CASE Conventional(o) /\ o.active /\ \E f \in PartitionFields(o) : b = <<o.id, f.id, grainOf(o)>>
    <3>1. PICK f : /\ PartitionFields(o) = {f}
                   /\ \E x : /\ AutomaticFor(c, Uri("concept", o.id)) = {x}
                             /\ <<x.of, x.on, x.grain>> = bound(<<o.id, f.id, grainOf(o)>>)
      BY <1>7, <2>2
    <3>2. PICK x : /\ AutomaticFor(c, Uri("concept", o.id)) = {x}
                   /\ <<x.of, x.on, x.grain>> = bound(<<o.id, f.id, grainOf(o)>>)
      BY <3>1
    <3>3. b = <<o.id, f.id, grainOf(o)>>
      BY <2>2, <3>1
    <3>4. Uri("concept", o.id) \in Ruled(c)
      BY <1>4, <2>2
    <3>5. x \in policies
      BY <3>2, <3>4
    <3> QED
      BY <3>2, <3>3, <3>5
  <2>3. CASE ~Conventional(o) /\ \E p \in d.policies : p.object = o.id /\ b = <<o.id, p.field, p.grain>>
    <3>1. PICK p \in d.policies : p.object = o.id /\ b = <<o.id, p.field, p.grain>>
      BY <2>3
    <3>2. p.object \notin conventional
      BY <1>3, <2>3, <3>1
    <3>3. p \in EffectivePolicies(d)
      BY <1>1, <3>2
    <3>4. PolicyRead(p) \in c.policies
      BY <3>3 DEF ReadOf
    <3>5. PolicyRead(p).of \notin Ruled(c)
      <4>1. ASSUME NEW q \in d.objects, q.active, Conventional(q), PolicyRead(p).of = Uri("concept", q.id)
            PROVE  FALSE
        <5>1. q.id = p.object
          BY <1>5, <4>1, TermsDiffer
        <5> QED
          BY <1>3, <2>3, <3>1, <4>1, <5>1
      <4> QED
        BY <1>4, <4>1
    <3>6. <<PolicyRead(p).of, PolicyRead(p).on, PolicyRead(p).grain>> = bound(b)
      BY <1>5, <1>6, <3>1
    <3>7. PolicyRead(p) \in policies
      BY <3>4, <3>5
    <3> QED
      BY <3>6, <3>7
  <2> QED
    BY <2>1, <2>2, <2>3
<1> HIDE DEF policies
<1>10. {<<p.of, p.on, p.grain>> : p \in policies} = {bound(b) : b \in BoundBy(d)}
  BY <1>8, <1>9
<1> QED
  BY <1>10 DEF policies, bound

LEMMA MappingsMeant ==
  ASSUME NEW d
  PROVE  MeaningOf(d).mappings = {ObjectRead(d, o) : o \in d.objects} \cup {FieldRead(d, f) : f \in FieldsIn(d)}
  BY DEF MeaningOf, ObjectRead, FieldRead

(* What is loaded of a package that was built is what its draft means. *)
LEMMA MeaningIsLoaded ==
  ASSUME NEW d, WellDrafted(d), Accepted(d), NEW rank
  PROVE  LET c == WithAutomaticPolicies(Parsed(Written(d), rank).found)
         IN /\ [c EXCEPT !.policies = {}] = MeaningOf(d)
            /\ {<<p.of, p.on, p.grain>> : p \in c.policies} =
                 {<<Uri("concept", b[1]), Uri("property", b[2]), b[3]>> : b \in BoundBy(d)}
<1> DEFINE g == Written(d)
           read == Parsed(g, rank).found
           c == WithAutomaticPolicies(read)
           M == MeaningOf(d)
           keys == {"concepts", "properties", "relations", "sources", "mappings", "policies", "rules"}
<1>1. /\ DOMAIN read = keys
      /\ read.concepts = M.concepts /\ read.properties = M.properties
      /\ read.mappings = M.mappings /\ read.policies = {PolicyRead(p) : p \in EffectivePolicies(d)}
  <2>1. /\ DOMAIN read = keys
        /\ read.concepts = ReadConcepts(g).found /\ read.properties = ReadProperties(g).found
        /\ read.mappings = ReadMappings(g).found /\ read.policies = ReadPolicies(g).found
    BY WhatIsFound
  <2> QED
    BY <2>1, ConceptsRead, PropertiesRead, MappingsRead, PoliciesRead
<1>2. ReadOf(d, read)
  BY <1>1, MappingsMeant DEF ReadOf
<1>3. c.policies = {x \in read.policies : x.of \notin Ruled(read)} \cup UNION {AutomaticFor(read, k) : k \in Ruled(read)}
  <2>1. "policies" \in DOMAIN read
    BY <1>1
  <2> HIDE DEF read
  <2> QED
    BY <2>1 DEF WithAutomaticPolicies
<1>4. {<<p.of, p.on, p.grain>> : p \in c.policies} =
        {<<Uri("concept", b[1]), Uri("property", b[2]), b[3]>> : b \in BoundBy(d)}
  <2> HIDE DEF read, c
  <2> QED
    BY <1>2, <1>3, BoundsAreKept
<1>5. /\ DOMAIN c = keys
      /\ c.concepts = M.concepts /\ c.properties = M.properties /\ c.relations = M.relations
      /\ c.sources = M.sources /\ c.mappings = M.mappings /\ c.rules = M.rules
  <2>1. /\ DOMAIN c = keys
        /\ c.concepts = ReadConcepts(g).found /\ c.properties = ReadProperties(g).found
        /\ c.relations = ReadRelations(g).found /\ c.sources = ReadSources(g).found
        /\ c.mappings = ReadMappings(g).found /\ c.rules = ReadRules(g, rank).found
    BY AutomaticKeepsTheRest
  <2> QED
    BY <2>1, ConceptsRead, PropertiesRead, RelationsRead, SourcesRead, MappingsRead, RulesRead
<1>6. [c EXCEPT !.policies = {}] = M
  <2>1. M = [concepts |-> M.concepts, properties |-> M.properties, relations |-> M.relations, sources |-> M.sources,
             mappings |-> M.mappings, policies |-> {}, rules |-> M.rules]
    BY DEF MeaningOf
  <2>2. c = [k \in keys |-> c[k]]
    <3>1. c = [k \in DOMAIN read |-> c[k]]
      BY DEF WithAutomaticPolicies
    <3> HIDE DEF c, read
    <3> QED
      BY <1>1, <3>1
  <2> HIDE DEF c, M
  <2>3. [c EXCEPT !.policies = {}] = [k \in keys |-> IF k = "policies" THEN {} ELSE c[k]]
    BY <2>2
  <2>4. [k \in keys |-> IF k = "policies" THEN {} ELSE c[k]] =
          [concepts |-> M.concepts, properties |-> M.properties, relations |-> M.relations, sources |-> M.sources,
           mappings |-> M.mappings, policies |-> {}, rules |-> M.rules]
    BY <1>5
  <2> QED
    BY <2>1, <2>3, <2>4
<1> QED
  BY <1>4, <1>6

-------------------------------------------------------------------------------
(* The package *)

(* What is loaded was read, without a complaint, from a graph of terms. *)
PackageIsRead ==
  /\ package = [stage |-> package.stage, draft |-> package.draft, graph |-> package.graph,
                catalog |-> package.catalog, why |-> package.why]
  /\ package.stage \in {"draft", "publishable"} => package.draft \in PackageDrafts
  /\ package.stage = "publishable" => Diagnostics(package.draft) = {}
  /\ WellWritten(package.graph)
  /\ package.stage = "loaded" =>
       \E rank \in ListingOrders :
         Parsed(package.graph, rank).wrong = {}
         /\ package.catalog = WithAutomaticPolicies(Parsed(package.graph, rank).found)

LEMMA PackageStartsRead == PackageInit => PackageIsRead
<1> SUFFICES ASSUME PackageInit PROVE PackageIsRead
  OBVIOUS
<1>1. CASE \E d \in PackageDrafts : package = NewPackage(d, {}, "draft")
  <2>1. WellWritten({})
    BY FS_EmptySet DEF WellWritten
  <2> QED
    BY <1>1, <2>1 DEF PackageIsRead, NewPackage
<1>2. CASE \E h \in HandGraphs : package = NewPackage(NoDraft, h, "written")
  <2>1. \A h \in HandGraphs : WellWritten(h)
    BY PackageAssumption
  <2> QED
    BY <1>2, <2>1 DEF PackageIsRead, NewPackage
<1> QED
  BY <1>1, <1>2 DEF PackageInit

LEMMA PackageStaysRead == PackageIsRead /\ [PackageNext]_package => PackageIsRead'
<1> SUFFICES ASSUME PackageIsRead, [PackageNext]_package PROVE PackageIsRead'
  OBVIOUS
<1> DEFINE Whole == package = [stage |-> package.stage, draft |-> package.draft, graph |-> package.graph,
                               catalog |-> package.catalog, why |-> package.why]
<1>1. Whole /\ WellWritten(package.graph)
  BY DEF PackageIsRead
<1>2. ASSUME NEW stage, NEW codes, Reject(stage, codes)
      PROVE  PackageIsRead'
  BY <1>1, <1>2 DEF PackageIsRead, Reject
<1>3. CASE CheckDraft
  <2>1. CASE Diagnostics(package.draft) = {} /\ package' = [package EXCEPT !.stage = "publishable"]
    <3>1. package'.stage = "publishable" /\ package'.draft = package.draft /\ package'.graph = package.graph /\ Whole'
      BY <1>1, <2>1
    <3>2. package.draft \in PackageDrafts
      BY <1>3 DEF CheckDraft, AtStage, PackageIsRead
    <3> QED
      BY <1>1, <2>1, <3>1, <3>2 DEF PackageIsRead
  <2> QED
    BY <1>2, <1>3, <2>1 DEF CheckDraft
<1>4. CASE BuildPackage
  <2>1. /\ package.draft \in PackageDrafts /\ Diagnostics(package.draft) = {}
        /\ package' = [package EXCEPT !.stage = "written", !.graph = Written(package.draft)]
    BY <1>4 DEF BuildPackage, AtStage, PackageIsRead
  <2>2. WellWritten(Written(package.draft))
    BY <2>1, PackageAssumption, GateAccepts, WrittenIsWell
  <2> QED
    BY <1>1, <2>1, <2>2 DEF PackageIsRead
<1>5. CASE ValidateShapes
  <2>1. CASE package' = [package EXCEPT !.stage = "shaped"]
    BY <1>1, <2>1 DEF PackageIsRead
  <2> QED
    BY <1>2, <1>5, <2>1 DEF ValidateShapes
<1>6. CASE LoadCatalog
  <2>1. PICK rank \in ListingOrders : KeepCatalog(Parsed(package.graph, rank))
    BY <1>6 DEF LoadCatalog, Parsed
  <2> DEFINE parsed == Parsed(package.graph, rank)
  <2>2. CASE parsed.wrong # {}
    BY <1>2, <2>1, <2>2 DEF KeepCatalog
  <2>3. CASE parsed.wrong = {}
    <3>1. package' = [package EXCEPT !.stage = "loaded", !.catalog = WithAutomaticPolicies(parsed.found)]
      BY <2>1, <2>3 DEF KeepCatalog
    <3>2. /\ package'.graph = package.graph /\ package'.stage = "loaded"
          /\ package'.catalog = WithAutomaticPolicies(parsed.found) /\ Whole'
      BY <1>1, <3>1
    <3> QED
      BY <1>1, <2>3, <3>2 DEF PackageIsRead
  <2> QED
    BY <2>2, <2>3
<1>7. CASE UNCHANGED package
  BY <1>7 DEF PackageIsRead
<1> QED
  BY <1>3, <1>4, <1>5, <1>6, <1>7 DEF PackageNext

(* A catalog that was read without a complaint can be planned with. *)
LEMMA ReadIsUsable == PackageIsRead => LoadedIsUsable
<1> SUFFICES ASSUME PackageIsRead, package.stage = "loaded"
             PROVE  /\ ReferencesMeet(package.graph, package.catalog)
                    /\ NamesDiffer(package.catalog)
                    /\ PoliciesFit(package.catalog)
                    /\ RulesSay(package.graph, package.catalog)
                    /\ NoCredentials(package.graph, package.catalog)
  BY DEF LoadedIsUsable
<1>1. PICK rank \in ListingOrders :
        /\ Parsed(package.graph, rank).wrong = {}
        /\ package.catalog = WithAutomaticPolicies(Parsed(package.graph, rank).found)
  BY DEF PackageIsRead
<1>2. WellWritten(package.graph) /\ IsFiniteSet(package.graph)
  BY DEF PackageIsRead, WellWritten
<1> QED
  BY <1>1, <1>2, LoadedReferencesMeet, LoadedNamesDiffer, LoadedPoliciesFit, LoadedRulesSay, LoadedHasNoCredentials

(* What becomes of a draft. *)
DraftIsKept ==
  package.draft # NoDraft =>
    /\ package.draft \in PackageDrafts
    /\ package.stage \in {"draft", "publishable", "written", "shaped", "loaded", "refused"}
    /\ package.stage \in {"publishable", "written", "shaped", "loaded"} => Diagnostics(package.draft) = {}
    /\ package.stage \in {"written", "shaped", "loaded"} => package.graph = Written(package.draft)
    /\ package.stage = "refused" => \A w \in package.why : w[1] = "gate"

LEMMA DraftStartsKept == PackageInit => DraftIsKept
<1> SUFFICES ASSUME PackageInit PROVE DraftIsKept
  OBVIOUS
<1>1. CASE \E d \in PackageDrafts : package = NewPackage(d, {}, "draft")
  BY <1>1 DEF DraftIsKept, NewPackage
<1>2. CASE \E h \in HandGraphs : package = NewPackage(NoDraft, h, "written")
  BY <1>2 DEF DraftIsKept, NewPackage
<1> QED
  BY <1>1, <1>2 DEF PackageInit

LEMMA DraftStaysKept == PackageIsRead /\ DraftIsKept /\ [PackageNext]_package => DraftIsKept'
<1> SUFFICES ASSUME PackageIsRead, DraftIsKept, [PackageNext]_package PROVE DraftIsKept'
  OBVIOUS
<1> DEFINE d == package.draft
<1>1. package = [stage |-> package.stage, draft |-> package.draft, graph |-> package.graph,
                 catalog |-> package.catalog, why |-> package.why]
  BY DEF PackageIsRead
<1>2. ASSUME d # NoDraft, package.stage \in {"publishable", "written", "shaped", "loaded"}
      PROVE  WellDrafted(d) /\ Accepted(d)
  <2>1. d \in PackageDrafts /\ Diagnostics(d) = {}
    BY <1>2 DEF DraftIsKept
  <2> QED
    BY <2>1, PackageAssumption, GateAccepts
<1>3. CASE CheckDraft
  <2>1. CASE Diagnostics(d) = {} /\ package' = [package EXCEPT !.stage = "publishable"]
    <3>1. package'.draft = d /\ package'.stage = "publishable"
      BY <1>1, <2>1
    <3> QED
      BY <2>1, <3>1 DEF DraftIsKept
  <2>2. CASE Reject("gate", Diagnostics(d))
    <3> DEFINE why == {<<"gate", code>> : code \in Diagnostics(d)}
    <3>1. package' = [package EXCEPT !.stage = "refused", !.why = why]
      BY <2>2 DEF Reject
    <3>2. \A w \in why : w[1] = "gate"
      OBVIOUS
    <3> HIDE DEF why
    <3>3. package'.draft = d /\ package'.stage = "refused" /\ package'.why = why
      BY <1>1, <3>1
    <3> QED
      BY <3>2, <3>3 DEF DraftIsKept
  <2> QED
    BY <1>3, <2>1, <2>2 DEF CheckDraft
<1>4. CASE BuildPackage
  <2>1. package.stage = "publishable" /\ package' = [package EXCEPT !.stage = "written", !.graph = Written(d)]
    BY <1>4 DEF BuildPackage, AtStage
  <2>2. package'.draft = d /\ package'.stage = "written" /\ package'.graph = Written(d)
    BY <1>1, <2>1
  <2> QED
    BY <2>1, <2>2 DEF DraftIsKept
<1>5. CASE ValidateShapes
  <2>1. package.stage = "written"
    BY <1>5 DEF ValidateShapes, AtStage
  <2>2. CASE package' = [package EXCEPT !.stage = "shaped"]
    <3>1. package'.draft = d /\ package'.stage = "shaped" /\ package'.graph = package.graph
      BY <1>1, <2>2
    <3> QED
      BY <2>1, <3>1 DEF DraftIsKept
  <2>3. CASE ~ShapesHold(package.graph) /\ package'.draft = d
    <3>1. d = NoDraft
      <4>1. ASSUME d # NoDraft PROVE FALSE
        <5>1. package.graph = Written(d)
          BY <2>1, <4>1 DEF DraftIsKept
        <5> QED
          BY <1>2, <2>1, <2>3, <4>1, <5>1, ShapesAreKept
      <4> QED
        BY <4>1
    <3> QED
      BY <2>3, <3>1 DEF DraftIsKept
  <2>4. ASSUME NEW stage, NEW codes, Reject(stage, codes)
        PROVE  package'.draft = d
    BY <1>1, <2>4 DEF Reject
  <2> QED
    BY <1>5, <2>2, <2>3, <2>4 DEF ValidateShapes
<1>6. CASE LoadCatalog
  <2>1. package.stage = "shaped"
    BY <1>6 DEF LoadCatalog, AtStage
  <2>2. PICK rank \in ListingOrders : KeepCatalog(Parsed(package.graph, rank))
    BY <1>6 DEF LoadCatalog, Parsed
  <2> DEFINE parsed == Parsed(package.graph, rank)
  <2>3. CASE parsed.wrong # {}
    <3>1. package'.draft = d
      <4>1. Reject("parser", {w[1] : w \in parsed.wrong})
        BY <2>2, <2>3 DEF KeepCatalog
      <4> QED
        BY <1>1, <4>1 DEF Reject
    <3>2. d = NoDraft
      <4>1. ASSUME d # NoDraft PROVE FALSE
        <5>1. package.graph = Written(d)
          BY <2>1, <4>1 DEF DraftIsKept
        <5> QED
          BY <1>2, <2>1, <2>3, <4>1, <5>1, NothingIsWrong
      <4> QED
        BY <4>1
    <3> QED
      BY <3>1, <3>2 DEF DraftIsKept
  <2>4. CASE parsed.wrong = {}
    <3>1. package' = [package EXCEPT !.stage = "loaded", !.catalog = WithAutomaticPolicies(parsed.found)]
      BY <2>2, <2>4 DEF KeepCatalog
    <3>2. package'.draft = d /\ package'.stage = "loaded" /\ package'.graph = package.graph
      BY <1>1, <3>1
    <3> QED
      BY <2>1, <3>2 DEF DraftIsKept
  <2> QED
    BY <2>3, <2>4
<1>7. CASE UNCHANGED package
  BY <1>7 DEF DraftIsKept
<1> QED
  BY <1>3, <1>4, <1>5, <1>6, <1>7 DEF PackageNext

LEMMA KeptIsLoaded == PackageIsRead /\ DraftIsKept => LoadsWhatIsPublished
<1> SUFFICES ASSUME PackageIsRead, DraftIsKept, package.draft # NoDraft
             PROVE  /\ package.stage = "refused" => \A w \in package.why : w[1] = "gate"
                    /\ package.stage = "loaded" =>
                         /\ [package.catalog EXCEPT !.policies = {}] = MeaningOf(package.draft)
                         /\ {<<p.of, p.on, p.grain>> : p \in package.catalog.policies} =
                              {<<Uri("concept", b[1]), Uri("property", b[2]), b[3]>> : b \in BoundBy(package.draft)}
  BY DEF LoadsWhatIsPublished
<1>1. package.stage = "refused" => \A w \in package.why : w[1] = "gate"
  BY DEF DraftIsKept
<1>2. ASSUME package.stage = "loaded"
      PROVE  /\ [package.catalog EXCEPT !.policies = {}] = MeaningOf(package.draft)
             /\ {<<p.of, p.on, p.grain>> : p \in package.catalog.policies} =
                  {<<Uri("concept", b[1]), Uri("property", b[2]), b[3]>> : b \in BoundBy(package.draft)}
  <2>1. PICK rank \in ListingOrders : package.catalog = WithAutomaticPolicies(Parsed(package.graph, rank).found)
    BY <1>2 DEF PackageIsRead
  <2>2. package.draft \in PackageDrafts /\ Diagnostics(package.draft) = {} /\ package.graph = Written(package.draft)
    BY <1>2 DEF DraftIsKept
  <2>3. WellDrafted(package.draft) /\ Accepted(package.draft)
    BY <2>2, PackageAssumption, GateAccepts
  <2> DEFINE c == WithAutomaticPolicies(Parsed(Written(package.draft), rank).found)
  <2>4. /\ [c EXCEPT !.policies = {}] = MeaningOf(package.draft)
        /\ {<<p.of, p.on, p.grain>> : p \in c.policies} =
             {<<Uri("concept", b[1]), Uri("property", b[2]), b[3]>> : b \in BoundBy(package.draft)}
    BY <2>3, MeaningIsLoaded
  <2>5. package.catalog = c
    BY <2>1, <2>2
  <2> HIDE DEF c
  <2> QED
    BY <2>4, <2>5
<1> QED
  BY <1>1, <1>2

(* Whatever is loaded, published from a draft or written by hand: every reference meets
   its element, a short name belongs to one, a table has at most one policy, of its own,
   a rule says what its graph says in whatever order that is read, and no description of
   a source or a mapping holds a credential. *)
THEOREM PackagesAreUsable == PackageSpec => []LoadedIsUsable
<1>1. PackageInit => PackageIsRead
  BY PackageStartsRead
<1>2. PackageIsRead /\ [PackageNext]_package => PackageIsRead'
  BY PackageStaysRead
<1>3. PackageIsRead => LoadedIsUsable
  BY ReadIsUsable
<1> QED
  BY <1>1, <1>2, <1>3, PTL DEF PackageSpec

(* What the gate lets through is never refused afterwards, and what is loaded says what the
   draft says: its elements, every relation in use a confirmed one, exactly what is in use
   mapped, and each table bounded by its own period. *)
THEOREM PackagesMeanTheirDraft == PackageSpec => []PackageMeansDraft
<1>1. PackageInit => PackageIsRead /\ DraftIsKept
  BY PackageStartsRead, DraftStartsKept
<1>2. PackageIsRead /\ DraftIsKept /\ [PackageNext]_package => (PackageIsRead /\ DraftIsKept)'
  BY PackageStaysRead, DraftStaysKept
<1>3. PackageIsRead /\ DraftIsKept => PackageMeansDraft
  BY ReadIsUsable, KeptIsLoaded DEF PackageMeansDraft
<1> QED
  BY <1>1, <1>2, <1>3, PTL DEF PackageSpec

===============================================================================
