------------------------- MODULE KnowledgeGraph_proofs -------------------------
(* Proofs about the programs that build the knowledge graph: the registry of   *)
(* canonical entities (EntityResolution), the counts of the extraction         *)
(* programs (DocumentExtraction), the loop of the chunker (Chunker), the       *)
(* records of provenance (Provenance), and conversion, load and queries        *)
(* (GraphLoad).  Each part has an invariant of its own: the programs share     *)
(* files, not variables.                                                       *)
EXTENDS DocumentExtraction, EntityResolution, Provenance, Chunker, GraphLoad, DataInduction

-----------------------------------------------------------------------------
(* Entity resolution.  A normal form is proper when only an entity with that   *)
(* name can have a canonical id of it.                                         *)
Proper(norm) == norm \notin {"", Normal["unnamed"]}
SignatureFields == {"name", "type", "aliases", "props", "sources", "related"}

(* The ids of the index are registered; each proper id is indexed under its    *)
(* normal form and belongs to an entity of its type.                           *)
Registered ==
  /\ \A id \in DOMAIN registry : DOMAIN registry[id] = SignatureFields
  /\ \A norm \in DOMAIN name_index : name_index[norm] \subseteq DOMAIN registry
  /\ \A id \in DOMAIN registry : Proper(id[2]) =>
       /\ registry[id].type = id[1]
       /\ id[2] \in DOMAIN name_index /\ id \in name_index[id[2]]
ResolutionTypes ==
  /\ stored \in Seq(Extracted)
  /\ taken \in Nat /\ taken <= Len(stored)
  /\ resolved \in Seq(DOMAIN registry) /\ Len(resolved) = taken
ResolutionInv == ResolutionTypes /\ Registered /\ SourcesKept

LEMMA MatchesAreRegistered ==
  ASSUME Registered, NEW e, NEW m \in FoundFirst(e)
  PROVE  m.id \in DOMAIN registry
<1>1. PICK f : /\ DOMAIN f \subseteq DOMAIN registry
               /\ m \in ExactMatches(e) \cup FuzzyMatches(e, f) \cup PropertyMatches(e)
  BY DEF FoundFirst, Best
<1>2. CASE m \in ExactMatches(e)
  BY <1>2 DEF ExactMatches, Registered
<1>3. CASE m \in FuzzyMatches(e, f)
  BY <1>1, <1>3 DEF FuzzyMatches
<1>4. CASE m \in PropertyMatches(e)
  BY <1>4 DEF PropertyMatches, Sharing
<1> QED BY <1>1, <1>2, <1>3, <1>4

(* An entity whose proper id is registered matches something: the lookup by    *)
(* name finds that id, and no other match takes the place of every one.        *)
LEMMA ProperIsMatched ==
  ASSUME Registered, NEW e, IdOf(e) \in DOMAIN registry, Proper(IdOf(e)[2])
  PROVE  FoundFirst(e) # {}
<1> DEFINE id == IdOf(e)
           exact == [id |-> id, conf |-> 100, order |-> 1]
           ids == {x \in DOMAIN registry : registry[x].type = e.type /\ FuzzyConfidences(e, x) # {}}
           f == [x \in ids |-> CHOOSE conf \in FuzzyConfidences(e, x) : TRUE]
           all == ExactMatches(e) \cup FuzzyMatches(e, f) \cup PropertyMatches(e)
<1>1. e.name # NoName
  BY DEF IdOf, Proper
<1>2. id[1] = e.type /\ id[2] = Normal[e.name] /\ NameOf(e) = e.name
  BY <1>1 DEF IdOf, NameOf
<1>3. NameOf(e) # ""
  BY <1>2, NormalAssumption DEF Proper
<1>4. registry[id].type = e.type /\ Normal[e.name] \in DOMAIN name_index /\ id \in name_index[Normal[e.name]]
  BY <1>2 DEF Registered
<1> HIDE DEF id
<1>5. exact \in ExactMatches(e)
  BY <1>4 DEF ExactMatches
<1>6. \A x \in ids : FuzzyConfidences(e, x) \subseteq Threshold..100
  BY DEF FuzzyConfidences
<1>7. f \in [ids -> Threshold..100] /\ \A x \in ids : f[x] \in FuzzyConfidences(e, x)
  BY <1>6
<1>8. \A o \in all : o.conf \in Nat /\ o.conf <= 100 /\ o.order \in 1..3
  <2>1. \A o \in ExactMatches(e) : o.conf = 100 /\ o.order = 1
    BY DEF ExactMatches
  <2>2. \A o \in FuzzyMatches(e, f) : o.conf \in Threshold..100 /\ o.order = 2
    <3> HIDE DEF ids
    <3> QED BY <1>7 DEF FuzzyMatches
  <2>3. \A o \in PropertyMatches(e) : o.conf \in {95, 100} /\ o.order = 3
    BY DEF PropertyMatches
  <2> QED BY <2>1, <2>2, <2>3 DEF Threshold
<1>9. exact \in Best(all)
  <2>1. exact.conf = 100 /\ exact.order = 1
    OBVIOUS
  <2> HIDE DEF exact, f
  <2>2. exact \in all
    BY <1>5
  <2> HIDE DEF all
  <2> QED BY <1>8, <2>1, <2>2 DEF Best
<1> HIDE DEF exact
<1>10. \A g : g \in [ids -> Threshold..100] /\ (\A x \in ids : g[x] \in FuzzyConfidences(e, x))
             => Best(ExactMatches(e) \cup FuzzyMatches(e, g) \cup PropertyMatches(e)) \subseteq FoundFirst(e)
  BY <1>3 DEF FoundFirst
<1>11. Best(all) \subseteq FoundFirst(e)
  <2> HIDE DEF f, ids
  <2> QED BY <1>7, <1>10
<1> QED BY <1>9, <1>11

LEMMA ResolutionStarts == ResolutionInit => ResolutionInv
<1> SUFFICES ASSUME ResolutionInit PROVE ResolutionInv
  OBVIOUS
<1>1. registry = << >> /\ name_index = << >> /\ resolved = << >> /\ taken = 0
  BY DEF ResolutionInit
<1>2. DOMAIN registry = {} /\ DOMAIN name_index = {} /\ DOMAIN resolved = {}
  BY <1>1
<1>3. stored \in Seq(Extracted)
  BY DEF ResolutionInit
<1>4. resolved \in Seq(DOMAIN registry) /\ Len(resolved) = 0
  BY <1>1
<1>5. Len(stored) \in Nat
  BY <1>3
<1> QED BY <1>1, <1>2, <1>3, <1>4, <1>5 DEF ResolutionInv, ResolutionTypes, Registered, SourcesKept

(* What a step that takes an entity appends to the answers.                    *)
LEMMA Answered ==
  ASSUME ResolutionTypes, Adding, NEW id, resolved' = Append(resolved, id),
         DOMAIN registry \subseteq DOMAIN registry', id \in DOMAIN registry'
  PROVE  /\ ResolutionTypes'
         /\ DOMAIN resolved' = DOMAIN resolved \cup {taken + 1}
         /\ resolved'[taken + 1] = id
         /\ \A i \in DOMAIN resolved : resolved'[i] = resolved[i] /\ i # taken + 1
         /\ taken + 1 \in DOMAIN stored
<1>1. stored' = stored /\ taken' = taken + 1 /\ taken < Len(stored)
  BY DEF Adding
<1>2. resolved \in Seq(DOMAIN registry') /\ Len(resolved) = taken /\ taken \in Nat /\ stored \in Seq(Extracted)
  BY DEF ResolutionTypes
<1>3. resolved' \in Seq(DOMAIN registry') /\ Len(resolved') = taken + 1
  BY <1>2
<1>4. DOMAIN resolved' = 1..(taken + 1) /\ DOMAIN resolved = 1..taken
  BY <1>2, <1>3
<1>5. resolved'[taken + 1] = id /\ \A i \in 1..taken : resolved'[i] = resolved[i]
  BY <1>2
<1> QED BY <1>1, <1>2, <1>3, <1>4, <1>5 DEF ResolutionTypes

LEMMA AddToMatchKeeps ==
  ASSUME ResolutionInv, AddToMatch
  PROVE  ResolutionInv'
<1>1. PICK m \in FoundFirst(Entity) :
         /\ registry' = [registry EXCEPT ![m.id] = Merge(@, Entity)]
         /\ resolved' = Append(resolved, m.id)
  BY DEF AddToMatch
<1> DEFINE id == m.id
           merged == Merge(registry[id], Entity)
<1>2. id \in DOMAIN registry /\ DOMAIN registry[id] = SignatureFields
  BY MatchesAreRegistered DEF ResolutionInv, Registered
<1>3. /\ DOMAIN merged = SignatureFields /\ merged.type = registry[id].type
      /\ merged.sources = registry[id].sources \cup {Entity.foundIn}
  BY <1>2 DEF Merge, SignatureFields
<1> HIDE DEF merged, id
<1>4. registry' = [registry EXCEPT ![id] = merged]
  BY <1>1 DEF merged, id
<1>5. /\ DOMAIN registry' = DOMAIN registry /\ registry'[id] = merged
      /\ \A x \in DOMAIN registry : x # id => registry'[x] = registry[x]
  BY <1>2, <1>4
<1>6. Adding /\ name_index' = name_index /\ stored' = stored
  BY DEF AddToMatch, Adding
<1>7. resolved' = Append(resolved, id)
  BY <1>1 DEF id
<1>8. /\ ResolutionTypes'
      /\ DOMAIN resolved' = DOMAIN resolved \cup {taken + 1} /\ resolved'[taken + 1] = id
      /\ \A i \in DOMAIN resolved : resolved'[i] = resolved[i]
  BY <1>2, <1>5, <1>6, <1>7, Answered DEF ResolutionInv
<1>9. Registered'
  <2>1. \A x \in DOMAIN registry' : DOMAIN registry'[x] = SignatureFields /\ registry'[x].type = registry[x].type
    BY <1>3, <1>5 DEF ResolutionInv, Registered
  <2> QED BY <1>5, <1>6, <2>1 DEF ResolutionInv, Registered, Proper
<1>10. \A x \in DOMAIN registry : registry[x].sources \subseteq registry'[x].sources
  BY <1>3, <1>5
<1>11. ASSUME NEW i \in DOMAIN resolved', ProperName(stored[i].name),
              resolved'[i][2] \notin {"", Normal["unnamed"]}
       PROVE  stored[i].foundIn \in registry'[resolved'[i]].sources
  <2>1. CASE i = taken + 1
    BY <1>3, <1>5, <1>8, <2>1 DEF Entity
  <2>2. CASE i # taken + 1
    <3>1. i \in DOMAIN resolved /\ resolved'[i] = resolved[i]
      BY <1>8, <2>2
    <3>2. stored[i].foundIn \in registry[resolved[i]].sources
      BY <1>11, <3>1 DEF ResolutionInv, SourcesKept
    <3>3. resolved[i] \in DOMAIN registry
      BY <3>1 DEF ResolutionInv, ResolutionTypes
    <3> QED BY <1>10, <3>1, <3>2, <3>3
  <2> QED BY <2>1, <2>2
<1>12. SourcesKept'
  BY <1>6, <1>11 DEF SourcesKept, ProperName
<1> QED BY <1>8, <1>9, <1>12 DEF ResolutionInv

LEMMA AddNewKeeps ==
  ASSUME ResolutionInv, AddNew
  PROVE  ResolutionInv'
<1> DEFINE id == IdOf(Entity)
           new == Signature(Entity)
           norm == Normal[NameOf(Entity)]
           ids == {id} \cup IF norm \in DOMAIN name_index THEN name_index[norm] ELSE {}
<1>1. /\ registry' = With(registry, id, new)
      /\ name_index' = With(name_index, norm, ids)
      /\ resolved' = Append(resolved, id)
      /\ Adding /\ stored' = stored
  BY DEF AddNew, Adding, Indexed
<1>2. /\ DOMAIN new = SignatureFields /\ new.type = id[1] /\ new.sources = {Entity.foundIn}
      /\ Proper(id[2]) => id[2] = norm
  BY DEF Signature, SignatureFields, IdOf, NameOf, Proper
<1>3. Proper(id[2]) => id \notin DOMAIN registry
  BY ProperIsMatched DEF AddNew, ResolutionInv
<1> HIDE DEF id, new, norm
<1>4. /\ DOMAIN registry' = DOMAIN registry \cup {id} /\ registry'[id] = new
      /\ \A x \in DOMAIN registry : x # id => registry'[x] = registry[x]
  BY <1>1 DEF With
<1>5. /\ DOMAIN name_index' = DOMAIN name_index \cup {norm} /\ name_index'[norm] = ids
      /\ \A x \in DOMAIN name_index : x # norm => name_index'[x] = name_index[x]
  BY <1>1 DEF With
<1>6. /\ ResolutionTypes'
      /\ DOMAIN resolved' = DOMAIN resolved \cup {taken + 1} /\ resolved'[taken + 1] = id
      /\ \A i \in DOMAIN resolved : resolved'[i] = resolved[i]
  <2> HIDE DEF ids
  <2> QED BY <1>1, <1>4, Answered DEF ResolutionInv
<1>7. Registered'
  <2>1. \A x \in DOMAIN registry' : DOMAIN registry'[x] = SignatureFields
    BY <1>2, <1>4 DEF ResolutionInv, Registered
  <2>2. ASSUME NEW n \in DOMAIN name_index' PROVE name_index'[n] \subseteq DOMAIN registry'
    <3>1. \A o \in DOMAIN name_index : name_index[o] \subseteq DOMAIN registry
      BY DEF ResolutionInv, Registered
    <3> QED BY <1>4, <1>5, <3>1
  <2>3. \A o \in DOMAIN name_index : o \in DOMAIN name_index' /\ name_index[o] \subseteq name_index'[o]
    BY <1>5
  <2>4. id \in ids
    OBVIOUS
  <2> HIDE DEF ids
  <2>5. ASSUME NEW x \in DOMAIN registry', Proper(x[2])
        PROVE  registry'[x].type = x[1] /\ x[2] \in DOMAIN name_index' /\ x \in name_index'[x[2]]
    <3>1. CASE x = id
      BY <1>2, <1>4, <1>5, <2>4, <2>5, <3>1
    <3>2. CASE x # id
      <4>1. x \in DOMAIN registry /\ registry'[x] = registry[x]
        BY <1>4, <3>2
      <4>2. registry[x].type = x[1] /\ x[2] \in DOMAIN name_index /\ x \in name_index[x[2]]
        BY <2>5, <4>1 DEF ResolutionInv, Registered
      <4> QED BY <2>3, <4>1, <4>2
    <3> QED BY <3>1, <3>2
  <2> QED BY <2>1, <2>2, <2>5 DEF Registered, Proper
<1>8. ASSUME NEW i \in DOMAIN resolved', ProperName(stored[i].name), Proper(resolved'[i][2])
      PROVE  stored[i].foundIn \in registry'[resolved'[i]].sources
  <2>1. CASE i = taken + 1
    BY <1>2, <1>4, <1>6, <2>1 DEF Entity
  <2>2. CASE i # taken + 1
    <3>1. i \in DOMAIN resolved /\ resolved'[i] = resolved[i]
      BY <1>6, <2>2
    <3>2. stored[i].foundIn \in registry[resolved[i]].sources
      BY <1>8, <3>1 DEF ResolutionInv, SourcesKept, Proper
    <3>3. resolved[i] \in DOMAIN registry
      BY <3>1 DEF ResolutionInv, ResolutionTypes
    <3>4. resolved[i] # id
      BY <1>3, <1>8, <3>1, <3>3
    <3> QED BY <1>4, <3>1, <3>2, <3>3, <3>4
  <2> QED BY <2>1, <2>2
<1>9. SourcesKept'
  BY <1>1, <1>8 DEF SourcesKept, ProperName, Proper
<1> QED BY <1>6, <1>7, <1>9 DEF ResolutionInv

(* No document is forgotten: an entity with a proper name that was resolved to *)
(* one with a proper name counts its document among that one's sources,        *)
(* whatever was added in between (entity-deduplication-system.py): for any     *)
(* names, normal forms, similarities and properties.                           *)
THEOREM SourcesAreKept == ResolutionSpec => []SourcesKept
<1>1. ResolutionInv /\ [ResolutionNext]_resolutionVars => ResolutionInv'
  <2> SUFFICES ASSUME ResolutionInv, [ResolutionNext]_resolutionVars PROVE ResolutionInv'
    OBVIOUS
  <2>1. CASE UNCHANGED <<stored, taken, registry, name_index, resolved>>
    BY <2>1 DEF ResolutionInv, ResolutionTypes, Registered, SourcesKept, ProperName, Proper
  <2> QED BY <2>1, AddToMatchKeeps, AddNewKeeps DEF ResolutionNext, resolutionVars, MergeRaises, GenerateImport
<1>2. ResolutionInv => SourcesKept
  BY DEF ResolutionInv
<1> QED BY <1>1, <1>2, ResolutionStarts, PTL DEF ResolutionSpec

-----------------------------------------------------------------------------
(* Document extraction.  How many documents the batch will store, and what the *)
(* report counts.                                                              *)
IsSeq(s) == \E T : s \in Seq(T)
InBatch == Len(Without(batch, {NoResult}))
StatFields == {"processed", "failed", "entities", "discourse"}
ExtractionTypes ==
  /\ IsSeq(batch) /\ IsSeq(results)
  /\ DOMAIN stats = StatFields /\ stats.processed \in Nat /\ stats.failed \in Nat
Filtering == {"mistral", "subset", "ontology"}
AddsUp ==
  /\ stats.processed <= Len(results) + InBatch + stats.failed
  /\ program \in Filtering => stats.processed = Len(results) + InBatch
ExtractionInv == ExtractionTypes /\ AddsUp

LEMMA SequencesHaveLengths ==
  ASSUME NEW s, IsSeq(s), NEW values
  PROVE  /\ Len(s) \in Nat /\ IsSeq(Without(s, values)) /\ Len(Without(s, values)) \in Nat
         /\ \A x : /\ IsSeq(Append(s, x))
                   /\ x \in values => Without(Append(s, x), values) = Without(s, values)
                   /\ x \notin values => Len(Without(Append(s, x), values)) = Len(Without(s, values)) + 1
<1>1. PICK T : s \in Seq(T)
  BY DEF IsSeq
<1> DEFINE w == Without(s, values)
<1>2. w \in Seq(T \ values)
  BY <1>1, WithoutType
<1>3. Len(s) \in Nat /\ Len(w) \in Nat /\ IsSeq(w)
  <2> HIDE DEF w
  <2> QED BY <1>1, <1>2 DEF IsSeq
<1>4. ASSUME NEW x PROVE IsSeq(Append(s, x))
  <2>1. Append(s, x) \in Seq(T \cup {x})
    BY <1>1
  <2> QED BY <2>1 DEF IsSeq
<1>5. ASSUME NEW x, x \notin values PROVE Len(Without(Append(s, x), values)) = Len(w) + 1
  <2>1. Without(Append(s, x), values) = Append(w, x)
    BY <1>1, <1>5, WithoutAppend
  <2> HIDE DEF w
  <2>2. w \in Seq((T \ values) \cup {x})
    BY <1>2
  <2> QED BY <2>1, <2>2
<1>6. \A x \in values : Without(Append(s, x), values) = w
  BY <1>1, WithoutAppend
<1> QED BY <1>3, <1>4, <1>5, <1>6

(* What the filtering programs take as entities are objects.                   *)
LEMMA BasicsAreObjects == \A d : HasIds(MistralBasic(d)) /\ HasIds(OntologyBasic(d))
<1> TAKE d
<1> DEFINE T == {"SemanticAsset", "EcologicalAsset", "GovernanceAct", "Agent"}
<1>1. "SemanticAsset" \in T /\ "EcologicalAsset" \in T /\ "GovernanceAct" \in T /\ "Agent" \in T
  OBVIOUS
<1> HIDE DEF T
<1>2. << "SemanticAsset" >> \in Seq(T)
  BY <1>1
<1>3. \A c : /\ If(c, << "EcologicalAsset" >>) \in Seq(T) /\ If(c, << "GovernanceAct" >>) \in Seq(T)
             /\ If(c, << "Agent" >>) \in Seq(T)
  BY <1>1 DEF If
<1>4. MistralBasic(d) \in Seq(T)
  BY <1>2, <1>3 DEF MistralBasic
<1>5. OntologyBasic(d) \in Seq(T)
  <2> DEFINE a == << "SemanticAsset" >>
             b == If("carbon" \in d.words, << "EcologicalAsset" >>)
             c == If("proposal" \in d.words, << "GovernanceAct" >>)
             e == If("regen network" \in d.words, << "Agent" >>)
  <2>1. a \in Seq(T) /\ b \in Seq(T) /\ c \in Seq(T) /\ e \in Seq(T)
    BY <1>2, <1>3
  <2>2. OntologyBasic(d) = a \o b \o c \o e
    BY DEF OntologyBasic
  <2> HIDE DEF a, b, c, e
  <2>3. a \o b \in Seq(T)
    BY <2>1
  <2>4. a \o b \o c \in Seq(T)
    BY <2>1, <2>3
  <2> QED BY <2>1, <2>2, <2>4
<1>6. \A es \in Seq(T) : HasIds(es)
  BY DEF HasIds, IsObject, T
<1> QED BY <1>4, <1>5, <1>6

LEMMA UsableIsPart ==
  ASSUME NEW reply \in Seq(STRING), NEW raises
  PROVE  Usable(reply, raises) \in Seq(STRING)
<1> DEFINE bad == {i \in DOMAIN reply : reply[i] \in raises}
<1>0. CASE "broken" \in ToSet(reply)
  <2>1. << >> \in Seq(STRING)
    OBVIOUS
  <2> QED BY <1>0, <2>1 DEF Usable
<1>1. CASE "broken" \notin ToSet(reply) /\ bad = {}
  BY <1>1 DEF Usable
<1>2. CASE "broken" \notin ToSet(reply) /\ bad # {}
  <2>1. bad \subseteq Nat /\ bad \subseteq 1..Len(reply)
    OBVIOUS
  <2> HIDE DEF bad
  <2>2. \E m \in bad : \A k \in bad : m <= k
    BY <1>2, <2>1, Least
  <2>3. Min(bad) \in bad
    BY <2>2 DEF Min
  <2>4. PICK m : m = Min(bad)
    OBVIOUS
  <2>5. Len(reply) \in Nat /\ m \in 1..Len(reply)
    <3>1. m \in 1..Len(reply)
      BY ONLY <2>1, <2>3, <2>4
    <3> QED BY <3>1
  <2>6. SubSeq(reply, 1, m - 1) \in Seq(STRING)
    BY <2>5
  <2>7. Usable(reply, raises) = SubSeq(reply, 1, Min(bad) - 1)
    BY <1>2 DEF Usable, bad
  <2> QED BY <2>4, <2>6, <2>7
<1> QED BY <1>0, <1>1, <1>2

LEMMA MistralTakesObjects ==
  ASSUME NEW d, NEW reply \in Replies
  PROVE  HasIds(MistralExtract(d, reply).entities)
<1> DEFINE valid == Without(Usable(reply, {"list"}), {"text"})
<1>1. valid \in Seq(STRING \ {"text"})
  BY RepliesAssumption, UsableIsPart, WithoutType
<1> HIDE DEF valid
<1>2. HasIds(valid)
  BY <1>1 DEF HasIds, IsObject
<1> QED BY <1>2, BasicsAreObjects DEF MistralExtract, valid

LEMMA CountedStats ==
  ASSUME ExtractionTypes, NEW x, NEW counts \in Nat
  PROVE  LET counted == Counted(x)
             failed == [Counted(x) EXCEPT !.failed = @ + counts]
             kept == [stats EXCEPT !.failed = @ + counts]
         IN  /\ DOMAIN counted = StatFields /\ DOMAIN failed = StatFields /\ DOMAIN kept = StatFields
             /\ counted.processed = stats.processed + 1 /\ counted.failed = stats.failed
             /\ failed.processed = stats.processed + 1 /\ failed.failed = stats.failed + counts
             /\ kept.processed = stats.processed /\ kept.failed = stats.failed + counts
<1>1. DOMAIN stats = StatFields
  BY DEF ExtractionTypes
<1> DEFINE counted == Counted(x)
<1>2. /\ DOMAIN counted = StatFields
      /\ counted.processed = stats.processed + 1 /\ counted.failed = stats.failed
  BY <1>1 DEF Counted, StatFields
<1>3. LET kept == [stats EXCEPT !.failed = @ + counts]
      IN  DOMAIN kept = StatFields /\ kept.processed = stats.processed /\ kept.failed = stats.failed + counts
  BY <1>1 DEF StatFields
<1> HIDE DEF counted
<1>4. LET failed == [counted EXCEPT !.failed = @ + counts]
      IN  /\ DOMAIN failed = StatFields
          /\ failed.processed = counted.processed /\ failed.failed = counted.failed + counts
  BY <1>2 DEF StatFields
<1> QED BY <1>2, <1>3, <1>4 DEF counted

(* A document whose entities all have ids is stored; one that is not is        *)
(* counted as failed by the programs that count.                               *)
LEMMA OutcomeAddsUp ==
  ASSUME ExtractionInv, NEW x, NEW counts \in Nat, Outcome(x, counts), UNCHANGED <<program, results>>,
         HasIds(x.entities) \/ (counts = 1 /\ program \notin Filtering)
  PROVE  ExtractionInv'
<1> DEFINE w == Without(batch, {NoResult})
           b == Len(batch)
<1>1. IsSeq(batch) /\ IsSeq(results) /\ stats.processed \in Nat /\ stats.failed \in Nat
  BY DEF ExtractionInv, ExtractionTypes
<1>2. /\ Len(results) \in Nat /\ InBatch \in Nat
      /\ \A y : /\ IsSeq(Append(batch, y))
                /\ y = NoResult => Len(Without(Append(batch, y), {NoResult})) = InBatch
                /\ y # NoResult => Len(Without(Append(batch, y), {NoResult})) = InBatch + 1
  BY <1>1, SequencesHaveLengths DEF InBatch
<1>3. \A es : Result(es) # NoResult
  <2> TAKE es
  <2>1. Result(es).none = FALSE /\ NoResult.none = TRUE
    BY DEF Result, NoResult
  <2> QED BY <2>1
<1>4. /\ stats.processed <= Len(results) + InBatch + stats.failed
      /\ program \in Filtering => stats.processed = Len(results) + InBatch
  BY DEF ExtractionInv, AddsUp
<1>5. CASE HasIds(x.entities)
  <2>1. batch' = Append(batch, Result(x.entities)) /\ stats' = Counted(x)
    BY <1>5 DEF Outcome
  <2>2. IsSeq(batch') /\ InBatch' = InBatch + 1
    BY <1>2, <1>3, <2>1 DEF InBatch
  <2>3. DOMAIN stats' = StatFields /\ stats'.processed = stats.processed + 1 /\ stats'.failed = stats.failed
    BY <2>1, CountedStats DEF ExtractionInv
  <2>4. ExtractionTypes'
    BY <1>1, <2>2, <2>3 DEF ExtractionTypes
  <2>5. AddsUp'
    BY <1>1, <1>2, <1>4, <2>2, <2>3 DEF AddsUp
  <2> QED BY <2>4, <2>5 DEF ExtractionInv
<1>6. CASE ~HasIds(x.entities)
  <2>1. batch' = Append(batch, NoResult) /\ stats' = [Counted(x) EXCEPT !.failed = @ + counts]
    BY <1>6 DEF Outcome
  <2>2. IsSeq(batch') /\ InBatch' = InBatch
    BY <1>2, <2>1 DEF InBatch
  <2>3. DOMAIN stats' = StatFields /\ stats'.processed = stats.processed + 1 /\ stats'.failed = stats.failed + 1
    BY <1>6, <2>1, CountedStats DEF ExtractionInv
  <2>4. ExtractionTypes'
    BY <1>1, <2>2, <2>3 DEF ExtractionTypes
  <2>5. AddsUp'
    BY <1>1, <1>2, <1>4, <1>6, <2>2, <2>3 DEF AddsUp
  <2> QED BY <2>4, <2>5 DEF ExtractionInv
<1> QED BY <1>5, <1>6

LEMMA UnreadableAddsUp ==
  ASSUME ExtractionInv, NEW counts \in Nat, Unreadable(counts), UNCHANGED <<program, results>>
  PROVE  ExtractionInv'
<1>1. IsSeq(batch) /\ IsSeq(results) /\ stats.processed \in Nat /\ stats.failed \in Nat
  BY DEF ExtractionInv, ExtractionTypes
<1>2. batch' = Append(batch, NoResult) /\ stats' = [stats EXCEPT !.failed = @ + counts]
  BY DEF Unreadable
<1>3. Len(results) \in Nat /\ InBatch \in Nat /\ IsSeq(batch') /\ InBatch' = InBatch
  BY <1>1, <1>2, SequencesHaveLengths DEF InBatch
<1>4. DOMAIN stats' = StatFields /\ stats'.processed = stats.processed /\ stats'.failed = stats.failed + counts
  BY <1>2, CountedStats DEF ExtractionInv
<1>5. ExtractionTypes'
  BY <1>1, <1>3, <1>4 DEF ExtractionTypes
<1>6. AddsUp'
  BY <1>1, <1>3, <1>4 DEF AddsUp, ExtractionInv
<1> QED BY <1>5, <1>6 DEF ExtractionInv

(* Storing a batch moves what it holds to the results.                         *)
LEMMA StoreAddsUp == ASSUME ExtractionInv, StoreBatch PROVE ExtractionInv'
<1> DEFINE w == Without(batch, {NoResult})
<1>1. /\ IsSeq(batch) /\ IsSeq(results) /\ stats' = stats /\ program' = program
      /\ results' = results \o w /\ batch' = << >>
  BY DEF ExtractionInv, ExtractionTypes, StoreBatch
<1>2. IsSeq(w)
  BY <1>1, SequencesHaveLengths
<1>3. w = Without(batch, {NoResult})
  OBVIOUS
<1> HIDE DEF w
<1>4. PICK S : w \in Seq(S)
  BY <1>2 DEF IsSeq
<1>5. PICK T : results \in Seq(T)
  BY <1>1 DEF IsSeq
<1>6. w \in Seq(S \cup T) /\ results \in Seq(S \cup T)
  BY <1>4, <1>5
<1>7. results' \in Seq(S \cup T) /\ Len(results') = Len(results) + Len(w) /\ Len(results) \in Nat /\ Len(w) \in Nat
  BY <1>1, <1>6
<1>8. InBatch = Len(w) /\ InBatch' = 0
  <2>1. InBatch' = Len(<< >>)
    BY <1>1, WithoutEmpty DEF InBatch
  <2> QED BY <1>3, <2>1 DEF InBatch
<1>9. ExtractionTypes'
  <2>1. IsSeq(results')
    BY <1>7 DEF IsSeq
  <2>2. IsSeq(batch')
    <3>1. batch' \in Seq({})
      BY <1>1
    <3> QED BY <3>1 DEF IsSeq
  <2> QED BY <1>1, <2>1, <2>2 DEF ExtractionInv, ExtractionTypes
<1>10. AddsUp'
  <2>1. Len(results') + InBatch' = Len(results) + InBatch
    BY <1>7, <1>8
  <2> QED BY <1>1, <2>1 DEF ExtractionInv, AddsUp
<1> QED BY <1>9, <1>10 DEF ExtractionInv

LEMMA MistralAddsUp ==
  ASSUME ExtractionInv, NEW prog, ProcessMistral(prog)
  PROVE  ExtractionInv'
<1>1. UNCHANGED <<program, results>>
  BY DEF ProcessMistral, Turn
<1>2. CASE files[next].text = "unreadable"
  BY <1>1, <1>2, UnreadableAddsUp DEF ProcessMistral
<1>3. CASE files[next].text = "short"
  BY <1>1, <1>3, UnreadableAddsUp DEF ProcessMistral
<1>4. CASE files[next].text \notin {"unreadable", "short"}
  <2>1. PICK reply \in Replies : Outcome(MistralExtract(files[next], reply), 1)
    BY <1>4 DEF ProcessMistral
  <2> QED BY <1>1, <2>1, MistralTakesObjects, OutcomeAddsUp
<1> QED BY <1>2, <1>3, <1>4

LEMMA ExtractionStep == ExtractionInv /\ [ExtractionNext]_extractionVars => ExtractionInv'
<1> SUFFICES ASSUME ExtractionInv, [ExtractionNext]_extractionVars PROVE ExtractionInv'
  OBVIOUS
<1>1. CASE UNCHANGED <<program, batch, results, stats>>
  BY <1>1 DEF ExtractionInv, ExtractionTypes, AddsUp, IsSeq, InBatch
<1>2. CASE ProcessDiscourse
  <2>1. UNCHANGED <<program, results>> /\ program = "discourse"
    BY <1>2 DEF ProcessDiscourse, Turn
  <2>2. program \notin Filtering
    BY <2>1 DEF Filtering
  <2>3. Unreadable(1) \/ \E reply : Outcome(DiscourseExtract(files[next], reply), 1)
    BY <1>2 DEF ProcessDiscourse
  <2> QED BY <2>1, <2>2, <2>3, UnreadableAddsUp, OutcomeAddsUp
<1>3. CASE ProcessOllama
  <2>1. UNCHANGED <<program, results>> /\ program = "ollama"
    BY <1>3 DEF ProcessOllama, Turn
  <2>2. program \notin Filtering
    BY <2>1 DEF Filtering
  <2>3. Unreadable(1) \/ \E reply : Outcome(OllamaExtract(files[next], reply), 1)
    BY <1>3 DEF ProcessOllama
  <2> QED BY <2>1, <2>2, <2>3, UnreadableAddsUp, OutcomeAddsUp
<1>4. CASE ProcessMistral("mistral") \/ ProcessSubset
  BY <1>4, MistralAddsUp DEF ProcessSubset
<1>5. CASE ProcessOntology
  <2>1. UNCHANGED <<program, results>>
    BY <1>5 DEF ProcessOntology, Turn
  <2>2. Unreadable(0) \/ Outcome(OntologyExtract(files[next]), 0)
    BY <1>5 DEF ProcessOntology
  <2>3. HasIds(OntologyExtract(files[next]).entities)
    BY BasicsAreObjects DEF OntologyExtract
  <2> QED BY <2>1, <2>2, <2>3, UnreadableAddsUp, OutcomeAddsUp
<1>6. CASE StoreBatch
  BY <1>6, StoreAddsUp
<1>7. CASE ScanDiscourse \/ ScanOllama \/ ScanMistral \/ ScanSubset \/ ScanOntology \/ ScanMetabolic
  BY <1>1, <1>7 DEF ScanDiscourse, ScanOllama, ScanMistral, ScanSubset, ScanOntology, ScanMetabolic, Scan
<1>8. CASE SaveDiscourse \/ SaveOllama \/ SaveMistral \/ SaveOntology \/ EndMetabolic \/ Interrupt \/ ProcessMetabolic
  BY <1>1, <1>8 DEF SaveDiscourse, SaveOllama, SaveMistral, SaveOntology, EndMetabolic, Interrupt, ProcessMetabolic, Ending
<1> QED BY <1>1, <1>2, <1>3, <1>4, <1>5, <1>6, <1>7, <1>8 DEF ExtractionNext, extractionVars

(* The report of an extraction adds up: a document counted as processed is     *)
(* among the results or counted as failed too, and is among the results where  *)
(* the program filters what the model answers (process_documents_*.py): for    *)
(* any directory, any answers of the model and any size of a batch.            *)
THEOREM ReportAddsUp == ExtractionSpec => []CountedIsStoredOrFailed
<1>1. ExtractionInit => ExtractionInv
  <2> SUFFICES ASSUME ExtractionInit PROVE ExtractionInv
    OBVIOUS
  <2>1. batch = << >> /\ results = << >> /\ stats = ZeroStats
    BY DEF ExtractionInit
  <2>2. IsSeq(batch) /\ IsSeq(results) /\ Len(results) = 0
    <3>1. batch \in Seq({}) /\ results \in Seq({}) /\ Len(results) = 0
      BY <2>1
    <3> QED BY <3>1 DEF IsSeq
  <2>3. InBatch = 0
    <3>1. InBatch = Len(<< >>)
      BY <2>1, WithoutEmpty DEF InBatch
    <3> QED BY <3>1
  <2>4. DOMAIN stats = StatFields /\ stats.processed = 0 /\ stats.failed = 0
    BY <2>1 DEF ZeroStats, StatFields
  <2> QED BY <2>2, <2>3, <2>4 DEF ExtractionInv, ExtractionTypes, AddsUp
<1>2. ExtractionInv => CountedIsStoredOrFailed
  <2> SUFFICES ASSUME ExtractionInv PROVE CountedIsStoredOrFailed
    OBVIOUS
  <2>1. IsSeq(results) /\ IsSeq(Without(batch, {NoResult}))
    BY SequencesHaveLengths DEF ExtractionInv, ExtractionTypes
  <2>2. PICK S, T : results \in Seq(S) /\ Without(batch, {NoResult}) \in Seq(T)
    BY <2>1 DEF IsSeq
  <2>3. results \in Seq(S \cup T) /\ Without(batch, {NoResult}) \in Seq(S \cup T)
    BY <2>2
  <2> DEFINE w == Without(batch, {NoResult})
  <2>4. Len(results \o w) = Len(results) + Len(w)
    <3> HIDE DEF w
    <3>1. results \in Seq(S \cup T) /\ w \in Seq(S \cup T)
      BY <2>3 DEF w
    <3> QED BY ONLY <3>1
  <2>5. Len(Stored) = Len(results) + InBatch
    BY <2>4 DEF Stored, InBatch
  <2> HIDE DEF w
  <2> QED BY <2>5 DEF ExtractionInv, AddsUp, Filtering, CountedIsStoredOrFailed
<1> QED BY <1>1, <1>2, ExtractionStep, PTL DEF ExtractionSpec

-----------------------------------------------------------------------------
(* The chunker.                                                                *)
SizesAndTexts ==
  /\ {size.min, size.max, size.overlap, text.length} \subseteq Nat
  /\ size.min <= size.max
  /\ text.breaks \subseteq Nat
ChunkerTypes ==
  /\ text \in Texts /\ size \in Sizes
  /\ current_pos \in Nat
  /\ \E T : chunks \in Seq(T)
  /\ \A i \in DOMAIN chunks : chunks[i].start \in Nat
  /\ chunks = << >> => current_pos = 0
ChunkerInv == ChunkerTypes /\ OnlyShortStretchesAreDropped

LEMMA SizesAndTextsAre == ASSUME text \in Texts, size \in Sizes PROVE SizesAndTexts
<1>1. {size.min, size.max, size.overlap} \subseteq Nat /\ size.min <= size.max
  BY SizesAssumption
<1>2. text.length \in Nat /\ text.breaks \subseteq Nat
  BY TextsAssumption
<1> QED BY <1>1, <1>2 DEF SizesAndTexts

LEMMA ScoreIsNat == ASSUME text \in Texts, NEW from, NEW to PROVE Score(from, to) \in Nat
<1> DEFINE S == CompleteIn(from, to)
           h == [p \in S \X Nat |-> (100 + p[1].importance) + p[2]]
           Body(g, s) == IF s = {} THEN 0
                         ELSE LET x == CHOOSE x \in s : TRUE IN (100 + x.importance) + g[s \ {x}]
           F == CHOOSE g : g = [s \in SUBSET S |-> Body(g, s)]
<1>1. IsFiniteSet(text.entities) /\ \A m \in text.entities : m.importance \in Nat
  BY TextsAssumption
<1>2. IsFiniteSet(S) /\ \A m \in S : m.importance \in Nat
  <2>1. S \subseteq text.entities
    BY DEF CompleteIn
  <2> HIDE DEF S
  <2> QED BY <1>1, <2>1, FS_Subset
<1>3. Score(from, to) = F[S]
  BY DEF Score, MapThenSumSet, MapThenFoldSet
<1> HIDE DEF S
<1>4. PICK g \in [SUBSET S -> Nat] : \A s \in SUBSET S : g[s] = FoldStep(h, 0, g, s)
  <2>1. h \in [S \X Nat -> Nat]
    BY <1>2
  <2> HIDE DEF h
  <2>2. PICK g : IsFoldWithin(h, 0, S, Nat, g)
    BY <1>2, <2>1, FoldWithin
  <2> QED BY <2>2 DEF IsFoldWithin
<1>5. ASSUME NEW s \in SUBSET S PROVE g[s] = Body(g, s)
  <2>1. CASE s = {}
    BY <1>4, <2>1 DEF FoldStep
  <2>2. CASE s # {}
    <3> DEFINE x == CHOOSE x \in s : TRUE
    <3>1. x \in S /\ s \ {x} \in SUBSET S /\ g[s] = h[<<x, g[s \ {x}]>>]
      BY <1>4, <2>2 DEF FoldStep
    <3> HIDE DEF x
    <3>2. g[s] = (100 + x.importance) + g[s \ {x}]
      BY <3>1
    <3> QED BY <2>2, <3>2 DEF x
  <2> QED BY <2>1, <2>2
<1>6. F = [s \in SUBSET S |-> Body(F, s)]
  <2> HIDE DEF Body, h
  <2>1. g = [s \in SUBSET S |-> g[s]]
    OBVIOUS
  <2>2. g = [s \in SUBSET S |-> Body(g, s)]
    BY <1>5, <2>1
  <2> QED BY <2>2
<1> HIDE DEF F
<1> DEFINE N == {s \in SUBSET S : F[s] \in Nat}
<1>7. {} \in N
  BY <1>6
<1>8. ASSUME NEW s \in SUBSET S, s # {}, s \ {CHOOSE x \in s : TRUE} \in N PROVE s \in N
  <2> DEFINE x == CHOOSE x \in s : TRUE
  <2>1. x \in S /\ F[s] = (100 + x.importance) + F[s \ {x}] /\ F[s \ {x}] \in Nat
    BY <1>6, <1>8
  <2> HIDE DEF x
  <2>2. F[s] \in Nat
    BY <1>2, <2>1
  <2> QED BY <2>2
<1> HIDE DEF N
<1>9. S \in N
  BY <1>2, <1>7, <1>8, ChosenInduction
<1> QED BY <1>3, <1>9 DEF N

(* Where a chunk ends: not after the text; with less than the smallest size    *)
(* only at the end of the text.                                                *)
LEMMA EndIsFar ==
  ASSUME text \in Texts, size \in Sizes, NEW from \in Int
  PROVE  /\ OptimalEnd(from) \in Int /\ OptimalEnd(from) <= text.length
         /\ OptimalEnd(from) >= from + size.min \/ OptimalEnd(from) = text.length
<1> DEFINE last == IF from + size.max < text.length THEN from + size.max ELSE text.length
           valid == {b \in Boundaries : from + size.min <= b /\ b <= last}
           best == {b \in valid : \A o \in valid : Score(from, b) >= Score(from, o)}
<1>1. SizesAndTexts
  BY SizesAndTextsAre
<1>2. last \in Int /\ last <= text.length /\ (last >= from + size.min \/ last = text.length)
  BY <1>1 DEF SizesAndTexts
<1>3. OptimalEnd(from) = IF valid = {} THEN last ELSE Min(best)
  BY DEF OptimalEnd
<1> HIDE DEF last
<1>4. CASE valid = {}
  BY <1>2, <1>3, <1>4
<1>5. CASE valid # {}
  <2>1. Boundaries \subseteq Nat
    <3>1. \A m \in text.entities : m.start \in Nat
      BY TextsAssumption
    <3>2. {m.start : m \in {x \in text.entities : x.importance >= 85}} \subseteq Nat
      BY <3>1
    <3>3. {0, text.length} \subseteq Nat /\ text.breaks \subseteq Nat
      BY <1>1 DEF SizesAndTexts
    <3> QED BY <3>2, <3>3 DEF Boundaries
  <2>2. valid \subseteq 0..text.length /\ IsFiniteSet(valid)
    <3>1. valid \subseteq 0..text.length
      <4> SUFFICES ASSUME NEW b \in valid PROVE b \in 0..text.length
        OBVIOUS
      <4>1. b \in Nat /\ b <= last
        BY <2>1
      <4>2. text.length \in Nat
        BY <1>1 DEF SizesAndTexts
      <4> QED BY <1>2, <4>1, <4>2
    <3>2. IsFiniteSet(0..text.length)
      <4>1. 0 \in Int /\ text.length \in Int
        BY <1>1 DEF SizesAndTexts
      <4> QED BY ONLY <4>1, FS_Interval
    <3> HIDE DEF valid
    <3> QED BY <3>1, <3>2, FS_Subset
  <2>3. \A b \in valid : b \in Nat /\ from + size.min <= b /\ b <= text.length
    <3>1. \A b \in valid : b \in Nat /\ from + size.min <= b
      BY <2>1
    <3>2. \A b \in valid : b \in 0..text.length
      BY <2>2
    <3>3. text.length \in Nat
      BY <1>1 DEF SizesAndTexts
    <3> HIDE DEF valid
    <3> QED BY <3>1, <3>2, <3>3
  <2> HIDE DEF valid
  <2>4. best # {}
    <3> DEFINE f == [b \in valid |-> Score(from, b)]
    <3>1. \A b \in valid : f[b] = Score(from, b) /\ f[b] \in Nat
      BY ScoreIsNat
    <3> HIDE DEF f
    <3>2. PICK b \in valid : \A o \in valid : f[b] >= f[o]
      BY <1>5, <2>2, <3>1, Greatest
    <3>3. \A o \in valid : Score(from, b) >= Score(from, o)
      BY <3>1, <3>2
    <3> QED BY <3>3
  <2>5. best \subseteq valid /\ best \subseteq Nat
    BY <2>3
  <2> HIDE DEF best
  <2>6. Min(best) \in best
    <3>1. \E m \in best : \A k \in best : m <= k
      BY <2>4, <2>5, Least
    <3> QED BY <3>1 DEF Min
  <2>7. OptimalEnd(from) \in valid
    BY <1>3, <1>5, <2>5, <2>6
  <2>8. PICK b \in valid : b = OptimalEnd(from)
    BY <2>7
  <2>9. b \in Nat /\ from + size.min <= b /\ b <= text.length
    BY <2>3
  <2>10. size.min \in Nat /\ text.length \in Nat
    BY <1>1 DEF SizesAndTexts
  <2> QED BY ONLY <2>8, <2>9, <2>10
<1> QED BY <1>4, <1>5

(* What is left between two positions has a length.                            *)
LEMMA StrippedIsNat == ASSUME NEW from \in Int, NEW to \in Int PROVE Stripped(from, to) \in Int
<1> DEFINE kept == (from..(to - 1)) \ text.blanks
<1>1. Stripped(from, to) = IF kept = {} THEN 0 ELSE Max(kept) - Min(kept) + 1
  BY DEF Stripped
<1>2. kept \subseteq from..(to - 1)
  OBVIOUS
<1> HIDE DEF kept
<1>3. CASE kept = {}
  BY <1>1, <1>3
<1>4. CASE kept # {}
  <2>1. \A n \in kept : n - from \in Nat /\ to - 1 - n \in Nat /\ n \in Int
    BY <1>2
  <2> DEFINE up == {n - from : n \in kept}
             down == {to - 1 - n : n \in kept}
  <2>2. \E m \in up : \A k \in up : m <= k
    <3>1. up \subseteq Nat /\ up # {}
      BY <1>4, <2>1
    <3> HIDE DEF up
    <3> QED BY <3>1, Least
  <2>3. \E m \in down : \A k \in down : m <= k
    <3>1. down \subseteq Nat /\ down # {}
      BY <1>4, <2>1
    <3> HIDE DEF down
    <3> QED BY <3>1, Least
  <2>4. \E n \in kept : \A k \in kept : n <= k
    <3>1. PICK n \in kept : \A k \in up : n - from <= k
      BY <2>2
    <3>2. ASSUME NEW k \in kept PROVE n <= k
      <4>1. n - from <= k - from
        BY <3>1
      <4> QED BY <2>1, <4>1
    <3> QED BY <3>2
  <2>5. \E n \in kept : \A k \in kept : n >= k
    <3>1. PICK n \in kept : \A k \in down : to - 1 - n <= k
      BY <2>3
    <3>2. ASSUME NEW k \in kept PROVE n >= k
      <4>1. to - 1 - n <= to - 1 - k
        BY <3>1
      <4> QED BY <2>1, <4>1
    <3> QED BY <3>2
  <2>6. Min(kept) \in kept
    BY <2>4 DEF Min
  <2>7. Max(kept) \in kept
    BY <2>5 DEF Max
  <2> QED BY <1>1, <1>4, <2>1, <2>6, <2>7
<1> QED BY <1>3, <1>4

LEMMA ChunkerInvInit == ChunkerInit => ChunkerInv
<1> SUFFICES ASSUME ChunkerInit PROVE ChunkerInv
  OBVIOUS
<1>1. ChunkerTypes
  BY DEF ChunkerInit, ChunkerTypes
<1>2. OnlyShortStretchesAreDropped
  <2>1. current_pos = 0
    BY DEF ChunkerInit
  <2>2. \A p \in 0..(text.length - 1) : ~(p < current_pos)
    BY <2>1
  <2> QED BY <2>2 DEF OnlyShortStretchesAreDropped
<1> QED BY <1>1, <1>2 DEF ChunkerInv

LEMMA ChunkerInvStep == ChunkerInv /\ [ChunkerNext]_chunkerVars => ChunkerInv'
<1> SUFFICES ASSUME ChunkerInv, [ChunkerNext]_chunkerVars PROVE ChunkerInv'
  OBVIOUS
<1>1. CASE UNCHANGED chunkerVars
  <2>1. UNCHANGED <<text, size, chunks, current_pos>>
    BY <1>1 DEF chunkerVars
  <2>2. ChunkerTypes'
    BY <2>1 DEF ChunkerInv, ChunkerTypes
  <2>3. \A p : (InChunk(p) => InChunk(p)') /\ (InShortStretch(p) => InShortStretch(p)')
    BY <2>1 DEF InChunk, InShortStretch, Stripped
  <2>4. OnlyShortStretchesAreDropped'
    BY <2>1, <2>3 DEF ChunkerInv, OnlyShortStretchesAreDropped
  <2> QED BY <2>2, <2>4 DEF ChunkerInv
<1>2. CASE CreateChunk
  <2>1. PICK T : chunks \in Seq(T)
    BY DEF ChunkerInv, ChunkerTypes
  <2>2. /\ text \in Texts /\ size \in Sizes /\ current_pos \in Nat /\ OnlyShortStretchesAreDropped
        /\ \A i \in DOMAIN chunks : chunks[i].start \in Nat
        /\ chunks = << >> => current_pos = 0
    BY DEF ChunkerInv, ChunkerTypes
  <2>3. SizesAndTexts
    BY <2>2, SizesAndTextsAre
  <2>4. PICK end : end = OptimalEnd(current_pos)
    OBVIOUS
  <2>5. end \in Int /\ end <= text.length /\ (end >= current_pos + size.min \/ end = text.length)
    BY <2>2, <2>4, EndIsFar
  <2>6. PICK x : x = Chunk(current_pos, end)
    OBVIOUS
  <2>7. x.start = current_pos /\ x.end = end
    BY <2>6 DEF Chunk
  <2>8. /\ chunks' = chunks \o IF LargeEnough(current_pos, end) THEN << x >> ELSE << >>
        /\ current_pos' = NextPosition(chunks'[Len(chunks')].start, end)
        /\ text' = text /\ size' = size /\ current_pos < text.length
    BY <1>2, <2>4, <2>6 DEF CreateChunk
  <2>9. current_pos = 0 => LargeEnough(current_pos, end)
    BY DEF LargeEnough
  <2>10. /\ chunks' \in Seq(T \union {x}) /\ chunks' # << >> /\ chunks'[Len(chunks')].start \in Nat
         /\ \A i \in DOMAIN chunks : i \in DOMAIN chunks' /\ chunks'[i] = chunks[i]
         /\ \A i \in DOMAIN chunks' : chunks'[i].start \in Nat
         /\ LargeEnough(current_pos, end) => \E i \in DOMAIN chunks' : chunks'[i] = x
    <3>1. CASE LargeEnough(current_pos, end)
      <4>1. chunks' = chunks \o << x >>
        BY <2>8, <3>1
      <4>2. /\ chunks' \in Seq(T \union {x}) /\ Len(chunks') = Len(chunks) + 1
            /\ Len(chunks) + 1 \in DOMAIN chunks' /\ chunks'[Len(chunks) + 1] = x
            /\ \A i \in DOMAIN chunks : i \in DOMAIN chunks' /\ chunks'[i] = chunks[i]
            /\ \A i \in DOMAIN chunks' : i \in DOMAIN chunks \/ i = Len(chunks) + 1
        BY <2>1, <4>1
      <4>3. \A i \in DOMAIN chunks' : chunks'[i].start \in Nat
        BY <2>2, <2>7, <4>2
      <4> QED BY <2>2, <2>7, <4>2, <4>3
    <3>2. CASE ~LargeEnough(current_pos, end)
      <4>1. chunks' = chunks /\ chunks # << >>
        BY <2>1, <2>2, <2>8, <2>9, <3>2
      <4>2. Len(chunks) \in DOMAIN chunks
        BY <2>1, <4>1
      <4> QED BY <2>1, <2>2, <3>2, <4>1, <4>2
    <3> QED BY <3>1, <3>2
  <2>11. current_pos' \in Nat /\ current_pos' <= end
    <3>1. PICK last : last = chunks'[Len(chunks')].start
      OBVIOUS
    <3>2. current_pos' = IF end - size.overlap <= last THEN end ELSE end - size.overlap
      BY <2>8, <3>1 DEF NextPosition
    <3>3. last \in Nat /\ size.overlap \in Nat /\ end >= 0
      BY <2>2, <2>3, <2>5, <2>10, <3>1 DEF SizesAndTexts
    <3> QED BY <2>5, <3>2, <3>3
  <2>12. ChunkerTypes'
    BY <2>2, <2>8, <2>10, <2>11 DEF ChunkerTypes
  <2>13. ASSUME NEW p \in 0..(text.length - 1), p < current_pos' PROVE InChunk(p)' \/ InShortStretch(p)
    <3>1. CASE p < current_pos
      <4>1. InChunk(p) \/ InShortStretch(p)
        BY <2>2, <3>1 DEF OnlyShortStretchesAreDropped
      <4>2. InChunk(p) => InChunk(p)'
        BY <2>10 DEF InChunk
      <4> QED BY <4>1, <4>2
    <3>2. CASE p >= current_pos
      <4>1. p < end
        BY <2>5, <2>11, <2>13
      <4>2. CASE LargeEnough(current_pos, end)
        <5>1. PICK i \in DOMAIN chunks' : chunks'[i] = x
          BY <2>10, <4>2
        <5> QED BY <2>7, <3>2, <4>1, <5>1 DEF InChunk
      <4>3. CASE ~LargeEnough(current_pos, end)
        <5>1. Stripped(current_pos, end) \in Int
          BY <2>2, <2>5, StrippedIsNat
        <5>2. Stripped(current_pos, end) < size.min
          BY <2>3, <4>3, <5>1 DEF LargeEnough, SizesAndTexts
        <5>3. end = text.length \/ end - current_pos >= size.min
          BY <2>2, <2>3, <2>5 DEF SizesAndTexts
        <5>4. current_pos \in 0..p /\ end \in (p + 1)..text.length
          BY <2>2, <2>3, <2>5, <3>2, <4>1 DEF SizesAndTexts
        <5> QED BY <5>2, <5>3, <5>4 DEF InShortStretch
      <4> QED BY <4>2, <4>3
    <3> QED BY <2>2, <2>13, <3>1, <3>2
  <2>14. OnlyShortStretchesAreDropped'
    <3>1. \A p : InShortStretch(p) => InShortStretch(p)'
      BY <2>8 DEF InShortStretch, Stripped
    <3> QED BY <2>8, <2>13, <3>1 DEF OnlyShortStretchesAreDropped
  <2> QED BY <2>12, <2>14 DEF ChunkerInv
<1> QED BY <1>1, <1>2 DEF ChunkerNext

(* For every text, its white space, boundaries and entities, and all sizes:    *)
(* what the loop in _create_chunks has passed is in a chunk or in a stretch    *)
(* that strips to less than the smallest one, the last of the text or one with *)
(* white space at its edge.                                                    *)
THEOREM TextIsChunked == ChunkerSpec => []OnlyShortStretchesAreDropped
<1>1. ChunkerInv => OnlyShortStretchesAreDropped
  BY DEF ChunkerInv
<1> QED BY <1>1, ChunkerInvInit, ChunkerInvStep, PTL DEF ChunkerSpec

(* The values of two sequences one after the other.                            *)
LEMMA SetOfBoth ==
  ASSUME NEW T, NEW s1 \in Seq(T), NEW s2 \in Seq(T)
  PROVE  s1 \o s2 \in Seq(T) /\ ToSet(s1 \o s2) = ToSet(s1) \union ToSet(s2)
<1>1. ASSUME NEW x \in ToSet(s1) \union ToSet(s2) PROVE x \in ToSet(s1 \o s2)
  <2>1. CASE x \in ToSet(s1)
    BY <2>1 DEF ToSet
  <2>2. CASE x \in ToSet(s2)
    <3>1. PICK i \in DOMAIN s2 : x = s2[i]
      BY <2>2 DEF ToSet
    <3>2. Len(s1) + i \in DOMAIN (s1 \o s2) /\ (s1 \o s2)[Len(s1) + i] = x
      BY <3>1
    <3> QED BY <3>2 DEF ToSet
  <2> QED BY <1>1, <2>1, <2>2
<1>2. ASSUME NEW x \in ToSet(s1 \o s2) PROVE x \in ToSet(s1) \union ToSet(s2)
  <2>1. PICK i \in DOMAIN (s1 \o s2) : x = (s1 \o s2)[i]
    BY <1>2 DEF ToSet
  <2>2. CASE i \in DOMAIN s1
    BY <2>1, <2>2 DEF ToSet
  <2>3. CASE i \notin DOMAIN s1
    <3>1. i - Len(s1) \in DOMAIN s2 /\ s2[i - Len(s1)] = x
      BY <2>1, <2>3
    <3> QED BY <3>1 DEF ToSet
  <2> QED BY <2>2, <2>3
<1> QED BY <1>1, <1>2

-----------------------------------------------------------------------------
(* Provenance.                                                                 *)
CanonicalFields == {"primary", "type", "names", "props", "observations", "indexed", "resolutions"}
ProvenanceTypes ==
  /\ \E T : observations \in Seq(T)
  /\ \E T : canonical \in Seq(T)
  /\ \E T : transformations \in Seq(T)
  /\ \E T : resolutions \in Seq(T)
  /\ \A r \in DOMAIN resolutions : resolutions[r].observations \in Seq(DOMAIN observations)
  /\ \A c \in DOMAIN canonical : /\ DOMAIN canonical[c] = CanonicalFields
                               /\ canonical[c].observations \in Seq(DOMAIN observations)
                               /\ canonical[c].resolutions \in Seq(DOMAIN resolutions)

(* Every observation was extracted; what an entity shows of its resolutions    *)
(* links observations of it; and what it holds is in a stored resolution.      *)
Extraction(i, o) == transformations[i].process = "Extract" /\ transformations[i].to = Obs(o)
Resolution(j, o, c) == /\ transformations[j].process = "Resolve" /\ transformations[j].to = Ent(c)
                       /\ Obs(o) \in transformations[j].from
Linked(o, c) == \E i, j \in DOMAIN transformations : i < j /\ Extraction(i, o) /\ Resolution(j, o, c)
ObservationsExtracted ==
  \A o \in DOMAIN observations : \E i \in DOMAIN transformations : Extraction(i, o)
ResolutionsLinked ==
  \A c \in DOMAIN canonical : \A r \in ToSet(canonical[c].resolutions) :
    /\ resolutions[r].canonical = c
    /\ \A o \in ToSet(resolutions[r].observations) : o \in ToSet(canonical[c].observations) /\ Linked(o, c)
ObservationsResolved ==
  \A c \in DOMAIN canonical : \A o \in ToSet(canonical[c].observations) : \E r \in DOMAIN resolutions :
    resolutions[r].canonical = c /\ o \in ToSet(resolutions[r].observations)
ProvenanceInv == ProvenanceTypes /\ ObservationsExtracted /\ ResolutionsLinked /\ ObservationsResolved

LEMMA ProvenanceInvInit == ProvenanceInit => ProvenanceInv
<1> SUFFICES ASSUME ProvenanceInit PROVE ProvenanceInv
  OBVIOUS
<1>1. observations = << >> /\ canonical = << >> /\ transformations = << >> /\ resolutions = << >>
  BY DEF ProvenanceInit
<1>2. DOMAIN observations = {} /\ DOMAIN canonical = {} /\ DOMAIN resolutions = {}
  BY <1>1
<1>3. << >> \in Seq({})
  OBVIOUS
<1> QED BY <1>1, <1>2, <1>3
        DEF ProvenanceInv, ProvenanceTypes, ObservationsExtracted, ResolutionsLinked, ObservationsResolved

(* One more element leaves the earlier ones where they are.                    *)
LEMMA OneMore ==
  ASSUME NEW T, NEW s \in Seq(T), NEW x
  PROVE  /\ Append(s, x) \in Seq(T \union {x})
         /\ DOMAIN Append(s, x) = DOMAIN s \union {Len(s) + 1}
         /\ Append(s, x)[Len(s) + 1] = x
         /\ \A i \in DOMAIN s : Append(s, x)[i] = s[i] /\ i < Len(s) + 1
  OBVIOUS

(* What was recorded stays recorded.                                           *)
LEMMA StaysRecorded ==
  ASSUME ProvenanceTypes,
         transformations' = transformations \/ \E t : transformations' = Append(transformations, t)
  PROVE  /\ \A o, i : i \in DOMAIN transformations /\ Extraction(i, o)
                        => i \in DOMAIN transformations' /\ Extraction(i, o)'
         /\ \A o, c : Linked(o, c) => Linked(o, c)'
<1>1. PICK T : transformations \in Seq(T)
  BY DEF ProvenanceTypes
<1>2. \A i \in DOMAIN transformations : i \in DOMAIN transformations' /\ transformations'[i] = transformations[i]
  <2>1. CASE transformations' = transformations
    BY <2>1
  <2>2. ASSUME NEW t, transformations' = Append(transformations, t)
        PROVE  \A i \in DOMAIN transformations : i \in DOMAIN transformations' /\ transformations'[i] = transformations[i]
    BY <1>1, <2>2, OneMore
  <2> QED BY <2>1, <2>2
<1>3. ASSUME NEW o, NEW i \in DOMAIN transformations, Extraction(i, o)
      PROVE  i \in DOMAIN transformations' /\ Extraction(i, o)'
  BY <1>2, <1>3 DEF Extraction, Obs
<1>4. ASSUME NEW o, NEW c, Linked(o, c) PROVE Linked(o, c)'
  <2>1. PICK i, j \in DOMAIN transformations : i < j /\ Extraction(i, o) /\ Resolution(j, o, c)
    BY <1>4 DEF Linked
  <2>2. Extraction(i, o)' /\ Resolution(j, o, c)'
    BY <1>2, <2>1 DEF Extraction, Resolution, Obs, Ent
  <2> QED BY <1>2, <2>1, <2>2 DEF Linked
<1> QED BY <1>3, <1>4

LEMMA ObservationStep ==
  ASSUME ProvenanceInv, NEW e, NEW d, RecordObservation(e, d)
  PROVE  ProvenanceInv'
<1>1. PICK T, O : transformations \in Seq(T) /\ observations \in Seq(O)
  BY DEF ProvenanceInv, ProvenanceTypes
<1>2. PICK n, t, x : n = Len(observations) + 1 /\ t = Transform("Extract", {Cid(d)}, Obs(n))
                     /\ x = [entity |-> e, source |-> d]
  OBVIOUS
<1>3. observations' = Append(observations, x) /\ transformations' = Append(transformations, t)
      /\ UNCHANGED <<canonical, resolutions>>
  BY <1>2 DEF RecordObservation
<1>4. t.process = "Extract" /\ t.to = Obs(n)
  BY <1>2 DEF Transform
<1>5. observations' \in Seq(O \union {x}) /\ DOMAIN observations' = (DOMAIN observations) \union {n}
  BY <1>1, <1>2, <1>3, OneMore
<1>6. PICK U : transformations' \in Seq(U)
  BY <1>1, <1>3, OneMore
<1>7. ProvenanceTypes'
  <2>1. \A s : s \in Seq(DOMAIN observations) => s \in Seq(DOMAIN observations')
    BY <1>5
  <2>2. ASSUME NEW r \in DOMAIN resolutions PROVE resolutions[r].observations \in Seq(DOMAIN observations')
    BY <2>1 DEF ProvenanceInv, ProvenanceTypes
  <2>3. ASSUME NEW c \in DOMAIN canonical
        PROVE  /\ DOMAIN canonical[c] = CanonicalFields /\ canonical[c].resolutions \in Seq(DOMAIN resolutions)
               /\ canonical[c].observations \in Seq(DOMAIN observations')
    BY <2>1 DEF ProvenanceInv, ProvenanceTypes
  <2> QED BY <1>3, <1>5, <1>6, <2>2, <2>3 DEF ProvenanceInv, ProvenanceTypes, CanonicalFields
<1>8. /\ \A o, i : i \in DOMAIN transformations /\ Extraction(i, o)
                     => i \in DOMAIN transformations' /\ Extraction(i, o)'
      /\ \A o, c : Linked(o, c) => Linked(o, c)'
  BY <1>3, StaysRecorded DEF ProvenanceInv
<1>9. ObservationsExtracted'
  <2> SUFFICES ASSUME NEW o \in DOMAIN observations'
               PROVE  \E i \in DOMAIN transformations' : Extraction(i, o)'
    BY DEF ObservationsExtracted
  <2>1. CASE o = n
    <3>1. Len(transformations) + 1 \in DOMAIN transformations' /\ transformations'[Len(transformations) + 1] = t
      BY <1>1, <1>3, OneMore
    <3> QED BY <1>4, <2>1, <3>1 DEF Extraction, Obs
  <2>2. CASE o \in DOMAIN observations
    BY <1>8, <2>2 DEF ProvenanceInv, ObservationsExtracted
  <2> QED BY <1>5, <2>1, <2>2
<1>10. ResolutionsLinked'
  <2> SUFFICES ASSUME NEW c \in DOMAIN canonical, NEW r \in ToSet(canonical[c].resolutions)
               PROVE  /\ resolutions[r].canonical = c
                      /\ \A o \in ToSet(resolutions[r].observations) :
                           o \in ToSet(canonical[c].observations) /\ Linked(o, c)'
    BY <1>3 DEF ResolutionsLinked
  <2> QED BY <1>8 DEF ProvenanceInv, ResolutionsLinked
<1>11. ObservationsResolved'
  BY <1>3 DEF ProvenanceInv, ObservationsResolved
<1> QED BY <1>7, <1>9, <1>10, <1>11 DEF ProvenanceInv

CanBeResolved(id, entity) ==
  /\ DOMAIN entity = CanonicalFields
  /\ \/ id \in DOMAIN canonical /\ entity = canonical[id]
     \/ id = Len(canonical) + 1 /\ entity.observations = << >> /\ entity.resolutions = << >>

(* What becomes of the entity, whether the call returns or raises: it gains    *)
(* observations of the call, and the resolution when it gained all of them.    *)
Gains(entity, full, obs) ==
  /\ DOMAIN full = CanonicalFields
  /\ full.observations \in Seq(DOMAIN observations)
  /\ ToSet(entity.observations) \subseteq ToSet(full.observations)
  /\ ToSet(full.observations) \subseteq ToSet(entity.observations) \union ToSet(obs)
Returned(entity, full, obs, id) ==
  /\ full.resolutions = Append(entity.resolutions, Len(resolutions) + 1)
  /\ ToSet(obs) \subseteq ToSet(full.observations)
  /\ transformations' = Append(transformations, Transform("Resolve", {Obs(obs[i]) : i \in DOMAIN obs}, Ent(id)))
Raised(entity, full) == full.resolutions = entity.resolutions /\ transformations' = transformations

LEMMA PartOf ==
  ASSUME NEW T, NEW s \in Seq(T), NEW n \in 0..Len(s)
  PROVE  /\ SubSeq(s, 1, n) \in Seq(T) /\ ToSet(SubSeq(s, 1, n)) \subseteq ToSet(s)
         /\ n = Len(s) => SubSeq(s, 1, n) = s
<1>1. SubSeq(s, 1, n) \in Seq(T) /\ Len(SubSeq(s, 1, n)) = n /\ DOMAIN SubSeq(s, 1, n) = 1..n
  OBVIOUS
<1>2. ASSUME NEW i \in 1..n PROVE SubSeq(s, 1, n)[i] = s[i] /\ i \in DOMAIN s
  OBVIOUS
<1>3. ToSet(SubSeq(s, 1, n)) \subseteq ToSet(s)
  BY <1>1, <1>2 DEF ToSet
<1>4. n = Len(s) => SubSeq(s, 1, n) = s
  OBVIOUS
<1> QED BY <1>1, <1>3, <1>4

LEMMA Absorbing ==
  ASSUME NEW obs \in Seq(DOMAIN observations), NEW entity, DOMAIN entity = CanonicalFields,
         entity.observations \in Seq(DOMAIN observations), NEW n \in 0..Len(obs)
  PROVE  /\ DOMAIN Absorb(entity, obs, n) = CanonicalFields
         /\ Absorb(entity, obs, n).resolutions = entity.resolutions
         /\ Absorb(entity, obs, n).observations \in Seq(DOMAIN observations)
         /\ ToSet(Absorb(entity, obs, n).observations) = ToSet(entity.observations) \union ToSet(SubSeq(obs, 1, n))
<1>1. PICK a, s : a = Absorb(entity, obs, n) /\ s = entity.observations \o SubSeq(obs, 1, n)
  OBVIOUS
<1>2. DOMAIN a = CanonicalFields /\ a.resolutions = entity.resolutions /\ a.observations = s
  BY <1>1 DEF Absorb, CanonicalFields
<1>3. PICK e, p : e = entity.observations /\ p = SubSeq(obs, 1, n)
  OBVIOUS
<1>4. e \in Seq(DOMAIN observations) /\ p \in Seq(DOMAIN observations)
  BY <1>3, PartOf
<1>5. e \o p \in Seq(DOMAIN observations) /\ ToSet(e \o p) = ToSet(e) \union ToSet(p)
  BY <1>4, SetOfBoth
<1> QED BY <1>1, <1>2, <1>3, <1>5

LEMMA LinkGains ==
  ASSUME NEW obs \in Seq(DOMAIN observations), NEW id, NEW entity, DOMAIN entity = CanonicalFields,
         entity.observations \in Seq(DOMAIN observations), Link(obs, id, entity)
  PROVE  \E full : Store(id, full) /\ Gains(entity, full, obs) /\ Returned(entity, full, obs, id)
<1>1. PICK a, full : /\ a = Absorb(entity, obs, Len(obs))
                     /\ full = [a EXCEPT !.resolutions = Append(@, Len(resolutions) + 1)]
  OBVIOUS
<1>2. /\ Store(id, full)
      /\ transformations' = Append(transformations, Transform("Resolve", {Obs(obs[i]) : i \in DOMAIN obs}, Ent(id)))
  BY <1>1 DEF Link
<1>3. PICK n : n = Len(obs)
  OBVIOUS
<1>4. n \in 0..Len(obs) /\ SubSeq(obs, 1, n) = obs
  BY <1>3, PartOf
<1>5. /\ DOMAIN a = CanonicalFields /\ a.resolutions = entity.resolutions
      /\ a.observations \in Seq(DOMAIN observations)
      /\ ToSet(a.observations) = ToSet(entity.observations) \union ToSet(obs)
  <2>1. a = Absorb(entity, obs, n)
    BY <1>1, <1>3
  <2>2. /\ DOMAIN a = CanonicalFields /\ a.resolutions = entity.resolutions
        /\ a.observations \in Seq(DOMAIN observations)
        /\ ToSet(a.observations) = ToSet(entity.observations) \union ToSet(SubSeq(obs, 1, n))
    BY <1>4, <2>1, Absorbing
  <2>3. ToSet(SubSeq(obs, 1, n)) = ToSet(obs)
    BY ONLY <1>4
  <2> QED BY <2>2, <2>3
<1>6. /\ DOMAIN full = CanonicalFields /\ full.observations = a.observations
      /\ full.resolutions = Append(a.resolutions, Len(resolutions) + 1)
  BY <1>1, <1>5 DEF CanonicalFields
<1>7. Gains(entity, full, obs)
  BY <1>5, <1>6 DEF Gains
<1>8. Returned(entity, full, obs, id)
  BY <1>2, <1>5, <1>6 DEF Returned
<1> QED BY <1>2, <1>7, <1>8

LEMMA RaiseGains ==
  ASSUME NEW obs \in Seq(DOMAIN observations), NEW id, NEW entity, DOMAIN entity = CanonicalFields,
         entity.observations \in Seq(DOMAIN observations), Raise(obs, id, entity)
  PROVE  \E full : Store(id, full) /\ Gains(entity, full, obs) /\ Raised(entity, full)
<1>1. PICK n : n = Min(Clashes(entity, obs))
  OBVIOUS
<1>2. n \in DOMAIN obs
  <2>1. Clashes(entity, obs) \subseteq DOMAIN obs /\ DOMAIN obs \subseteq Nat /\ Clashes(entity, obs) # {}
    <3>1. Clashes(entity, obs) \subseteq DOMAIN obs
      BY DEF Clashes
    <3>2. Clashes(entity, obs) # {}
      BY DEF Raise
    <3> QED BY <3>1, <3>2
  <2>2. Min(Clashes(entity, obs)) \in Clashes(entity, obs)
    BY <2>1, Least DEF Min
  <2> QED BY <1>1, <2>1, <2>2
<1>3. PICK a : a = Absorb(entity, obs, n - 1)
  OBVIOUS
<1>4. PICK full, names, props :
        /\ full = [a EXCEPT !.observations = Append(@, obs[n]), !.names = names, !.props = props]
        /\ Store(id, full) /\ transformations' = transformations
  BY <1>1, <1>3 DEF Raise
<1>5. PICK m : m = n - 1
  OBVIOUS
<1>6. m \in 0..Len(obs) /\ obs[n] \in DOMAIN observations
  BY <1>2, <1>5
<1>7. ToSet(SubSeq(obs, 1, m)) \subseteq ToSet(obs) /\ obs[n] \in ToSet(obs)
  BY <1>2, <1>6, PartOf DEF ToSet
<1>8. /\ DOMAIN a = CanonicalFields /\ a.resolutions = entity.resolutions
      /\ a.observations \in Seq(DOMAIN observations)
      /\ ToSet(a.observations) = ToSet(entity.observations) \union ToSet(SubSeq(obs, 1, m))
  BY <1>3, <1>5, <1>6, Absorbing
<1>9. /\ DOMAIN full = CanonicalFields /\ full.observations = Append(a.observations, obs[n])
      /\ full.resolutions = a.resolutions
  BY <1>4, <1>8 DEF CanonicalFields
<1>10. PICK s, o : s = a.observations /\ o = obs[n]
  OBVIOUS
<1>11. s \in Seq(DOMAIN observations) /\ o \in DOMAIN observations
  BY <1>6, <1>8, <1>10
<1>12. Append(s, o) \in Seq(DOMAIN observations) /\ ToSet(Append(s, o)) = ToSet(s) \union {o}
  <2>1. Append(s, o) \in Seq(DOMAIN observations) /\ DOMAIN Append(s, o) = DOMAIN s \union {Len(s) + 1}
        /\ Append(s, o)[Len(s) + 1] = o /\ \A i \in DOMAIN s : Append(s, o)[i] = s[i]
    BY <1>11
  <2> QED BY <2>1 DEF ToSet
<1>13. Gains(entity, full, obs)
  BY <1>7, <1>8, <1>9, <1>10, <1>12 DEF Gains
<1>14. Raised(entity, full)
  BY <1>4, <1>8, <1>9 DEF Raised
<1> QED BY <1>4, <1>13, <1>14

LEMMA StoreStep ==
  ASSUME ProvenanceInv, NEW obs \in Seq(DOMAIN observations), NEW id \in Nat, NEW entity, NEW full,
         CanBeResolved(id, entity), Store(id, full), Gains(entity, full, obs),
         Returned(entity, full, obs, id) \/ Raised(entity, full),
         resolutions' = Append(resolutions, [canonical |-> id, observations |-> obs]),
         observations' = observations
  PROVE  ProvenanceInv'
<1> USE DEF Gains
<1>1. PICK T, O, C, R : /\ transformations \in Seq(T) /\ observations \in Seq(O) /\ canonical \in Seq(C)
                        /\ resolutions \in Seq(R)
  BY DEF ProvenanceInv, ProvenanceTypes
<1>2. PICK t, r, res : /\ t = Transform("Resolve", {Obs(obs[i]) : i \in DOMAIN obs}, Ent(id))
                       /\ r = Len(resolutions) + 1 /\ res = [canonical |-> id, observations |-> obs]
  OBVIOUS
<1>3. /\ resolutions' \in Seq(R \union {res}) /\ DOMAIN resolutions' = DOMAIN resolutions \union {r}
      /\ resolutions'[r] = res /\ \A x \in DOMAIN resolutions : resolutions'[x] = resolutions[x] /\ x # r
  <2>1. resolutions' = Append(resolutions, res)
    BY <1>2
  <2>2. \A x \in DOMAIN resolutions : x # r
    BY <1>1, <1>2
  <2>3. /\ Append(resolutions, res) \in Seq(R \union {res})
        /\ DOMAIN Append(resolutions, res) = DOMAIN resolutions \union {Len(resolutions) + 1}
        /\ Append(resolutions, res)[Len(resolutions) + 1] = res
        /\ \A x \in DOMAIN resolutions : Append(resolutions, res)[x] = resolutions[x]
    BY <1>1, OneMore
  <2>4. r = Len(resolutions) + 1
    BY <1>2
  <2> QED BY ONLY <2>1, <2>2, <2>3, <2>4
<1>4. t.process = "Resolve" /\ t.to = Ent(id) /\ \A i \in DOMAIN obs : Obs(obs[i]) \in t.from
  BY <1>2 DEF Transform
<1>5. res.canonical = id /\ res.observations = obs
  BY <1>2
<1>6. /\ entity.observations \in Seq(DOMAIN observations) /\ entity.resolutions \in Seq(DOMAIN resolutions)
  <2>1. CASE id \in DOMAIN canonical /\ entity = canonical[id]
    BY <2>1 DEF ProvenanceInv, ProvenanceTypes
  <2>2. CASE entity.observations = << >> /\ entity.resolutions = << >>
    BY <2>2
  <2> QED BY <2>1, <2>2 DEF CanBeResolved
<1>7. canonical' \in Seq(C \union {full})
  <2>1. DOMAIN canonical = 1..Len(canonical) /\ Len(canonical) \in Nat /\ \A c \in DOMAIN canonical : canonical[c] \in C
    BY <1>1
  <2>2. \E n \in Nat : (DOMAIN canonical) \union {id} = 1..n
    <3>1. CASE id \in DOMAIN canonical
      BY <2>1, <3>1
    <3>2. CASE id = Len(canonical) + 1
      <4>1. Len(canonical) + 1 \in Nat /\ (DOMAIN canonical) \union {id} = 1..(Len(canonical) + 1)
        BY <2>1, <3>2
      <4> QED BY <4>1
    <3> QED BY <3>1, <3>2 DEF CanBeResolved
  <2>3. PICK n \in Nat : (DOMAIN canonical) \union {id} = 1..n
    BY <2>2
  <2>4. canonical' \in [1..n -> C \union {full}]
    BY <2>1, <2>3 DEF Store
  <2> QED BY <2>4
<1>8. /\ DOMAIN canonical' = (DOMAIN canonical) \union {id}
      /\ canonical'[id] = full
      /\ \A c \in DOMAIN canonical : c # id => canonical'[c] = canonical[c]
  BY DEF Store
<1>9. /\ \E U : transformations' \in Seq(U)
      /\ transformations' = transformations \/ \E u : transformations' = Append(transformations, u)
  <2>1. CASE Returned(entity, full, obs, id)
    <3>1. transformations' = Append(transformations, t)
      BY <1>2, <2>1 DEF Returned
    <3> QED BY <1>1, <3>1, OneMore
  <2>2. CASE Raised(entity, full)
    BY <1>1, <2>2 DEF Raised
  <2> QED BY <2>1, <2>2
<1>10. full.resolutions \in Seq(DOMAIN resolutions')
  <2>1. \A s : s \in Seq(DOMAIN resolutions) => s \in Seq(DOMAIN resolutions') /\ Append(s, r) \in Seq(DOMAIN resolutions')
    BY <1>3
  <2>2. entity.resolutions \in Seq(DOMAIN resolutions') /\ Append(entity.resolutions, r) \in Seq(DOMAIN resolutions')
    BY <1>6, <2>1
  <2> QED BY <1>2, <2>2 DEF Returned, Raised
<1>11. ProvenanceTypes'
  <2>1. ASSUME NEW c \in DOMAIN canonical'
        PROVE  /\ DOMAIN canonical'[c] = CanonicalFields /\ canonical'[c].observations \in Seq(DOMAIN observations)
               /\ canonical'[c].resolutions \in Seq(DOMAIN resolutions')
    <3>1. CASE c = id
      BY <1>8, <1>10, <3>1
    <3>2. CASE c # id
      <4>1. \A s : s \in Seq(DOMAIN resolutions) => s \in Seq(DOMAIN resolutions')
        BY <1>3
      <4> QED BY <1>8, <2>1, <3>2, <4>1 DEF ProvenanceInv, ProvenanceTypes
    <3> QED BY <3>1, <3>2
  <2>2. ASSUME NEW x \in DOMAIN resolutions' PROVE resolutions'[x].observations \in Seq(DOMAIN observations)
    BY <1>3, <1>5 DEF ProvenanceInv, ProvenanceTypes
  <2> QED BY <1>1, <1>3, <1>7, <1>9, <2>1, <2>2 DEF ProvenanceTypes, CanonicalFields
<1>12. /\ \A o, i : i \in DOMAIN transformations /\ Extraction(i, o)
                      => i \in DOMAIN transformations' /\ Extraction(i, o)'
       /\ \A o, c : Linked(o, c) => Linked(o, c)'
  BY <1>9, StaysRecorded DEF ProvenanceInv
<1>13. ObservationsExtracted'
  BY <1>12 DEF ProvenanceInv, ObservationsExtracted
<1>14. ASSUME NEW o \in ToSet(obs), Returned(entity, full, obs, id) PROVE Linked(o, id)'
  <2>1. PICK k \in DOMAIN obs : o = obs[k]
    BY <1>14 DEF ToSet
  <2>2. PICK i \in DOMAIN transformations : Extraction(i, o)
    BY <2>1 DEF ProvenanceInv, ObservationsExtracted
  <2>3. PICK j : j = Len(transformations) + 1
    OBVIOUS
  <2>4. j \in DOMAIN transformations' /\ transformations'[j] = t /\ i < j
    BY <1>1, <1>2, <1>14, <2>3, OneMore DEF Returned
  <2>5. i \in DOMAIN transformations' /\ Extraction(i, o)'
    BY <1>12, <2>2
  <2>6. Resolution(j, o, id)'
    BY <1>4, <2>1, <2>4 DEF Resolution, Obs, Ent
  <2> QED BY <2>4, <2>5, <2>6 DEF Linked
(* An entity that gained keeps what it had, and it had resolutions only when   *)
(* it was there.                                                               *)
<1>15. ASSUME NEW x \in ToSet(entity.resolutions)
       PROVE  /\ x \in DOMAIN resolutions /\ resolutions[x].canonical = id
              /\ \A o \in ToSet(resolutions[x].observations) : o \in ToSet(entity.observations) /\ Linked(o, id)
  <2>1. entity.resolutions # << >>
    BY <1>15 DEF ToSet
  <2>2. id \in DOMAIN canonical /\ entity = canonical[id]
    BY <2>1 DEF CanBeResolved
  <2>3. x \in DOMAIN resolutions
    BY <1>6, <1>15 DEF ToSet
  <2> QED BY <1>15, <2>2, <2>3 DEF ProvenanceInv, ResolutionsLinked
<1>16. /\ ToSet(full.resolutions) \subseteq ToSet(entity.resolutions) \union {r}
       /\ r \in ToSet(full.resolutions) => Returned(entity, full, obs, id)
  <2>1. CASE Returned(entity, full, obs, id)
    <3>1. PICK s : s = entity.resolutions
      OBVIOUS
    <3>2. ToSet(Append(s, r)) \subseteq ToSet(s) \union {r}
      <4>1. \A i \in DOMAIN Append(s, r) : Append(s, r)[i] = r \/ (i \in DOMAIN s /\ Append(s, r)[i] = s[i])
        <5>1. s \in Seq(DOMAIN resolutions)
          BY <1>6, <3>1
        <5> QED BY ONLY <5>1
      <4> QED BY ONLY <4>1 DEF ToSet
    <3> QED BY <1>2, <2>1, <3>1, <3>2 DEF Returned
  <2>2. CASE Raised(entity, full)
    <3>1. \A x \in ToSet(entity.resolutions) : x \in DOMAIN resolutions
      BY <1>6 DEF ToSet
    <3> QED BY <1>3, <2>2, <3>1 DEF Raised
  <2> QED BY <2>1, <2>2
<1>17. ResolutionsLinked'
  <2> SUFFICES ASSUME NEW c \in DOMAIN canonical', NEW x \in ToSet(canonical'[c].resolutions)
               PROVE  /\ resolutions'[x].canonical = c
                      /\ \A o \in ToSet(resolutions'[x].observations) :
                           o \in ToSet(canonical'[c].observations) /\ Linked(o, c)'
    BY DEF ResolutionsLinked
  <2>1. CASE c # id
    <3>1. c \in DOMAIN canonical /\ canonical'[c] = canonical[c] /\ x \in ToSet(canonical[c].resolutions)
      BY <1>8, <2>1
    <3>2. x \in DOMAIN resolutions
      BY <3>1 DEF ProvenanceInv, ProvenanceTypes, ToSet
    <3>3. resolutions'[x] = resolutions[x]
      BY <1>3, <3>2
    <3> QED BY <1>12, <3>1, <3>3 DEF ProvenanceInv, ResolutionsLinked
  <2>2. CASE c = id /\ x = r
    <3>1. Returned(entity, full, obs, id)
      <4>1. r \in ToSet(full.resolutions)
        <5>1. canonical'[c] = full
          BY <1>8, <2>2
        <5> QED BY <2>2, <5>1
      <4> QED BY <1>16, <4>1
    <3>2. resolutions'[x].canonical = id /\ resolutions'[x].observations = obs
      BY <1>3, <1>5, <2>2
    <3> QED BY <1>8, <1>14, <2>2, <3>1, <3>2 DEF Returned
  <2>3. CASE c = id /\ x # r
    <3>1. x \in ToSet(entity.resolutions)
      <4>1. x \in ToSet(full.resolutions)
        <5>1. canonical'[c] = full
          BY <1>8, <2>3
        <5> QED BY <2>3, <5>1
      <4> QED BY <1>16, <2>3, <4>1
    <3>2. x \in DOMAIN resolutions /\ resolutions'[x] = resolutions[x]
      BY <1>3, <1>15, <3>1
    <3> QED BY <1>8, <1>12, <1>15, <2>3, <3>1, <3>2
  <2> QED BY <2>1, <2>2, <2>3
<1>18. ObservationsResolved'
  <2> SUFFICES ASSUME NEW c \in DOMAIN canonical', NEW o \in ToSet(canonical'[c].observations)
               PROVE  \E x \in DOMAIN resolutions' :
                        resolutions'[x].canonical = c /\ o \in ToSet(resolutions'[x].observations)
    BY DEF ObservationsResolved
  <2>1. ASSUME c \in DOMAIN canonical, o \in ToSet(canonical[c].observations)
        PROVE  \E x \in DOMAIN resolutions' :
                 resolutions'[x].canonical = c /\ o \in ToSet(resolutions'[x].observations)
    <3>1. PICK x \in DOMAIN resolutions :
            resolutions[x].canonical = c /\ o \in ToSet(resolutions[x].observations)
      BY <2>1 DEF ProvenanceInv, ObservationsResolved
    <3> QED BY <1>3, <3>1
  <2>2. CASE c # id
    BY <1>8, <2>1, <2>2
  <2>3. CASE c = id /\ o \in ToSet(obs)
    BY <1>3, <1>5, <2>3
  <2>4. CASE c = id /\ o \notin ToSet(obs)
    <3>1. o \in ToSet(entity.observations)
      BY <1>8, <2>4
    <3>2. entity.observations # << >>
      BY <3>1 DEF ToSet
    <3>3. id \in DOMAIN canonical /\ o \in ToSet(canonical[id].observations)
      BY <3>1, <3>2 DEF CanBeResolved
    <3> QED BY <2>1, <2>4, <3>3
  <2> QED BY <2>2, <2>3, <2>4
<1> QED BY <1>11, <1>13, <1>17, <1>18 DEF ProvenanceInv

LEMMA ResolveStep ==
  ASSUME ProvenanceInv, NEW obs \in Seq(DOMAIN observations), NEW id \in Nat, NEW entity,
         CanBeResolved(id, entity), Resolve(obs, id, entity)
  PROVE  ProvenanceInv'
<1>1. DOMAIN entity = CanonicalFields /\ entity.observations \in Seq(DOMAIN observations)
  <2>1. CASE id \in DOMAIN canonical /\ entity = canonical[id]
    BY <2>1 DEF ProvenanceInv, ProvenanceTypes
  <2>2. CASE entity.observations = << >>
    BY <2>2 DEF CanBeResolved
  <2> QED BY <2>1, <2>2 DEF CanBeResolved
<1>2. /\ Link(obs, id, entity) \/ Raise(obs, id, entity)
      /\ resolutions' = Append(resolutions, [canonical |-> id, observations |-> obs])
      /\ observations' = observations
  BY DEF Resolve
<1>3. \E full : /\ Store(id, full) /\ Gains(entity, full, obs)
                /\ Returned(entity, full, obs, id) \/ Raised(entity, full)
  <2>1. CASE Link(obs, id, entity)
    BY <1>1, <2>1, LinkGains
  <2>2. CASE Raise(obs, id, entity)
    BY <1>1, <2>2, RaiseGains
  <2> QED BY <1>2, <2>1, <2>2
<1>4. PICK full : /\ Store(id, full) /\ Gains(entity, full, obs)
                  /\ Returned(entity, full, obs, id) \/ Raised(entity, full)
  BY <1>3
<1> QED BY <1>2, <1>4, StoreStep

LEMMA ProvenanceInvStep == ProvenanceInv /\ [ProvenanceNext]_provenanceVars => ProvenanceInv'
<1> SUFFICES ASSUME ProvenanceInv, [ProvenanceNext]_provenanceVars PROVE ProvenanceInv'
  OBVIOUS
<1>1. CASE UNCHANGED provenanceVars
  <2>1. UNCHANGED <<observations, canonical, resolutions, transformations>>
    BY <1>1 DEF provenanceVars
  <2>2. ProvenanceTypes'
    BY <2>1 DEF ProvenanceInv, ProvenanceTypes, CanonicalFields
  <2>3. ObservationsExtracted' /\ ObservationsResolved'
    BY <2>1 DEF ProvenanceInv, ObservationsExtracted, ObservationsResolved, Extraction, Obs
  <2>4. \A o, c : Linked(o, c) => Linked(o, c)'
    BY <2>1 DEF Linked, Extraction, Resolution, Obs, Ent
  <2>5. ResolutionsLinked'
    BY <2>1, <2>4 DEF ProvenanceInv, ResolutionsLinked
  <2> QED BY <2>2, <2>3, <2>5 DEF ProvenanceInv
<1>2. ASSUME NEW e \in Entities, NEW d \in Sources, RecordObservation(e, d) PROVE ProvenanceInv'
  BY <1>2, ObservationStep
<1>3. PICK C : canonical \in Seq(C)
  BY DEF ProvenanceInv, ProvenanceTypes
<1>4. DOMAIN canonical \subseteq Nat /\ Len(canonical) \in Nat
  BY <1>3
<1>5. ASSUME NEW obs \in Groups PROVE obs \in Seq(DOMAIN observations) /\ DOMAIN obs \subseteq Nat
  BY <1>5 DEF Groups
<1>6. \A S \in SUBSET Nat : S # {} => Min(S) \in S
  <2> SUFFICES ASSUME NEW S \in SUBSET Nat, S # {} PROVE Min(S) \in S
    OBVIOUS
  <2> QED BY Least DEF Min
<1>7. ASSUME NEW obs \in Groups, AddToCanonical(obs) PROVE ProvenanceInv'
  <2>1. Min(Matched(obs)) \in Matched(obs)
    <3>1. Matched(obs) \in SUBSET Nat
      BY <1>5 DEF Matched
    <3> QED BY <1>6, <1>7, <3>1 DEF AddToCanonical
  <2>2. PICK o : o = obs[Min(Matched(obs))] /\ MatchingCanonical(o) # {}
    BY <2>1 DEF Matched
  <2>3. PICK c : c = Min(MatchingCanonical(o))
    OBVIOUS
  <2>4. c \in DOMAIN canonical
    <3>1. MatchingCanonical(o) \in SUBSET (DOMAIN canonical)
      BY DEF MatchingCanonical
    <3>2. MatchingCanonical(o) \in SUBSET Nat
      BY <1>4, <3>1
    <3> QED BY <1>6, <2>2, <2>3, <3>1, <3>2
  <2>5. Resolve(obs, c, canonical[c])
    BY <1>7, <2>2, <2>3 DEF AddToCanonical
  <2>6. DOMAIN canonical[c] = CanonicalFields
    BY <2>4 DEF ProvenanceInv, ProvenanceTypes
  <2>7. PICK entity : entity = canonical[c]
    OBVIOUS
  <2>8. c \in Nat /\ obs \in Seq(DOMAIN observations)
    BY <1>4, <1>5, <2>4
  <2>9. Resolve(obs, c, entity)
    BY <2>5, <2>7 DEF Resolve
  <2>10. CanBeResolved(c, entity)
    BY <2>4, <2>6, <2>7 DEF CanBeResolved
  <2> QED BY <2>8, <2>9, <2>10, ResolveStep
<1>8. ASSUME NEW obs \in Groups, CreateCanonical(obs) PROVE ProvenanceInv'
  <2>1. PICK entity : entity = NewCanonical(obs[1])
    OBVIOUS
  <2>2. DOMAIN entity = CanonicalFields /\ entity.observations = << >> /\ entity.resolutions = << >>
    BY <2>1 DEF NewCanonical, CanonicalFields
  <2>3. Resolve(obs, Len(canonical) + 1, entity)
    BY <1>8, <2>1 DEF CreateCanonical
  <2>4. PICK id : id = Len(canonical) + 1
    OBVIOUS
  <2>5. id \in Nat /\ obs \in Seq(DOMAIN observations)
    BY <1>4, <1>5, <2>4
  <2>6. CanBeResolved(id, entity)
    BY <2>2, <2>4 DEF CanBeResolved
  <2>7. Resolve(obs, id, entity)
    BY <2>3, <2>4 DEF Resolve
  <2> QED BY <2>5, <2>6, <2>7, ResolveStep
<1> QED BY <1>1, <1>2, <1>7, <1>8 DEF ProvenanceNext

(* The answer about an entity takes in the resolution that linked an           *)
(* observation to it.                                                          *)
LEMMA LinkedIsAnswered ==
  ASSUME ProvenanceInv, NEW c \in DOMAIN canonical, NEW o, Linked(o, c)
  PROVE  Audited(c, o)
<1>1. PICK i, j \in DOMAIN transformations : i < j /\ Extraction(i, o) /\ Resolution(j, o, c)
  BY DEF Linked
<1>2. PICK T : transformations \in Seq(T)
  BY DEF ProvenanceInv, ProvenanceTypes
<1>3. PICK others : /\ EntityProvenance(c).transformations = Without(transformations, others)
                    /\ \A t \in others : t.to # Ent(c)
  <2> DEFINE mine == {Obs(x) : x \in ToSet(canonical[c].indexed)}
             others == {t \in ToSet(transformations) : t.to # Ent(c) /\ t.from \cap mine = {}}
  <2>1. EntityProvenance(c).transformations = Without(transformations, others)
    BY DEF EntityProvenance
  <2>2. \A t \in others : t.to # Ent(c)
    OBVIOUS
  <2> HIDE DEF others
  <2> QED BY <2>1, <2>2
<1>4. transformations[j] \notin others
  BY <1>1, <1>3 DEF Resolution
<1>5. PICK m \in DOMAIN Without(transformations, others) :
        Without(transformations, others)[m] = transformations[j]
  <2>1. j \in DOMAIN transformations /\ transformations[j] \notin others
    BY <1>1, <1>4
  <2>2. \A k \in DOMAIN transformations : transformations[k] \notin others =>
          \E m \in DOMAIN Without(transformations, others) :
            Without(transformations, others)[m] = transformations[k]
    <3>1. PICK ts : ts = transformations
      OBVIOUS
    <3>2. \A k \in DOMAIN ts : ts[k] \notin others =>
            \E m \in DOMAIN Without(ts, others) : Without(ts, others)[m] = ts[k]
      <4>1. ts \in Seq(T)
        BY <1>2, <3>1
      <4>2. /\ Without(ts, others) \in Seq(T \ others)
            /\ \A k \in DOMAIN ts : ts[k] \notin others =>
                 \E m \in DOMAIN Without(ts, others) : Without(ts, others)[m] = ts[k]
        BY ONLY <4>1, WithoutType
      <4> QED BY ONLY <4>2
    <3> QED BY ONLY <3>1, <3>2
  <2> QED BY <2>1, <2>2
<1>6. \E k \in DOMAIN EntityProvenance(c).transformations :
        Obs(o) \in EntityProvenance(c).transformations[k].from
  BY <1>1, <1>3, <1>5 DEF Resolution
<1> QED BY <1>1, <1>6 DEF Audited, Extraction, Resolution

(* However observations are grouped and resolved, and whichever calls raise: a *)
(* resolution that an entity shows has all its observations in the entity,     *)
(* each with its extraction and, later, the record that linked it, which       *)
(* get_entity_provenance finds; and an entity holds nothing else than what     *)
(* stored resolutions put there.                                               *)
THEOREM ResolutionsAreRecorded == ProvenanceSpec => []ResolutionsAreWhole
<1>1. ProvenanceInv => ResolutionsAreWhole
  BY LinkedIsAnswered DEF ResolutionsAreWhole, ProvenanceInv, ResolutionsLinked, ObservationsResolved
<1> QED BY <1>1, ProvenanceInvInit, ProvenanceInvStep, PTL DEF ProvenanceSpec

-----------------------------------------------------------------------------
(* Loading.                                                                    *)
LEMMA ListedIs ==
  ASSUME NEW S, IsFiniteSet(S)
  PROVE  Listed(S) \in Seq(S) /\ ToSet(Listed(S)) = S
<1> DEFINE V == Seq(S)
           h == [p \in S \X V |-> Append(p[2], p[1])]
           Body(g, s) == IF s = {} THEN << >>
                         ELSE LET x == CHOOSE x \in s : TRUE IN Append(g[s \ {x}], x)
           F == CHOOSE g : g = [s \in SUBSET S |-> Body(g, s)]
<1>1. Listed(S) = F[S]
  BY DEF Listed, FoldSet, MapThenFoldSet
<1>2. PICK g \in [SUBSET S -> V] : \A s \in SUBSET S : g[s] = FoldStep(h, << >>, g, s)
  <2>1. h \in [S \X V -> V] /\ << >> \in V
    OBVIOUS
  <2> HIDE DEF h, V
  <2>2. PICK g : IsFoldWithin(h, << >>, S, V, g)
    BY <2>1, FoldWithin
  <2> QED BY <2>2 DEF IsFoldWithin
<1>3. ASSUME NEW s \in SUBSET S PROVE g[s] = Body(g, s)
  <2>1. CASE s = {}
    BY <1>2, <2>1 DEF FoldStep
  <2>2. CASE s # {}
    <3> DEFINE x == CHOOSE x \in s : TRUE
    <3>1. x \in S /\ s \ {x} \in SUBSET S /\ g[s] = h[<<x, g[s \ {x}]>>]
      BY <1>2, <2>2 DEF FoldStep
    <3> HIDE DEF x, V
    <3>2. g[s] = Append(g[s \ {x}], x)
      BY <3>1
    <3> QED BY <2>2, <3>2 DEF x
  <2> QED BY <2>1, <2>2
<1>4. F = [s \in SUBSET S |-> Body(F, s)]
  <2> HIDE DEF Body, h, V
  <2>1. g = [s \in SUBSET S |-> g[s]]
    OBVIOUS
  <2>2. g = [s \in SUBSET S |-> Body(g, s)]
    BY <1>3, <2>1
  <2> QED BY <2>2
<1> HIDE DEF F
<1> DEFINE N == {s \in SUBSET S : F[s] \in Seq(S) /\ ToSet(F[s]) = s}
<1>5. {} \in N
  BY <1>4 DEF ToSet
<1>6. ASSUME NEW s \in SUBSET S, s # {}, s \ {CHOOSE x \in s : TRUE} \in N PROVE s \in N
  <2> DEFINE x == CHOOSE x \in s : TRUE
  <2>1. x \in s /\ F[s] = Append(F[s \ {x}], x) /\ F[s \ {x}] \in Seq(S) /\ ToSet(F[s \ {x}]) = s \ {x}
    BY <1>4, <1>6
  <2> HIDE DEF x
  <2>2. PICK q \in Seq(S) : F[s] = Append(q, x) /\ ToSet(q) = s \ {x}
    BY <2>1
  <2>3. /\ Append(q, x) \in Seq(S) /\ DOMAIN Append(q, x) = DOMAIN q \union {Len(q) + 1}
        /\ Append(q, x)[Len(q) + 1] = x /\ \A i \in DOMAIN q : Append(q, x)[i] = q[i]
    BY <2>1
  <2>4. ToSet(Append(q, x)) = ToSet(q) \union {x}
    BY <2>3 DEF ToSet
  <2>5. F[s] \in Seq(S)
    BY <2>2, <2>3
  <2>6. ToSet(F[s]) = s
    <3>1. ToSet(F[s]) = (s \ {x}) \union {x}
      BY <2>2, <2>4
    <3> QED BY <2>1, <3>1
  <2> QED BY <2>5, <2>6
<1> HIDE DEF N
<1>7. S \in N
  BY <1>5, <1>6, ChosenInduction
<1> QED BY <1>1, <1>7 DEF N

IsNode(n) == \E kind, value : n = [kind |-> kind, value |-> value, request |-> 0]
IsTriple(t) == t = <<t[1], t[2], t[3]>> /\ IsNode(t[1]) /\ IsNode(t[3])
State(id, i) == <<Uri(id), "toState", Uri(i)>>
Nested(d, e, k) == ConvertNested(Blank(<<d.transformation.id, e.id, k>>), Uri(e.id), k, e.nested[k])

(* The triples of the documents.                                               *)
OfDocument(d) == (UNION {ConvertEntity(d, e) : e \in d.entities}) \cup ConvertTransformation(d.transformation)
Converted == Metadata \cup UNION {OfDocument(d) : d \in documents}

LEMMA NodesAre == \A v : IsNode(Uri(v)) /\ IsNode(Literal(v)) /\ IsNode(Blank(v))
  BY DEF IsNode, Uri, Literal, Blank

(* No triple of an entity leads from one uri to another as toState does.       *)
LEMMA EntityTriples ==
  ASSUME NEW d, NEW e, NEW t \in ConvertEntity(d, e)
  PROVE  IsTriple(t) /\ (t[1].kind = "uri" /\ t[3].kind = "uri" => t[2] # "toState")
<1>1. ASSUME NEW a, NEW k, NEW b, IsNode(a), IsNode(b), t = <<a, k, b>>,
             k # "toState" \/ a.kind # "uri" \/ b.kind # "uri"
      PROVE  IsTriple(t) /\ (t[1].kind = "uri" /\ t[3].kind = "uri" => t[2] # "toState")
  BY <1>1 DEF IsTriple
<1>2. \A v : Blank(v).kind # "uri" /\ Literal(v).kind # "uri"
  BY DEF Blank, Literal
<1>3. \/ t = <<Uri(e.id), "type", Uri(e.type)>> \/ t = <<Uri(e.id), "label", Literal(e.name)>>
      \/ \E a \in e.alignsWith : t = <<Uri(e.id), "alignsWith", Literal(a)>>
      \/ t = <<Uri(e.id), "wasGeneratedBy", Uri("orn:regen.ontology:v1")>>
      \/ \E k \in DOMAIN e.nested : t \in Nested(d, e, k)
  BY DEF ConvertEntity, Nested
<1>4. ASSUME NEW k \in DOMAIN e.nested, t \in Nested(d, e, k)
      PROVE  \/ t = <<Uri(e.id), k, Blank(<<d.transformation.id, e.id, k>>)>>
             \/ \E i : t = <<Blank(<<d.transformation.id, e.id, k>>), i, Literal(i)>>
  BY <1>4 DEF Nested, ConvertNested
<1>5. CASE t = <<Uri(e.id), "type", Uri(e.type)>>
  BY <1>1, <1>5, NodesAre
<1>6. CASE t = <<Uri(e.id), "label", Literal(e.name)>>
  BY <1>1, <1>6, NodesAre
<1>7. CASE \E a \in e.alignsWith : t = <<Uri(e.id), "alignsWith", Literal(a)>>
  BY <1>1, <1>7, NodesAre
<1>8. CASE t = <<Uri(e.id), "wasGeneratedBy", Uri("orn:regen.ontology:v1")>>
  BY <1>1, <1>8, NodesAre
<1>9. CASE \E k \in DOMAIN e.nested : t \in Nested(d, e, k)
  <2>1. PICK k \in DOMAIN e.nested : t \in Nested(d, e, k)
    BY <1>9
  <2>2. CASE t = <<Uri(e.id), k, Blank(<<d.transformation.id, e.id, k>>)>>
    BY <1>1, <1>2, <2>2, NodesAre
  <2>3. CASE \E i : t = <<Blank(<<d.transformation.id, e.id, k>>), i, Literal(i)>>
    BY <1>1, <1>2, <2>3, NodesAre
  <2> QED BY <1>4, <2>1, <2>2, <2>3
<1> QED BY <1>3, <1>5, <1>6, <1>7, <1>8, <1>9

LEMMA TransformationTriples ==
  ASSUME NEW tr, NEW t \in ConvertTransformation(tr)
  PROVE  IsTriple(t) /\ (t[2] = "toState" => \E i \in tr.to : t = State(tr.id, i))
<1>1. \/ t = <<Uri(tr.id), "type", Uri("Transformation")>>
      \/ t = <<Uri(tr.id), "fromState", Literal(tr.from)>>
      \/ \E i \in tr.to : t = <<Uri(tr.id), "toState", Uri(i)>>
  BY DEF ConvertTransformation
<1> QED BY <1>1, NodesAre DEF IsTriple, State

LEMMA ConvertedTriples ==
  ASSUME NEW t \in Converted
  PROVE  /\ IsTriple(t)
         /\ t[1].kind = "uri" /\ t[3].kind = "uri" /\ t[2] = "toState" =>
              \E d \in documents : \E i \in d.transformation.to : t = State(d.transformation.id, i)
<1>1. CASE t \in Metadata
  <2>1. t = <<Uri("orn:regen.dataset"), "type", Uri("Dataset")>>
    BY <1>1 DEF Metadata
  <2> QED BY <2>1, NodesAre DEF IsTriple
<1>2. ASSUME NEW d \in documents, NEW e \in d.entities, t \in ConvertEntity(d, e)
      PROVE  IsTriple(t) /\ (t[1].kind = "uri" /\ t[3].kind = "uri" => t[2] # "toState")
  BY <1>2, EntityTriples
<1>3. ASSUME NEW d \in documents, t \in ConvertTransformation(d.transformation)
      PROVE  IsTriple(t) /\ (t[2] = "toState" => \E i \in d.transformation.to : t = State(d.transformation.id, i))
  BY <1>3, TransformationTriples
<1>4. \/ t \in Metadata
      \/ \E d \in documents : \/ \E e \in d.entities : t \in ConvertEntity(d, e)
                            \/ t \in ConvertTransformation(d.transformation)
  <2>1. t \in Metadata \/ \E d \in documents : t \in OfDocument(d)
    BY DEF Converted
  <2>2. \A d \in documents : t \in OfDocument(d) =>
          (\E e \in d.entities : t \in ConvertEntity(d, e)) \/ t \in ConvertTransformation(d.transformation)
    BY DEF OfDocument
  <2> QED BY <2>1, <2>2
<1>5. CASE \E d \in documents : \E e \in d.entities : t \in ConvertEntity(d, e)
  BY <1>2, <1>5
<1>6. CASE \E d \in documents : t \in ConvertTransformation(d.transformation)
  BY <1>3, <1>6
<1> QED BY <1>1, <1>4, <1>5, <1>6

LEMMA ConvertedIsFinite == documents \in Corpora => IsFiniteSet(Converted)
<1> SUFFICES ASSUME documents \in Corpora PROVE IsFiniteSet(Converted)
  OBVIOUS
<1>1. ASSUME NEW S, IsFiniteSet(S), NEW id PROVE IsFiniteSet({<<Uri(id), "toState", Uri(s)>> : s \in S})
  <2> DEFINE f == [s \in S |-> <<Uri(id), "toState", Uri(s)>>]
  <2>1. {<<Uri(id), "toState", Uri(s)>> : s \in S} = {f[s] : s \in S}
    OBVIOUS
  <2> HIDE DEF f
  <2> QED BY <1>1, <2>1, FiniteImage
<1>2. ASSUME NEW S, IsFiniteSet(S), NEW id PROVE IsFiniteSet({<<Uri(id), "alignsWith", Literal(a)>> : a \in S})
  <2> DEFINE f == [a \in S |-> <<Uri(id), "alignsWith", Literal(a)>>]
  <2>1. {<<Uri(id), "alignsWith", Literal(a)>> : a \in S} = {f[a] : a \in S}
    OBVIOUS
  <2> HIDE DEF f
  <2> QED BY <1>2, <2>1, FiniteImage
<1>3. \A x, y : IsFiniteSet({x}) /\ IsFiniteSet({x, y})
  <2> TAKE x, y
  <2>1. IsFiniteSet({x}) /\ IsFiniteSet({y})
    BY FS_Singleton
  <2>2. {x, y} = {x} \union {y}
    OBVIOUS
  <2> QED BY <2>1, <2>2, FiniteUnion
<1>4. ASSUME NEW d, NEW e, NEW k, IsFiniteSet(e.nested[k]) PROVE IsFiniteSet(Nested(d, e, k))
  <2> DEFINE node == Blank(<<d.transformation.id, e.id, k>>)
             f == [i \in e.nested[k] |-> <<node, i, Literal(i)>>]
             A == {<<Uri(e.id), k, node>>}
             B == {<<node, i, Literal(i)>> : i \in e.nested[k]}
  <2>1. Nested(d, e, k) = A \union B
    BY DEF Nested, ConvertNested
  <2>2. IsFiniteSet(A)
    BY <1>3
  <2>3. B = {f[i] : i \in e.nested[k]}
    OBVIOUS
  <2> HIDE DEF f, A, B
  <2>4. IsFiniteSet(B)
    BY <1>4, <2>3, FiniteImage
  <2> QED BY <2>1, <2>2, <2>4, FiniteUnion
<1>5. ASSUME NEW d, NEW e, IsFiniteSet(e.alignsWith), IsFiniteSet(DOMAIN e.nested),
             \A k \in DOMAIN e.nested : IsFiniteSet(e.nested[k])
      PROVE  IsFiniteSet(ConvertEntity(d, e))
  <2> DEFINE A == {<<Uri(e.id), "type", Uri(e.type)>>, <<Uri(e.id), "label", Literal(e.name)>>}
             B == {<<Uri(e.id), "alignsWith", Literal(a)>> : a \in e.alignsWith}
             C == {<<Uri(e.id), "wasGeneratedBy", Uri("orn:regen.ontology:v1")>>}
             D == UNION {Nested(d, e, k) : k \in DOMAIN e.nested}
  <2>1. ConvertEntity(d, e) = ((A \union B) \union C) \union D
    BY DEF ConvertEntity, Nested
  <2>2. IsFiniteSet(A) /\ IsFiniteSet(C)
    BY <1>3
  <2>3. IsFiniteSet(B)
    BY <1>2, <1>5
  <2>4. IsFiniteSet(D)
    <3> DEFINE f == [k \in DOMAIN e.nested |-> Nested(d, e, k)]
    <3>1. \A k \in DOMAIN e.nested : f[k] = Nested(d, e, k)
      OBVIOUS
    <3> HIDE DEF f
    <3>2. \A k \in DOMAIN e.nested : IsFiniteSet(f[k])
      BY <1>4, <1>5, <3>1
    <3>3. {Nested(d, e, k) : k \in DOMAIN e.nested} = {f[k] : k \in DOMAIN e.nested}
      BY <3>1
    <3>4. IsFiniteSet(UNION {f[k] : k \in DOMAIN e.nested})
      BY <1>5, <3>2, FiniteUnions
    <3> QED BY <3>3, <3>4
  <2> HIDE DEF A, B, C, D
  <2>5. IsFiniteSet(A \union B)
    BY <2>2, <2>3, FiniteUnion
  <2>6. IsFiniteSet((A \union B) \union C)
    BY <2>2, <2>5, FiniteUnion
  <2>7. IsFiniteSet(((A \union B) \union C) \union D)
    BY <2>4, <2>6, FiniteUnion
  <2> QED BY <2>1, <2>7
<1>6. ASSUME NEW tr, IsFiniteSet(tr.to) PROVE IsFiniteSet(ConvertTransformation(tr))
  <2> DEFINE A == {<<Uri(tr.id), "type", Uri("Transformation")>>, <<Uri(tr.id), "fromState", Literal(tr.from)>>}
             B == {<<Uri(tr.id), "toState", Uri(s)>> : s \in tr.to}
  <2>1. ConvertTransformation(tr) = A \union B
    BY DEF ConvertTransformation
  <2>2. IsFiniteSet(A) /\ IsFiniteSet(B)
    BY <1>1, <1>3, <1>6
  <2> HIDE DEF A, B
  <2> QED BY <2>1, <2>2, FiniteUnion
<1>7. /\ IsFiniteSet(documents)
      /\ \A d \in documents :
           /\ IsFiniteSet(d.entities) /\ IsFiniteSet(d.transformation.to)
           /\ \A e \in d.entities : /\ IsFiniteSet(e.alignsWith) /\ IsFiniteSet(DOMAIN e.nested)
                                  /\ \A k \in DOMAIN e.nested : IsFiniteSet(e.nested[k])
  BY CorporaAssumption
<1>8. ASSUME NEW d \in documents PROVE IsFiniteSet(OfDocument(d))
  <2> DEFINE f == [e \in d.entities |-> ConvertEntity(d, e)]
  <2>1. \A e \in d.entities : f[e] = ConvertEntity(d, e)
    OBVIOUS
  <2> HIDE DEF f
  <2>2. \A e \in d.entities : IsFiniteSet(f[e])
    BY <1>5, <1>7, <2>1
  <2>3. {ConvertEntity(d, e) : e \in d.entities} = {f[e] : e \in d.entities}
    BY <2>1
  <2>4. IsFiniteSet(UNION {f[e] : e \in d.entities})
    <3>1. IsFiniteSet(d.entities)
      BY <1>7
    <3> QED BY <2>2, <3>1, FiniteUnions
  <2>5. IsFiniteSet(UNION {ConvertEntity(d, e) : e \in d.entities})
    BY <2>3, <2>4
  <2>6. IsFiniteSet(ConvertTransformation(d.transformation))
    BY <1>6, <1>7
  <2> DEFINE A == UNION {ConvertEntity(d, e) : e \in d.entities}
             B == ConvertTransformation(d.transformation)
  <2>7. OfDocument(d) = A \union B
    BY DEF OfDocument
  <2>8. IsFiniteSet(A) /\ IsFiniteSet(B)
    BY <2>5, <2>6
  <2> HIDE DEF A, B
  <2> QED BY <2>7, <2>8, FiniteUnion
<1>9. IsFiniteSet(UNION {OfDocument(d) : d \in documents})
  <2> DEFINE f == [d \in documents |-> OfDocument(d)]
  <2>1. \A d \in documents : f[d] = OfDocument(d)
    OBVIOUS
  <2> HIDE DEF f
  <2>2. \A d \in documents : IsFiniteSet(f[d])
    BY <1>8, <2>1
  <2>3. {OfDocument(d) : d \in documents} = {f[d] : d \in documents}
    BY <2>1
  <2>4. IsFiniteSet(UNION {f[d] : d \in documents})
    BY <1>7, <2>2, FiniteUnions
  <2> QED BY <2>3, <2>4
<1>10. IsFiniteSet(Metadata)
  BY <1>3 DEF Metadata
<1> QED BY <1>9, <1>10, FiniteUnion DEF Converted

(* Whatever order the parsed graph has, it lists the triples of the file.      *)
LEMMA OrdersListAll ==
  ASSUME IsFiniteSet(triples), NEW o \in Orders
  PROVE  o \in Seq(triples) /\ ToSet(o) = triples
<1> DEFINE blank(t) == "blank" \in {t[1].kind, t[3].kind}
           B == {t \in triples : blank(t)}
           R == {t \in triples : ~blank(t)}
<1>1. PICK hanging, rest : hanging = Listed(B) /\ rest = Listed(R)
  OBVIOUS
<1>2. PICK k \in 0..Len(hanging) : o = SubSeq(hanging, 1, k) \o rest \o SubSeq(hanging, k + 1, Len(hanging))
  BY <1>1 DEF Orders
<1>3. B \union R = triples /\ IsFiniteSet(B) /\ IsFiniteSet(R)
  <2>1. B \subseteq triples /\ R \subseteq triples /\ B \union R = triples
    OBVIOUS
  <2> HIDE DEF B, R
  <2> QED BY <2>1, FS_Subset
<1> HIDE DEF B, R
<1>4. hanging \in Seq(B) /\ ToSet(hanging) = B /\ rest \in Seq(R) /\ ToSet(rest) = R
  BY <1>1, <1>3, ListedIs
<1>5. PICK first, second : first = SubSeq(hanging, 1, k) /\ second = SubSeq(hanging, k + 1, Len(hanging))
  OBVIOUS
<1>6. /\ first \in Seq(B) /\ Len(first) = k /\ \A i \in 1..k : first[i] = hanging[i]
      /\ second \in Seq(B) /\ Len(second) = Len(hanging) - k
      /\ \A i \in 1..(Len(hanging) - k) : second[i] = hanging[k + i]
  BY <1>4, <1>5
<1>7. ToSet(first) \union ToSet(second) = B
  <2>1. ASSUME NEW t \in B PROVE t \in ToSet(first) \union ToSet(second)
    <3>1. PICK i \in 1..Len(hanging) : t = hanging[i]
      BY <1>4 DEF ToSet
    <3>2. CASE i <= k
      <4>1. i \in DOMAIN first /\ first[i] = t
        BY <1>6, <3>1, <3>2
      <4> QED BY <4>1 DEF ToSet
    <3>3. CASE ~(i <= k)
      <4>1. i - k \in 1..(Len(hanging) - k) /\ k + (i - k) = i
        BY <1>4, <3>1, <3>3
      <4>2. i - k \in DOMAIN second /\ second[i - k] = t
        BY <1>6, <3>1, <4>1
      <4> QED BY <4>2 DEF ToSet
    <3> QED BY <3>2, <3>3
  <2>2. ToSet(first) \subseteq B /\ ToSet(second) \subseteq B
    BY <1>6 DEF ToSet
  <2> QED BY <2>1, <2>2
<1>8. first \in Seq(triples) /\ rest \in Seq(triples) /\ second \in Seq(triples)
  BY <1>3, <1>4, <1>6
<1>9. PICK front : front = first \o rest
  OBVIOUS
<1>10. front \in Seq(triples) /\ ToSet(front) = ToSet(first) \union ToSet(rest)
  BY <1>8, <1>9, SetOfBoth
<1>11. o = front \o second
  BY <1>2, <1>5, <1>9
<1>12. o \in Seq(triples) /\ ToSet(o) = ToSet(front) \union ToSet(second)
  BY <1>8, <1>10, <1>11, SetOfBoth
<1> QED BY <1>3, <1>4, <1>7, <1>10, <1>12

(* Once the loader runs the file is written; while it inserts, what it has     *)
(* sent is in the store, and after its clear succeeded nothing else.           *)
LoadTypes ==
  /\ documents \in Corpora
  /\ triples # Converted => triples = {} /\ loader = "idle"
  /\ sent \in Nat
Holds(ts, t) == \E u \in ts : Plain(u) = t
Inserting ==
  loader \in {"insert", "loaded"} =>
    /\ order \in Seq(triples) /\ ToSet(order) = triples
    /\ \A i \in DOMAIN order : i <= sent => Holds(store, order[i])
OfTheFile == cleared => \A u \in store : Plain(u) \in Converted
AllSent == loader = "loaded" => sent >= Len(order)
LoadInv == LoadTypes /\ Inserting /\ OfTheFile /\ AllSent

LEMMA LoadInvInit == LoadInit => LoadInv
  BY DEF LoadInit, LoadInv, LoadTypes, Inserting, OfTheFile, AllSent

(* A triple is stored as it is sent but for the nodes its labels stand for.    *)
LEMMA ReceivedIs ==
  ASSUME NEW t, IsTriple(t), NEW request
  PROVE  Plain(Received(t, request)) = t
<1> DEFINE node(n) == IF n.kind = "blank" THEN [n EXCEPT !.request = request] ELSE n
<1>1. Received(t, request) = <<node(t[1]), t[2], node(t[3])>>
  BY DEF Received
<1>2. ASSUME NEW n, IsNode(n) PROVE [node(n) EXCEPT !.request = 0] = n
  <2>1. PICK kind, value : n = [kind |-> kind, value |-> value, request |-> 0]
    BY <1>2 DEF IsNode
  <2> QED BY <2>1
<1> HIDE DEF node
<1>3. Plain(Received(t, request)) = <<[node(t[1]) EXCEPT !.request = 0], t[2], [node(t[3]) EXCEPT !.request = 0]>>
  BY <1>1 DEF Plain
<1>4. IsNode(t[1]) /\ IsNode(t[3]) /\ t = <<t[1], t[2], t[3]>>
  BY DEF IsTriple
<1> QED BY <1>2, <1>3, <1>4

LEMMA ClearStep == ASSUME LoadInv, Clear PROVE LoadInv'
<1>1. triples = Converted /\ IsFiniteSet(triples)
  BY ConvertedIsFinite DEF LoadInv, LoadTypes, Clear
<1>2. order' \in Seq(triples) /\ ToSet(order') = triples
  BY <1>1, OrdersListAll DEF Clear
<1>3. sent' = 0 /\ triples' = triples /\ documents' = documents /\ loader' \in {"insert", "failed"}
      /\ ((store' = {} /\ cleared' = TRUE) \/ (store' = store /\ cleared' = FALSE))
  <2>1. \/ store' = {} /\ cleared' = TRUE /\ loader' \in {"insert", "failed"}
        \/ store' = store /\ cleared' = FALSE /\ loader' \in {"insert", "failed"}
    BY DEF Clear
  <2>2. sent' = 0 /\ triples' = triples /\ documents' = documents
    BY DEF Clear
  <2> QED BY <2>1, <2>2
<1>4. Converted' = Converted
  BY <1>3 DEF Converted, OfDocument
<1>5. LoadTypes'
  BY <1>1, <1>3, <1>4 DEF LoadInv, LoadTypes
<1>6. Inserting'
  <2>1. \A i \in DOMAIN order' : ~(i <= sent')
    <3>1. \A i \in DOMAIN order' : i \in Nat /\ i > 0
      BY <1>2
    <3> QED BY <1>3, <3>1
  <2> QED BY <1>2, <1>3, <2>1 DEF Inserting
<1>7. OfTheFile' /\ AllSent'
  BY <1>3 DEF OfTheFile, AllSent
<1> QED BY <1>5, <1>6, <1>7 DEF LoadInv

LEMMA InsertStep == ASSUME LoadInv, Insert PROVE LoadInv'
<1>1. triples = Converted /\ loader = "insert"
  BY DEF LoadInv, LoadTypes, Insert
<1>2. /\ order \in Seq(triples) /\ ToSet(order) = triples
      /\ \A i \in DOMAIN order : i <= sent => Holds(store, order[i])
  BY <1>1 DEF LoadInv, Inserting
<1>3. PICK new : new = {Received(t, Request) : t \in InRequest}
  OBVIOUS
<1>4. /\ order' = order /\ triples' = triples /\ documents' = documents /\ cleared' = cleared
      /\ \/ store' = store \union new /\ sent' = sent + ChunkSize /\ loader' = loader
         \/ store' \in {store, store \union new} /\ sent' = sent /\ loader' = "failed"
  <2>1. \/ store' = store \union new /\ sent' = sent + ChunkSize /\ loader' = loader
        \/ store' \in {store, store \union new} /\ sent' = sent /\ loader' = "failed"
    BY <1>3 DEF Insert
  <2>2. order' = order /\ triples' = triples /\ documents' = documents /\ cleared' = cleared
    BY DEF Insert
  <2> QED BY <2>1, <2>2
<1>5. InRequest \subseteq triples
  BY <1>2 DEF InRequest
<1>6. ASSUME NEW t \in InRequest PROVE Plain(Received(t, Request)) = t /\ Received(t, Request) \in new
  <2>1. IsTriple(t)
    BY <1>1, <1>5, ConvertedTriples
  <2> QED BY <1>3, <2>1, ReceivedIs
<1>7. \A u \in new : Plain(u) \in InRequest
  BY <1>3, <1>6
<1>8. Converted' = Converted
  BY <1>4 DEF Converted, OfDocument
<1>9. LoadTypes'
  BY <1>1, <1>4, <1>8, ChunkAssumption DEF LoadInv, LoadTypes
<1>10. OfTheFile'
  <2>1. cleared => \A u \in store \union new : Plain(u) \in Converted
    BY <1>1, <1>5, <1>7 DEF LoadInv, OfTheFile
  <2> QED BY <1>4, <1>8, <2>1 DEF OfTheFile
<1>11. CASE loader' = "failed"
  BY <1>9, <1>10, <1>11 DEF LoadInv, Inserting, AllSent
<1>12. CASE store' = store \union new /\ sent' = sent + ChunkSize /\ loader' = loader
  <2>1. ASSUME NEW i \in DOMAIN order, i <= sent + ChunkSize PROVE Holds(store \union new, order[i])
    <3>1. CASE i <= sent
      BY <1>2, <2>1, <3>1 DEF Holds
    <3>2. CASE ~(i <= sent)
      <4>1. sent \in Nat /\ i \in Nat
        BY <1>2 DEF LoadInv, LoadTypes
      <4>2. order[i] \in InRequest
        BY <2>1, <3>2, <4>1 DEF InRequest
      <4> QED BY <1>6, <4>2 DEF Holds
    <3> QED BY <3>1, <3>2
  <2>2. Inserting'
    BY <1>2, <1>4, <1>12, <2>1 DEF Inserting
  <2>3. AllSent'
    BY <1>1, <1>12 DEF AllSent
  <2> QED BY <1>9, <1>10, <2>2, <2>3 DEF LoadInv
<1> QED BY <1>4, <1>11, <1>12

OnlyAnswers == \E a : answer' = a /\ UNCHANGED <<documents, triples, order, sent, loader, cleared, loads, store>>
LEMMA AnswersOnly == Health \/ GraphData \/ SparqlQuery \/ EssenceData => OnlyAnswers
<1>1. \A a : Answer(a) => OnlyAnswers
  BY DEF Answer, OnlyAnswers
<1> QED BY <1>1 DEF Health, GraphData, SparqlQuery, EssenceData

LEMMA LoadInvStep == LoadInv /\ [LoadNext]_loadVars => LoadInv'
<1> SUFFICES ASSUME LoadInv, [LoadNext]_loadVars PROVE LoadInv'
  OBVIOUS
<1> USE DEF LoadInv, LoadTypes, Inserting, OfTheFile, AllSent
<1>1. ASSUME UNCHANGED <<documents, triples, order, sent, loader, cleared, store>> PROVE LoadInv'
  <2>1. Converted' = Converted
    BY <1>1 DEF Converted, OfDocument
  <2> QED BY <1>1, <2>1 DEF Holds, Plain
<1>2. CASE UNCHANGED loadVars
  BY <1>1, <1>2 DEF loadVars
<1>3. CASE Health \/ GraphData \/ SparqlQuery \/ EssenceData
  BY <1>1, <1>3, AnswersOnly DEF OnlyAnswers
<1>4. CASE Convert
  <2>1. /\ triples' = Converted /\ documents' = documents /\ loader' = "idle" /\ sent' = sent
        /\ store' = store /\ cleared' = cleared
    BY <1>4 DEF Convert, Converted, OfDocument
  <2>2. Converted' = Converted
    BY <2>1 DEF Converted, OfDocument
  <2> QED BY <2>1, <2>2 DEF Plain
<1>5. CASE StartLoad
  <2>1. /\ triples' = triples /\ documents' = documents /\ loader' = "clear" /\ sent' = sent
        /\ store' = store /\ cleared' = cleared /\ triples # {}
    BY <1>5 DEF StartLoad
  <2>2. Converted' = Converted
    BY <2>1 DEF Converted, OfDocument
  <2> QED BY <2>1, <2>2 DEF Plain
<1>6. CASE Clear
  BY <1>6, ClearStep
<1>7. CASE Insert
  BY <1>7, InsertStep
<1>8. CASE EndLoad
  <2>1. /\ triples' = triples /\ documents' = documents /\ loader = "insert" /\ loader' = "loaded"
        /\ sent' = sent /\ store' = store /\ order' = order /\ cleared' = cleared /\ sent >= Len(order)
    BY <1>8 DEF EndLoad
  <2>2. Converted' = Converted
    BY <2>1 DEF Converted, OfDocument
  <2> QED BY <2>1, <2>2 DEF Holds, Plain
<1> QED BY <1>2, <1>3, <1>4, <1>5, <1>6, <1>7, <1>8 DEF LoadNext

LEMMA LoadedIs ==
  ASSUME LoadInv, loader = "loaded"
  PROVE  triples = Converted /\ \A t \in triples : Holds(store, t)
<1>1. triples = Converted
  BY DEF LoadInv, LoadTypes
<1>2. /\ order \in Seq(triples) /\ ToSet(order) = triples
      /\ \A i \in DOMAIN order : i <= sent => Holds(store, order[i])
      /\ sent >= Len(order) /\ sent \in Nat
  BY DEF LoadInv, LoadTypes, Inserting, AllSent
<1>3. ASSUME NEW t \in triples PROVE Holds(store, t)
  <2>1. PICK i \in DOMAIN order : t = order[i]
    BY <1>2 DEF ToSet
  <2>2. i <= sent
    BY <1>2, <2>1
  <2> QED BY <1>2, <2>1, <2>2
<1> QED BY <1>1, <1>3

(* A load that reports success left every triple of the file in the store, in  *)
(* whatever order and chunks it was sent, and nothing of an earlier load when  *)
(* its clear succeeded: by the labels of the blank nodes, which is not enough  *)
(* for their nodes to be whole.                                                *)
THEOREM LoadIsComplete == LoadSpec => []LoadedIsComplete
<1>1. LoadInv => LoadedIsComplete
  <2> SUFFICES ASSUME LoadInv, loader = "loaded"
               PROVE  /\ triples \subseteq {Plain(t) : t \in store}
                      /\ cleared => {Plain(t) : t \in store} \subseteq triples
    BY DEF LoadedIsComplete
  <2>1. triples = Converted /\ \A t \in triples : Holds(store, t)
    BY LoadedIs
  <2>2. cleared => \A u \in store : Plain(u) \in triples
    BY <2>1 DEF LoadInv, OfTheFile
  <2> QED BY <2>1, <2>2 DEF Holds
<1> QED BY <1>1, LoadInvInit, LoadInvStep, PTL DEF LoadSpec

(* What a graph query answers: some joined rows, all of them within the limit. *)
LEMMA AnswersAre ==
  ASSUME LoadNext, answers' # answers, NEW metadata \in answer'.asked
  PROVE  \E rows \in SUBSET Rows(metadata) :
           /\ answer' = GraphOf(rows, metadata)
           /\ Cardinality(Joined(metadata)) <= MaxNodes => rows = Rows(metadata)
<1>1. ~Convert /\ ~StartLoad /\ ~Clear /\ ~Insert /\ ~EndLoad
  BY DEF Convert, StartLoad, Clear, Insert, EndLoad
<1>2. ASSUME NEW a, Answer(a), a.asked = {} PROVE FALSE
  BY <1>2 DEF Answer
<1>3. ~Health /\ ~SparqlQuery /\ ~EssenceData /\ ~Answer([NoAnswer EXCEPT !.status = 500])
  BY <1>2 DEF Health, SparqlQuery, EssenceData, NoAnswer
<1>4. GraphData
  BY <1>1, <1>3 DEF LoadNext
<1>5. PICK asked \in BOOLEAN :
        \E joined \in IF Cardinality(Joined(asked)) <= MaxNodes THEN {Joined(asked)}
                      ELSE kSubset(MaxNodes, Joined(asked)) : Answer(GraphOf({j[1] : j \in joined}, asked))
  BY <1>3, <1>4 DEF GraphData
<1>6. PICK joined : /\ joined \subseteq Joined(asked)
                    /\ Cardinality(Joined(asked)) <= MaxNodes => joined = Joined(asked)
                    /\ Answer(GraphOf({j[1] : j \in joined}, asked))
  <2>1. CASE Cardinality(Joined(asked)) <= MaxNodes
    BY <1>5, <2>1
  <2>2. CASE ~(Cardinality(Joined(asked)) <= MaxNodes)
    <3>1. \A j \in kSubset(MaxNodes, Joined(asked)) : j \subseteq Joined(asked)
      BY DEF kSubset
    <3> QED BY <1>5, <2>2, <3>1
  <2> QED BY <2>1, <2>2
<1>7. PICK rows : rows = {j[1] : j \in joined}
  OBVIOUS
<1>8. answer' = GraphOf(rows, asked) /\ metadata = asked
  <2>1. answer' = GraphOf(rows, asked)
    BY <1>6, <1>7 DEF Answer
  <2> QED BY <2>1 DEF GraphOf
<1>9. {j[1] : j \in Joined(asked)} = Rows(asked)
  <2> DEFINE values(n, k) == {t[3].value : t \in {u \in store : u[1] = n /\ u[2] = k}}
             optional(n, k) == IF values(n, k) = {} THEN {"unbound"} ELSE values(n, k)
             of(t) == {t} \X optional(t[1], "type") \X optional(t[3], "type")
                          \X optional(t[1], "label") \X optional(t[3], "label")
  <2>1. Joined(asked) = UNION {of(t) : t \in Rows(asked)}
    BY DEF Joined
  <2>2. \A n, k : \E v : v \in optional(n, k)
    OBVIOUS
  <2> HIDE DEF optional
  <2>3. ASSUME NEW t PROVE (\A j \in of(t) : j[1] = t) /\ \E j : j \in of(t)
    <3>1. PICK a, b, c, d : /\ a \in optional(t[1], "type") /\ b \in optional(t[3], "type")
                            /\ c \in optional(t[1], "label") /\ d \in optional(t[3], "label")
      BY <2>2
    <3>2. <<t, a, b, c, d>> \in of(t)
      BY <3>1
    <3> QED BY <3>2
  <2> HIDE DEF of
  <2> QED BY <2>1, <2>3
<1>10. rows \subseteq Rows(asked) /\ (joined = Joined(asked) => rows = Rows(asked))
  BY <1>6, <1>7, <1>9
<1> QED BY <1>6, <1>8, <1>10

LEMMA DrawnIsRecorded ==
  ASSUME LoadInv, LoadNext, answers' # answers, cleared, NEW metadata \in answer'.asked
  PROVE  LET drawn == {e \in answer'.edges : e[2] = "toState"}
         IN  /\ drawn \subseteq RecordedEdges
             /\ loader = "loaded" /\ Cardinality(Joined(metadata)) <= MaxNodes => ListedEdges \subseteq drawn
<1>1. PICK rows \in SUBSET Rows(metadata) :
           /\ answer' = GraphOf(rows, metadata)
           /\ Cardinality(Joined(metadata)) <= MaxNodes => rows = Rows(metadata)
  BY AnswersAre
<1>2. answer'.edges = {<<Id(t[1].value), t[2], Id(t[3].value)>> : t \in {u \in rows : u[3].kind = "uri"}}
  BY <1>1 DEF GraphOf
<1>3. ASSUME NEW e \in answer'.edges, e[2] = "toState" PROVE e \in RecordedEdges
  <2>1. PICK t \in rows : t[3].kind = "uri" /\ e = <<Id(t[1].value), t[2], Id(t[3].value)>>
    BY <1>2
  <2>2. t \in store /\ t[1].kind = "uri" /\ t[2] = "toState"
    BY <1>3, <2>1 DEF Rows
  <2>3. PICK u : u = Plain(t)
    OBVIOUS
  <2>4. u \in Converted
    BY <2>2, <2>3 DEF LoadInv, OfTheFile
  <2>5. IsTriple(u) /\ u = <<[t[1] EXCEPT !.request = 0], t[2], [t[3] EXCEPT !.request = 0]>>
    BY <2>3, <2>4, ConvertedTriples DEF Plain
  <2>6. /\ u[1].kind = t[1].kind /\ u[1].value = t[1].value /\ u[2] = t[2]
        /\ u[3].kind = t[3].kind /\ u[3].value = t[3].value
    <3>1. \A n : IsNode([n EXCEPT !.request = 0]) =>
            [n EXCEPT !.request = 0].kind = n.kind /\ [n EXCEPT !.request = 0].value = n.value
      <4> SUFFICES ASSUME NEW n, IsNode([n EXCEPT !.request = 0])
                   PROVE  [n EXCEPT !.request = 0].kind = n.kind /\ [n EXCEPT !.request = 0].value = n.value
        OBVIOUS
      <4>1. DOMAIN [n EXCEPT !.request = 0] = {"kind", "value", "request"}
        BY DEF IsNode
      <4>2. DOMAIN n = {"kind", "value", "request"}
        BY <4>1
      <4> QED BY <4>2
    <3> QED BY <2>5, <3>1 DEF IsTriple
  <2>7. PICK d \in documents : \E i \in d.transformation.to : u = State(d.transformation.id, i)
    BY <2>1, <2>2, <2>4, <2>6, ConvertedTriples
  <2>8. PICK i \in d.transformation.to : u = State(d.transformation.id, i)
    BY <2>7
  <2>9. u[1].value = d.transformation.id /\ u[3].value = i
    BY <2>8 DEF State, Uri
  <2>10. e = Drawn(d.transformation, i)
    BY <2>1, <2>2, <2>6, <2>9 DEF Drawn
  <2> QED BY <2>10 DEF RecordedEdges
<1>4. ASSUME loader = "loaded", Cardinality(Joined(metadata)) <= MaxNodes, NEW e \in ListedEdges
      PROVE  e \in answer'.edges /\ e[2] = "toState"
  <2>1. PICK d \in documents :
          /\ d.transformation.id \in Listable \ Hidden
          /\ \E i \in d.transformation.to \ Hidden : e = Drawn(d.transformation, i)
    BY DEF ListedEdges
  <2>2. PICK i \in d.transformation.to \ Hidden : e = Drawn(d.transformation, i)
    BY <2>1
  <2>3. PICK t : t = State(d.transformation.id, i)
    OBVIOUS
  <2>4. t \in Converted
    BY <2>3 DEF Converted, OfDocument, ConvertTransformation, State
  <2>5. PICK u \in store : Plain(u) = t
    BY <1>4, <2>4, LoadedIs DEF Holds
  <2>6. /\ t[1] = [u[1] EXCEPT !.request = 0] /\ t[2] = u[2] /\ t[3] = [u[3] EXCEPT !.request = 0]
    BY <2>5 DEF Plain
  <2>7. /\ u[1].kind = "uri" /\ u[3].kind = "uri" /\ u[2] = "toState"
        /\ u[1].value = d.transformation.id /\ u[3].value = i
    <3>1. \A n, v : [n EXCEPT !.request = 0] = Uri(v) => n.kind = "uri" /\ n.value = v
      <4> SUFFICES ASSUME NEW n, NEW v, [n EXCEPT !.request = 0] = Uri(v)
                   PROVE  n.kind = "uri" /\ n.value = v
        OBVIOUS
      <4>1. DOMAIN [n EXCEPT !.request = 0] = {"kind", "value", "request"}
        BY DEF Uri
      <4>2. DOMAIN n = {"kind", "value", "request"}
        BY <4>1
      <4> QED BY <4>2 DEF Uri
    <3>2. t[1] = Uri(d.transformation.id) /\ t[2] = "toState" /\ t[3] = Uri(i)
      BY <2>3 DEF State
    <3> QED BY <2>6, <3>1, <3>2
  <2>8. u \in Rows(metadata)
    BY <2>1, <2>2, <2>7 DEF Rows
  <2>9. <<Id(u[1].value), u[2], Id(u[3].value)>> \in answer'.edges
    BY <1>1, <1>2, <1>4, <2>7, <2>8
  <2> QED BY <2>2, <2>7, <2>9 DEF Drawn
<1> QED BY <1>3, <1>4

(* Whatever the server draws of the transformations while the file is loaded   *)
(* into a store that was cleared is recorded in the documents, and once the    *)
(* load has ended the answer misses nothing it may list.                       *)
THEOREM GraphShowsThem == LoadSpec => GraphShowsTransformations
<1>1. LoadInv /\ [LoadNext]_loadVars => ShowsTransformations
  <2> SUFFICES ASSUME LoadInv, [LoadNext]_loadVars, answers' # answers, cleared, NEW metadata \in answer'.asked
               PROVE  LET drawn == {e \in answer'.edges : e[2] = "toState"}
                      IN  /\ drawn \subseteq RecordedEdges
                          /\ loader = "loaded" /\ Cardinality(Joined(metadata)) <= MaxNodes => ListedEdges \subseteq drawn
    BY DEF ShowsTransformations
  <2>1. LoadNext
    BY DEF loadVars
  <2> QED BY <2>1, DrawnIsRecorded
<1> QED BY <1>1, LoadInvInit, LoadInvStep, PTL DEF LoadSpec, GraphShowsTransformations
=============================================================================
