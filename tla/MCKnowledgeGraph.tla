-------------------------- MODULE MCKnowledgeGraph --------------------------
(* The batch programs of the knowledge graph for TLC.  They share no process: *)
(* each behaviour is one of a single program, and part says of which.         *)
EXTENDS DocumentExtraction, EntityResolution, Provenance, Chunker, GraphLoad

CONSTANT Parts

VARIABLE part

-----------------------------------------------------------------------------
(* Documents: one that asks and claims, one with carbon credits, one too      *)
(* short, one that cannot be read, and one in each place that is left out.    *)
Document(ext, place, content, words) == [ext |-> ext, place |-> place, text |-> content, words |-> words]
Asking     == Document("md", "notion", "long", {"?", "Claim", "proposal"})
Carbon     == Document("json", "github", "long", {"Evidence", "carbon", "regen network"})
Short      == Document("txt", "medium", "short", {})
Broken     == Document("md", "discourse", "unreadable", {})
Tweet      == Document("md", "twitter", "long", {"carbon", "proposal"})
TestFile   == Document("txt", "test-documents", "long", {"Claim"})
BrokenTweet == Document("md", "twitter", "unreadable", {})
MCDirectories ==
  {<< Carbon, Asking, Short >>, << Short, Broken, Carbon >>, << Tweet, TestFile, Asking >>,
   << Tweet, BrokenTweet >>, << >>}
MCReplies ==
  {<< "broken" >>, << >>, << "Question" >>, << "Hypothesis", "text" >>, << "text" >>,
   << "Claim", "list" >>, << "Evidence", "plain" >>, << "Source", "Agent" >>}

(* Entities: two spellings of a name, an alias near it, two names that become *)
(* nothing or the stand-in for a missing name, and the same in another type.  *)
MCNoName == "no name"
MCNormal ==
  [n \in {"", "A", "A Inc", "Ab", "???", "unnamed"} |->
     CASE n = "A Inc" -> "a" [] n = "A" -> "a" [] n = "Ab" -> "ab" [] n = "???" -> ""
       [] n = "unnamed" -> "unnamed" [] OTHER -> ""]
MCSimilarity ==
  [p \in (DOMAIN MCNormal) \X (DOMAIN MCNormal) |-> IF {"Ab"} \subseteq {p[1], p[2]} /\ {p[1], p[2]} \cap {"A", "A Inc"} # {} THEN 90 ELSE 10]
Named(type, name, props, doc, rels) ==
  [type |-> type, name |-> name, props |-> props, foundIn |-> doc, rels |-> rels]
Mail(v) == [k \in {"email"} |-> v]
Ident(v) == [k \in {"identifier"} |-> v]
None == [k \in {} |-> ""]
MCExtracted ==
  {Named("Agent", "A", None, "d1", {[type |-> "supports", target |-> <<"x", "1">>]}),
   Named("Agent", "A Inc", Mail("m1"), "d2", {[type |-> "support", target |-> <<"x", "1">>]}),
   Named("Agent", "Ab", Mail("m2"), "d3", {}),
   Named("Agent", "Ab", Ident("i"), "d1", {[type |-> "evidenceFor", target |-> <<"x", "1">>]}),
   Named("Claim", "A", Mail("m1"), "d2", {[type |-> "contradicts", target |-> <<"x", "2">>]}),
   Named("Agent", "no name", Mail("m1"), "d3", {}),
   Named("Agent", "unnamed", Ident("i"), "d2", {}),
   Named("Agent", "???", None, "d1", {})}

(* Observations: two spellings, another type, and a property that is text, a   *)
(* list of texts or a list with an object.                                    *)
Observed(type, name, norm, props) == [type |-> type, name |-> name, norm |-> norm, props |-> props]
Value(list, items) == [k \in {"tags"} |-> [list |-> list, items |-> items]]
MCObjects == {"object"}
MCEntities ==
  {Observed("Agent", "A", "a", Value(TRUE, {"x"})), Observed("Agent", "A.", "a", Value(TRUE, {"y", "object"})),
   Observed("Agent", "A", "a", Value(FALSE, {"z"})), Observed("Claim", "A", "a", << >>)}
(* One document: what is recorded of an observation depends on no other.       *)
MCSources == {1}

(* Texts of ten positions: plain, with boundaries, with entities, with white  *)
(* space; and sizes with an overlap below and above the smallest chunk.       *)
Text(n, blanks, breaks, entities) == [length |-> n, blanks |-> blanks, breaks |-> breaks, entities |-> entities]
Found(id, start, end, importance) == [id |-> id, start |-> start, end |-> end, importance |-> importance]
MCTexts ==
  {Text(0, {}, {}, {}), Text(3, {}, {2}, {})}
  \cup {Text(n, {}, breaks, es) : n \in {7, 10}, breaks \in {{}, {2, 3, 6}, {5, 7}},
     es \in {{}, {Found("e", 2, 4, 90)}, {Found("e", 3, 6, 50), Found("f", 5, 7, 90)}}}
  \cup {Text(10, blanks, breaks, {Found("e", 2, 4, 90)}) :
           blanks \in {{0, 4, 5, 9}, {3, 4, 6, 7}, {2, 4, 5, 7, 8}}, breaks \in {{4}, {3, 6, 8}}}
MCSizes ==
  {[min |-> 2, max |-> 4, overlap |-> 2], [min |-> 2, max |-> 5, overlap |-> 3],
   [min |-> 1, max |-> 3, overlap |-> 1], [min |-> 3, max |-> 5, overlap |-> 1]}

(* 200, 1500 and 100 characters, by the hundred.                              *)
MCDefaultSizes == {[min |-> 2, max |-> 15, overlap |-> 1]}

(* A document with two entities, one with a nested object, beside an old      *)
(* store; the ids of the two differ before their last slash only.             *)
Stores(id, nested) ==
  [id |-> id, type |-> "Agent", name |-> id, alignsWith |-> {"Re-Whole Value"}, nested |-> nested]
Quantity == [k \in {"quantity"} |-> {"amount", "unit"}]
MCCorpora ==
  {{[entities |-> {Stores("orn:x/a", << >>), Stores("orn:y/a", Quantity)},
     transformation |-> [id |-> "orn:t", from |-> "cid:a", to |-> {"orn:x/a", "orn:y/a"}]]},
   {[entities |-> {}, transformation |-> [id |-> "orn:u", from |-> "cid:b", to |-> {"orn:b"}]],
    [entities |-> {}, transformation |-> [id |-> "u", from |-> "cid:b", to |-> {}]]}}
MCListable == {"orn:old", "orn:v", "orn:x/a", "orn:y/a", "orn:t", "orn:u", "orn:b", "orn:regen.dataset", "orn:regen.ontology:v1"}
MCHidden == {"orn:regen.ontology:v1", "cid:a", "cid:b"}
MCPathEnd == [v \in {"orn:x/a", "orn:y/a"} |-> "a"]
MCOld == {<<Uri("orn:old"), "type", Uri("Agent")>>, <<Uri("orn:v"), "toState", Uri("orn:old")>>}

-----------------------------------------------------------------------------
ExtractionIdle == /\ program = "mistral" /\ listing = << >> /\ files = << >> /\ next = 1
                  /\ batch = << >> /\ results = << >> /\ stats = ZeroStats
                  /\ saved = << >> /\ graph = {} /\ phase = "scan"
ResolutionIdle == /\ stored = << >> /\ taken = 0 /\ registry = << >> /\ name_index = << >>
                  /\ resolved = << >> /\ relationships = << >> /\ imported = Nothing
                  /\ raised = FALSE
ChunkerIdle == /\ text = Text(0, {}, {}, {}) /\ size = [min |-> 2, max |-> 4, overlap |-> 2]
               /\ chunks = << >> /\ current_pos = 0
LoadIdle == /\ documents = {} /\ triples = {} /\ order = << >> /\ sent = 0 /\ loader = "idle"
            /\ cleared = FALSE /\ loads = 0 /\ store = {} /\ answer = NoAnswer /\ answers = 0

Init ==
  /\ part \in Parts
  /\ IF part = "extraction" THEN ExtractionInit ELSE ExtractionIdle
  /\ IF part = "resolution" THEN ResolutionInit ELSE ResolutionIdle
  /\ ProvenanceInit
  /\ IF part = "chunker" THEN ChunkerInit ELSE ChunkerIdle
  /\ IF part = "load" THEN LoadInit ELSE LoadIdle

Next ==
  /\ \/ /\ part = "extraction" /\ ExtractionNext
        /\ UNCHANGED <<resolutionVars, provenanceVars, chunkerVars, loadVars>>
     \/ /\ part = "resolution" /\ ResolutionNext
        /\ UNCHANGED <<extractionVars, provenanceVars, chunkerVars, loadVars>>
     \/ /\ part = "provenance" /\ ProvenanceNext
        /\ UNCHANGED <<extractionVars, resolutionVars, chunkerVars, loadVars>>
     \/ /\ part = "chunker" /\ ChunkerNext
        /\ UNCHANGED <<extractionVars, resolutionVars, provenanceVars, loadVars>>
     \/ /\ part = "load" /\ LoadNext
        /\ UNCHANGED <<extractionVars, resolutionVars, provenanceVars, chunkerVars>>
  /\ UNCHANGED part

vars == <<part, extractionVars, resolutionVars, provenanceVars, chunkerVars, loadVars>>
Spec == Init /\ [][Next]_vars /\ WF_vars(part = "chunker" /\ Next)
=============================================================================
